----------------------------- MODULE MCDialogue -----------------------------
(* Two answers, so that a wrong one can be told from the right one.        *)
EXTENDS Dialogue

CONSTANTS yes, no, None

TwoAnswers == {yes, no}
=============================================================================
