-------------------------------- MODULE Pipe --------------------------------
(***************************************************************************)
(* The named pipe between the engine (src/ui.rs) and the process that      *)
(* shows its window (Program.cs).  Windows keeps the lines in order and    *)
(* loses none while both ends are open, so the lines the engine has        *)
(* written are one sequence that only grows, and the window's side is two  *)
(* positions in it: read from the pipe, and carried out on the form.       *)
(***************************************************************************)
EXTENDS Naturals, Sequences

CONSTANTS
  Answers,   \* what a user can press in a message box
  NoAnswer,
  MaxFaults  \* bound on crashes, kills and waits that run out

ASSUME PipeAssumption ==
  /\ NoAnswer \notin Answers
  /\ MaxFaults \in Nat

(* the field "type" of a line *)
Message == {"init", "progress", "finish", "fail", "prompt", "close"}

VARIABLES
  said,      \* lines the engine has written
  taken,     \* how many the pipe loop has read
  shown,     \* how many the form has carried out
  reply,     \* the prompt_response on its way to the engine
  engineEnd, \* the engine's handle
  serverEnd, \* the window's end
  faults     \* crashes, kills and waits that ran out, so far

pipeVars == <<said, taken, shown, reply, engineEnd, serverEnd, faults>>

PipeTypeOK ==
  /\ said \in Seq(Message)
  /\ taken \in 0..Len(said)
  /\ shown \in 0..taken
  /\ reply \in Answers \cup {NoAnswer}
  /\ engineEnd \in {"none", "open", "closed"}
  /\ serverEnd \in {"none", "listening", "closed"}
  /\ faults \in 0..MaxFaults

PipeInit ==
  /\ said = <<>>
  /\ taken = 0
  /\ shown = 0
  /\ reply = NoAnswer
  /\ engineEnd = "none"
  /\ serverEnd = "none"
  /\ faults = 0

Fault == faults < MaxFaults /\ faults' = faults + 1

(* Some of the first n lines is of a type in T. *)
Among(T, n) == \E i \in 1..Len(said) : i <= n /\ said[i] \in T
=============================================================================
