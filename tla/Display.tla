------------------------------ MODULE Display ------------------------------
(***************************************************************************)
(* What a window owes the engine and the user, without processes, pipe or  *)
(* callbacks: it shows what is said, in order and without a gap; an answer *)
(* is what the user pressed after the question was shown; it leaves the    *)
(* screen when the engine has said a last word or something broke.         *)
(***************************************************************************)
EXTENDS Naturals, Sequences

CONSTANTS Line, Question, LastWord, Answers, NoAnswer

VARIABLES
  said, shown, \* lines said, and how many of them are shown
  screen,      \* "off", "on" or "gone"
  pressed,     \* the user's answer
  heard,       \* the engine's knowledge of it
  mishaps      \* what broke so far

displayVars == <<said, shown, screen, pressed, heard, mishaps>>

DisplayInit ==
  /\ said = <<>>
  /\ shown = 0
  /\ screen = "off"
  /\ pressed = NoAnswer
  /\ heard = NoAnswer
  /\ mishaps = 0

Say ==
  /\ \E line \in Line : said' = Append(said, line)
  /\ UNCHANGED <<shown, screen, pressed, heard, mishaps>>

Appear ==
  /\ screen = "off"
  /\ screen' = "on"
  /\ UNCHANGED <<said, shown, pressed, heard, mishaps>>

Show ==
  /\ screen = "on"
  /\ shown < Len(said)
  /\ shown' = shown + 1
  /\ UNCHANGED <<said, screen, pressed, heard, mishaps>>

Press ==
  /\ screen = "on"
  /\ \E i \in 1..shown : said[i] = Question
  /\ pressed = NoAnswer
  /\ pressed' \in Answers
  /\ UNCHANGED <<said, shown, screen, heard, mishaps>>

Hear ==
  /\ pressed # NoAnswer
  /\ heard' = pressed
  /\ UNCHANGED <<said, shown, screen, pressed, mishaps>>

Leave ==
  /\ screen = "on"
  /\ mishaps > 0 \/ \E i \in 1..Len(said) : said[i] \in LastWord
  /\ screen' = "gone"
  /\ UNCHANGED <<said, shown, pressed, heard, mishaps>>

Mishap ==
  /\ mishaps' = mishaps + 1
  /\ screen' \in {screen, "gone"}
  /\ UNCHANGED <<said, shown, pressed, heard>>

DisplayNext == Say \/ Appear \/ Show \/ Press \/ Hear \/ Leave \/ Mishap

DisplaySpec == DisplayInit /\ [][DisplayNext]_displayVars
=============================================================================
