------------------------------- MODULE Window -------------------------------
(***************************************************************************)
(* The window's process, Program.cs: the form on its own thread, and the   *)
(* pipe loop on another, which hands every line but a prompt to the form   *)
(* without waiting (BeginInvoke).                                          *)
(***************************************************************************)
EXTENDS Pipe

VARIABLES
  form,       \* the form, and with it the process: Main returns when it closes
  loop,       \* RunPipeLoop
  closable,   \* _closeButton.Enabled
  failure,    \* the form shows a failure
  dialog,     \* a message box is open
  answer,     \* what the user pressed
  dismissed,  \* the user closed it
  broken      \* the catch block of RunPipeLoop has posted its callback

windowVars == <<form, loop, closable, failure, dialog, answer, dismissed, broken>>

WindowTypeOK ==
  /\ form \in {"none", "starting", "up", "closing", "exited"}
  /\ loop \in {"none", "creating", "waiting", "reading", "asking", "answering", "ended"}
  /\ {closable, failure, dialog, dismissed, broken} \subseteq BOOLEAN
  /\ answer \in Answers \cup {NoAnswer}

WindowInit ==
  /\ form = "none"
  /\ loop = "none"
  /\ closable = FALSE
  /\ failure = FALSE
  /\ dialog = FALSE
  /\ answer = NoAnswer
  /\ dismissed = FALSE
  /\ broken = FALSE

Alive == form \in {"starting", "up", "closing"}

-----------------------------------------------------------------------------
(* The pipe loop *)

(* Shown += Task.Run(RunPipeLoop) *)
ShowForm ==
  /\ form = "starting"
  /\ form' = "up"
  /\ loop' = "creating"
  /\ UNCHANGED <<closable, failure, dialog, answer, broken, dismissed, pipeVars>>

CreatePipe ==
  /\ loop = "creating"
  /\ loop' = "waiting"
  /\ serverEnd' = "listening"
  /\ UNCHANGED <<form, closable, failure, dialog, answer, broken, dismissed>>
  /\ UNCHANGED <<said, taken, shown, reply, engineEnd, faults>>

(* WaitForConnection returns. *)
AcceptEngine ==
  /\ loop = "waiting"
  /\ engineEnd # "none"
  /\ loop' = "reading"
  /\ UNCHANGED <<form, closable, failure, dialog, answer, broken, dismissed, pipeVars>>

(* The loop is left, and with it the scope that owns the pipe. *)
EndLoop ==
  /\ loop' = "ended"
  /\ serverEnd' = "closed"

(* ReadLine and HandleMessage: a prompt is waited for, "close" is the last. *)
Receive ==
  /\ loop = "reading"
  /\ taken < Len(said)
  /\ taken' = taken + 1
  /\ IF said[taken + 1] = "close" THEN EndLoop
     ELSE /\ loop' = IF said[taken + 1] = "prompt" THEN "asking" ELSE "reading"
          /\ UNCHANGED serverEnd
  /\ UNCHANGED <<form, closable, failure, dialog, answer, broken, dismissed>>
  /\ UNCHANGED <<said, shown, reply, engineEnd, faults>>

(* ReadLine returns null when the engine is gone: nobody enables closing. *)
EndOfPipe ==
  /\ loop = "reading"
  /\ taken = Len(said)
  /\ engineEnd = "closed"
  /\ EndLoop
  /\ UNCHANGED <<form, closable, failure, dialog, answer, broken, dismissed>>
  /\ UNCHANGED <<said, taken, shown, reply, engineEnd, faults>>

(* WriteResponse *)
Respond ==
  /\ loop = "answering"
  /\ engineEnd = "open"
  /\ reply' = answer
  /\ loop' = "reading"
  /\ UNCHANGED <<form, closable, failure, dialog, answer, broken, dismissed>>
  /\ UNCHANGED <<said, taken, shown, engineEnd, serverEnd, faults>>

(* It throws when the engine is gone: the catch block of RunPipeLoop. *)
ResponseThrows ==
  /\ loop = "answering"
  /\ engineEnd = "closed"
  /\ EndLoop
  /\ broken' = TRUE
  /\ UNCHANGED <<form, closable, failure, dialog, answer, dismissed>>
  /\ UNCHANGED <<said, taken, shown, reply, engineEnd, faults>>

-----------------------------------------------------------------------------
(* The form *)

(* What the callback of a line does to the form: "finish" and "close" set  *)
(* _closeRequested and close it, "finish" and "fail" enable the button.    *)
ClosesOnFailure(line) == line \in {"finish", "fail", "close"}  \* mutant
Closes(line) == line \in {"finish", "close"}

FreesAtFinish(line) == line = "finish"                         \* mutant
Frees(line) == line \in {"finish", "fail"}

(* BeginInvoke posts the callbacks one by one, each after its line is read.*)
PostedUnread == Len(said)                                      \* mutant
Posted == taken

NextShownLatest == taken                                       \* mutant
NextShown == shown + 1

CarryOut ==
  LET line == said[NextShown] IN
  /\ form = "up"
  /\ shown < Posted
  /\ line # "prompt"
  /\ shown' = NextShown
  /\ closable' = (closable \/ Frees(line))
  /\ failure' = (failure \/ line = "fail")
  /\ form' = IF Closes(line) THEN "closing" ELSE form
  /\ UNCHANGED <<loop, dialog, answer, broken, dismissed>>
  /\ UNCHANGED <<said, taken, reply, engineEnd, serverEnd, faults>>

(* ShowPrompt, after the callbacks posted before it *)
OpenDialog ==
  /\ form = "up"
  /\ loop = "asking"
  /\ ~dialog
  /\ shown < taken
  /\ said[shown + 1] = "prompt"
  /\ shown' = shown + 1
  /\ dialog' = TRUE
  /\ UNCHANGED <<form, loop, closable, failure, answer, broken, dismissed>>
  /\ UNCHANGED <<said, taken, reply, engineEnd, serverEnd, faults>>

PressButton(a) ==
  /\ form = "up"
  /\ dialog
  /\ dialog' = FALSE
  /\ answer' = a
  /\ loop' = "answering"
  /\ UNCHANGED <<form, closable, failure, broken, dismissed, pipeVars>>

(* The callback of the catch block enables the close button. *)
AdmitPipeError ==
  /\ form = "up"
  /\ broken
  /\ broken' = FALSE
  /\ closable' = TRUE
  /\ UNCHANGED <<form, loop, failure, dialog, answer, dismissed, pipeVars>>

(* FormClosing cancels until the button is enabled. *)
MayAlwaysClose == TRUE                                         \* mutant
MayClose == closable

(* The button, or the cross of the window. *)
CloseByHand ==
  /\ form = "up"
  /\ ~dialog
  /\ MayClose
  /\ form' = "closing"
  /\ dismissed' = TRUE
  /\ UNCHANGED <<loop, closable, failure, dialog, answer, broken, pipeVars>>

(* Nothing of the process is left: the pipe loop is a background thread. *)
Vanish ==
  /\ form' = "exited"
  /\ loop' = "ended"
  /\ dialog' = FALSE
  /\ broken' = FALSE
  /\ serverEnd' = "closed"
  /\ UNCHANGED <<closable, failure, answer, dismissed>>
  /\ UNCHANGED <<said, taken, shown, reply, engineEnd>>

LeaveMain ==
  /\ form = "closing"
  /\ Vanish
  /\ UNCHANGED faults

WindowDies ==
  /\ Alive
  /\ Fault
  /\ Vanish

LoopStep ==
  \/ CreatePipe \/ AcceptEngine \/ Receive \/ EndOfPipe \/ Respond \/ ResponseThrows

FormStep ==
  \/ ShowForm \/ CarryOut \/ OpenDialog \/ AdmitPipeError \/ LeaveMain

(* The user may sit in front of it as long as he likes. *)
UserStep == CloseByHand \/ \E a \in Answers : PressButton(a)
=============================================================================
