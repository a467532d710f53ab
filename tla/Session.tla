------------------------------ MODULE Session ------------------------------
(***************************************************************************)
(* The engine's side of one window, src/ui.rs: CSharpUiSession from the    *)
(* executable it unpacks to its Drop, as install and uninstall use it for  *)
(* their progress (init, progress, finish or fail), and as prompt does     *)
(* (one question, one answer).                                             *)
(***************************************************************************)
EXTENDS Window

CONSTANT MaxSteps  \* bound on the progress lines of one session

ASSUME SessionAssumption == MaxSteps \in Nat

VARIABLES
  kind,        \* what the window is for
  interactive, \* a failure waits for the user (not --automation)
  spc,         \* where the engine is
  steps,       \* progress lines sent
  exe,         \* the window's executable, unpacked to %TEMP% or a sidecar
  got,         \* what prompt returned
  marked       \* FAILURE_UX_SHOWN

sessionVars == <<kind, interactive, spc, steps, exe, got, marked>>

SessionTypeOK ==
  /\ kind \in {"install", "uninstall", "prompt"}
  /\ interactive \in BOOLEAN
  /\ spc \in {"idle", "prepared", "connecting", "greeting", "working", "tail",
              "failing", "waiting", "exited", "asking", "dropping", "reaping",
              "over", "killed"}
  /\ steps \in 0..MaxSteps
  /\ exe \in {"none", "sidecar", "unpacked", "removed"}
  /\ got \in Answers \cup {NoAnswer}
  /\ marked \in BOOLEAN

SessionInit ==
  /\ kind = "install"
  /\ interactive = TRUE
  /\ spc = "idle"
  /\ steps = 0
  /\ exe = "none"
  /\ got = NoAnswer
  /\ marked = FALSE

Running == spc \notin {"idle", "over", "killed"}

-----------------------------------------------------------------------------
(* CSharpUiSession::start *)

(* prepare_ui_exe: unpack the embedded executable, or take the sidecar. *)
Prepare(k, i, e) ==
  /\ spc = "idle"
  /\ spc' = "prepared"
  /\ kind' = k
  /\ interactive' = i
  /\ exe' = e
  /\ UNCHANGED <<steps, got, marked, pipeVars, windowVars>>

Spawn ==
  /\ spc = "prepared"
  /\ spc' = "connecting"
  /\ form' = "starting"
  /\ UNCHANGED <<loop, closable, failure, dialog, answer, dismissed, broken>>
  /\ UNCHANGED <<kind, interactive, steps, exe, got, marked, pipeVars>>

(* An error before there is a session to drop leaves the executable. *)
SpawnFails ==
  /\ spc = "prepared"
  /\ Fault
  /\ spc' = "over"
  /\ UNCHANGED <<kind, interactive, steps, exe, got, marked, windowVars>>
  /\ UNCHANGED <<said, taken, shown, reply, engineEnd, serverEnd>>

Connect ==
  /\ spc = "connecting"
  /\ serverEnd = "listening"
  /\ spc' = "greeting"
  /\ engineEnd' = "open"
  /\ UNCHANGED <<kind, interactive, steps, exe, got, marked, windowVars>>
  /\ UNCHANGED <<said, taken, shown, reply, serverEnd, faults>>

(* "C# UI exited before pipe connection" *)
ConnectFails ==
  /\ spc = "connecting"
  /\ form = "exited"
  /\ spc' = "over"
  /\ UNCHANGED <<kind, interactive, steps, exe, got, marked, windowVars, pipeVars>>

(* Fifteen seconds are over: the window that is still coming is left alone.*)
ConnectTimesOut ==
  /\ spc = "connecting"
  /\ Fault
  /\ spc' = "over"
  /\ UNCHANGED <<kind, interactive, steps, exe, got, marked, windowVars>>
  /\ UNCHANGED <<said, taken, shown, reply, engineEnd, serverEnd>>

-----------------------------------------------------------------------------
(* send: the line is in the pipe, or the window's end is gone. *)
Sent(t) ==
  /\ serverEnd # "closed"
  /\ said' = Append(said, t)
  /\ UNCHANGED <<taken, shown, reply, engineEnd, serverEnd, faults>>

NotSent == serverEnd = "closed" /\ UNCHANGED pipeVars

(* A line of type t is sent on the way from one place to the next; an      *)
(* error (the "?" of every send) leads elsewhere.                          *)
Send(t, from, next, onError) ==
  /\ spc = from
  /\ \/ Sent(t) /\ spc' = next
     \/ NotSent /\ spc' = onError
  /\ UNCHANGED <<kind, interactive, exe, got, windowVars>>

(* GuiProgress::start; an error drops the session. *)
Greet ==
  /\ kind # "prompt"
  /\ Send("init", "greeting", "working", "dropping")
  /\ UNCHANGED <<steps, marked>>

(* advance and log, before each step of install and uninstall *)
Advance ==
  /\ steps < MaxSteps
  /\ Send("progress", "working", "working", "failing")
  /\ steps' = steps + 1
  /\ UNCHANGED marked

(* A step itself fails. *)
WorkFails ==
  /\ spc = "working"
  /\ spc' = "failing"
  /\ UNCHANGED <<kind, interactive, steps, exe, got, marked, windowVars, pipeVars>>

Finish ==
  /\ Send("finish", "working", "tail", "failing")
  /\ UNCHANGED <<steps, marked>>

(* install is through with it; uninstall still starts the cleanup helper,  *)
(* or tells the user in a window of its own: both can fail.                *)
TailFails ==
  /\ spc = "tail"
  /\ kind = "uninstall"
  /\ spc' = "failing"
  /\ UNCHANGED <<kind, interactive, steps, exe, got, marked, windowVars, pipeVars>>

TailDone ==
  /\ spc = "tail"
  /\ spc' = "dropping"
  /\ UNCHANGED <<kind, interactive, steps, exe, got, marked, windowVars, pipeVars>>

(* fail_gui_progress: an error of fail is dropped, the mark not set.       *)
Fail ==
  /\ Send("fail", "failing", IF interactive THEN "waiting" ELSE "dropping", "dropping")
  /\ marked' = (spc' = "dropping" /\ said' # said)
  /\ UNCHANGED steps

(* wait_for_exit *)
WaitForExit ==
  /\ spc = "waiting"
  /\ form = "exited"
  /\ spc' = "exited"
  /\ marked' = TRUE
  /\ UNCHANGED <<kind, interactive, steps, exe, got, windowVars, pipeVars>>

-----------------------------------------------------------------------------
(* prompt *)

Ask ==
  /\ kind = "prompt"
  /\ Send("prompt", "greeting", "asking", "dropping")
  /\ UNCHANGED <<steps, marked>>

ReadReply ==
  /\ spc = "asking"
  /\ reply # NoAnswer
  /\ got' = reply
  /\ spc' = "dropping"
  /\ UNCHANGED <<kind, interactive, steps, exe, marked, windowVars, pipeVars>>

(* Mutant: zero bytes are no end, the line is read again. *)
ReplyLostUnnoticed ==
  /\ spc = "asking"
  /\ serverEnd = "closed"
  /\ reply = NoAnswer
  /\ UNCHANGED <<sessionVars, windowVars, pipeVars>>

(* "UI pipe closed before response" *)
ReplyLost ==
  /\ spc = "asking"
  /\ serverEnd = "closed"
  /\ reply = NoAnswer
  /\ spc' = "dropping"
  /\ UNCHANGED <<kind, interactive, steps, exe, got, marked, windowVars, pipeVars>>

-----------------------------------------------------------------------------
(* Drop *)

(* The process is gone: its executable goes, and the pipe with the session.*)
Gone ==
  /\ spc' = "over"
  /\ exe' = IF exe = "unpacked" THEN "removed" ELSE exe
  /\ engineEnd' = "closed"
  /\ UNCHANGED <<kind, interactive, steps, got, marked>>
  /\ UNCHANGED <<said, taken, shown, reply, faults>>

DropExited ==
  /\ spc = "exited"
  /\ Gone
  /\ UNCHANGED <<serverEnd, windowVars>>

DropClose ==
  /\ Send("close", "dropping", "reaping", "reaping")
  /\ UNCHANGED <<steps, marked>>

DropReap ==
  /\ spc = "reaping"
  /\ form = "exited"
  /\ Gone
  /\ UNCHANGED <<serverEnd, windowVars>>

(* Mutant: the window is not killed after the second. *)
DropWithoutKill ==
  /\ spc = "reaping"
  /\ Alive
  /\ Gone
  /\ UNCHANGED <<serverEnd, windowVars>>

(* After a second of waiting the window is killed, whatever it shows.      *)
DropKill ==
  /\ spc = "reaping"
  /\ Alive
  /\ Gone
  /\ serverEnd' = "closed"
  /\ form' = "exited"
  /\ loop' = "ended"
  /\ dialog' = FALSE
  /\ broken' = FALSE
  /\ UNCHANGED <<closable, failure, answer, dismissed>>

(* Killed, or down with the machine: no Drop runs. *)
EngineDies ==
  /\ Running
  /\ Fault
  /\ spc' = "killed"
  /\ engineEnd' = IF engineEnd = "open" THEN "closed" ELSE engineEnd
  /\ UNCHANGED <<kind, interactive, steps, exe, got, marked, windowVars>>
  /\ UNCHANGED <<said, taken, shown, reply, serverEnd>>

EngineStep ==
  \/ Spawn \/ Connect \/ ConnectFails
  \/ Greet \/ Advance \/ WorkFails \/ Finish \/ TailFails \/ TailDone \/ Fail \/ WaitForExit
  \/ Ask \/ ReadReply \/ ReplyLost
  \/ DropExited \/ DropClose \/ DropReap \/ DropKill
=============================================================================
