------------------------------ MODULE Dialogue ------------------------------
(***************************************************************************)
(* The engine's session and the window's process over one pipe, a user in  *)
(* front of the window, and either process dying at any moment.            *)
(***************************************************************************)
EXTENDS Session

vars == <<pipeVars, windowVars, sessionVars>>

Init == PipeInit /\ WindowInit /\ SessionInit

Begin ==
  \E k \in {"install", "uninstall", "prompt"}, i \in BOOLEAN, e \in {"sidecar", "unpacked"} :
    Prepare(k, i, e)

RunWindow == (LoopStep \/ FormStep) /\ UNCHANGED sessionVars

User == UserStep /\ UNCHANGED sessionVars

Mishap ==
  \/ SpawnFails \/ ConnectTimesOut \/ EngineDies
  \/ WindowDies /\ UNCHANGED sessionVars

Next == Begin \/ EngineStep \/ RunWindow \/ User \/ Mishap

Spec == Init /\ [][Next]_vars

(***************************************************************************)
(* The engine's code and both threads of the window run on.  The user need *)
(* not answer nor close, and nothing has to break.                         *)
(***************************************************************************)
Fairness ==
  /\ WF_vars(EngineStep)
  /\ WF_vars(LoopStep /\ UNCHANGED sessionVars)
  /\ WF_vars(FormStep /\ UNCHANGED sessionVars)

FairSpec == Spec /\ Fairness

-----------------------------------------------------------------------------
TypeOK == PipeTypeOK /\ WindowTypeOK /\ SessionTypeOK

(* An engine that ends leaves neither the window's process nor the         *)
(* executable unpacked for it, however window, pipe and user behave, unless *)
(* it was killed or, by a mishap, never reached the window: then there is  *)
(* nobody, or no session, to drop.  (CSharpUiSession::start, Drop)         *)
NothingLeftBehind ==
  spc \in {"over", "killed"} /\ (form # "exited" \/ exe = "unpacked")
    => faults > 0 /\ (spc = "killed" \/ engineEnd = "none")

(* FAILURE_UX_SHOWN tells the truth: the user has had the failure on the   *)
(* form and closed it.  Two exceptions: the window broke, or it had been   *)
(* told to finish before uninstall failed, and closed itself.              *)
FailureStaysVisible ==
  marked /\ interactive /\ faults = 0
    => form = "exited" /\ ((failure /\ dismissed) \/ Among({"finish"}, Len(said)))

(* The window cannot go away in the middle of the work: by itself or by    *)
(* the user's hand it closes only after a last word of the engine, or when *)
(* the engine is dead.  (FormClosing)                                      *)
ClosedByRightOnly ==
  form = "closing" => Among({"finish", "fail", "close"}, shown) \/ engineEnd = "closed"

(* What the engine takes for the user's answer is one.                     *)
Screen == CASE form \in {"none", "starting"} -> "off"
            [] form \in {"up", "closing"} -> "on"
            [] form = "exited" -> "gone"

D == INSTANCE Display WITH Line <- Message, Question <- "prompt",
       LastWord <- {"finish", "fail", "close"}, screen <- Screen,
       pressed <- answer, heard <- got, mishaps <- faults

(* Pipe, callbacks and drops together are a display in the sense of        *)
(* Display: nothing said is shown out of order, no answer is invented.     *)
IsDisplay == D!DisplaySpec

WaitsForUser == form = "up" /\ (dialog \/ closable)

(* The engine is through, or only the user keeps it.  (ui.rs waits for the *)
(* connection, the reply, the end of the process and the drop)             *)
SessionEnds == Running ~> (~Running \/ WaitsForUser)

(* A window on the screen goes or lets the user close it, as long as the   *)
(* engine lives and did connect; else the user has no way to close it.     *)
Deserted == spc = "killed" \/ (spc = "over" /\ engineEnd = "none")
NeverTrapped == (form = "up") ~> (form # "up" \/ dialog \/ closable \/ Deserted)
=============================================================================
