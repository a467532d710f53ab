----------------------------- MODULE Lifecycle -----------------------------
(***************************************************************************)
(* An application's life on one machine: installations, uninstallations    *)
(* and cleanup helpers, which the engine does not keep apart by any lock,  *)
(* together with other programs that hold files open, and boots.           *)
(***************************************************************************)
EXTENDS Install, Cleanup

CONSTANTS
  Tokens,         \* which tokens runs may have: a subset of BOOLEAN (elevated?)
  Images,         \* executables uninstall is run from: uninstallers, or NoPath
  Modes,          \* user interfaces uninstall is run with
  Holdable,       \* files other programs may hold open
  Overlap,        \* may install and uninstall run at the same time?
  MaxInstalls, MaxUninstalls, MaxBoots  \* bounds

ASSUME LifecycleAssumption ==
  /\ Manifests # {}
  /\ Tokens \subseteq BOOLEAN
  /\ Images \subseteq (FilePath \ {HelperExe}) \cup {NoPath}
  /\ Modes \subseteq Mode
  /\ Holdable \subseteq FilePath
  /\ Overlap \in BOOLEAN
  /\ {MaxInstalls, MaxUninstalls, MaxBoots} \subseteq Nat

VARIABLES
  installs, uninstalls, boots, \* runs and boots so far
  ran,      \* the manifests of those installations
  promised, \* the journal of the last completed installation no uninstall has followed
  quiet,    \* which of "uninstall" and "helper" no installation has met since it began
  alone,    \* no helper has removed anything since the last uninstall began
  trouble   \* faults and boots when it began

runVars == <<installs, uninstalls, boots, ran, promised>>

lifeVars == <<runVars, quiet, alone, trouble>>

vars == <<hostVars, engineVars, installVars, uninstallVars, told, helperVars, lifeVars>>

TypeOK ==
  /\ EngineTypeOK
  /\ InstallTypeOK
  /\ UninstallTypeOK
  /\ HelperTypeOK
  /\ installs \in 0..MaxInstalls
  /\ uninstalls \in 0..MaxUninstalls
  /\ boots \in 0..MaxBoots
  /\ ran \subseteq Manifests
  /\ promised \in Doc
  /\ quiet \subseteq {"uninstall", "helper"}
  /\ alone \in BOOLEAN
  /\ trouble \in 0..(MaxFaults + MaxBoots)

Init ==
  /\ EngineInit
  /\ InstallInit
  /\ UninstallInit
  /\ HelperInit
  /\ installs = 0
  /\ uninstalls = 0
  /\ boots = 0
  /\ ran = {}
  /\ promised = NoDoc
  /\ quiet = {}
  /\ alone = FALSE
  /\ trouble = 0

-----------------------------------------------------------------------------
(* What `quiet` is when a run begins. *)
Begun(run) == IF Installing THEN quiet \ {run} ELSE quiet \cup {run}

LaunchInstall(m, elev) ==
  /\ installs < MaxInstalls
  /\ Uninstalling => Overlap
  /\ StartInstall(m, elev)
  /\ installs' = installs + 1
  /\ ran' = ran \cup {m}
  /\ quiet' = {}
  /\ UNCHANGED <<uninstalls, boots, promised, alone, trouble>>
  /\ UNCHANGED <<uninstallVars, told, helperVars>>

(* The journal is what an installation leaves for its uninstallation. *)
RunInstall ==
  /\ InstallStep
  /\ promised' = IF ipc' = "finishing" /\ ipc = "writing"
                 THEN doc'[JournalAt(iman)] ELSE promised
  /\ UNCHANGED <<installs, uninstalls, boots, ran, quiet, alone, trouble>>
  /\ UNCHANGED <<uninstallVars, told, helperVars>>

InstallBreaks ==
  /\ InstallFails
  /\ UNCHANGED <<lifeVars, uninstallVars, told, helperVars>>

LaunchUninstall(j, image, elev, mode) ==
  /\ uninstalls < MaxUninstalls
  /\ Installing => Overlap
  /\ StartUninstall(j, image, elev, mode)
  /\ uninstalls' = uninstalls + 1
  /\ promised' = NoDoc
  /\ quiet' = Begun("uninstall")
  /\ alone' = TRUE
  /\ trouble' = faults + boots
  /\ UNCHANGED <<installs, boots, ran, installVars, helperVars>>

RunUninstall ==
  /\ UndoStepTaken
  /\ UNCHANGED <<lifeVars, installVars, helperVars>>

HandOver ==
  /\ \/ CopyHelper /\ UNCHANGED quiet
     \/ SpawnHelper /\ quiet' = Begun("helper")
  /\ UNCHANGED <<runVars, alone, trouble, installVars>>

UninstallBreaks ==
  /\ UninstallFails
  /\ UNCHANGED <<lifeVars, installVars, helperVars>>

(* What `alone` is after a helper, or the PowerShell of one, has moved. *)
StillAlone == alone' = IF node' = node THEN alone ELSE FALSE

RunHelper ==
  /\ HelperStep
  /\ StillAlone
  /\ UNCHANGED <<runVars, quiet, trouble, installVars>>

HelperBreaks ==
  /\ HelperFails \/ SelfCleanupFallback
  /\ StillAlone
  /\ UNCHANGED <<runVars, quiet, trouble, installVars>>

User ==
  /\ UserAnswers
  /\ UNCHANGED <<lifeVars, installVars>>

Powershell ==
  /\ PowershellDeletes
  /\ StillAlone
  /\ UNCHANGED <<runVars, quiet, trouble, installVars>>

OtherProgram ==
  /\ \E f \in Holdable : Hold(f) \/ Release(f)
  /\ UNCHANGED <<engineVars, installVars, uninstallVars, told, helperVars, lifeVars>>

(* Whatever runs is killed; what was to be deleted at boot is deleted. *)
Reboot ==
  /\ boots < MaxBoots
  /\ boots' = boots + 1
  /\ Boot
  /\ ipc' = IF Installing THEN "failed" ELSE ipc
  /\ upc' = IF Uninstalling THEN "failed" ELSE upc
  /\ hpc' = IF HelperRunning THEN "done" ELSE hpc
  /\ ps' = IF ps = "armed" THEN "done" ELSE ps
  /\ UNCHANGED <<engineVars, iman, ielev, ipos, iready, tracker>>
  /\ UNCHANGED <<ujournal, uimage, uelev, umode, upos, uwalk, uself, ukeys, told>>
  /\ UNCHANGED <<htarget, helev, hmode, htries, hreboot>>
  /\ UNCHANGED <<installs, uninstalls, ran, promised, quiet, alone, trouble>>

Next ==
  \/ \E m \in Manifests, elev \in Tokens : LaunchInstall(m, elev)
  \/ RunInstall
  \/ InstallBreaks
  \/ \E j \in JournalPath, image \in Images, elev \in Tokens, mode \in Modes :
       LaunchUninstall(j, image, elev, mode)
  \/ RunUninstall
  \/ HandOver
  \/ UninstallBreaks
  \/ RunHelper
  \/ HelperBreaks
  \/ User
  \/ Powershell
  \/ OtherProgram
  \/ Reboot

Spec == Init /\ [][Next]_vars

(***************************************************************************)
(* The engine's own loops run on: nothing in them waits.  Users, who may   *)
(* leave a window or a question open for ever, other programs, faults and  *)
(* boots owe nothing.                                                      *)
(***************************************************************************)
Fairness ==
  /\ WF_vars(RunInstall)
  /\ WF_vars(~AwaitsUser /\ RunUninstall)
  /\ WF_vars(HandOver)
  /\ WF_vars(RunHelper)
  /\ WF_vars(Powershell)

FairSpec == Spec /\ Fairness
=============================================================================
