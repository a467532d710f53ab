---------------------------- MODULE PurgeProofs ----------------------------
(***************************************************************************)
(* An uninstall that reports success has left nothing it knew of, and in   *)
(* the end no trace.  The argument for what the journal purges: the walk   *)
(* through a purge path holds every directory above what it has still to   *)
(* visit; so when a file goes, no directory that waits for it has been     *)
(* passed already.  For what it does not purge: the plan comes to a        *)
(* directory after all that it removes below it.                           *)
(***************************************************************************)
EXTENDS JournalProofs

(* What exists has its directories.                                        *)
TreeOK == \A p \in Path : Exists(p) => \A a \in Ancestors[p] : Exists(a)

(* Faults and boots are only counted up.                                   *)
CountOK == trouble <= faults + boots

(* The walk lies in the purge path that is next and where its junctions    *)
(* lead, and with an entry it holds the directories and junctions on the   *)
(* way there.                                                              *)
WalkShape ==
  upc = "undo" /\ uwalk # {} =>
    /\ Doing({"PurgePath"})
    /\ Victim \in Path
    /\ uwalk \subseteq {Victim} \cup Inside(Victim)
    /\ \A d \in {Victim} \cup Inside(Victim) : uwalk \cap Inside(d) # {} => d \in uwalk

WalkDone == upc \in {"handoff", "reporting", "exiting", "ok"} => uwalk = {}

(* The run goes on, or was successful.                                     *)
Fine == upc \in {"undo", "handoff", "reporting", "exiting", "ok"}

(* A helper has just taken its target away and comes to the directory of   *)
(* it next.                                                                *)
Vacated(p) == hpc \in {"check", "root"} /\ p = Parent(htarget) /\ ~Exists(htarget)

(* Under a purge path that uninstall has come to, everything is gone,      *)
(* waits for the boot or for a helper, is held by a junction that stays or *)
(* is still to be visited; but for the copy that uninstall makes itself in *)
(* the end.                                                                *)
SweptAt(p) ==
  (p = HelperExe => upc = "undo") /\ Exists(p)
    => Waiting(p) \/ Stuck(p) \/ p \in uwalk \/ (~alone /\ Vacated(p))

(* What no helper disturbs: none has come yet, or none is going to take    *)
(* away what the path waits for, or one that comes back for it.            *)
Sure(p) == alone \/ Clear(p) \/ Seat(p)

Passed(i) == i < upos \/ (i = upos /\ uwalk # {})

PassedSwept ==
  Quiet /\ Undisturbed /\ Fine /\ Orderly(ujournal) =>
    \A i \in 1..Len(UndoPlan(ujournal)) :
      UndoPlan(ujournal)[i].type = "PurgePath" /\ Passed(i)
        => \A p \in Span(UndoPlan(ujournal)[i].on) : Sure(p) => SweptAt(p)

(* Who asks for administrator rights has them: the journal was checked     *)
(* when the run began, and the helper inherits the token.                  *)
RightsHeld ==
  /\ (\E n \in 1..Len(ujournal.actions) : ActionNeedsAdmin(ujournal.actions[n])) => uelev
  /\ uself \in AdminPath => uelev
  /\ htarget \in AdminPath => helev

-----------------------------------------------------------------------------
(* Directories *)

(* Paths: nothing lies below a file or a junction; what lies below what    *)
(* lies below lies below.                                                  *)
LEMMA PathFacts ==
  /\ \A f \in FilePath \cup Link : f \in Path /\ Below(f) = {}
  /\ \A d : Below(d) \subseteq Path
  /\ \A d : \A q \in Below(d) : Below(q) \subseteq Below(d) /\ d \in DirPath /\ d # q
  /\ NoPath \notin Path
BY HostAssumption DEF Below, Path

(* The tree stays whole while nothing is made without its directories and  *)
(* no directory goes before what it holds.                                 *)
LEMMA TreeKept ==
  ASSUME HostTypeOK, HostTypeOK', TreeOK,
         \A p \in Path : ~Exists(p) /\ Exists(p)' => \A a \in Ancestors[p] : Exists(a)',
         \A p \in Path : Exists(p) /\ ~Exists(p)' => \A q \in Below(p) : ~Exists(q)'
  PROVE  TreeOK'
<1> SUFFICES ASSUME NEW p \in Path, Exists(p)', NEW a \in Ancestors[p]
             PROVE  Exists(a)'
  BY DEF TreeOK
<1>1. a \in Path /\ p \in Below(a)
  BY HostAssumption DEF Below, Path
<1>2. CASE ~Exists(p)
  BY <1>2
<1>3. CASE Exists(p)
  <2>1. Exists(a)
    BY <1>3 DEF TreeOK
  <2> QED
    BY <1>1, <2>1
<1> QED
  BY <1>2, <1>3

(* create_directory_recursive makes no directory without those above it:   *)
(* who may create below may create above.                                  *)
LEMMA MakeDirsInTree ==
  ASSUME HostTypeOK, HostTypeOK', TreeOK, NEW ds \in SUBSET Path, NEW elev,
         \A d \in ds : Ancestors[d] \subseteq ds, MakeDirs(ds, elev)
  PROVE  TreeOK'
<1>1. ASSUME NEW p \in Path, ~Exists(p), Exists(p)', NEW a \in Ancestors[p]
      PROVE  Exists(a)'
  <2>1. p \in ds /\ Permitted(p, elev) /\ a \in ds
    BY <1>1 DEF MakeDirs, Missing, Exists
  <2>2. Permitted(a, elev)
    BY <1>1, <2>1, HostAssumption DEF Permitted
  <2> QED
    BY <2>1, <2>2 DEF MakeDirs, Missing, Exists
<1>2. \A p \in Path : Exists(p) => Exists(p)'
  BY DEF MakeDirs, Exists
<1> QED
  BY <1>1, <1>2, TreeKept

(* Files are put into directories that are there.                          *)
LEMMA PutFileInTree ==
  ASSUME HostTypeOK, HostTypeOK', TreeOK, NEW f \in FilePath, NEW elev,
         PutFileOk(f, elev), PutFile(f)
  PROVE  TreeOK'
<1>1. \A p \in Path : Exists(p) => Exists(p)'
  BY DEF PutFile, Exists, HostTypeOK
<1>2. ASSUME NEW p \in Path, ~Exists(p), Exists(p)', NEW a \in Ancestors[p]
      PROVE  Exists(a)'
  <2>1. p = f
    BY <1>2 DEF PutFile, Exists, HostTypeOK
  <2>2. Exists(a) /\ a \in Path
    BY <1>2, <2>1, HostAssumption DEF PutFileOk, Path
  <2> QED
    BY <1>1, <2>2
<1> QED
  BY <1>1, <1>2, TreeKept

(* Removals keep the tree whole: a directory that holds something stays.   *)
LEMMA RemovalInTree ==
  ASSUME HostTypeOK, HostTypeOK', TreeOK, NEW elev,
         \/ \E d : RemoveDir(d, elev)
         \/ \E f : (f \in FilePath \/ ~Exists(f)) /\ RemoveFile(f, elev)
         \/ \E f \in FilePath : node' = [node EXCEPT ![f] = "absent"]
         \/ \E l \in Link : RemoveLink(l, elev)
         \/ UNCHANGED node
  PROVE  TreeOK'
<1>1. ASSUME NEW d, RemoveDir(d, elev)
      PROVE  TreeOK'
  <2>1. \A p \in Path : ~Exists(p) => ~Exists(p)'
    BY <1>1 DEF RemoveDir, Exists, HostTypeOK
  <2>2. \A p \in Path : Exists(p) /\ ~Exists(p)' => p = d /\ ~Occupied(d)
    BY <1>1 DEF RemoveDir, Exists, HostTypeOK
  <2>3. \A p \in Path : Exists(p) /\ ~Exists(p)' => \A q \in Below(p) : ~Exists(q)'
    BY <2>1, <2>2, PathFacts DEF Occupied
  <2> QED
    BY <2>1, <2>3, TreeKept
<1>2. ASSUME NEW f, f \in FilePath \/ ~Exists(f), RemoveFile(f, elev)
      PROVE  TreeOK'
  <2>1. \A p \in Path : ~Exists(p) => ~Exists(p)'
    BY <1>2 DEF RemoveFile, Exists, HostTypeOK
  <2>2. \A p \in Path : Exists(p) /\ ~Exists(p)' => p \in FilePath
    BY <1>2 DEF RemoveFile, Exists, HostTypeOK
  <2>3. \A p \in Path : Exists(p) /\ ~Exists(p)' => \A q \in Below(p) : ~Exists(q)'
    BY <2>2, PathFacts
  <2> QED
    BY <2>1, <2>3, TreeKept
<1>3. ASSUME NEW f \in FilePath, node' = [node EXCEPT ![f] = "absent"]
      PROVE  TreeOK'
  <2>1. \A p \in Path : ~Exists(p) => ~Exists(p)'
    BY <1>3 DEF Exists, HostTypeOK
  <2>2. \A p \in Path : Exists(p) /\ ~Exists(p)' => p \in FilePath
    BY <1>3 DEF Exists, HostTypeOK
  <2>3. \A p \in Path : Exists(p) /\ ~Exists(p)' => \A q \in Below(p) : ~Exists(q)'
    BY <2>2, PathFacts
  <2> QED
    BY <2>1, <2>3, TreeKept
<1>4. CASE UNCHANGED node
  BY <1>4 DEF TreeOK, Exists
<1>5. ASSUME NEW l \in Link, RemoveLink(l, elev)
      PROVE  TreeOK'
  <2>1. \A p \in Path : ~Exists(p) => ~Exists(p)'
    BY <1>5 DEF RemoveLink, Exists, HostTypeOK
  <2>2. \A p \in Path : Exists(p) /\ ~Exists(p)' => p \in Link
    BY <1>5 DEF RemoveLink, Exists, HostTypeOK
  <2>3. \A p \in Path : Exists(p) /\ ~Exists(p)' => \A q \in Below(p) : ~Exists(q)'
    BY <2>2, PathFacts
  <2> QED
    BY <2>1, <2>3, TreeKept
<1> QED
  BY <1>1, <1>2, <1>3, <1>4, <1>5

(* Install keeps the tree whole.                                           *)
LEMMA InstallInTree ==
  ASSUME HostTypeOK, HostTypeOK', InstallTypeOK, TreeOK, InstallStep
  PROVE  TreeOK'
<1>a. \A p \in Path : /\ Ancestors[p] \subseteq Path
                      /\ \A d \in Ancestors[p] : Ancestors[d] \subseteq Ancestors[p]
  BY HostAssumption DEF Path
<1>1. CASE CreateDirectory
  <2>1. Target \in Path
    BY <1>1, TargetTyped DEF CreateDirectory, Step, Path
  <2>2. /\ Ancestors[Target] \cup {Target} \subseteq Path
        /\ \A d \in Ancestors[Target] \cup {Target} :
             Ancestors[d] \subseteq Ancestors[Target] \cup {Target}
    BY <1>a, <2>1
  <2> QED
    BY <1>1, <2>2, MakeDirsInTree DEF CreateDirectory
<1>2. CASE PrepareParents
  <2>1. PICK x \in Path : MakeDirs(Ancestors[x], ielev)
    <3>1. CASE AtUninstaller
      <4>1. UninstallerAt(iman) \in Path
        BY <3>1, Places DEF AtUninstaller, InstallTypeOK, Path
      <4> QED
        BY <1>2, <3>1, <4>1 DEF PrepareParents
    <3>2. CASE ~AtUninstaller
      <4>1. Target \in Path
        BY <1>2, <3>2, TargetTyped DEF PrepareParents, Step, Path
      <4> QED
        BY <1>2, <3>2, <4>1 DEF PrepareParents
    <3> QED
      BY <3>1, <3>2
  <2> QED
    BY <1>a, <2>1, MakeDirsInTree
<1>3. CASE WriteFile
  <2>1. Target \in FilePath
    BY <1>3, TargetTyped DEF WriteFile, Step
  <2> QED
    BY <1>3, <2>1, PutFileInTree, RemovalInTree DEF WriteFile
<1>4. CASE ExecuteScript
  <2>1. \A p \in Path : Exists(p) => Exists(p)'
    BY <1>4 DEF ExecuteScript, Exists
  <2>2. \A p \in Path : ~Exists(p) /\ Exists(p)' => \A a \in Ancestors[p] : Exists(a)'
    BY <1>4, <1>a, <2>1 DEF ExecuteScript, Exists, PutFileOk
  <2> QED
    BY <2>1, <2>2, TreeKept
<1>5. CASE InstallUninstaller
  <2>1. UninstallerAt(iman) \in FilePath
    BY <1>5, Places DEF InstallUninstaller, AtUninstaller, InstallTypeOK
  <2> QED
    BY <1>5, <2>1, PutFileInTree, RemovalInTree DEF InstallUninstaller
<1>6. CASE OpenJournal
  <2> DEFINE j == JournalAt(iman)
             opens == MakeDirsOk(Ancestors[j], ielev) /\ Writable(j, ielev)
  <2>1. j \in FilePath /\ j \in Path
    BY Places DEF InstallTypeOK, Path
  <2>2. node' = [p \in Path |-> IF p = j /\ opens THEN "app"
                    ELSE IF p \in Missing(Ancestors[j]) /\ Permitted(p, ielev)
                    THEN "app" ELSE node[p]]
    BY <1>6 DEF OpenJournal
  <2> HIDE DEF j
  <2>3. \A p \in Path : Exists(p) => Exists(p)'
    BY <2>2 DEF Exists
  <2>4. ASSUME NEW p \in Path, ~Exists(p), Exists(p)', NEW a \in Ancestors[p]
        PROVE  Exists(a)'
    <3>1. CASE p = j /\ opens
      <4>1. a \in Path
        BY <1>a, <2>4
      <4>2. ~Exists(a) => a \in Missing(Ancestors[j]) /\ Permitted(a, ielev)
        BY <2>4, <3>1 DEF Missing, MakeDirsOk
      <4> QED
        BY <2>2, <2>3, <4>1, <4>2 DEF Exists
    <3>2. CASE ~(p = j /\ opens)
      <4>1. p \in Ancestors[j] /\ Permitted(p, ielev)
        BY <2>2, <2>4, <3>2 DEF Exists, Missing
      <4>2. a \in Ancestors[j] /\ a \in Path /\ Permitted(a, ielev)
        BY <1>a, <2>1, <2>4, <4>1, HostAssumption DEF Permitted
      <4> QED
        BY <2>2, <2>3, <4>2 DEF Exists, Missing
    <3> QED
      BY <3>1, <3>2
  <2> QED
    BY <2>3, <2>4, TreeKept
<1>7. CASE UNCHANGED node
  BY <1>7, RemovalInTree
<1>8. WriteRegistry \/ RegisterValue \/ SkipUninstaller \/ CompleteJournal \/ FinishInstall
        => UNCHANGED node
  BY DEF WriteRegistry, RegisterValue, SkipUninstaller, CompleteJournal, FinishInstall,
         hostVars
<1> QED
  BY <1>1, <1>2, <1>3, <1>4, <1>5, <1>6, <1>7, <1>8 DEF InstallStep

(* Uninstall, helpers and their PowerShell keep it whole too.              *)
LEMMA RunsInTree ==
  ASSUME HostTypeOK, HostTypeOK', UninstallTypeOK, HelperTypeOK, TargetKnown, TreeOK,
         \/ UndoStepTaken \/ UninstallFails \/ CopyHelper \/ SpawnHelper
         \/ HelperStep \/ SelfCleanupFallback \/ HelperFails
         \/ UserAnswers \/ PowershellDeletes
  PROVE  TreeOK'
<1>1. CASE UndoDirectory \/ \E d \in DirPath : PurgeDir(d)
  BY <1>1, RemovalInTree DEF UndoDirectory, PurgeDir
<1>2. CASE UndoFile
  <2>1. Doing({"CopyFile", "CreateShortcut"})
    BY <1>2 DEF UndoFile, Doing
  <2>2. Victim \in FilePath
    BY <2>1, VictimTyped DEF UndoStep, Step
  <2> QED
    BY <1>2, <2>2, RemovalInTree DEF UndoFile
<1>3. CASE PurgeSingle \/ \E f \in FilePath : PurgeFile(f)
  BY <1>3, RemovalInTree DEF PurgeSingle, PurgeFile
<1>4. CASE UNCHANGED node
  BY <1>4, RemovalInTree
<1>5. DeferSelfDelete \/ DeferRegistration \/ UndoRegistry \/ SkipScript \/ PurgeBranch
        \/ PurgeNothing \/ OpenPurge \/ (\E p \in Path : PassOver(p))
        \/ RemoveRegistration \/ FinishUninstall \/ CloseReport \/ ExitUninstaller
        \/ UninstallFails \/ SpawnHelper => UNCHANGED node
  BY DEF DeferSelfDelete, DeferRegistration, UndoRegistry, SkipScript, PurgeBranch,
         PurgeNothing, OpenPurge, PassOver, RemoveRegistration, FinishUninstall, CloseReport,
         ExitUninstaller, UninstallFails, SpawnHelper, hostVars
<1>6. PollExpires \/ ScheduleSelfCleanup \/ Tell \/ ExitHelper \/ HelperFails \/ UserAnswers
        => UNCHANGED node
  BY DEF PollExpires, ScheduleSelfCleanup, Tell, ExitHelper, HelperFails, UserAnswers, hostVars
<1>7. CASE CopyHelper
  BY <1>4, <1>7, PutFileInTree, CleanupAssumption DEF CopyHelper
<1>8. CASE Poll
  <2>1. htarget \in FilePath
    BY <1>8 DEF Poll, TargetKnown, HelperRunning, HelperTypeOK
  <2>2. \/ node' = [node EXCEPT ![htarget] = "absent"]
        \/ UNCHANGED node
    BY <1>8 DEF Poll, HostTypeOK
  <2> QED
    BY <2>1, <2>2, RemovalInTree
<1>9. CASE PowershellDeletes
  <2>1. \/ node' = [node EXCEPT ![HelperExe] = "absent"]
        \/ UNCHANGED node
    BY <1>9 DEF PowershellDeletes, HostTypeOK
  <2> QED
    BY <2>1, RemovalInTree, CleanupAssumption
<1>10. CASE Fallback \/ SelfCleanupFallback
  <2>1. htarget \in FilePath
    BY <1>10 DEF Fallback, SelfCleanupFallback, TargetKnown, HelperRunning,
         HelperTypeOK
  <2> QED
    BY <1>10, <2>1, RemovalInTree, CleanupAssumption DEF Fallback, SelfCleanupFallback
<1>11. CASE RemoveRoot
  BY <1>11, RemovalInTree DEF RemoveRoot
<1>12. CASE \E l \in Link : PurgeLink(l)
  BY <1>12, RemovalInTree DEF PurgeLink
<1> QED
  BY <1>1, <1>2, <1>3, <1>4, <1>5, <1>6, <1>7, <1>8, <1>9, <1>10, <1>11, <1>12
  DEF UndoStepTaken, HelperStep

LEMMA TreeStays ==
  ASSUME TypeOK, TargetKnown, TreeOK, [Next]_vars
  PROVE  TreeOK'
<1>0. HostTypeOK /\ HostTypeOK' /\ InstallTypeOK /\ UninstallTypeOK /\ HelperTypeOK
  BY NextTyped, TypeParts DEF TypeOK, EngineTypeOK
<1>1. CASE RunInstall
  BY <1>0, <1>1, InstallInTree DEF RunInstall
<1>2. CASE RunUninstall \/ HandOver \/ UninstallBreaks \/ RunHelper \/ HelperBreaks
             \/ User \/ Powershell
  BY <1>0, <1>2, RunsInTree
  DEF RunUninstall, HandOver, UninstallBreaks, RunHelper, HelperBreaks, User, Powershell
<1>3. CASE Reboot
  <2>1. node' = [p \in Path |-> IF p \in pending THEN "absent" ELSE node[p]]
    BY <1>3 DEF Reboot, Boot
  <2>2. \A p \in Path : ~Exists(p) => ~Exists(p)'
    BY <2>1 DEF Exists
  <2>3. \A p \in Path : Exists(p) /\ ~Exists(p)' => p \in FilePath
    BY <1>0, <2>1 DEF Exists, HostTypeOK
  <2>4. \A p \in Path : Exists(p) /\ ~Exists(p)' => \A q \in Below(p) : ~Exists(q)'
    BY <2>3, PathFacts
  <2> QED
    BY <1>0, <2>2, <2>4, TreeKept
<1>4. CASE UNCHANGED node
  BY <1>0, <1>4, RemovalInTree
<1>5. ASSUME NEW m \in Manifests, NEW elev \in Tokens, LaunchInstall(m, elev)
      PROVE  UNCHANGED node
  BY <1>5 DEF LaunchInstall, StartInstall, hostVars
<1>6. ASSUME NEW j \in JournalPath, NEW image \in Images, NEW elev \in Tokens,
             NEW mode \in Modes, LaunchUninstall(j, image, elev, mode)
      PROVE  UNCHANGED node
  BY <1>6 DEF LaunchUninstall, StartUninstall
<1>7. InstallBreaks \/ OtherProgram \/ UNCHANGED vars => UNCHANGED node
  BY DEF InstallBreaks, InstallFails, OtherProgram, Hold, Release, vars, hostVars
<1> QED
  BY <1>1, <1>2, <1>3, <1>4, <1>5, <1>6, <1>7 DEF Next

-----------------------------------------------------------------------------
(* Faults and boots *)

(* Steps count faults and boots up; while neither is added, no step is a   *)
(* boot.                                                                   *)
LEMMA CountStays ==
  ASSUME TypeOK, [Next]_vars
  PROVE  /\ faults' = faults \/ faults' = faults + 1
         /\ boots' = boots \/ boots' = boots + 1
         /\ Reboot => boots' = boots + 1 /\ faults' = faults
         /\ (UninstallBreaks \/ HelperBreaks) => faults' = faults + 1
         /\ UninstallBegins => /\ UNCHANGED <<faults, boots>>
                              /\ trouble' = faults + boots
                              /\ alone' = TRUE
         /\ ~UninstallBegins => trouble' = trouble
<1>1. ASSUME NEW m \in Manifests, NEW elev \in Tokens, LaunchInstall(m, elev)
      PROVE  UNCHANGED <<faults, boots, trouble>>
  BY <1>1 DEF LaunchInstall, StartInstall, engineVars
<1>2. ASSUME RunInstall
      PROVE  UNCHANGED <<faults, boots, trouble>>
  BY <1>2, Frames DEF RunInstall
<1>3. ASSUME InstallBreaks
      PROVE  UNCHANGED <<boots, trouble>> /\ faults' = faults + 1
  BY <1>3 DEF InstallBreaks, InstallFails, Fault, lifeVars, runVars
<1>4. ASSUME NEW j \in JournalPath, NEW image \in Images, NEW elev \in Tokens,
             NEW mode \in Modes, LaunchUninstall(j, image, elev, mode)
      PROVE  UNCHANGED <<faults, boots>> /\ trouble' = faults + boots /\ alone' = TRUE
  BY <1>4 DEF LaunchUninstall, StartUninstall, engineVars
<1>5. ASSUME RunUninstall \/ HandOver
      PROVE  UNCHANGED <<faults, boots, trouble>>
  BY <1>5, Frames DEF RunUninstall, HandOver, engineVars, lifeVars, runVars
<1>6. ASSUME UninstallBreaks
      PROVE  UNCHANGED <<boots, trouble>> /\ faults' = faults + 1
  BY <1>6 DEF UninstallBreaks, UninstallFails, Fault, lifeVars, runVars
<1>7. ASSUME RunHelper \/ User \/ Powershell
      PROVE  UNCHANGED <<faults, boots, trouble>>
  BY <1>7, Frames DEF RunHelper, User, Powershell, engineVars, lifeVars, runVars
<1>8. ASSUME HelperBreaks
      PROVE  UNCHANGED <<boots, trouble>> /\ faults' = faults + 1
  BY <1>8, Frames DEF HelperBreaks, Fault, runVars
<1>9. ASSUME OtherProgram \/ UNCHANGED vars
      PROVE  UNCHANGED <<faults, boots, trouble>>
  BY <1>9 DEF OtherProgram, vars, engineVars, lifeVars, runVars
<1>10. ASSUME Reboot
       PROVE  UNCHANGED <<faults, trouble>> /\ boots' = boots + 1
  BY <1>10 DEF Reboot, engineVars
<1> QED
  BY <1>1, <1>2, <1>3, <1>4, <1>5, <1>6, <1>7, <1>8, <1>9, <1>10 DEF Next, UninstallBegins

LEMMA CountOKStays ==
  ASSUME TypeOK, CountOK, [Next]_vars
  PROVE  CountOK'
<1>1. faults \in Nat /\ boots \in Nat /\ trouble \in Nat
  BY EngineAssumption, LifecycleAssumption DEF TypeOK, EngineTypeOK
<1>2. CASE UninstallBegins
  <2>1. UNCHANGED <<faults, boots>> /\ trouble' = faults + boots
    BY <1>2, CountStays
  <2> QED
    BY <1>1, <2>1 DEF CountOK
<1>3. CASE ~UninstallBegins
  <2>1. /\ trouble' = trouble
        /\ faults' = faults \/ faults' = faults + 1
        /\ boots' = boots \/ boots' = boots + 1
    BY <1>3, CountStays
  <2> QED
    BY <1>1, <2>1 DEF CountOK
<1> QED
  BY <1>2, <1>3

(* While nothing comes between, everything that happens only removes, and  *)
(* nothing fails or boots.                                                 *)
LEMMA StillStays ==
  ASSUME TypeOK, QuietAlone, CountOK, [Next]_vars, ~UninstallBegins, Quiet', Undisturbed'
  PROVE  /\ Quiet /\ Undisturbed
         /\ ~Reboot /\ ~HelperBreaks /\ ~UninstallBreaks
         /\ OnlyRemoves /\ pending \subseteq pending'
<1>1. Quiet /\ quiet' # {}
  BY QuietStays DEF Quiet, UninstallBegins
<1>2. faults \in Nat /\ boots \in Nat /\ trouble \in Nat
  BY EngineAssumption, LifecycleAssumption DEF TypeOK, EngineTypeOK
<1>3. Undisturbed /\ UNCHANGED <<faults, boots>>
  <2>1. /\ trouble' = trouble
        /\ faults' = faults \/ faults' = faults + 1
        /\ boots' = boots \/ boots' = boots + 1
    BY CountStays
  <2>2. faults' + boots' = trouble' /\ trouble <= faults + boots
    BY DEF Undisturbed, CountOK
  <2> QED
    BY <1>2, <2>1, <2>2 DEF Undisturbed
<1>4. ~Reboot /\ ~HelperBreaks /\ ~UninstallBreaks
  <2>1. /\ Reboot => boots' = boots + 1
        /\ (UninstallBreaks \/ HelperBreaks) => faults' = faults + 1
    BY CountStays
  <2> QED
    BY <1>2, <1>3, <2>1
<1>5. OnlyRemoves /\ pending \subseteq pending'
  BY <1>1, <1>4, NextRemoves
<1> QED
  BY <1>1, <1>3, <1>4, <1>5

(* A run once left is not taken up again.                                  *)
LEMMA UndoEnds ==
  ASSUME [Next]_vars, ~UninstallBegins, upc' = "undo"
  PROVE  upc = "undo"
<1>1. CASE RunUninstall
  BY <1>1, UndoRuns DEF RunUninstall, CloseReport, ExitUninstaller
<1>2. HandOver \/ UninstallBreaks => upc' # "undo"
  BY DEF HandOver, CopyHelper, SpawnHelper, UninstallBreaks, UninstallFails, FailUninstall
<1>3. ASSUME NEW m \in Manifests, NEW elev \in Tokens, LaunchInstall(m, elev)
      PROVE  UNCHANGED upc
  BY <1>3 DEF LaunchInstall, uninstallVars
<1>4. RunInstall \/ InstallBreaks \/ OtherProgram \/ UNCHANGED vars \/ RunHelper
        \/ HelperBreaks \/ User \/ Powershell => UNCHANGED upc
  BY Frames DEF RunInstall, InstallBreaks, OtherProgram, RunHelper, HelperBreaks, User,
     Powershell, vars, uninstallVars
<1>5. CASE Reboot
  BY <1>5 DEF Reboot
<1> QED
  BY <1>1, <1>2, <1>3, <1>4, <1>5 DEF Next, UninstallBegins

(* A run that goes on, or was successful, did so before.                   *)
LEMMA FineStays ==
  ASSUME [Next]_vars, ~UninstallBegins, Fine'
  PROVE  Fine
<1>1. CASE RunUninstall
  <2>1. (ExitUninstaller /\ upc' = "ok" => upc = "exiting")
          /\ (CloseReport => upc = "reporting")
    BY DEF ExitUninstaller, CloseReport
  <2>2. ExitUninstaller => upc' \in {"ok", "failed"}
    BY DEF ExitUninstaller
  <2> QED
    BY <1>1, <2>1, <2>2, UndoRuns DEF RunUninstall, Fine
<1>2. HandOver \/ UninstallBreaks => Fine
  BY DEF HandOver, CopyHelper, SpawnHelper, AllUndone, UninstallBreaks, UninstallFails, Fine
<1>3. ASSUME NEW m \in Manifests, NEW elev \in Tokens, LaunchInstall(m, elev)
      PROVE  UNCHANGED upc
  BY <1>3 DEF LaunchInstall, uninstallVars
<1>4. RunInstall \/ InstallBreaks \/ OtherProgram \/ UNCHANGED vars \/ RunHelper
        \/ HelperBreaks \/ User \/ Powershell => UNCHANGED upc
  BY Frames DEF RunInstall, InstallBreaks, OtherProgram, RunHelper, HelperBreaks, User,
     Powershell, vars, uninstallVars
<1>5. CASE Reboot
  BY <1>5 DEF Reboot, Fine, Uninstalling
<1> QED
  BY <1>1, <1>2, <1>3, <1>4, <1>5 DEF Next, UninstallBegins, Fine

(* Only the start of a helper gives it a target and a token.               *)
LEMMA TargetFrame ==
  ASSUME [Next]_vars
  PROVE  UNCHANGED <<htarget, helev>> \/ SpawnHelper
<1>1. ASSUME NEW m \in Manifests, NEW elev \in Tokens, LaunchInstall(m, elev)
      PROVE  UNCHANGED <<htarget, helev>>
  BY <1>1 DEF LaunchInstall, helperVars
<1>2. UninstallBegins => UNCHANGED <<htarget, helev>>
  BY DEF UninstallBegins, LaunchUninstall, helperVars
<1>3. RunInstall \/ InstallBreaks \/ RunUninstall \/ UninstallBreaks \/ OtherProgram
        \/ Reboot \/ UNCHANGED vars \/ CopyHelper => UNCHANGED <<htarget, helev>>
  BY DEF RunInstall, InstallBreaks, RunUninstall, UninstallBreaks, OtherProgram, Reboot,
     CopyHelper, vars, helperVars
<1>4. RunHelper \/ HelperBreaks \/ User \/ Powershell => UNCHANGED <<htarget, helev>>
  BY DEF RunHelper, HelperBreaks, User, Powershell, HelperStep, Poll, PollExpires, Fallback,
     RemoveRoot, ScheduleSelfCleanup, Tell, ExitHelper, HelperFails, SelfCleanupFallback,
     UserAnswers, PowershellDeletes, HelperAt
<1> QED
  BY <1>1, <1>2, <1>3, <1>4 DEF Next, UninstallBegins, HandOver

(* The rights that were checked at the start last through the run, and     *)
(* through the helper's.                                                   *)
LEMMA RightsStay ==
  ASSUME TypeOK, RightsHeld, [Next]_vars
  PROVE  RightsHeld'
<1> USE TypeParts
<1>1. ASSUME NEW j \in JournalPath, NEW image \in Images, NEW elev \in Tokens,
             NEW mode \in Modes, LaunchUninstall(j, image, elev, mode)
      PROVE  RightsHeld'
  <2>1. /\ ujournal' = doc[j] /\ uelev' = elev /\ uself' = NoPath
        /\ JournalRequiresAdmin(doc[j]) # "no" => elev
        /\ UNCHANGED <<htarget, helev>>
    BY <1>1 DEF LaunchUninstall, StartUninstall, helperVars
  <2>2. (\E n \in 1..Len(doc[j].actions) : ActionNeedsAdmin(doc[j].actions[n])) => elev
    BY <2>1 DEF JournalRequiresAdmin
  <2>3. NoPath \notin AdminPath
    BY HostAssumption
  <2> QED
    BY <2>1, <2>2, <2>3 DEF RightsHeld
<1>2. CASE ~UninstallBegins
  <2>0. UNCHANGED <<ujournal, uelev>>
    BY <1>2, UninstallFrame
  <2>1. uself' \in AdminPath => uelev
    <3>1. CASE RunUninstall /\ DeferSelfDelete
      <4>1. /\ uself' = Victim /\ ujournal \in Doc
            /\ upos \in 1..Len(UndoPlan(ujournal))
            /\ UndoPlan(ujournal)[upos].type = "CopyFile"
            /\ Victim = UndoPlan(ujournal)[upos].on
        BY <3>1, VictimTyped DEF DeferSelfDelete, Doing, UninstallTypeOK
      <4>2. upos \in 1..Len(ujournal.actions)
        BY <4>1, UndoPlanOrder
      <4>3. /\ UndoPlan(ujournal)[upos] = ujournal.actions[Len(ujournal.actions) + 1 - upos]
            /\ Len(ujournal.actions) + 1 - upos \in 1..Len(ujournal.actions)
        <5> DEFINE a == Len(ujournal.actions)
        <5>1. UndoPlan(ujournal)[upos] = ujournal.actions[a + 1 - upos] /\ a \in Nat
          BY <4>1, <4>2, UndoPlanShape
        <5>2. upos \in 1..a
          BY <4>2
        <5> HIDE DEF a
        <5>3. a + 1 - upos \in 1..a
          BY <5>1, <5>2
        <5> QED
          BY <5>1, <5>3 DEF a
      <4> QED
        BY <4>1, <4>3 DEF RightsHeld, ActionNeedsAdmin
    <3>2. CASE ~(RunUninstall /\ DeferSelfDelete)
      <4>1. uself' = uself
        BY <1>2, <3>2, UninstallFrame, UndoFrame DEF RunUninstall
      <4> QED
        BY <4>1 DEF RightsHeld
    <3> QED
      BY <3>1, <3>2
  <2>2. htarget' \in AdminPath => helev'
    BY TargetFrame DEF SpawnHelper, RightsHeld
  <2> QED
    BY <2>0, <2>1, <2>2 DEF RightsHeld
<1> QED
  BY <1>1, <1>2 DEF UninstallBegins

-----------------------------------------------------------------------------
(* The walk *)

(* How a step of uninstall that goes on changes what is still to visit.    *)
LEMMA WalkFrame ==
  ASSUME WalkShape, UndoStepTaken, upc' = "undo"
  PROVE  /\ upc = "undo"
         /\ \/ uwalk = {} /\ uwalk' = {}
            \/ OpenPurge
            \/ \E p \in uwalk : Walked(p)
<1>1. upc = "undo"
  BY UndoRuns DEF CloseReport, ExitUninstaller
<1>2. FailUninstall => upc' # "undo"
  BY DEF FailUninstall
<1>3. Advance => uwalk' = uwalk
  BY DEF Advance
<1>4. uwalk # {} => UndoPlan(ujournal)[upos].type = "PurgePath" /\ ~AllUndone
  <2>1. ASSUME uwalk # {}
        PROVE  Doing({"PurgePath"})
    BY <1>1, <2>1 DEF WalkShape
  <2>2. Doing({"PurgePath"}) => UndoPlan(ujournal)[upos].type = "PurgePath" /\ ~AllUndone
    BY DEF Doing, AllUndone
  <2> QED
    BY <2>1, <2>2
<1>5. CASE Doing({"CreateDirectory", "CopyFile", "CreateShortcut", "WriteRegistry",
                   "ExecuteScript", "PurgeBranch"})
  <2>1. uwalk = {} /\ UndoPlan(ujournal)[upos].type # "PurgePath"
    BY <1>4, <1>5 DEF Doing
  <2>2. uwalk' = uwalk \/ Doing({"PurgePath"})
    BY <1>2, <1>3, <1>5 DEF UndoStepTaken, UndoDirectory, DeferSelfDelete, UndoFile,
       DeferRegistration, UndoRegistry, SkipScript, PurgeBranch, PurgeSingle, PurgeNothing,
       OpenPurge, PassOver, PurgeFile, PurgeDir, PurgeLink, RemoveRegistration,
       FinishUninstall, CloseReport, ExitUninstaller
  <2>3. ~Doing({"PurgePath"})
    BY <2>1 DEF Doing
  <2> QED
    BY <1>1, <2>1, <2>2, <2>3
<1>6. UndoDirectory \/ DeferSelfDelete \/ UndoFile \/ DeferRegistration \/ UndoRegistry
        \/ SkipScript \/ PurgeBranch
        => Doing({"CreateDirectory", "CopyFile", "CreateShortcut", "WriteRegistry",
                  "ExecuteScript", "PurgeBranch"})
  BY DEF UndoDirectory, DeferSelfDelete, UndoFile, DeferRegistration, UndoRegistry,
         SkipScript, PurgeBranch, Doing
<1>7. CASE PurgeSingle \/ PurgeNothing
  BY <1>1, <1>2, <1>3, <1>7 DEF PurgeSingle, PurgeNothing
<1>8. CASE OpenPurge
  BY <1>1, <1>8
<1>9. ASSUME NEW f, PurgeFile(f) \/ PurgeLink(f)
      PROVE  f \in uwalk /\ Walked(f)
  BY <1>2, <1>9 DEF PurgeFile, PurgeLink
<1>10. ASSUME NEW d, PurgeDir(d) \/ PassOver(d)
       PROVE  d \in uwalk /\ Walked(d)
  BY <1>2, <1>10 DEF PurgeDir, PassOver
<1>11. CASE RemoveRegistration
  <2>1. AllUndone /\ uwalk' = uwalk
    BY <1>11 DEF RemoveRegistration, FailUninstall
  <2> QED
    BY <1>1, <1>4, <2>1
<1>12. ~FinishUninstall /\ ~CloseReport /\ ~ExitUninstaller
  BY <1>1 DEF FinishUninstall, CloseReport, ExitUninstaller
<1> QED
  BY <1>1, <1>5, <1>6, <1>7, <1>8, <1>9, <1>10, <1>11, <1>12 DEF UndoStepTaken

(* What lies inside what lies inside lies inside.                          *)
LEMMA InsideFacts ==
  /\ \A d : Below(d) \subseteq Inside(d)
  /\ \A f \in FilePath : Inside(f) = {}
  /\ \A d : \A e \in Inside(d) : e \in Path /\ Inside(e) \subseteq Inside(d)
<1>1. \A d : Below(d) \subseteq Inside(d)
  BY DEF Inside
<1>2. \A f \in FilePath : Inside(f) = {}
  BY PathFacts, HostAssumption DEF Inside
<1>3. ASSUME NEW d, NEW e \in Inside(d)
      PROVE  e \in Path /\ Inside(e) \subseteq Inside(d)
  <2>1. CASE e \in Below(d)
    <3>1. e \in Path /\ Below(e) \subseteq Below(d)
      BY <2>1, PathFacts
    <3>2. Link \cap ({e} \cup Below(e)) \subseteq Link \cap ({d} \cup Below(d))
      BY <2>1, <3>1
    <3> QED
      BY <3>1, <3>2 DEF Inside
  <2>2. ASSUME NEW l \in Link, l \in {d} \cup Below(d), e \in Below(Leads[l])
        PROVE  e \in Path /\ Inside(e) \subseteq Inside(d)
    <3>1. e \in Path /\ Below(e) \subseteq Below(Leads[l])
      BY <2>2, PathFacts
    <3>2. Below(Leads[l]) \cap Link = {}
      BY UninstallAssumption
    <3>3. Link \cap ({e} \cup Below(e)) = {}
      BY <2>2, <3>1, <3>2
    <3>4. Inside(e) = Below(e)
      BY <3>3 DEF Inside
    <3> QED
      BY <2>2, <3>1, <3>4 DEF Inside
  <2> QED
    BY <2>1, <2>2 DEF Inside
<1> QED
  BY <1>1, <1>2, <1>3

(* The shape of the walk survives what keeps its place and takes an entry  *)
(* out together with all that it holds.                                    *)
LEMMA WalkHolds ==
  ASSUME WalkShape, upc = "undo", UNCHANGED <<ujournal, upos>>,
         NEW p, uwalk' = uwalk \/ uwalk' = uwalk \ ({p} \cup Inside(p))
  PROVE  WalkShape'
<1> SUFFICES ASSUME upc' = "undo", uwalk' # {}
             PROVE  WalkShape'
  BY DEF WalkShape
<1>1. uwalk # {} /\ uwalk' \subseteq uwalk
  OBVIOUS
<1> DEFINE region == {Victim} \cup Inside(Victim)
<1>2. /\ Doing({"PurgePath"})
      /\ Victim \in Path
      /\ uwalk \subseteq region
      /\ \A d \in region : uwalk \cap Inside(d) # {} => d \in uwalk
  BY <1>1 DEF WalkShape
<1>3. Victim' = Victim
  BY DEF Victim
<1>4. Doing({"PurgePath"})'
  BY <1>2 DEF Doing
<1>5. ASSUME NEW d \in region, uwalk' \cap Inside(d) # {}
      PROVE  d \in uwalk'
  <2>1. PICK e \in uwalk' : e \in Inside(d)
    BY <1>5
  <2>2. d \in uwalk
    BY <1>1, <1>2, <1>5, <2>1
  <2>3. d \in Inside(p) \/ d = p => e \in Inside(p)
    BY <2>1, InsideFacts
  <2> QED
    BY <2>1, <2>2, <2>3
<1>6. \A d \in region' : uwalk' \cap Inside(d)' # {} => d \in uwalk'
  BY <1>3, <1>5 DEF Inside, Below
<1>7. uwalk' \subseteq region'
  BY <1>1, <1>2, <1>3 DEF Inside, Below
<1> QED
  BY <1>2, <1>3, <1>4, <1>6, <1>7 DEF WalkShape

LEMMA WalkStays ==
  ASSUME TypeOK, WalkShape, [Next]_vars
  PROVE  WalkShape'
<1> USE TypeParts
<1>1. CASE UninstallBegins
  <2>1. uwalk' = {}
    BY <1>1 DEF UninstallBegins, LaunchUninstall, StartUninstall
  <2> QED
    BY <2>1 DEF WalkShape
<1>2. CASE ~UninstallBegins
  <2> SUFFICES ASSUME upc' = "undo"
               PROVE  WalkShape'
    BY DEF WalkShape
  <2>1. upc = "undo" /\ ujournal' = ujournal
    BY <1>2, UndoEnds, UninstallFrame
  <2>3. CASE UNCHANGED <<upos, uwalk>>
    BY <2>1, <2>3, WalkHolds
  <2>4. CASE RunUninstall
    <3>1. UndoStepTaken
      BY <2>4 DEF RunUninstall
    <3>2. CASE uwalk' = {}
      BY <3>2 DEF WalkShape
    <3>3. CASE OpenPurge
      <4>1. /\ Doing({"PurgePath"}) /\ Victim \in Path
            /\ uwalk' = {Victim} \cup Inside(Victim)
            /\ UNCHANGED <<ujournal, upos>>
        BY <3>3, VictimTyped DEF OpenPurge, Doing, UndoStep, Step
      <4>2. Victim' = Victim /\ Doing({"PurgePath"})'
        BY <2>1, <4>1 DEF Victim, Doing
      <4>3. uwalk' = ({Victim} \cup Inside(Victim))'
        BY <4>1, <4>2 DEF Inside, Below
      <4> QED
        BY <4>1, <4>2, <4>3 DEF WalkShape
    <3>4. ASSUME NEW p \in uwalk, Walked(p), uwalk' # {}
          PROVE  WalkShape'
      <4>1. uwalk' = uwalk \ ({p} \cup Inside(p)) /\ upos' = upos
        BY <3>4 DEF Walked
      <4> QED
        BY <2>1, <4>1, WalkHolds
    <3> QED
      BY <3>1, <3>2, <3>3, <3>4, WalkFrame
  <2> QED
    BY <1>2, <2>3, <2>4, UninstallFrame
<1> QED
  BY <1>1, <1>2

(* A run that hands over or succeeds was through, or is so now; and with   *)
(* nothing to visit.                                                       *)
LEMMA WalkDoneStays ==
  ASSUME TypeOK, WalkShape, WalkDone, [Next]_vars
  PROVE  WalkDone'
<1>0. AllUndone => uwalk = {}
  BY DEF AllUndone, WalkShape, Doing
<1>1. CASE UninstallBegins
  BY <1>1 DEF UninstallBegins, LaunchUninstall, StartUninstall, WalkDone
<1>2. CASE ~UninstallBegins
  <2>1. CASE RunUninstall
    <3>1. CASE FinishUninstall
      BY <1>0, <3>1 DEF FinishUninstall, WalkDone
    <3>2. CASE CloseReport \/ ExitUninstaller
      BY <3>2 DEF CloseReport, ExitUninstaller, WalkDone
    <3>3. CASE ~FinishUninstall /\ ~CloseReport /\ ~ExitUninstaller
      <4>1. upc' \in {"undo", "failing"}
        BY <2>1, <3>3, UndoRuns, UndoFrame DEF RunUninstall
      <4> QED
        BY <4>1 DEF WalkDone
    <3> QED
      BY <3>1, <3>2, <3>3
  <2>2. CASE HandOver
    <3>1. CASE CopyHelper
      BY <1>0, <3>1 DEF CopyHelper, FailUninstall, WalkDone
    <3>2. CASE SpawnHelper
      BY <3>2 DEF SpawnHelper, WalkDone
    <3> QED
      BY <2>2, <3>1, <3>2 DEF HandOver
  <2>3. CASE UninstallBreaks
    BY <2>3 DEF UninstallBreaks, UninstallFails, FailUninstall, WalkDone
  <2>4. CASE Reboot
    BY <2>4 DEF Reboot, WalkDone, Uninstalling
  <2>5. CASE UNCHANGED uninstallVars
    BY <2>5 DEF uninstallVars, WalkDone
  <2>6. ASSUME NEW m \in Manifests, NEW elev \in Tokens, LaunchInstall(m, elev)
        PROVE  UNCHANGED uninstallVars
    BY <2>6 DEF LaunchInstall
  <2>7. RunInstall \/ InstallBreaks \/ OtherProgram \/ UNCHANGED vars \/ RunHelper
          \/ HelperBreaks \/ User \/ Powershell => UNCHANGED uninstallVars
    BY Frames DEF RunInstall, InstallBreaks, OtherProgram, RunHelper, HelperBreaks, User,
       Powershell, vars
  <2> QED
    BY <1>2, <2>1, <2>2, <2>3, <2>4, <2>5, <2>6, <2>7 DEF Next, UninstallBegins
<1> QED
  BY <1>1, <1>2

-----------------------------------------------------------------------------
(* What the walk has passed *)

(* The purge paths are the last entries of the plan.                       *)
LEMMA PurgesLast ==
  ASSUME NEW j \in Doc, NEW i \in 1..Len(UndoPlan(j)), NEW k \in 1..Len(UndoPlan(j)),
         i < k, UndoPlan(j)[i].type = "PurgePath"
  PROVE  UndoPlan(j)[k].type = "PurgePath"
<1> DEFINE a == Len(j.actions)
           b == Len(j.branches)
           c == Len(j.purges)
<1>1. /\ a \in Nat /\ b \in Nat /\ c \in Nat
      /\ Len(UndoPlan(j)) = a + b + c
      /\ \A n \in 1..c : UndoPlan(j)[a + b + n] = [type |-> "PurgePath", on |-> j.purges[n]]
  BY UndoPlanShape
<1>2. \E n \in 1..c : i = a + b + n
  BY UndoPlanOrder
<1> HIDE DEF a, b, c
<1>3. k \in 1..(a + b + c) /\ k > a + b
  BY <1>1, <1>2
<1>4. PICK n \in 1..c : k = a + b + n
  <2>1. k - (a + b) \in 1..c /\ k = a + b + (k - (a + b))
    BY <1>1, <1>3
  <2> QED
    BY <2>1
<1>5. UndoPlan(j)[a + b + n] = [type |-> "PurgePath", on |-> j.purges[n]]
  BY <1>1
<1>6. UndoPlan(j)[k] = [type |-> "PurgePath", on |-> j.purges[n]]
  BY <1>4, <1>5
<1> QED
  BY <1>6

(* In an orderly journal no purge path lies under an earlier one, nor does *)
(* a junction under it lead there.                                         *)
LEMMA OrderlyPlan ==
  ASSUME NEW j \in Doc, Orderly(j),
         NEW i \in 1..Len(UndoPlan(j)), NEW k \in 1..Len(UndoPlan(j)), i <= k,
         UndoPlan(j)[i].type = "PurgePath", UndoPlan(j)[k].type = "PurgePath"
  PROVE  /\ i < k => UndoPlan(j)[k].on \notin Below(UndoPlan(j)[i].on)
         /\ \A l \in Link \cap Span(UndoPlan(j)[k].on) :
              Below(Leads[l]) \cap Span(UndoPlan(j)[i].on) = {}
<1> DEFINE a == Len(j.actions)
           b == Len(j.branches)
           c == Len(j.purges)
<1>1. a \in Nat /\ b \in Nat /\ c \in Nat
  BY UndoPlanShape
<1>2. PICK n \in 1..c : i = a + b + n /\ UndoPlan(j)[i].on = j.purges[n]
  BY UndoPlanOrder
<1>3. PICK m \in 1..c : k = a + b + m /\ UndoPlan(j)[k].on = j.purges[m]
  BY UndoPlanOrder
<1>4. n <= m /\ (i < k => n < m)
  <2> HIDE DEF a, b, c
  <2> QED
    BY <1>1, <1>2, <1>3
<1>5. i < k => UndoPlan(j)[k].on \notin Below(UndoPlan(j)[i].on)
  BY <1>2, <1>3, <1>4 DEF Orderly
<1>6. Beyond(<<j.purges[m]>>) \cap Span(j.purges[n]) = {}
  BY <1>2, <1>3, <1>4 DEF Orderly
<1>7. \A l \in Link \cap Span(j.purges[m]) :
        Below(Leads[l]) \subseteq Beyond(<<j.purges[m]>>)
  BY DEF Beyond, PurgeScope, Elements
<1> QED
  BY <1>2, <1>3, <1>5, <1>6, <1>7

(* What the walk has still to visit under a purge path it has come to lies *)
(* in the one it is in: no junction leads there.                           *)
LEMMA WalkHere ==
  ASSUME UninstallTypeOK, WalkShape, upc = "undo", Orderly(ujournal),
         NEW i \in 1..Len(UndoPlan(ujournal)), UndoPlan(ujournal)[i].type = "PurgePath",
         i <= upos, NEW q \in uwalk, q \in Span(UndoPlan(ujournal)[i].on)
  PROVE  /\ q \in Span(Victim) /\ Victim \in Path
         /\ i < upos => Victim \notin Below(UndoPlan(ujournal)[i].on)
         /\ i = upos => Victim = UndoPlan(ujournal)[i].on
         /\ \A d \in Span(Victim) : uwalk \cap Inside(d) # {} => d \in uwalk
         /\ \A l \in Link \cap Span(Victim) :
              Below(Leads[l]) \cap Span(UndoPlan(ujournal)[i].on) = {}
<1>0. ujournal \in Doc /\ upos \in Nat /\ i \in Nat
  BY DEF UninstallTypeOK
<1>1. /\ Doing({"PurgePath"})
      /\ Victim \in Path /\ q \in {Victim} \cup Inside(Victim)
      /\ \A d \in {Victim} \cup Inside(Victim) : uwalk \cap Inside(d) # {} => d \in uwalk
  BY DEF WalkShape
<1>2. upos \in 1..Len(UndoPlan(ujournal)) /\ Victim = UndoPlan(ujournal)[upos].on
        /\ UndoPlan(ujournal)[upos].type = "PurgePath"
  BY <1>1 DEF Doing, Victim
<1>3. /\ i < upos => Victim \notin Below(UndoPlan(ujournal)[i].on)
      /\ \A l \in Link \cap Span(Victim) :
           Below(Leads[l]) \cap Span(UndoPlan(ujournal)[i].on) = {}
  BY <1>0, <1>2, OrderlyPlan
<1>4. q \in Span(Victim)
  BY <1>1, <1>3 DEF Inside, Span
<1>5. \A d \in Span(Victim) : uwalk \cap Inside(d) # {} => d \in uwalk
  BY <1>1, InsideFacts DEF Span
<1> QED
  BY <1>1, <1>2, <1>3, <1>4, <1>5

(* ... so a directory above it is still to be visited.                     *)
LEMMA WalkAbove ==
  ASSUME UninstallTypeOK, WalkShape, upc = "undo", Orderly(ujournal),
         NEW i \in 1..Len(UndoPlan(ujournal)), UndoPlan(ujournal)[i].type = "PurgePath",
         i <= upos, NEW p \in Span(UndoPlan(ujournal)[i].on),
         NEW q \in uwalk, q \in Below(p)
  PROVE  p \in uwalk
<1> DEFINE r == Victim
           on == UndoPlan(ujournal)[i].on
<1>0. upos \in Nat /\ i \in Nat /\ q \in Span(on)
  BY PathFacts DEF UninstallTypeOK, Span
<1>1. /\ r \in Path /\ q \in Span(r)
      /\ i < upos => r \notin Below(on)
      /\ i = upos => r = on
      /\ \A d \in Span(r) : uwalk \cap Inside(d) # {} => d \in uwalk
  BY <1>0, WalkHere
<1>3. p \in Path /\ q \in Path /\ p \in Ancestors[q] /\ (q = r \/ r \in Ancestors[q])
  BY <1>1, HostAssumption DEF Span, Below, Path
<1>4. CASE p \in Span(r)
  <2>1. q \in Inside(p)
    BY InsideFacts
  <2> QED
    BY <1>1, <1>4, <2>1
<1>5. CASE p \in Ancestors[r]
  <2>1. r \in Below(on)
    BY <1>1, <1>5, PathFacts DEF Below, Span
  <2>2. i # upos
    BY <1>1, <2>1, PathFacts
  <2> QED
    BY <1>0, <1>1, <2>1, <2>2
<1>6. p = r \/ p \in Ancestors[r] \/ r \in Ancestors[p]
  BY <1>3, HostAssumption
<1> QED
  BY <1>3, <1>4, <1>5, <1>6 DEF Span, Below

(* Below what no helper disturbs, no helper takes anything away but the    *)
(* one target; so nothing there is excused.                                *)
LEMMA SureBelow ==
  ASSUME NEW p, Clear(p) \/ Seat(p), NEW q \in Below(p)
  PROVE  Clear(q) /\ q # HelperExe
<1>1. HelperExe \notin Below(p)
  BY LifecycleAssumption, CleanupAssumption, HostAssumption DEF Clear, Seat, Path
<1>2. Below(q) \subseteq Below(p) /\ q # p
  BY PathFacts
<1>3. CASE Clear(p)
  BY <1>1, <1>2, <1>3 DEF Clear
<1>4. ASSUME NEW f \in Images, p = Parent(f), Below(p) \cap (Images \cup {HelperExe}) = {f}
      PROVE  Clear(q)
  <2>1. SUFFICES ASSUME f \in Below(q)
                 PROVE  FALSE
    BY <1>2, <1>4 DEF Clear
  <2>2. f \in Path /\ q \in Ancestors[f] /\ p \in Ancestors[q] /\ q \in Path
    BY <2>1 DEF Below
  <2>3. p \in Ancestors[f] /\ Ancestors[f] \ {p} = Ancestors[p]
    BY <1>4, <2>2, HostAssumption DEF Parent
  <2>4. q \in Ancestors[p] /\ p \in Path
    BY <1>2, <2>2, <2>3, HostAssumption DEF Path
  <2>5. Ancestors[q] \subseteq Ancestors[p]
    BY <2>4, HostAssumption
  <2> QED
    BY <2>2, <2>4, <2>5, HostAssumption
<1> QED
  BY <1>1, <1>3, <1>4 DEF Seat

(* A helper comes only for what lies above its target.                     *)
LEMMA ClearNotVacated ==
  ASSUME TargetKnown, HelperTypeOK, TakesRemovable, NEW q \in Path, Clear(q)
  PROVE  ~Vacated(q)
<1> SUFFICES ASSUME Vacated(q)
             PROVE  FALSE
  OBVIOUS
<1>1. htarget \in Images /\ htarget \in Path /\ q = Parent(htarget)
  BY DEF Vacated, TargetKnown, HelperRunning, TakesRemovable, HelperTypeOK, Path
<1>2. Ancestors[htarget] # {}
  BY <1>1, PathFacts DEF Parent
<1>3. q \in Ancestors[htarget]
  BY <1>1, <1>2, ParentIsAncestor
<1> QED
  BY <1>1, <1>3 DEF Clear, Below

(* A helper that has taken its target away comes for the directory while   *)
(* nothing brings the target back.                                         *)
ExcuseKept == \A q \in Path : ~alone /\ Vacated(q) => (~alone /\ Vacated(q))'

LEMMA ExcuseStays ==
  ASSUME TargetKnown, HelperTypeOK, InScope(Manifests), OnlyRemoves, UNCHANGED <<hpc, htarget, alone>>
  PROVE  ExcuseKept
<1>1. HelperRunning => htarget \in Path /\ htarget # HelperExe
  BY DEF TargetKnown, HelperTypeOK, InScope, ScopedFile, Path
<1>2. HelperRunning => (~Exists(htarget) => ~Exists(htarget)')
  BY <1>1 DEF OnlyRemoves, Exists
<1> QED
  BY <1>2 DEF ExcuseKept, Vacated, HelperRunning, Parent

(* A junction that stays is still there and still leads nowhere, or out of *)
(* reach.                                                                  *)
StuckKept == \A q \in Path : Stuck(q) => Stuck(q)'

LEMMA StuckStays ==
  ASSUME OnlyRemoves, UNCHANGED uelev,
         \A l \in Link : node'[l] = node[l] \/ (Permitted(l, uelev) /\ Exists(Leads[l]))
  PROVE  StuckKept
<1> SUFFICES ASSUME NEW q \in Path, Stuck(q)
             PROVE  Stuck(q)'
  BY DEF StuckKept
<1>1. PICK l \in Link \cap Span(q) :
        Exists(l) /\ (~Exists(Leads[l]) \/ ~Permitted(l, uelev))
  BY DEF Stuck
<1>2. Exists(l)'
  BY <1>1 DEF Exists
<1>3. Leads[l] \in Path /\ Leads[l] # HelperExe
  BY <1>1, HostAssumption, CleanupAssumption DEF Path
<1>4. ~Exists(Leads[l]) => ~Exists(Leads[l])'
  BY <1>3 DEF OnlyRemoves, Exists
<1>5. ~Permitted(l, uelev) => ~Permitted(l, uelev')
  BY DEF Permitted
<1>6. l \in Link \cap Span(q)'
  BY <1>1 DEF Span, Below
<1> QED
  BY <1>1, <1>2, <1>4, <1>5, <1>6 DEF Stuck

(* Beside install, only purge_path touches a junction.                     *)
LEMMA LinksStay ==
  ASSUME TypeOK, TargetKnown, [Next]_vars, ~RunInstall, NEW l \in Link
  PROVE  node'[l] = node[l] \/ (RunUninstall /\ PurgeLink(l))
<1> USE TypeParts
<1>0. l \notin DirPath /\ l \notin FilePath /\ l \in Path
  BY HostAssumption DEF Path
<1>1. \A d, elev : RemoveDir(d, elev) /\ d # l => node'[l] = node[l]
  BY <1>0 DEF RemoveDir, HostTypeOK
<1>2. \A f, elev : RemoveFile(f, elev) /\ f # l => node'[l] = node[l]
  BY <1>0 DEF RemoveFile, HostTypeOK
<1>3. \A f, elev : RemoveLink(f, elev) /\ f # l => node'[l] = node[l]
  BY <1>0 DEF RemoveLink, HostTypeOK
<1>4. CASE RunUninstall
  <2>1. UndoStepTaken
    BY <1>4 DEF RunUninstall
  <2>2. CASE UndoDirectory
    <3>1. Victim \in DirPath
      BY <2>2, VictimTyped DEF UndoDirectory, UndoStep, Step
    <3> QED
      BY <1>0, <1>1, <2>2, <3>1 DEF UndoDirectory
  <2>3. CASE UndoFile \/ PurgeSingle
    <3>1. Doing({"CopyFile", "CreateShortcut"}) => Victim \in FilePath
      BY VictimTyped DEF UndoStep, Step
    <3>2. Victim \in FilePath
      BY <2>3, <3>1 DEF UndoFile, PurgeSingle, Doing
    <3> QED
      BY <1>0, <1>2, <2>3, <3>2 DEF UndoFile, PurgeSingle
  <2>4. CASE \E f \in FilePath : PurgeFile(f)
    BY <1>0, <1>2, <2>4 DEF PurgeFile
  <2>5. CASE \E d \in DirPath : PurgeDir(d)
    BY <1>0, <1>1, <2>5 DEF PurgeDir
  <2>6. CASE \E k \in Link : PurgeLink(k)
    BY <1>3, <1>4, <2>6 DEF PurgeLink
  <2>7. DeferSelfDelete \/ DeferRegistration \/ UndoRegistry \/ SkipScript \/ PurgeBranch
          \/ PurgeNothing \/ OpenPurge \/ (\E p \in Path : PassOver(p))
          \/ RemoveRegistration \/ FinishUninstall \/ CloseReport \/ ExitUninstaller
          => UNCHANGED node
    BY DEF DeferSelfDelete, DeferRegistration, UndoRegistry, SkipScript, PurgeBranch,
           PurgeNothing, OpenPurge, PassOver, RemoveRegistration, FinishUninstall,
           CloseReport, ExitUninstaller, hostVars
  <2> QED
    BY <2>1, <2>2, <2>3, <2>4, <2>5, <2>6, <2>7 DEF UndoStepTaken
<1>5. CASE RunHelper \/ HelperBreaks
  <2>1. HelperRunning => htarget \in FilePath /\ Parent(htarget) # l
    <3>1. HelperRunning => htarget \in FilePath /\ htarget \in Path
      BY DEF TargetKnown, HelperTypeOK, Path
    <3>2. HelperRunning => Parent(htarget) = NoPath \/ Parent(htarget) \in DirPath
      BY <3>1, ParentIsAncestor, HostAssumption DEF Parent
    <3> QED
      BY <1>0, <3>1, <3>2, HostAssumption
  <2>2. CASE Poll
    <3>1. HelperRunning
      BY <2>2 DEF Poll, HelperRunning
    <3> QED
      BY <1>0, <2>1, <2>2, <3>1 DEF Poll, HostTypeOK
  <2>3. CASE Fallback \/ SelfCleanupFallback
    <3>1. HelperRunning
      BY <2>3 DEF Fallback, SelfCleanupFallback, HelperRunning
    <3> QED
      BY <1>0, <1>2, <2>1, <2>3, <3>1, CleanupAssumption DEF Fallback, SelfCleanupFallback
  <2>4. CASE RemoveRoot
    <3>1. HelperRunning
      BY <2>4 DEF RemoveRoot, HelperRunning
    <3> QED
      BY <1>1, <2>1, <2>4, <3>1 DEF RemoveRoot
  <2>5. PollExpires \/ ScheduleSelfCleanup \/ Tell \/ ExitHelper \/ HelperFails => UNCHANGED node
    BY DEF PollExpires, ScheduleSelfCleanup, Tell, ExitHelper, HelperFails, hostVars
  <2> QED
    BY <1>5, <2>2, <2>3, <2>4, <2>5 DEF RunHelper, HelperBreaks, HelperStep
<1>6. CASE HandOver \/ Powershell
  <2>1. CopyHelper \/ SpawnHelper \/ PowershellDeletes
          => \/ UNCHANGED node
             \/ \E x : node' = [node EXCEPT ![HelperExe] = x]
    BY DEF CopyHelper, PutFile, SpawnHelper, PowershellDeletes
  <2> QED
    BY <1>0, <1>6, <2>1, CleanupAssumption DEF HandOver, Powershell, HostTypeOK
<1>7. CASE Reboot
  BY <1>0, <1>7 DEF Reboot, Boot, HostTypeOK
<1>8. ASSUME NEW m \in Manifests, NEW elev \in Tokens, LaunchInstall(m, elev)
      PROVE  UNCHANGED node
  BY <1>8 DEF LaunchInstall, StartInstall, hostVars
<1>9. UninstallBegins => UNCHANGED node
  BY DEF UninstallBegins, LaunchUninstall, StartUninstall
<1>10. InstallBreaks \/ UninstallBreaks \/ User \/ OtherProgram \/ UNCHANGED vars
         => UNCHANGED node
  BY DEF InstallBreaks, InstallFails, UninstallBreaks, UninstallFails, User, UserAnswers,
         OtherProgram, Hold, Release, vars, hostVars
<1> QED
  BY <1>4, <1>5, <1>6, <1>7, <1>8, <1>9, <1>10 DEF Next, UninstallBegins

(* What is swept stays so in a step that makes nothing, takes nothing from *)
(* the boot-time list and deletes no excuse.                               *)
LEMMA SweptHolds ==
  ASSUME HostTypeOK, StuckKept, NEW p \in Path, SweptAt(p),
         upc' = "undo" => upc = "undo",
         p # HelperExe \/ upc' = "undo" => (Exists(p)' => Exists(p)),
         pending \subseteq pending', uself' = uself \/ uself = NoPath,
         p \in uwalk => p \in uwalk' \/ p \in pending' \/ ~Exists(p)',
         \A f \in Below(p) \cap (pending \cup {uself}) : Exists(f) => Exists(f)',
         ~alone /\ Vacated(p) => (~alone /\ Vacated(p))'
  PROVE  SweptAt(p)'
<1> SUFFICES ASSUME p = HelperExe => upc' = "undo", Exists(p)', ~Stuck(p)'
             PROVE  Waiting(p)' \/ p \in uwalk' \/ (~alone /\ Vacated(p))'
  BY DEF SweptAt
<1>1. Exists(p) /\ (p = HelperExe => upc = "undo") /\ ~Stuck(p)
  BY DEF StuckKept
<1>2. Waiting(p) \/ p \in uwalk \/ (~alone /\ Vacated(p))
  BY <1>1 DEF SweptAt
<1>3. CASE p \in uwalk
  BY <1>3 DEF Waiting
<1>4. CASE p \in pending
  BY <1>4 DEF Waiting
<1>5. ASSUME NEW f \in pending \cup {uself}, f \in Below(p), Exists(f)
      PROVE  Waiting(p)'
  <2>1. f # NoPath /\ Exists(f)'
    BY <1>5, PathFacts
  <2>2. f \in pending' \cup {uself'}
    BY <1>5, <2>1
  <2>3. f \in Below(p)'
    BY <1>5 DEF Below
  <2> QED
    BY <2>1, <2>2, <2>3 DEF Waiting
<1> QED
  BY <1>2, <1>3, <1>4, <1>5 DEF Waiting

(* A purge path that is a file takes no excuse of an earlier one along.    *)
LEMMA SingleSwept ==
  ASSUME TypeOK, ExcuseKept, StuckKept, Orderly(ujournal), NEW r, r = Victim,
         PurgeSingle, RemoveFileOk(r, uelev),
         NEW i \in 1..Len(UndoPlan(ujournal)), UndoPlan(ujournal)[i].type = "PurgePath",
         i <= upos, NEW p \in Span(UndoPlan(ujournal)[i].on), p \in Path,
         i < upos => SweptAt(p)
  PROVE  SweptAt(p)'
<1> USE TypeParts
<1> DEFINE on == UndoPlan(ujournal)[i].on
<1>0. /\ ujournal \in Doc /\ upos \in Nat /\ i \in Nat
      /\ uwalk = {} /\ UNCHANGED <<uself, uwalk>> /\ upc' = upc
      /\ Doing({"PurgePath"})
      /\ RemoveFile(r, uelev)
      /\ r \in FilePath
  BY DEF PurgeSingle, Advance, UninstallTypeOK
<1>1. r \in Path /\ upos \in 1..Len(UndoPlan(ujournal))
        /\ UndoPlan(ujournal)[upos].type = "PurgePath" /\ r = UndoPlan(ujournal)[upos].on
  BY <1>0, VictimTyped DEF UndoStep, Step, Doing
<1>2. /\ \A q \in Path : q # r => Exists(q)' = Exists(q)
      /\ \A q \in Path : Exists(q)' => Exists(q)
      /\ pending \subseteq pending'
      /\ Exists(r)' => r \in pending'
  BY <1>0, <1>1 DEF RemoveFile, RemoveFileOk, Exists, HostTypeOK
<1>3. CASE i = upos
  <2>1. p = r
    BY <1>0, <1>1, <1>3, PathFacts DEF Span
  <2> QED
    BY <1>2, <2>1 DEF SweptAt, Waiting
<1>4. CASE i # upos
  <2>1. i < upos
    BY <1>0, <1>4
  <2>2. r \notin Below(on)
    BY <1>0, <1>1, <2>1, OrderlyPlan
  <2>3. r \notin Below(p)
    BY <2>2, PathFacts DEF Span
  <2>4. \A f \in Below(p) : Exists(f) => Exists(f)'
    BY <1>2, <2>3, PathFacts
  <2> QED
    BY <1>0, <1>2, <2>1, <2>4, SweptHolds DEF ExcuseKept
<1> QED
  BY <1>3, <1>4

(* A purge path that is not there, or a junction that leads nowhere.       *)
LEMMA NothingSwept ==
  ASSUME TypeOK, TreeOK, NEW r \in Path, ~Found(r), NEW p \in Span(r), UNCHANGED node,
         StuckKept
  PROVE  SweptAt(p)'
<1>1. Exists(p)' = Exists(p) /\ p \in Path
  BY PathFacts DEF Exists, Span
<1>2. CASE ~Exists(r)
  <2>1. ~Exists(p)
    BY <1>1, <1>2 DEF TreeOK, Span, Below
  <2> QED
    BY <1>1, <2>1 DEF SweptAt
<1>3. CASE Exists(r)
  <2>1. r \in Link /\ ~Exists(Leads[r])
    BY <1>3 DEF Found
  <2>2. p = r
    BY <2>1, PathFacts DEF Span
  <2>3. Stuck(p)
    BY <1>3, <2>1, <2>2 DEF Stuck, Span
  <2>4. Stuck(p)'
    BY <1>1, <2>3 DEF StuckKept
  <2> QED
    BY <2>4 DEF SweptAt
<1> QED
  BY <1>2, <1>3

(* What the walk passes over is not there, or is such a junction.          *)
LEMMA PassedOverSwept ==
  ASSUME TypeOK, TreeOK, WalkShape, ExcuseKept, StuckKept, Orderly(ujournal),
         NEW x, PassOver(x),
         NEW i \in 1..Len(UndoPlan(ujournal)), UndoPlan(ujournal)[i].type = "PurgePath",
         i <= upos, NEW p \in Span(UndoPlan(ujournal)[i].on), p \in Path, SweptAt(p)
  PROVE  SweptAt(p)'
<1> USE TypeParts
<1>0. /\ x \in uwalk /\ ~Found(x) /\ uwalk' = uwalk \ ({x} \cup Inside(x))
      /\ UNCHANGED <<node, pending, uself, upc>> /\ upc = "undo"
  BY DEF PassOver, Walked, hostVars, Doing
<1>1. x \in Path
  BY <1>0, InsideFacts DEF WalkShape
<1>2. \A q : Exists(q)' = Exists(q)
  BY <1>0 DEF Exists
<1>3. CASE p \in uwalk /\ p \notin uwalk'
  <2>1. /\ p \in Span(Victim)
        /\ \A l \in Link \cap Span(Victim) :
             Below(Leads[l]) \cap Span(UndoPlan(ujournal)[i].on) = {}
    BY <1>0, <1>3, WalkHere
  <2>2. p \in {x} \cup Inside(x)
    BY <1>0, <1>3
  <2>3. ASSUME NEW l \in Link \cap Span(x), p \in Below(Leads[l])
        PROVE  FALSE
    <3>1. x \in {Victim} \cup Inside(Victim)
      BY <1>0 DEF WalkShape
    <3>2. CASE x \in Span(Victim)
      <4>1. l \in Span(Victim)
        BY <2>3, <3>2, PathFacts DEF Span
      <4> QED
        BY <2>1, <2>3, <4>1
    <3>3. ASSUME NEW k \in Link, x \in Below(Leads[k])
          PROVE  FALSE
      <4>1. l \in Below(Leads[k])
        BY <2>3, <3>3, PathFacts DEF Span
      <4> QED
        BY <2>3, <4>1, UninstallAssumption
    <3> QED
      BY <3>1, <3>2, <3>3 DEF Inside, Span
  <2>4. p \in Span(x)
    BY <2>2, <2>3 DEF Inside, Span
  <2> QED
    BY <1>0, <1>1, <2>4, NothingSwept
<1>4. CASE ~(p \in uwalk /\ p \notin uwalk')
  BY <1>0, <1>2, <1>4, PathFacts, SweptHolds DEF ExcuseKept
<1> QED
  BY <1>3, <1>4

(* A file visited: no directory above it has been passed.                  *)
LEMMA FileSwept ==
  ASSUME TypeOK, WalkShape, ExcuseKept, StuckKept, Orderly(ujournal),
         NEW f \in FilePath, PurgeFile(f), RemoveFileOk(f, uelev), Walked(f),
         NEW i \in 1..Len(UndoPlan(ujournal)), UndoPlan(ujournal)[i].type = "PurgePath",
         i <= upos, NEW p \in Span(UndoPlan(ujournal)[i].on), p \in Path, SweptAt(p)
  PROVE  SweptAt(p)'
<1> USE TypeParts
<1>0. /\ f \in uwalk /\ uwalk' = uwalk \ {f} /\ UNCHANGED <<uself, upc>>
      /\ upc = "undo"
      /\ RemoveFile(f, uelev)
  BY InsideFacts DEF PurgeFile, Walked, Doing
<1>3. /\ \A q \in Path : q # f => Exists(q)' = Exists(q)
      /\ \A q \in Path : Exists(q)' => Exists(q)
      /\ pending \subseteq pending'
      /\ Exists(f)' => f \in pending'
  BY <1>0 DEF RemoveFile, RemoveFileOk, Exists, HostTypeOK, Path
<1>4. CASE f \in Below(p) /\ Exists(p)
  <2>1. p \in uwalk /\ f # p
    BY <1>0, <1>4, WalkAbove, PathFacts
  <2> QED
    BY <1>0, <2>1 DEF SweptAt
<1>5. CASE f \notin Below(p) \/ ~Exists(p)
  <2>1. CASE ~Exists(p)
    BY <1>3, <2>1 DEF SweptAt
  <2>2. CASE f \notin Below(p)
    <3>1. \A g \in Below(p) : Exists(g) => Exists(g)'
      BY <1>3, <2>2, PathFacts
    <3>2. p \in uwalk => p \in uwalk' \/ p \in pending' \/ ~Exists(p)'
      BY <1>0, <1>3
    <3> QED
      BY <1>0, <1>3, <3>1, <3>2, SweptHolds DEF ExcuseKept
  <2> QED
    BY <1>5, <2>1, <2>2
<1> QED
  BY <1>4, <1>5

(* A junction visited: if it stays, then for want of rights.               *)
LEMMA LinkSwept ==
  ASSUME TypeOK, ExcuseKept, StuckKept,
         NEW l \in Link, PurgeLink(l), Walked(l), NEW p \in Path, SweptAt(p)
  PROVE  SweptAt(p)'
<1> USE TypeParts
<1>0. /\ l \in uwalk /\ uwalk' = uwalk \ {l} /\ UNCHANGED <<uself, upc, pending, uelev>>
      /\ upc = "undo"
      /\ RemoveLink(l, uelev)
  <2>1. uwalk \ ({l} \cup Inside(l)) = uwalk \ {l}
    BY DEF PurgeLink
  <2> QED
    BY <2>1 DEF PurgeLink, Walked, Doing
<1>1. /\ \A q \in Path : q # l => Exists(q)' = Exists(q)
      /\ \A q \in Path : Exists(q)' => Exists(q)
      /\ Exists(l)' => ~Permitted(l, uelev)
  BY <1>0 DEF RemoveLink, Exists, HostTypeOK, Path
<1>2. CASE p = l /\ Exists(p)'
  <2>1. ~Permitted(l, uelev')
    BY <1>0, <1>1, <1>2
  <2>2. Stuck(l)'
    BY <1>2, <2>1 DEF Stuck, Span, Permitted
  <2> QED
    BY <1>2, <2>2 DEF SweptAt
<1>3. CASE ~(p = l /\ Exists(p)')
  <2>1. \A f \in Below(p) \cap (pending \cup {uself}) : Exists(f) => Exists(f)'
    <3>1. \A f \in pending \cup {uself} : f # l
      BY HostAssumption DEF HostTypeOK, UninstallTypeOK, Path
    <3> QED
      BY <1>1, <3>1, PathFacts
  <2>2. p \in uwalk => p \in uwalk' \/ p \in pending' \/ ~Exists(p)'
    BY <1>0, <1>3
  <2> QED
    BY <1>0, <1>1, <2>1, <2>2, SweptHolds DEF ExcuseKept
<1> QED
  BY <1>2, <1>3

(* A directory visited: if it stays, something in it waits for the boot or *)
(* is a junction that stays.                                               *)
LEMMA DirSwept ==
  ASSUME TypeOK, TargetKnown, TakesRemovable, ExcuseKept, StuckKept,
         NEW d \in DirPath, PurgeDir(d), RemoveDirOk(d, uelev), Walked(d),
         NEW top \in Path, \A q \in Span(top) : Sure(q) => SweptAt(q),
         NEW p \in Span(top), p \in Path, Sure(p)
  PROVE  SweptAt(p)'
<1> USE TypeParts
<1>0. /\ d \in uwalk /\ uwalk' = uwalk \ {d} /\ UNCHANGED <<uself, upc, pending>>
      /\ uwalk \cap Below(d) = {}
      /\ upc = "undo"
      /\ RemoveDir(d, uelev)
  <2>1. uwalk \ ({d} \cup Inside(d)) = uwalk \ {d} /\ uwalk \cap Below(d) = {}
    BY InsideFacts DEF PurgeDir
  <2> QED
    BY <2>1 DEF PurgeDir, Walked, Doing
<1>1. /\ \A q \in Path : q # d => Exists(q)' = Exists(q)
      /\ \A q \in Path : Exists(q)' => Exists(q)
      /\ Exists(d)' => Occupied(d)
  BY <1>0 DEF RemoveDir, RemoveDirOk, Exists, HostTypeOK, Path
<1>2. \A f \in pending \cup {uself} : f # d
  BY HostAssumption DEF HostTypeOK, UninstallTypeOK, Path
<1>3. CASE p = d /\ Exists(d)'
  <2>1. PICK q \in Below(d) : Exists(q)
    BY <1>1, <1>3 DEF Occupied
  <2>2. q \in Span(top) /\ q \notin uwalk
    BY <1>0, <1>3, PathFacts DEF Span
  <2>6. alone \/ Clear(q)
    BY <1>3, <2>1, SureBelow DEF Sure
  <2>3. Waiting(q) \/ Stuck(q)
    <3>1. SweptAt(q) /\ (alone \/ ~Vacated(q))
      BY <2>1, <2>2, <2>6, ClearNotVacated, PathFacts DEF Sure
    <3> QED
      BY <1>0, <2>1, <2>2, <3>1 DEF SweptAt
  <2>8. CASE Stuck(q)
    <3>1. Span(q) \subseteq Span(d)
      BY <2>1, PathFacts DEF Span
    <3>2. Stuck(d)
      BY <2>8, <3>1 DEF Stuck
    <3>3. Stuck(p)'
      BY <1>3, <3>2 DEF StuckKept
    <3> QED
      BY <3>3 DEF SweptAt
  <2> SUFFICES ASSUME Waiting(q)
               PROVE  SweptAt(p)'
    BY <2>3, <2>8
  <2>4. PICK f \in pending \cup {uself} : f \in Below(d) /\ Exists(f)
    BY <2>1, PathFacts DEF Waiting
  <2>5. Exists(f)' /\ f \in pending' \cup {uself'} /\ f \in Below(d)'
    BY <1>0, <1>1, <1>2, <2>4, PathFacts DEF Below
  <2>7. Waiting(d)'
    BY <2>5 DEF Waiting
  <2> QED
    BY <1>3, <2>7 DEF SweptAt
<1>4. CASE ~(p = d /\ Exists(d)')
  <2>1. \A f \in Below(p) \cap (pending \cup {uself}) : Exists(f) => Exists(f)'
    BY <1>1, <1>2, PathFacts
  <2>2. p \in uwalk => p \in uwalk' \/ p \in pending' \/ ~Exists(p)'
    BY <1>0, <1>4
  <2>3. SweptAt(p)
    OBVIOUS
  <2> QED
    BY <1>0, <1>1, <2>1, <2>2, <2>3, SweptHolds DEF ExcuseKept
<1> QED
  BY <1>3, <1>4

(* Uninstall sweeps what it passes.                                        *)
LEMMA UndoSwept ==
  ASSUME TypeOK, TargetKnown, InScope(Manifests), TreeOK, SelfIsImage, WalkShape, TakesRemovable,
         UndoStepTaken, ExcuseKept, StuckKept, Orderly(ujournal),
         \A i \in 1..Len(UndoPlan(ujournal)) :
           UndoPlan(ujournal)[i].type = "PurgePath" /\ Passed(i)
             => \A p \in Span(UndoPlan(ujournal)[i].on) : Sure(p) => SweptAt(p),
         NEW i \in 1..Len(UndoPlan(ujournal)), UndoPlan(ujournal)[i].type = "PurgePath",
         Passed(i)', NEW p \in Span(UndoPlan(ujournal)[i].on), Sure(p)
  PROVE  SweptAt(p)'
<1> USE TypeParts
<1> DEFINE on == UndoPlan(ujournal)[i].on
<1>0. /\ ujournal \in Doc /\ upos \in Nat /\ i \in Nat
      /\ on \in Path /\ p \in Path
  <2>1. ujournal \in Doc /\ upos \in Nat
    BY DEF UninstallTypeOK
  <2>2. UndoPlan(ujournal)[i] \in UndoStep
    BY <2>1, UndoPlanInSeq, ElementOfSeq
  <2>3. on \in Path
    BY <2>2 DEF UndoStep, Step
  <2> QED
    BY <2>1, <2>3, PathFacts DEF Span
<1>1. uself' = uself \/ uself = NoPath
  BY UndoKeepsDeferred
<1>2. Passed(i) => SweptAt(p)
  OBVIOUS
<1>3. ASSUME UNCHANGED <<node, upos, uwalk>>, pending \subseteq pending',
             upc' = "undo" => upc = "undo"
      PROVE  SweptAt(p)'
  <2>1. Passed(i)
    BY <1>3 DEF Passed
  <2>2. \A q : Exists(q)' = Exists(q)
    BY <1>3 DEF Exists
  <2> QED
    BY <1>0, <1>1, <1>2, <1>3, <2>1, <2>2, SweptHolds DEF ExcuseKept
<1>4. CASE AllUndone \/ CloseReport \/ ExitUninstaller
  <2>1. UNCHANGED <<node, upos, uwalk, pending>>
    <3>1. ~Doing({"CreateDirectory", "CopyFile", "CreateShortcut", "WriteRegistry",
                  "ExecuteScript", "PurgeBranch", "PurgePath"}) \/ CloseReport \/ ExitUninstaller
      BY <1>0, <1>4, UndoPlanLength DEF AllUndone, Doing
    <3>2. RemoveRegistration \/ FinishUninstall \/ CloseReport \/ ExitUninstaller
      BY <3>1 DEF UndoStepTaken, UndoDirectory, DeferSelfDelete, UndoFile,
         DeferRegistration, UndoRegistry, SkipScript, PurgeBranch, PurgeSingle, PurgeNothing,
         OpenPurge, PassOver, PurgeFile, PurgeDir, PurgeLink, Doing
    <3> QED
      BY <3>2 DEF RemoveRegistration, FinishUninstall, CloseReport, ExitUninstaller,
         FailUninstall, hostVars
  <2>2. upc' = "undo" => upc = "undo"
    BY <1>4 DEF AllUndone, CloseReport, ExitUninstaller
  <2> QED
    BY <1>3, <2>1, <2>2
<1>5. CASE upc = "undo" /\ ~AllUndone /\ ~Doing({"PurgePath"})
  <2>1. uwalk = {}
    BY <1>5 DEF WalkShape
  <2>2. uwalk' = uwalk
    BY <1>5 DEF UndoStepTaken, UndoDirectory, DeferSelfDelete, UndoFile,
       DeferRegistration, UndoRegistry, SkipScript, PurgeBranch, PurgeSingle, PurgeNothing,
       OpenPurge, PassOver, PurgeFile, PurgeDir, PurgeLink, RemoveRegistration,
       FinishUninstall, CloseReport, ExitUninstaller, Advance, FailUninstall
  <2>3. upos' = upos \/ upos' = upos + 1
    BY UndoSettles
  <2>4. i <= upos
    BY <1>0, <2>1, <2>2, <2>3 DEF Passed
  <2>5. upos \in 1..Len(UndoPlan(ujournal))
    BY <1>0, <1>5, <2>4, UndoPlanLength DEF AllUndone
  <2>6. UndoPlan(ujournal)[upos].type # "PurgePath"
    BY <1>5, <2>5 DEF Doing
  <2>7. i < upos
    BY <1>0, <2>4, <2>6
  <2> QED
    BY <1>0, <2>5, <2>6, <2>7, PurgesLast
<1>6. CASE Doing({"PurgePath"})
  <2>0. /\ upos \in 1..Len(UndoPlan(ujournal)) /\ upc = "undo"
        /\ UndoPlan(ujournal)[upos].type = "PurgePath"
        /\ Victim = UndoPlan(ujournal)[upos].on
    BY <1>6 DEF Doing, Victim
  <2>1. CASE PurgeSingle
    <3>1. CASE RemoveFileOk(Victim, uelev)
      <4>1. uwalk = {} /\ uwalk' = {} /\ upos' = upos + 1
        BY <2>1, <3>1 DEF PurgeSingle, Advance
      <4>2. i <= upos
        BY <1>0, <4>1 DEF Passed
      <4>3. i < upos => SweptAt(p)
        BY <1>2 DEF Passed
      <4> HIDE DEF on
      <4> QED
        BY <1>0, <2>1, <3>1, <4>2, <4>3, SingleSwept DEF on
    <3>2. CASE ~RemoveFileOk(Victim, uelev)
      <4>1. UNCHANGED <<node, upos, uwalk, pending>>
        BY <2>1, <3>2 DEF PurgeSingle, FailUninstall, RemoveFile, RemoveFileOk, HostTypeOK
      <4> QED
        BY <1>3, <2>0, <4>1
    <3> QED
      BY <3>1, <3>2
  <2>2. CASE OpenPurge
    <3>1. /\ uwalk = {} /\ uwalk' = {Victim} \cup Inside(Victim)
          /\ UNCHANGED <<node, upos, pending, upc>>
      BY <2>2 DEF OpenPurge, hostVars
    <3>2. \A q : Exists(q)' = Exists(q)
      BY <3>1 DEF Exists
    <3>3. CASE i < upos
      <4>1. Passed(i)
        BY <3>3 DEF Passed
      <4> QED
        BY <1>0, <1>1, <1>2, <2>0, <3>1, <3>2, <4>1, SweptHolds DEF ExcuseKept
    <3>4. CASE ~(i < upos)
      <4>1. i = upos
        BY <1>0, <3>1, <3>4 DEF Passed
      <4>2. p \in {Victim} \cup Inside(Victim)
        BY <2>0, <4>1, InsideFacts DEF Span
      <4> QED
        BY <3>1, <4>2 DEF SweptAt
    <3> QED
      BY <3>3, <3>4
  <2>3. ASSUME uwalk # {}, upos' = IF uwalk' = {} THEN upos + 1 ELSE upos
        PROVE  i <= upos /\ Passed(i)
    <3>1. CASE uwalk' = {}
      <4>1. upos' = upos + 1
        BY <2>3, <3>1
      <4> QED
        BY <1>0, <2>3, <3>1, <4>1 DEF Passed
    <3>2. CASE uwalk' # {}
      <4>1. upos' = upos
        BY <2>3, <3>2
      <4> QED
        BY <1>0, <2>3, <4>1 DEF Passed
    <3> QED
      BY <3>1, <3>2
  <2>4. ASSUME NEW f \in FilePath, PurgeFile(f)
        PROVE  SweptAt(p)'
    <3>1. CASE RemoveFileOk(f, uelev)
      <4>1. Walked(f)
        BY <2>4, <3>1 DEF PurgeFile
      <4>2. i <= upos /\ Passed(i)
        BY <2>3, <2>4, <4>1 DEF Walked, PurgeFile
      <4>3. SweptAt(p)
        BY <1>2, <4>2
      <4> QED
        BY <1>0, <2>4, <3>1, <4>1, <4>2, <4>3, FileSwept
    <3>2. CASE ~RemoveFileOk(f, uelev)
      <4>1. UNCHANGED <<node, upos, uwalk, pending>>
        BY <2>4, <3>2 DEF PurgeFile, FailUninstall, RemoveFile, RemoveFileOk, HostTypeOK
      <4> QED
        BY <1>3, <2>0, <4>1
    <3> QED
      BY <3>1, <3>2
  <2>5. ASSUME NEW d \in DirPath, PurgeDir(d)
        PROVE  SweptAt(p)'
    <3>1. CASE RemoveDirOk(d, uelev)
      <4>1. Walked(d)
        BY <2>5, <3>1 DEF PurgeDir
      <4>2. Passed(i)
        BY <2>3, <2>5, <4>1 DEF Walked, PurgeDir
      <4>3. \A q \in Span(on) : Sure(q) => SweptAt(q)
        BY <4>2
      <4>4. PICK top \in Path : top = on
        BY <1>0
      <4> QED
        BY <1>0, <2>5, <3>1, <4>1, <4>3, <4>4, DirSwept
    <3>2. CASE ~RemoveDirOk(d, uelev)
      <4>1. UNCHANGED <<node, upos, uwalk, pending>>
        BY <2>5, <3>2 DEF PurgeDir, FailUninstall, RemoveDir, RemoveDirOk, HostTypeOK
      <4> QED
        BY <1>3, <2>0, <4>1
    <3> QED
      BY <3>1, <3>2
  <2>6. \/ PurgeSingle \/ PurgeNothing \/ OpenPurge
        \/ \E q \in Path : PassOver(q)
        \/ \E f \in FilePath : PurgeFile(f)
        \/ \E d \in DirPath : PurgeDir(d)
        \/ \E l \in Link : PurgeLink(l)
    BY <1>0, <2>0, UndoPlanLength DEF UndoStepTaken, UndoDirectory, DeferSelfDelete, UndoFile,
       DeferRegistration, UndoRegistry, SkipScript, PurgeBranch,
       RemoveRegistration, FinishUninstall, CloseReport, ExitUninstaller, Doing, AllUndone
  <2>7. CASE PurgeNothing
    <3>1. /\ uwalk = {} /\ uwalk' = {} /\ upos' = upos + 1 /\ ~Found(Victim)
          /\ UNCHANGED <<node, pending, uself, upc>>
      BY <2>7 DEF PurgeNothing, Advance, hostVars
    <3>2. CASE i < upos
      <4>1. Passed(i)
        BY <3>2 DEF Passed
      <4>2. \A q : Exists(q)' = Exists(q)
        BY <3>1 DEF Exists
      <4> QED
        BY <1>0, <1>2, <3>1, <4>1, <4>2, SweptHolds DEF ExcuseKept
    <3>3. CASE ~(i < upos)
      <4>1. i = upos
        BY <1>0, <3>1, <3>3 DEF Passed
      <4>2. p \in Span(Victim) /\ Victim \in Path
        BY <1>0, <2>0, <4>1
      <4> QED
        BY <3>1, <4>2, NothingSwept
    <3> QED
      BY <3>2, <3>3
  <2>8. ASSUME NEW q, PassOver(q)
        PROVE  SweptAt(p)'
    <3>1. i <= upos /\ Passed(i)
      BY <2>3, <2>8 DEF PassOver, Walked
    <3>2. SweptAt(p)
      BY <1>2, <3>1
    <3> QED
      BY <1>0, <2>8, <3>1, <3>2, PassedOverSwept
  <2>9. ASSUME NEW l \in Link, PurgeLink(l)
        PROVE  SweptAt(p)'
    <3>1. CASE RemoveLinkOk(l, uelev)
      <4>1. Walked(l)
        BY <2>9, <3>1 DEF PurgeLink
      <4>2. i <= upos /\ Passed(i)
        BY <2>3, <2>9, <4>1 DEF Walked, PurgeLink
      <4>3. SweptAt(p)
        BY <1>2, <4>2
      <4> QED
        BY <1>0, <2>9, <4>1, <4>3, LinkSwept
    <3>2. CASE ~RemoveLinkOk(l, uelev)
      <4>1. UNCHANGED <<node, upos, uwalk, pending>>
        BY <2>9, <3>2 DEF PurgeLink, FailUninstall, RemoveLink, RemoveLinkOk, HostTypeOK
      <4> QED
        BY <1>3, <2>0, <4>1
    <3> QED
      BY <3>1, <3>2
  <2> QED
    BY <2>1, <2>2, <2>4, <2>5, <2>6, <2>7, <2>8, <2>9
<1> QED
  BY <1>4, <1>5, <1>6, UndoRuns

(* A helper that takes its target away comes for the directory of it; and  *)
(* leaves the directory only if that waits, or is still to be visited.     *)
LEMMA HelperSwept ==
  ASSUME TypeOK, TargetKnown, InScope(Manifests), TakesRemovable, RightsHeld, WalkShape, WalkDone,
         Fine, Orderly(ujournal), RunHelper, ~alone', upc' = "undo" => upc = "undo",
         StuckKept, OnlyRemoves, pending \subseteq pending', UNCHANGED <<uwalk, uself>>,
         NEW i \in 1..Len(UndoPlan(ujournal)), UndoPlan(ujournal)[i].type = "PurgePath",
         i <= upos, \A q \in Span(UndoPlan(ujournal)[i].on) : Sure(q) => SweptAt(q),
         NEW p \in Span(UndoPlan(ujournal)[i].on), p \in Path, Clear(p) \/ Seat(p)
  PROVE  SweptAt(p)'
<1> USE TypeParts
<1>0. /\ SweptAt(p) /\ htarget' = htarget
      /\ node' = node => alone' = alone
      /\ HelperRunning => htarget \in Path /\ htarget \in FilePath /\ htarget \in Images
  <2>1. HelperRunning => htarget \in Path /\ htarget \in FilePath /\ htarget \in Images
    BY DEF TargetKnown, HelperTypeOK, TakesRemovable, Path
  <2>2. htarget' = htarget /\ (node' = node => alone' = alone)
    BY DEF RunHelper, StillAlone, HelperStep, Poll, PollExpires, Fallback, RemoveRoot,
       ScheduleSelfCleanup, Tell, ExitHelper, HelperAt
  <2> QED
    BY <2>1, <2>2 DEF Sure
<1>1. ASSUME Exists(htarget), HelperRunning, hpc' \in {"check", "root"},
             node' = [node EXCEPT ![htarget] = "absent"]
      PROVE  SweptAt(p)'
  <2>1. ~Vacated(p) /\ ~Exists(htarget)'
    BY <1>0, <1>1 DEF Vacated, Exists, HostTypeOK
  <2>2. \A q \in Path : q # htarget => Exists(q)' = Exists(q)
    BY <1>1 DEF Exists, HostTypeOK
  <2>3. CASE htarget \in Below(p)
    <3>1. p = Parent(htarget)
      BY <1>0, <1>1, <2>3 DEF Clear, Seat
    <3>2. Vacated(p)'
      BY <1>0, <1>1, <2>1, <3>1 DEF Vacated, Parent
    <3> QED
      BY <3>2 DEF SweptAt
  <2>4. CASE p = htarget
    BY <1>0, <2>1, <2>4 DEF SweptAt
  <2>5. CASE htarget \notin Below(p) /\ p # htarget
    BY <1>0, <2>1, <2>2, <2>5, PathFacts, SweptHolds
  <2> QED
    BY <2>3, <2>4, <2>5
<1>2. ASSUME UNCHANGED node, ~alone /\ Vacated(p) => Vacated(p)'
      PROVE  SweptAt(p)'
  <2>1. \A q : Exists(q)' = Exists(q)
    BY <1>2 DEF Exists
  <2> QED
    BY <1>0, <1>2, <2>1, SweptHolds
<1>3. CASE Poll
  <2>1. HelperRunning /\ ~Vacated(p)
    BY <1>3 DEF Poll, HelperRunning, Vacated
  <2>2. CASE Exists(htarget) /\ Writable(htarget, helev)
    BY <1>1, <1>3, <2>1, <2>2 DEF Poll, HelperAt
  <2>3. CASE ~(Exists(htarget) /\ Writable(htarget, helev))
    <3>1. UNCHANGED node
      BY <1>3, <2>3 DEF Poll, HostTypeOK
    <3> QED
      BY <1>2, <2>1, <3>1
  <2> QED
    BY <2>2, <2>3
<1>4. CASE Fallback
  <2>1. HelperRunning /\ RemoveFile(htarget, helev)
    BY <1>4 DEF Fallback, HelperRunning
  <2>2. CASE Exists(htarget) /\ Writable(htarget, helev)
    <3>1. node' = [node EXCEPT ![htarget] = "absent"] /\ hpc' = "root"
      BY <1>4, <2>1, <2>2 DEF Fallback, HelperAt, RemoveFile, RemoveFileOk
    <3> QED
      BY <1>1, <2>1, <2>2, <3>1
  <2>3. CASE ~(Exists(htarget) /\ Writable(htarget, helev))
    <3>1. UNCHANGED node
      BY <1>0, <2>1, <2>3 DEF RemoveFile, Exists, HostTypeOK
    <3>2. ~Exists(htarget) => hpc' = "root"
      BY <1>4 DEF Fallback, HelperAt, RemoveFileOk
    <3>3. Vacated(p) => Vacated(p)'
      BY <1>0, <3>1, <3>2 DEF Vacated, Exists, Parent
    <3> QED
      BY <1>2, <3>1, <3>3
  <2> QED
    BY <2>2, <2>3
<1>5. CASE RemoveRoot
  <2> DEFINE dir == Parent(htarget)
  <2>0. /\ HelperRunning /\ RemoveDir(dir, helev) /\ pending' = pending
        /\ dir = NoPath \/ dir \in Ancestors[htarget]
    BY <1>5, ParentIsAncestor, <1>0 DEF RemoveRoot, HelperRunning, Parent
  <2>1. dir = NoPath \/ dir \in DirPath
    BY <1>0, <2>0, HostAssumption
  <2> HIDE DEF dir
  <2>2. \A q \in Path : q # dir => Exists(q)' = Exists(q)
    BY <2>0 DEF RemoveDir, Exists, HostTypeOK
  <2>3. CASE p = dir /\ ~Exists(p)'
    BY <2>3 DEF SweptAt
  <2>4. CASE p = dir /\ Exists(p)'
    <3>1. Permitted(p, helev)
      <4>1. p \in Ancestors[htarget] /\ htarget \in Path
        BY <1>0, <2>0, <2>4, PathFacts
      <4>2. p \in AdminPath => htarget \in AdminPath
        BY <4>1, HostAssumption
      <4> QED
        BY <4>2 DEF RightsHeld, Permitted
    <3>2. Exists(p) /\ Occupied(p)
      BY <2>0, <2>4, <3>1 DEF RemoveDir, Exists, HostTypeOK
    <3>3. node' = node
      BY <2>0, <2>4, <3>2 DEF RemoveDir, HostTypeOK
    <3>4. PICK q \in Below(p) : Exists(q)
      BY <3>2 DEF Occupied
    <3>5. /\ Clear(q) /\ q # HelperExe /\ q \in Path
          /\ q \in Span(UndoPlan(ujournal)[i].on) /\ Below(q) \subseteq Below(p)
      BY <3>4, SureBelow, PathFacts DEF Span
    <3>6. Waiting(q) \/ Stuck(q) \/ q \in uwalk
      <4>1. SweptAt(q) /\ ~Vacated(q)
        BY <3>5, ClearNotVacated DEF Sure
      <4> QED
        BY <3>4, <3>5, <4>1 DEF SweptAt
    <3>7. CASE Waiting(q)
      <4>1. Waiting(p)
        BY <3>4, <3>5, <3>7 DEF Waiting
      <4>2. Waiting(p)'
        BY <2>0, <3>3, <4>1 DEF Waiting, Exists, Below
      <4> QED
        BY <4>2 DEF SweptAt
    <3>9. CASE Stuck(q)
      <4>1. Span(q) \subseteq Span(p)
        BY <3>4, PathFacts DEF Span
      <4>2. Stuck(p)
        BY <3>9, <4>1 DEF Stuck
      <4>3. Stuck(p)'
        BY <4>2 DEF StuckKept
      <4> QED
        BY <4>3 DEF SweptAt
    <3>8. CASE q \in uwalk
      <4>1. upc = "undo"
        BY <3>8 DEF WalkDone, Fine
      <4>2. p \in uwalk
        BY <3>4, <3>8, <4>1, WalkAbove
      <4> QED
        BY <4>2 DEF SweptAt
    <3> QED
      BY <3>6, <3>7, <3>8, <3>9
  <2>5. CASE p # dir
    <3>1. ~Vacated(p)
      BY <2>5 DEF Vacated, dir
    <3>2. \A f \in Below(p) \cap (pending \cup {uself}) : Exists(f) => Exists(f)'
      <4>1. \A f \in pending \cup {uself} : f \in FilePath \/ f = NoPath
        BY DEF HostTypeOK, UninstallTypeOK
      <4>2. \A f \in Below(p) \cap (pending \cup {uself}) : f \in Path /\ f # dir
        BY <2>1, <4>1, PathFacts, HostAssumption
      <4> QED
        BY <2>2, <4>2
    <3> QED
      BY <1>0, <2>2, <2>5, <3>1, <3>2, SweptHolds
  <2> QED
    BY <2>3, <2>4, <2>5
<1>6. CASE PollExpires \/ ScheduleSelfCleanup \/ Tell \/ ExitHelper
  <2>1. UNCHANGED node /\ ~Vacated(p)
    BY <1>6 DEF PollExpires, ScheduleSelfCleanup, Tell, ExitHelper, Vacated, hostVars
  <2> QED
    BY <1>2, <2>1
<1> QED
  BY <1>3, <1>4, <1>5, <1>6 DEF RunHelper, HelperStep

(* PowerShell takes nothing away that anything waits for.                  *)
LEMMA PowershellSwept ==
  ASSUME TypeOK, Powershell, StuckKept, OnlyRemoves, pending \subseteq pending',
         upc' = "undo" => upc = "undo", UNCHANGED <<uwalk, uself>>,
         NEW p \in Path, SweptAt(p), Clear(p) \/ Seat(p)
  PROVE  SweptAt(p)'
<1>1. /\ ~Vacated(p)
      /\ node' = [node EXCEPT ![HelperExe] = IF Writable(HelperExe, helev) THEN "absent" ELSE @]
  BY DEF Powershell, PowershellDeletes, Vacated
<1>2. /\ \A q \in Path : Exists(q)' => Exists(q)
      /\ \A q \in Path : q # HelperExe => Exists(q)' = Exists(q)
  BY <1>1, TypeParts DEF Exists, HostTypeOK
<1>3. HelperExe \notin Below(p)
  BY SureBelow
<1> QED
  BY <1>1, <1>2, <1>3, TypeParts, PathFacts, SweptHolds

(* Nor does anything else beside uninstall.                                *)
LEMMA OthersSwept ==
  ASSUME TypeOK, QuietAlone, HelperThere, [Next]_vars, Quiet, ~UninstallBegins,
         ~RunUninstall, ~UninstallBreaks, ~RunHelper, ~HelperBreaks, ~Powershell, ~Reboot,
         StuckKept, pending \subseteq pending', NEW p \in Path, SweptAt(p)
  PROVE  SweptAt(p)'
<1>1. UNCHANGED <<uwalk, uself>> /\ (upc' = "undo" => upc = "undo")
  BY UninstallFrame, UndoEnds
<1>2. ~RunInstall
  BY InstallRuns DEF RunInstall, QuietAlone, Quiet
<1>3. ASSUME NEW m \in Manifests, NEW elev \in Tokens, LaunchInstall(m, elev)
      PROVE  UNCHANGED <<node, alone, hpc, htarget>>
  BY <1>3 DEF LaunchInstall, StartInstall, hostVars, helperVars
<1>4. InstallBreaks \/ OtherProgram \/ UNCHANGED vars => UNCHANGED <<node, alone, hpc, htarget>>
  BY DEF InstallBreaks, InstallFails, OtherProgram, Hold, Release, vars, hostVars, lifeVars,
         helperVars
<1>5. User => UNCHANGED <<node, alone>> /\ hpc = "prompt"
  BY DEF User, UserAnswers, hostVars, lifeVars
<1>6. SpawnHelper => UNCHANGED node /\ ~HelperRunning
  BY DEF SpawnHelper, HelperThere
<1>7. HandOver => UNCHANGED alone /\ (CopyHelper \/ SpawnHelper)
  BY DEF HandOver
<1>8. CASE UNCHANGED <<node, alone>> /\ (Vacated(p) => UNCHANGED <<hpc, htarget>>)
  <2>1. \A q : Exists(q)' = Exists(q)
    BY <1>8 DEF Exists
  <2>2. Vacated(p) => Vacated(p)'
    BY <1>8 DEF Vacated, Parent, Exists
  <2> QED
    BY <1>1, <1>8, <2>1, <2>2, TypeParts, SweptHolds
<1>9. CASE CopyHelper
  <2>1. ~Vacated(p)
    BY <1>9 DEF CopyHelper, HelperRunning, Vacated
  <2>2. /\ \A q \in Path : Exists(q) => Exists(q)'
        /\ p # HelperExe \/ upc' = "undo" => (Exists(p)' => Exists(p))
    BY <1>9, TypeParts DEF CopyHelper, PutFile, FailUninstall, Exists, HostTypeOK
  <2> QED
    BY <1>1, <2>1, <2>2, TypeParts, PathFacts, SweptHolds
<1>10. Vacated(p) => HelperRunning /\ hpc # "prompt"
  BY DEF Vacated, HelperRunning
<1> QED
  BY <1>2, <1>3, <1>4, <1>5, <1>6, <1>7, <1>8, <1>9, <1>10 DEF Next, UninstallBegins

LEMMA SweptStays ==
  ASSUME TypeOK, TargetKnown, InScope(Manifests), QuietAlone, HelperThere, SelfIsImage, TakesRemovable,
         TreeOK, CountOK, RightsHeld, WalkShape, WalkDone, PassedSwept, [Next]_vars
  PROVE  PassedSwept'
<1> USE TypeParts
<1>1. CASE UninstallBegins
  <2>1. upos' = 1 /\ uwalk' = {}
    BY <1>1 DEF UninstallBegins, LaunchUninstall, StartUninstall
  <2>2. \A i \in 1..Len(UndoPlan(ujournal)') : ~Passed(i)'
    BY <2>1 DEF Passed
  <2> QED
    BY <2>1 DEF PassedSwept, Passed
<1>2. CASE ~UninstallBegins
  <2>0. ujournal' = ujournal
    BY <1>2, UninstallFrame
  <2>1. SUFFICES ASSUME Quiet', Undisturbed', Fine', Orderly(ujournal),
                        NEW i \in 1..Len(UndoPlan(ujournal)),
                        UndoPlan(ujournal)[i].type = "PurgePath", Passed(i)',
                        NEW p \in Span(UndoPlan(ujournal)[i].on), Sure(p)'
                 PROVE  SweptAt(p)'
    BY <2>0 DEF PassedSwept, Orderly, Span, Below
  <2>2. /\ Quiet /\ Undisturbed /\ Fine /\ OnlyRemoves /\ pending \subseteq pending'
        /\ ~Reboot /\ ~HelperBreaks /\ ~UninstallBreaks
    BY <1>2, <2>1, StillStays, FineStays
  <2>7. StuckKept
    <3>1. ~RunInstall
      BY <2>2, InstallRuns DEF RunInstall, QuietAlone, Quiet
    <3>2. UNCHANGED uelev
      BY <1>2, UninstallFrame
    <3>3. \A l \in Link : PurgeLink(l) => /\ node'[l] = node[l] \/ Permitted(l, uelev)
                                          /\ Exists(Leads[l])
      BY DEF PurgeLink, RemoveLink, Found, HostTypeOK, Path
    <3> QED
      BY <2>2, <3>1, <3>2, <3>3, LinksStay, StuckStays
  <2>3. \A k \in 1..Len(UndoPlan(ujournal)) :
          UndoPlan(ujournal)[k].type = "PurgePath" /\ Passed(k)
            => \A q \in Span(UndoPlan(ujournal)[k].on) : Sure(q) => SweptAt(q)
    BY <2>1, <2>2 DEF PassedSwept
  <2>4. Sure(p)' = (alone' \/ Clear(p) \/ Seat(p))
    BY DEF Sure, Clear, Seat, Below, Parent
  <2>5. CASE RunUninstall
    <3>1. UndoStepTaken /\ UNCHANGED <<alone, hpc, htarget>>
      BY <2>5 DEF RunUninstall, lifeVars, helperVars
    <3>2. ExcuseKept
      BY <2>2, <3>1, ExcuseStays
    <3>3. Sure(p)
      BY <2>1, <2>4, <3>1 DEF Sure
    <3> QED
      BY <2>1, <2>2, <2>3, <2>7, <3>1, <3>2, <3>3, UndoSwept
  <2>6. CASE ~RunUninstall
    <3>1. UNCHANGED <<upos, uwalk, uself>> /\ (upc' = "undo" => upc = "undo")
      BY <1>2, <2>6, UninstallFrame, UndoEnds
    <3>2. Passed(i) /\ i <= upos
      <4>1. i \in Nat /\ upos \in Nat
        BY DEF UninstallTypeOK
      <4> QED
        BY <2>1, <3>1, <4>1 DEF Passed
    <3>3. p \in Path
      <4>1. UndoPlan(ujournal)[i] \in UndoStep
        BY UndoPlanInSeq, ElementOfSeq DEF UninstallTypeOK
      <4>2. UndoPlan(ujournal)[i].on \in Path
        BY <2>1, <4>1 DEF UndoStep, Step
      <4> QED
        BY <4>2, PathFacts DEF Span
    <3>4. CASE alone'
      <4>1. alone /\ (CopyHelper \/ UNCHANGED node)
        BY <1>2, <2>1, <2>2, <2>6, <3>4, AloneStays
      <4>2. SweptAt(p)
        BY <2>1, <2>3, <3>2, <4>1 DEF Sure
      <4>3. /\ \A q \in Path : Exists(q) => Exists(q)'
            /\ p # HelperExe \/ upc' = "undo" => (Exists(p)' => Exists(p))
        <5>1. CASE UNCHANGED node
          BY <5>1 DEF Exists
        <5>2. CASE CopyHelper
          BY <3>3, <5>2 DEF CopyHelper, PutFile, FailUninstall, Exists, HostTypeOK
        <5> QED
          BY <4>1, <5>1, <5>2
      <4> QED
        BY <2>2, <2>7, <3>1, <3>3, <4>1, <4>2, <4>3, PathFacts, SweptHolds
    <3>5. CASE ~alone'
      <4>1. Clear(p) \/ Seat(p)
        BY <2>1, <2>4, <3>5
      <4>2. \A q \in Span(UndoPlan(ujournal)[i].on) : Sure(q) => SweptAt(q)
        BY <2>1, <2>3, <3>2
      <4>3. SweptAt(p)
        BY <4>1, <4>2 DEF Sure
      <4>4. CASE RunHelper
        BY <2>1, <2>2, <2>7, <3>1, <3>2, <3>3, <3>5, <4>1, <4>2, <4>4, HelperSwept
      <4>5. CASE Powershell
        BY <2>2, <2>7, <3>1, <3>3, <4>1, <4>3, <4>5, PowershellSwept
      <4>6. CASE ~RunHelper /\ ~Powershell
        BY <1>2, <2>2, <2>6, <2>7, <3>3, <4>3, <4>6, OthersSwept
      <4> QED
        BY <4>4, <4>5, <4>6
    <3> QED
      BY <3>4, <3>5
  <2> QED
    BY <2>5, <2>6
<1> QED
  BY <1>1, <1>2

-----------------------------------------------------------------------------
(* The inductive invariant: what uninstall has passed is settled, and what *)
(* the walk has passed is swept.                                           *)
PurgeInv ==
  /\ CoverInv
  /\ TreeOK
  /\ CountOK
  /\ RightsHeld
  /\ WalkShape
  /\ WalkDone
  /\ PassedSwept

LEMMA PurgeParts ==
  PurgeInv => /\ RemovalInv /\ TypeOK /\ TargetKnown /\ InScope(Manifests) /\ QuietAlone /\ HelperThere
              /\ SelfIsImage /\ PassedSettled /\ Through
              /\ ReadFromManifest /\ TakesRemovable
BY DEF PurgeInv, CoverInv, RetryInv, RemovalInv

LEMMA PurgeInitial ==
  ASSUME Init
  PROVE  PurgeInv
<1>1. CoverInv
  BY CoverInitial
<1>2. TreeOK
  BY HostAssumption DEF Init, EngineInit, HostInit, TreeOK, Exists
<1>3. CountOK
  BY DEF Init, EngineInit, CountOK
<1>4. WalkShape /\ WalkDone /\ PassedSwept
  BY DEF Init, UninstallInit, WalkShape, WalkDone, PassedSwept, Fine
<1>5. RightsHeld
  <2>1. ujournal = NoDoc /\ uself = NoPath /\ htarget = NoPath
    BY DEF Init, UninstallInit, HelperInit
  <2>2. Len(ujournal.actions) = 0 /\ NoPath \notin AdminPath
    BY <2>1, HostAssumption DEF NoDoc, Path
  <2> QED
    BY <2>1, <2>2 DEF RightsHeld
<1> QED
  BY <1>1, <1>2, <1>3, <1>4, <1>5 DEF PurgeInv

LEMMA PurgeKept ==
  ASSUME PurgeInv, [Next]_vars
  PROVE  PurgeInv'
<1>1. /\ CoverInv /\ TypeOK /\ TargetKnown /\ InScope(Manifests) /\ QuietAlone /\ HelperThere
      /\ SelfIsImage /\ TakesRemovable /\ TreeOK /\ CountOK /\ RightsHeld /\ WalkShape
      /\ WalkDone /\ PassedSwept
  BY PurgeParts DEF PurgeInv
<1> QED
  BY <1>1, CoverKept, TreeStays, CountOKStays, RightsStay, WalkStays, WalkDoneStays, SweptStays
  DEF PurgeInv

LEMMA PurgeAlways == Spec => []PurgeInv
BY PurgeInitial, PurgeKept, PTL DEF Spec

-----------------------------------------------------------------------------
(* A run that is through, and between which and its beginning nothing has  *)
(* come, has swept its purge paths.                                        *)
LEMMA ThroughPurged ==
  ASSUME PurgeInv, upc \in {"reporting", "exiting", "ok"}, Quiet, Undisturbed, Orderly(ujournal),
         NEW i \in 1..Len(ujournal.purges), NEW p \in Span(ujournal.purges[i]), Sure(p)
  PROVE  SweptAt(p) /\ uwalk = {}
<1>0. /\ Through /\ PassedSwept /\ uwalk = {} /\ Fine
      /\ ujournal \in Doc /\ upos \in Nat
  BY PurgeParts, TypeParts DEF PurgeInv, UninstallTypeOK, WalkDone, Fine
<1> DEFINE a == Len(ujournal.actions)
           b == Len(ujournal.branches)
           c == Len(ujournal.purges)
           n == Len(UndoPlan(ujournal))
<1>2. a \in Nat /\ b \in Nat /\ c \in Nat /\ n = a + b + c
  BY <1>0, UndoPlanShape
<1>3. UndoPlan(ujournal)[a + b + i] = [type |-> "PurgePath", on |-> ujournal.purges[i]]
  BY <1>0, UndoPlanShape
<1>4. a + b + i \in 1..n /\ a + b + i < upos
  <2>1. upos > n
    BY <1>0 DEF Through
  <2> HIDE DEF a, b, c, n
  <2>2. i \in 1..c
    BY DEF c
  <2> QED
    BY <1>0, <1>2, <2>1, <2>2
<1>5. PICK k \in 1..n : k = a + b + i /\ k < upos
  <2> HIDE DEF a, b, n
  <2> QED
    BY <1>4
<1>6. UndoPlan(ujournal)[k].type = "PurgePath" /\ UndoPlan(ujournal)[k].on = ujournal.purges[i]
  <2> HIDE DEF a, b
  <2>1. UndoPlan(ujournal)[k] = [type |-> "PurgePath", on |-> ujournal.purges[i]]
    BY <1>3, <1>5
  <2> QED
    BY <2>1
<1>7. Passed(k)
  BY <1>5 DEF Passed
<1>8. SweptAt(p)
  BY <1>0, <1>5, <1>6, <1>7 DEF PassedSwept
<1> QED
  BY <1>0, <1>8

(* Whatever runs and fails around it, an uninstall that no installation    *)
(* has met and that reports success has left nothing it knew of            *)
(* (uninstall, purge_path).                                                *)
THEOREM SuccessCorrect == Spec => []SuccessMeansErased
<1>1. PurgeInv => SuccessMeansErased
  <2> SUFFICES ASSUME PurgeInv, upc \in {"reporting", "exiting", "ok"}, Quiet
               PROVE  /\ Erased(ujournal)
                      /\ Undisturbed /\ alone /\ Orderly(ujournal) => Purged(ujournal)
    BY DEF SuccessMeansErased
  <2>1. Erased(ujournal)
    BY PurgeParts, ThroughErased
  <2>2. ASSUME Undisturbed, alone, Orderly(ujournal)
        PROVE  Purged(ujournal)
    <3>1. SUFFICES ASSUME NEW i \in 1..Len(ujournal.purges),
                          NEW p \in Span(ujournal.purges[i]), p # HelperExe, Exists(p)
                   PROVE  Waiting(p) \/ Stuck(p)
      BY DEF Purged, PurgeScope, Elements, Span
    <3>2. SweptAt(p) /\ uwalk = {}
      BY <2>2, ThroughPurged DEF Sure
    <3> QED
      BY <2>2, <3>1, <3>2 DEF SweptAt
  <2> QED
    BY <2>1, <2>2
<1> QED
  BY <1>1, PurgeAlways, PTL
-----------------------------------------------------------------------------
(* The directories uninstall has passed *)

DirGone(d) == ~Exists(d) \/ Occupied(d) \/ d \in uwalk

(* The entry of the plan that removes a directory, passed.                 *)
PassedDir(i) ==
  i \in 1..Len(UndoPlan(ujournal)) /\ i < upos
    /\ UndoPlan(ujournal)[i].type = "CreateDirectory"

PassedDirsGone ==
  Uninstalling /\ Quiet /\ alone /\ TopDown(ujournal) =>
    \A i : PassedDir(i) => DirGone(UndoPlan(ujournal)[i].on)

(* In a plan that undoes from the bottom up, nothing lies below a          *)
(* directory an earlier entry removes, and no junction there leads to it.  *)
LEMMA BottomUp ==
  ASSUME NEW j \in Doc, TopDown(j),
         NEW i \in 1..Len(UndoPlan(j)), NEW k \in 1..Len(UndoPlan(j)), i < k,
         UndoPlan(j)[i].type = "CreateDirectory", UndoPlan(j)[k].type # "PurgeBranch"
  PROVE  /\ UndoPlan(j)[k].on \notin Below(UndoPlan(j)[i].on)
         /\ UndoPlan(j)[k].type = "PurgePath" =>
              \A l \in Link \cap Span(UndoPlan(j)[k].on) :
                Below(Leads[l]) \cap Span(UndoPlan(j)[i].on) = {}
<1> DEFINE a == Len(j.actions)
           b == Len(j.branches)
           c == Len(j.purges)
<1>1. a \in Nat /\ b \in Nat /\ c \in Nat
  BY UndoPlanShape
<1>2. i \in 1..a
  BY UndoPlanOrder
<1> DEFINE x == a + 1 - i
<1> HIDE DEF a, b, c
<1>3. x \in 1..a
  BY <1>1, <1>2
<1>4. UndoPlan(j)[i] = j.actions[x]
  BY <1>2, UndoPlanShape DEF a
<1> HIDE DEF x
<1>5. j.actions[x].type = "CreateDirectory"
  BY <1>4
<1>6. CASE UndoPlan(j)[k].type = "PurgePath"
  <2>1. PICK n \in 1..c : UndoPlan(j)[k].on = j.purges[n]
    BY <1>6, UndoPlanOrder DEF c
  <2>2. UndoPlan(j)[k].on \in Elements(j.purges)
    BY <2>1 DEF Elements, c
  <2>3. \A l \in Link \cap Span(UndoPlan(j)[k].on) : Below(Leads[l]) \subseteq Beyond(j.purges)
    BY <2>2 DEF Beyond, PurgeScope
  <2>4. /\ Elements(j.purges) \cap Below(UndoPlan(j)[i].on) = {}
        /\ Beyond(j.purges) \cap Span(UndoPlan(j)[i].on) = {}
    BY <1>3, <1>4, <1>5 DEF TopDown, a
  <2> QED
    BY <2>2, <2>3, <2>4
<1>7. CASE UndoPlan(j)[k].type # "PurgePath"
  <2>1. k \in 1..a
    BY <1>7, UndoPlanOrder DEF a
  <2> DEFINE y == a + 1 - k
  <2>2. y \in 1..(x - 1)
    BY <1>1, <1>2, <2>1 DEF x
  <2>3. UndoPlan(j)[k] = j.actions[y]
    BY <2>1, UndoPlanShape DEF a
  <2> HIDE DEF y
  <2> QED
    BY <1>3, <1>4, <1>5, <1>7, <2>2, <2>3 DEF TopDown, a
<1> QED
  BY <1>6, <1>7

(* A directory that is dealt with stays so while nothing below it goes and *)
(* it is not made again.                                                   *)
LEMMA DirStaysGone ==
  ASSUME NEW d, DirGone(d), Exists(d)' => Exists(d),
         \A p \in Below(d) : Exists(p) => Exists(p)',
         d \in uwalk => d \in uwalk'
  PROVE  DirGone(d)'
<1>1. CASE Occupied(d)
  <2>1. PICK p \in Below(d) : Exists(p)
    BY <1>1 DEF Occupied
  <2>2. Exists(p)' /\ p \in Below(d)'
    BY <2>1 DEF Below
  <2> QED
    BY <2>2 DEF DirGone, Occupied
<1>2. CASE ~Occupied(d)
  BY <1>2 DEF DirGone
<1> QED
  BY <1>1, <1>2

(* What a walk visits of a passed directory lies in its purge path: no     *)
(* junction leads there.                                                   *)
LEMMA WalkNotBeyond ==
  ASSUME UninstallTypeOK, WalkShape, upc = "undo", TopDown(ujournal),
         NEW i, PassedDir(i), NEW q \in uwalk, q \in Span(UndoPlan(ujournal)[i].on)
  PROVE  /\ q \in Span(Victim) /\ Victim \in Path
         /\ Victim \notin Below(UndoPlan(ujournal)[i].on)
         /\ \A l \in Link \cap Span(Victim) :
              Below(Leads[l]) \cap Span(UndoPlan(ujournal)[i].on) = {}
<1>1. Doing({"PurgePath"}) /\ Victim \in Path /\ q \in {Victim} \cup Inside(Victim)
  BY DEF WalkShape
<1>2. upos \in 1..Len(UndoPlan(ujournal)) /\ Victim = UndoPlan(ujournal)[upos].on
        /\ UndoPlan(ujournal)[upos].type = "PurgePath"
  BY <1>1, VictimTyped DEF Doing
<1>3. /\ Victim \notin Below(UndoPlan(ujournal)[i].on)
      /\ \A l \in Link \cap Span(Victim) :
           Below(Leads[l]) \cap Span(UndoPlan(ujournal)[i].on) = {}
  BY <1>2, BottomUp DEF PassedDir, UninstallTypeOK
<1> QED
  BY <1>1, <1>3 DEF Inside, Span

(* ... a passed directory above it therefore lies there too, and is still  *)
(* to be visited.                                                          *)
LEMMA WalkLeavesDirs ==
  ASSUME UninstallTypeOK, WalkShape, upc = "undo", TopDown(ujournal),
         NEW i, PassedDir(i), NEW d, d = UndoPlan(ujournal)[i].on,
         NEW q \in uwalk, q \in Below(d)
  PROVE  d \in uwalk
<1>1. Victim \in Path /\ q \in Span(Victim)
  BY WalkNotBeyond DEF Span
<1>2. Victim \notin Below(d)
  BY WalkNotBeyond DEF Span
<1>3. d \in Ancestors[q] /\ q \in Path /\ Victim \in Ancestors[q] /\ d \in Path
  BY <1>1, <1>2, HostAssumption DEF Span, Below, Path
<1>4. d = Victim \/ d \in Ancestors[Victim] \/ Victim \in Ancestors[d]
  BY <1>3, HostAssumption
<1>5. d \in Span(Victim)
  BY <1>1, <1>2, <1>3, <1>4 DEF Span, Below, Path
<1>6. uwalk \cap Inside(d) # {} /\ uwalk # {}
  BY InsideFacts
<1>7. d \in {Victim} \cup Inside(Victim)
  BY <1>5, InsideFacts DEF Span
<1> QED
  BY <1>6, <1>7 DEF WalkShape

(* A passed directory the walk passes over is not there.                   *)
LEMMA DirPassedOver ==
  ASSUME UninstallTypeOK, TreeOK, WalkShape, TopDown(ujournal), NEW x, PassOver(x),
         NEW i, PassedDir(i), NEW d \in DirPath, d = UndoPlan(ujournal)[i].on,
         d \in uwalk, d \notin uwalk'
  PROVE  ~Exists(d)
<1>0. /\ x \in uwalk /\ ~Found(x) /\ d \in {x} \cup Inside(x) /\ upc = "undo"
      /\ x \in {Victim} \cup Inside(Victim) /\ d \in Path
  BY DEF PassOver, Walked, WalkShape, Doing, Path
<1>1. \A l \in Link \cap Span(Victim) : d \notin Below(Leads[l])
  BY <1>0, WalkNotBeyond DEF Span
<1>2. ASSUME NEW l \in Link \cap Span(x), d \in Below(Leads[l])
      PROVE  FALSE
  <2>1. CASE x \in Span(Victim)
    <3>1. l \in Span(Victim)
      BY <1>2, <2>1, PathFacts DEF Span
    <3> QED
      BY <1>1, <1>2, <3>1
  <2>2. ASSUME NEW k \in Link, x \in Below(Leads[k])
        PROVE  FALSE
    <3>1. l \in Below(Leads[k])
      BY <1>2, <2>2, PathFacts DEF Span
    <3> QED
      BY <1>2, <3>1, UninstallAssumption
  <2> QED
    BY <1>0, <2>1, <2>2 DEF Inside, Span
<1>3. d \in Span(x)
  BY <1>0, <1>2 DEF Inside, Span
<1>4. CASE d = x
  BY <1>0, <1>4, HostAssumption DEF Found
<1>5. CASE d \in Below(x)
  <2>1. x \notin Link
    BY <1>5, PathFacts
  <2> QED
    BY <1>0, <1>5, <2>1 DEF Found, TreeOK, Below
<1> QED
  BY <1>3, <1>4, <1>5 DEF Span

(* Uninstall leaves no directory behind it.                                *)
LEMMA UndoLeavesDirs ==
  ASSUME TypeOK, TreeOK, InScope(Manifests), WalkShape, UndoStepTaken, TopDown(ujournal),
         \A k : PassedDir(k) => DirGone(UndoPlan(ujournal)[k].on),
         NEW i, PassedDir(i)', NEW d, d = UndoPlan(ujournal)[i].on
  PROVE  DirGone(d)'
<1> USE TypeParts
<1>0. /\ ujournal \in Doc /\ upos \in Nat /\ ujournal' = ujournal
      /\ i \in 1..Len(UndoPlan(ujournal)) /\ i \in Nat
      /\ UndoPlan(ujournal)[i].type = "CreateDirectory"
  BY UndoFrame DEF UninstallTypeOK, PassedDir
<1>1. d \in DirPath /\ d \in Path
  <2>1. UndoPlan(ujournal)[i] \in UndoStep
    BY <1>0, UndoPlanInSeq, ElementOfSeq
  <2> QED
    BY <1>0, <2>1 DEF UndoStep, Step, Path
<1>2. CASE ~(i < upos)
  <2>1. upos' # upos
    BY <1>2 DEF PassedDir
  <2>2. upos' = upos + 1
    BY <2>1, UndoSettles
  <2>3. i = upos
    BY <1>0, <1>2, <2>2 DEF PassedDir
  <2>4. Doing({"CreateDirectory"}) \/ ~Doing({"CopyFile", "CreateShortcut", "WriteRegistry",
          "ExecuteScript", "PurgeBranch", "PurgePath", "CreateDirectory"})
    BY <1>0, <2>3 DEF Doing
  <2>5. UndoDirectory
    <3>1. ~(RemoveRegistration \/ FinishUninstall \/ CloseReport \/ ExitUninstaller)
      BY <2>1 DEF RemoveRegistration, FinishUninstall, CloseReport, ExitUninstaller,
         FailUninstall
    <3>2. UndoPlan(ujournal)[upos].type = "CreateDirectory"
      BY <1>0, <2>3
    <3> QED
      BY <3>1, <3>2 DEF UndoStepTaken, DeferSelfDelete, UndoFile, DeferRegistration,
         UndoRegistry, SkipScript, PurgeBranch, PurgeSingle, PurgeNothing, OpenPurge,
         PassOver, PurgeFile, PurgeDir, PurgeLink, Doing
  <2>6. RemoveDir(d, uelev) /\ RemoveDirOk(d, uelev)
    <3>1. ~FailUninstall
      BY <2>1 DEF FailUninstall
    <3>2. Victim = d
      BY <2>3 DEF Victim
    <3> QED
      BY <2>5, <3>1, <3>2 DEF UndoDirectory
  <2>7. CASE Exists(d) /\ Occupied(d)
    <3>1. node' = node
      BY <2>6, <2>7 DEF RemoveDir, HostTypeOK
    <3>2. Occupied(d)'
      BY <2>7, <3>1 DEF Occupied, Exists, Below
    <3> QED
      BY <3>2 DEF DirGone
  <2>8. CASE ~(Exists(d) /\ Occupied(d))
    <3>1. ~Exists(d)'
      BY <1>1, <2>6, <2>8 DEF RemoveDir, RemoveDirOk, Exists, HostTypeOK
    <3> QED
      BY <3>1 DEF DirGone
  <2> QED
    BY <2>7, <2>8
<1>3. CASE i < upos
  <2>1. PassedDir(i) /\ DirGone(d)
    BY <1>0, <1>3 DEF PassedDir
  <2>2. ASSUME NEW types, Doing(types), "PurgeBranch" \notin types
        PROVE  Victim \notin Below(d)
    <3>1. /\ upos \in 1..Len(UndoPlan(ujournal)) /\ Victim = UndoPlan(ujournal)[upos].on
          /\ UndoPlan(ujournal)[upos].type # "PurgeBranch"
      BY <2>2, VictimTyped DEF Doing
    <3> QED
      BY <1>0, <1>3, <3>1, BottomUp
  <2>3. CASE UNCHANGED <<node, uwalk>>
    BY <2>1, <2>3, DirStaysGone DEF Exists
  <2>4. CASE UndoDirectory
    <3>1. RemoveDir(Victim, uelev) /\ Victim \notin Below(d) /\ uwalk' = uwalk
      BY <2>2, <2>4 DEF UndoDirectory, Advance, FailUninstall
    <3> QED
      BY <1>1, <2>1, <3>1, PathFacts, DirStaysGone DEF RemoveDir, Exists, HostTypeOK
  <2>5. CASE UndoFile \/ PurgeSingle
    <3>1. RemoveFile(Victim, uelev) /\ Victim \notin Below(d) /\ uwalk' = uwalk
      BY <2>2, <2>5 DEF UndoFile, PurgeSingle, Advance, FailUninstall
    <3> QED
      BY <1>1, <2>1, <3>1, PathFacts, DirStaysGone DEF RemoveFile, Exists, HostTypeOK
  <2>6. CASE OpenPurge
    <3>1. UNCHANGED node /\ uwalk = {}
      BY <2>6 DEF OpenPurge, hostVars
    <3> QED
      BY <2>1, <3>1, DirStaysGone DEF Exists
  <2>7. ASSUME NEW f \in FilePath, PurgeFile(f)
        PROVE  DirGone(d)'
    <3>1. /\ f \in uwalk /\ upc = "undo" /\ RemoveFile(f, uelev)
          /\ uwalk' = uwalk \/ uwalk' = uwalk \ {f}
      BY <2>7, InsideFacts DEF PurgeFile, Walked, FailUninstall, Doing
    <3>2. f # d
      BY <1>1, PathFacts, HostAssumption
    <3>3. CASE Exists(d) /\ f \in Below(d)
      <4>1. d \in uwalk
        BY <2>1, <3>1, <3>3, WalkLeavesDirs
      <4> QED
        BY <3>1, <3>2, <4>1 DEF DirGone
    <3>4. CASE ~(Exists(d) /\ f \in Below(d))
      <4>1. ~Exists(d) => ~Exists(d)'
        BY <1>1, <3>1 DEF RemoveFile, Exists, HostTypeOK
      <4>2. CASE f \notin Below(d)
        BY <1>1, <2>1, <3>1, <3>2, <4>1, <4>2, PathFacts, DirStaysGone
        DEF RemoveFile, Exists, HostTypeOK
      <4> QED
        BY <3>4, <4>1, <4>2 DEF DirGone
    <3> QED
      BY <3>3, <3>4
  <2>8. ASSUME NEW q \in DirPath, PurgeDir(q)
        PROVE  DirGone(d)'
    <3>1. /\ q \in uwalk /\ upc = "undo" /\ RemoveDir(q, uelev)
          /\ \/ uwalk' = uwalk /\ ~RemoveDirOk(q, uelev)
             \/ uwalk' = uwalk \ {q} /\ RemoveDirOk(q, uelev)
      <4>1. uwalk \ ({q} \cup Inside(q)) = uwalk \ {q}
        BY <2>8 DEF PurgeDir
      <4> QED
        BY <2>8, <4>1 DEF PurgeDir, Walked, FailUninstall, Doing
    <3>2. ~Exists(d) => ~Exists(d)'
      BY <1>1, <3>1 DEF RemoveDir, Exists, HostTypeOK
    <3>3. CASE q = d /\ RemoveDirOk(q, uelev)
      <4>1. CASE Occupied(d)
        <5>1. node' = node
          BY <3>1, <3>3, <4>1 DEF RemoveDir, HostTypeOK
        <5>2. Occupied(d)'
          BY <4>1, <5>1 DEF Occupied, Exists, Below
        <5> QED
          BY <5>2 DEF DirGone
      <4>2. CASE ~Occupied(d)
        <5>1. ~Exists(d)'
          BY <1>1, <3>1, <3>3, <4>2 DEF RemoveDir, RemoveDirOk, Exists, HostTypeOK
        <5> QED
          BY <5>1 DEF DirGone
      <4> QED
        BY <4>1, <4>2
    <3>4. CASE q = d /\ ~RemoveDirOk(q, uelev)
      BY <3>1, <3>4 DEF DirGone
    <3>5. CASE q # d /\ q \in Below(d) /\ Exists(d)
      <4>1. d \in uwalk
        BY <2>1, <3>1, <3>5, WalkLeavesDirs
      <4> QED
        BY <3>1, <3>5, <4>1 DEF DirGone
    <3>6. CASE q # d /\ q \notin Below(d)
      BY <1>1, <2>1, <3>1, <3>2, <3>6, PathFacts, DirStaysGone DEF RemoveDir, Exists, HostTypeOK
    <3> QED
      BY <3>2, <3>3, <3>4, <3>5, <3>6 DEF DirGone
  <2>9. DeferSelfDelete \/ DeferRegistration \/ UndoRegistry \/ SkipScript \/ PurgeBranch
          \/ PurgeNothing \/ RemoveRegistration \/ FinishUninstall \/ CloseReport
          \/ ExitUninstaller
          => UNCHANGED <<node, uwalk>>
    BY DEF DeferSelfDelete, DeferRegistration, UndoRegistry, SkipScript, PurgeBranch,
           PurgeNothing, RemoveRegistration, FinishUninstall, CloseReport, ExitUninstaller,
           Advance, FailUninstall, hostVars
  <2>10. ASSUME NEW l \in Link, PurgeLink(l)
         PROVE  DirGone(d)'
    <3>1. /\ l \in uwalk /\ upc = "undo" /\ RemoveLink(l, uelev)
          /\ uwalk' = uwalk \/ uwalk' = uwalk \ {l}
      <4>1. uwalk \ ({l} \cup Inside(l)) = uwalk \ {l}
        BY <2>10 DEF PurgeLink
      <4> QED
        BY <2>10, <4>1 DEF PurgeLink, Walked, FailUninstall, Doing
    <3>2. l # d
      BY <1>1, HostAssumption
    <3>3. CASE l \in Below(d)
      <4>1. d \in uwalk
        BY <2>1, <3>1, <3>3, WalkLeavesDirs
      <4> QED
        BY <3>1, <3>2, <4>1 DEF DirGone
    <3>4. CASE l \notin Below(d)
      BY <1>1, <2>1, <3>1, <3>2, <3>4, PathFacts, DirStaysGone
      DEF RemoveLink, Exists, HostTypeOK
    <3> QED
      BY <3>3, <3>4
  <2>11. ASSUME NEW x, PassOver(x)
         PROVE  DirGone(d)'
    <3>1. UNCHANGED node
      BY <2>11 DEF PassOver, hostVars
    <3>2. \A q : Exists(q)' = Exists(q)
      BY <3>1 DEF Exists
    <3>3. CASE d \in uwalk /\ d \notin uwalk'
      BY <1>1, <2>1, <2>11, <3>2, <3>3, DirPassedOver DEF DirGone
    <3>4. CASE ~(d \in uwalk /\ d \notin uwalk')
      BY <2>1, <3>2, <3>4, DirStaysGone
    <3> QED
      BY <3>3, <3>4
  <2> QED
    BY <2>3, <2>4, <2>5, <2>6, <2>7, <2>8, <2>9, <2>10, <2>11 DEF UndoStepTaken
<1> QED
  BY <1>2, <1>3

(* A run under way was under way before, or begins.                        *)
LEMMA RunGoesOn ==
  ASSUME [Next]_vars, ~UninstallBegins, Uninstalling'
  PROVE  Uninstalling /\ ~Reboot
<1>1. CASE RunUninstall
  BY <1>1, UndoRuns, UndoFrame DEF RunUninstall, Uninstalling, CloseReport, ExitUninstaller,
     FinishUninstall, AllUndone, Reboot
<1>2. HandOver \/ UninstallBreaks => Uninstalling
  BY DEF HandOver, CopyHelper, SpawnHelper, AllUndone, UninstallBreaks, UninstallFails,
         Uninstalling
<1>3. ~Reboot
  BY DEF Reboot, Uninstalling
<1>4. ASSUME NEW m \in Manifests, NEW elev \in Tokens, LaunchInstall(m, elev)
      PROVE  UNCHANGED upc
  BY <1>4 DEF LaunchInstall, uninstallVars
<1>5. RunInstall \/ InstallBreaks \/ OtherProgram \/ UNCHANGED vars \/ RunHelper
        \/ HelperBreaks \/ User \/ Powershell => UNCHANGED upc
  BY Frames DEF RunInstall, InstallBreaks, OtherProgram, RunHelper, HelperBreaks, User,
     Powershell, vars, uninstallVars
<1> QED
  BY <1>1, <1>2, <1>3, <1>4, <1>5 DEF Next, UninstallBegins, Uninstalling

LEMMA DirsStayGone ==
  ASSUME PurgeInv, PassedDirsGone, [Next]_vars
  PROVE  PassedDirsGone'
<1>0. TypeOK /\ HostTypeOK /\ InScope(Manifests) /\ QuietAlone /\ WalkShape /\ TreeOK
  BY PurgeParts, TypeParts DEF PurgeInv
<1>1. CASE UninstallBegins
  BY <1>1 DEF UninstallBegins, LaunchUninstall, StartUninstall, PassedDirsGone, PassedDir
<1>2. CASE ~UninstallBegins
  <2>0. ujournal' = ujournal
    BY <1>2, UninstallFrame
  <2>1. SUFFICES ASSUME Uninstalling', Quiet', alone', TopDown(ujournal), NEW i, PassedDir(i)',
                        NEW d, d = UndoPlan(ujournal)[i].on
                 PROVE  DirGone(d)'
    BY <2>0 DEF PassedDirsGone, TopDown, Below
  <2>2. /\ Uninstalling /\ Quiet /\ alone
        /\ RunUninstall \/ CopyHelper \/ UNCHANGED node
    BY <1>0, <1>2, <2>1, RunGoesOn, AloneStays
  <2>3. \A k : PassedDir(k) => DirGone(UndoPlan(ujournal)[k].on)
    BY <2>1, <2>2 DEF PassedDirsGone
  <2>4. CASE RunUninstall
    BY <1>0, <2>1, <2>2, <2>3, <2>4, UndoLeavesDirs DEF RunUninstall
  <2>5. CASE ~RunUninstall
    <3>1. UNCHANGED <<upos, uwalk>>
      BY <1>2, <2>5, UninstallFrame
    <3>2. PassedDir(i)
      BY <2>0, <2>1, <3>1 DEF PassedDir
    <3>3. d \in DirPath
      <4>1. UndoPlan(ujournal)[i] \in UndoStep
        BY <1>0, <3>2, TypeParts, UndoPlanInSeq, ElementOfSeq DEF PassedDir, UninstallTypeOK
      <4> QED
        BY <2>1, <3>2, <4>1 DEF PassedDir, UndoStep, Step
    <3>4. /\ \A q \in Path : Exists(q) => Exists(q)'
          /\ \A q \in DirPath : Exists(q)' => Exists(q)
      <4>1. CASE UNCHANGED node
        BY <4>1 DEF Exists
      <4>2. CASE CopyHelper
        BY <1>0, <4>2, CleanupAssumption, HostAssumption
        DEF CopyHelper, PutFile, FailUninstall, Exists, HostTypeOK, Path
      <4> QED
        BY <2>2, <2>5, <4>1, <4>2
    <3>5. DirGone(d)
      BY <2>1, <2>3, <3>2
    <3> QED
      BY <3>1, <3>3, <3>4, <3>5, PathFacts, DirStaysGone
  <2> QED
    BY <2>4, <2>5
<1> QED
  BY <1>1, <1>2

(* An uninstall that no installation and no earlier helper meets leaves no *)
(* directory of the journal behind it empty: none it has passed, whatever  *)
(* it removes later (reverse loop of uninstall, purge_path).               *)
THEOREM DirectoriesCorrect == Spec => []EmptyDirectoriesGo
<1>1. Init => PassedDirsGone
  BY DEF Init, UninstallInit, PassedDirsGone, Uninstalling
<1>2. PurgeInv /\ PassedDirsGone /\ [Next]_vars => PassedDirsGone'
  BY DirsStayGone
<1>3. PurgeInv /\ PassedDirsGone => EmptyDirectoriesGo
  <2> SUFFICES ASSUME PurgeInv, PassedDirsGone, Uninstalling, Quiet, alone, TopDown(ujournal),
                      NEW i \in 1..Len(ujournal.actions), i < upos,
                      Backwards(ujournal.actions)[i].type = "CreateDirectory"
               PROVE  DirGone(Backwards(ujournal.actions)[i].on)
    BY DEF EmptyDirectoriesGo, DirGone
  <2>1. ujournal \in Doc
    BY PurgeParts, TypeParts DEF UninstallTypeOK
  <2>2. /\ i \in 1..Len(UndoPlan(ujournal))
        /\ UndoPlan(ujournal)[i] = Backwards(ujournal.actions)[i]
    BY <2>1, UndoPlanShape, UndoPlanLength
  <2>3. PassedDir(i)
    BY <2>2 DEF PassedDir
  <2> QED
    BY <2>2, <2>3 DEF PassedDirsGone
<1> QED
  BY <1>1, <1>2, <1>3, PurgeAlways, PTL DEF Spec

-----------------------------------------------------------------------------
(* No trace *)

(* What is not the application's was there at first.                       *)
NothingForeign ==
  /\ \A p \in Path \ {HelperExe} : node[p] = "foreign" => Node0[p] = "foreign"
  /\ \A v \in Value : reg[v] = "foreign" => Reg0[v] = "foreign"

(* Install makes the application's, the others only remove.                *)
LEMMA ForeignStays ==
  ASSUME TypeOK, NothingForeign, [Next]_vars
  PROVE  NothingForeign'
<1>0. HostTypeOK /\ InstallTypeOK
  BY TypeParts
<1>1. CASE RunInstall
  <2>1. InstallStep
    BY <1>1 DEF RunInstall
  <2> QED
    BY <1>0, <2>1, InstallMakes DEF NothingForeign
<1>2. CASE OnlyRemoves
  BY <1>2 DEF OnlyRemoves, NothingForeign
<1>3. RunUninstall \/ HandOver \/ UninstallBreaks \/ RunHelper \/ HelperBreaks
        \/ User \/ Powershell => OnlyRemoves
  BY <1>0, RunsRemove
  DEF RunUninstall, HandOver, UninstallBreaks, RunHelper, HelperBreaks, User, Powershell
<1>4. Reboot => OnlyRemoves
  BY <1>0 DEF Reboot, Boot, OnlyRemoves, HostTypeOK, Path
<1>5. CASE UNCHANGED <<node, reg>>
  BY <1>5 DEF NothingForeign
<1>6. ASSUME NEW m \in Manifests, NEW elev \in Tokens, LaunchInstall(m, elev)
      PROVE  UNCHANGED <<node, reg>>
  BY <1>6 DEF LaunchInstall, StartInstall, hostVars
<1>7. UninstallBegins => UNCHANGED <<node, reg>>
  BY DEF UninstallBegins, LaunchUninstall, StartUninstall
<1>8. InstallBreaks \/ OtherProgram \/ UNCHANGED vars => UNCHANGED <<node, reg>>
  BY DEF InstallBreaks, InstallFails, OtherProgram, Hold, Release, vars, hostVars
<1> QED
  BY <1>1, <1>2, <1>3, <1>4, <1>5, <1>6, <1>7, <1>8 DEF Next, UninstallBegins

TraceInv == PurgeInv /\ NothingForeign

LEMMA TraceAlways == Spec => []TraceInv
<1>1. ASSUME Init
      PROVE  TraceInv
  <2>1. node = Node0 /\ reg = Reg0
    BY <1>1 DEF Init, EngineInit, HostInit
  <2> QED
    BY <1>1, <2>1, PurgeInitial DEF TraceInv, NothingForeign
<1>2. ASSUME TraceInv, [Next]_vars
      PROVE  TraceInv'
  BY <1>2, PurgeKept, PurgeParts, ForeignStays DEF TraceInv
<1> QED
  BY <1>1, <1>2, PTL DEF Spec

(* What a manifest declares is made or removable, but for directories.     *)
LEMMA FilesOfScope ==
  ASSUME NEW p \in FilePath \cup Link, p \in Scope(Manifests)
  PROVE  p \in {HelperExe} \cup Made \cup Removable
<1>1. SUFFICES ASSUME NEW m \in Manifests, p \in DeclaredPaths(m)
               PROVE  p \in Made \cup Removable
  BY DEF Scope
<1>2. Makes(m) \subseteq Made /\ PurgeScope(m.purges) \cup Beyond(m.purges) \subseteq Removable
  BY DEF Made, Removable
<1>3. Named(m) \subseteq Path
  <2>1. m \in Manifest
    BY EngineAssumption
  <2>2. Elements(m.dirs) \cup Elements(m.files) \cup Elements(m.shortcuts) \subseteq Path
    BY <2>1 DEF Manifest, Elements, Path
  <2> QED
    BY <2>2, Places DEF Named, Path
<1>4. \A q \in Named(m) : p \notin Ancestors[q]
  BY <1>3, HostAssumption DEF Path
<1> QED
  BY <1>1, <1>2, <1>4 DEF DeclaredPaths, Makes

(* What the journal clears away is gone, once everybody is through and     *)
(* nothing waits for a boot.                                               *)
LEMMA Cleared ==
  ASSUME PurgeInv, AllQuiet, Undisturbed, Orderly(ujournal),
         \A f \in pending : ~Exists(f), \A r \in Elements(ujournal.purges) : ~Stuck(r),
         NEW p \in Clears(ujournal), p \in Path
  PROVE  ~Exists(p)
<1>1. uself \in Images \cup {NoPath} /\ upc \in {"exiting", "ok"} /\ Quiet /\ ~HelperRunning
  BY PurgeParts DEF AllQuiet, SelfIsImage, ReadFromManifest
<1>2. CASE p \in FilesOf(ujournal) \ Images
  <2>1. Doomed(p)
    BY <1>1, <1>2, ThroughErased, PathFacts DEF Erased, PurgeInv, CoverInv, RetryInv
  <2> QED
    BY <2>1 DEF Doomed
<1>3. ASSUME NEW i \in 1..Len(ujournal.purges), NEW q \in Span(ujournal.purges[i]),
             Clear(q) \/ Seat(q), q # HelperExe, Exists(q)
      PROVE  uself \in Below(q) /\ Exists(uself)
  <2>1. SweptAt(q) /\ uwalk = {}
    BY <1>1, <1>3, ThroughPurged DEF Sure
  <2>2. ~Vacated(q)
    BY <1>1 DEF Vacated, HelperRunning
  <2>4. ~Stuck(q)
    <3>1. ~Stuck(ujournal.purges[i])
      BY DEF Elements
    <3>2. Span(q) \subseteq Span(ujournal.purges[i])
      BY <1>3, PathFacts DEF Span
    <3> QED
      BY <3>1, <3>2 DEF Stuck
  <2>3. Waiting(q)
    BY <1>3, <2>1, <2>2, <2>4 DEF SweptAt
  <2> QED
    BY <1>3, <2>3 DEF Waiting
<1>4. CASE p \in PurgeScope(ujournal.purges) \ {HelperExe} /\ (Clear(p) \/ Seat(p))
  <2>1. PICK i \in 1..Len(ujournal.purges) : p \in Span(ujournal.purges[i])
    BY <1>4 DEF PurgeScope, Elements, Span
  <2>2. SUFFICES ASSUME Exists(p)
                 PROVE  FALSE
    OBVIOUS
  <2>3. uself \in Below(p) /\ Exists(uself)
    BY <1>3, <1>4, <2>1, <2>2
  <2>4. uself \in FilePath /\ uself # HelperExe /\ Below(uself) = {}
    BY <1>1, <2>3, LifecycleAssumption, PathFacts
  <2>5. uself \in Span(ujournal.purges[i]) /\ Clear(uself)
    BY <2>1, <2>3, <2>4, PathFacts DEF Span, Clear
  <2> QED
    BY <1>3, <2>3, <2>4, <2>5
<1> QED
  BY <1>2, <1>4 DEF Clears

(* An undisturbed uninstall leaves no trace: what is the application's was *)
(* made for a manifest, and what the journal clears of it is gone; what is *)
(* missing was not there or was the application's to take.  (install,      *)
(* uninstall, cleanup)                                                     *)
THEOREM TraceCorrect == Spec => []LeavesNoTrace
<1>1. TraceInv => LeavesNoTrace
  <2> SUFFICES ASSUME TraceInv, AllQuiet, Undisturbed, Orderly(ujournal),
                      \A f \in pending : ~Exists(f),
                      \A r \in Elements(ujournal.purges) : ~Stuck(r)
               PROVE  /\ \A p \in Path \ Lasting(ujournal) : node[p] = Node0[p]
                      /\ \A v \in Value \ LastingValues(ujournal) : reg[v] = Reg0[v]
    BY DEF LeavesNoTrace
  <2>0. /\ PurgeInv /\ NothingForeign /\ HostTypeOK /\ InScope(Manifests)
        /\ PathsMade /\ ValuesSet /\ DirsTaken
    BY PurgeParts, TypeParts DEF TraceInv, PurgeInv, CoverInv
  <2>1. ASSUME NEW p \in Path, p \notin Lasting(ujournal)
        PROVE  node[p] = Node0[p]
    <3>1. /\ p # HelperExe
          /\ p \in Made => p \in Clears(ujournal)
          /\ p \in Made \cup Removable => Node0[p] # "foreign"
      BY <2>1 DEF Lasting
    <3>2. node[p] # "app"
      <4>1. SUFFICES ASSUME node[p] = "app"
                     PROVE  FALSE
        OBVIOUS
      <4>2. p \in Made
        BY <2>0, <2>1, <3>1, <4>1 DEF PathsMade, Made
      <4>3. ~Exists(p)
        BY <2>0, <2>1, <3>1, <4>2, Cleared
      <4> QED
        BY <4>1, <4>3 DEF Exists
    <3>3. node[p] = "foreign" => Node0[p] = "foreign"
      BY <2>0, <2>1, <3>1 DEF NothingForeign
    <3>4. ASSUME node[p] = "absent", Node0[p] = "foreign"
          PROVE  FALSE
      <4>1. p \notin Removable /\ p \notin Made
        BY <3>1, <3>4
      <4>2. p \notin DirPath
        BY <2>0, <3>4, <4>1 DEF DirsTaken
      <4>3. p \notin Scope(Manifests)
        BY <2>1, <3>1, <4>1, <4>2, FilesOfScope DEF Path
      <4> QED
        BY <2>0, <2>1, <3>4, <4>3 DEF InScope, PathsKept
    <3>5. node[p] \in {"absent", "app", "foreign"} /\ Node0[p] \in {"absent", "foreign"}
      BY <2>0, <2>1, HostAssumption DEF HostTypeOK, Origin
    <3> QED
      BY <3>2, <3>3, <3>4, <3>5
  <2>2. ASSUME NEW v \in Value, v \notin LastingValues(ujournal)
        PROVE  reg[v] = Reg0[v]
    <3>1. /\ v \in AllSet => v \in ClearsValues(ujournal)
          /\ v \in RegScope(Manifests) => Reg0[v] # "foreign"
      BY <2>2 DEF LastingValues
    <3>2. reg[v] # "app"
      <4>1. SUFFICES ASSUME reg[v] = "app"
                     PROVE  FALSE
        OBVIOUS
      <4>2. v \in AllSet
        BY <2>0, <2>2, <4>1 DEF ValuesSet, AllSet
      <4>3. PICK k \in KeysOf(ujournal) \cup Elements(ujournal.branches) : v \in InTree(k)
        BY <3>1, <4>2 DEF ClearsValues
      <4>4. Blank(k)
        <5>1. Erased(ujournal)
          BY <2>0, PurgeParts, ThroughErased DEF AllQuiet
        <5> QED
          BY <4>3, <5>1 DEF Erased
      <4> QED
        BY <4>1, <4>3, <4>4 DEF Blank
    <3>3. reg[v] = "foreign" => Reg0[v] = "foreign"
      BY <2>0, <2>2 DEF NothingForeign
    <3>4. v \notin RegScope(Manifests) => reg[v] = Reg0[v]
      BY <2>0, <2>2 DEF InScope, ValuesKept
    <3>5. reg[v] \in {"absent", "app", "foreign"} /\ Reg0[v] \in {"absent", "foreign"}
      BY <2>0, <2>2, HostAssumption DEF HostTypeOK, Origin
    <3> QED
      BY <3>1, <3>2, <3>3, <3>4, <3>5
  <2> QED
    BY <2>1, <2>2
<1> QED
  BY <1>1, TraceAlways, PTL
=============================================================================
