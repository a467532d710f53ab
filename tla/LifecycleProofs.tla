-------------------------- MODULE LifecycleProofs --------------------------
(***************************************************************************)
(* For every machine, every set of manifests and every bound: Lifecycle    *)
(* keeps its types, and never changes what no manifest declares.           *)
(***************************************************************************)
EXTENDS Correctness, TLAPS, SequenceTheorems

-----------------------------------------------------------------------------
(* Sequences and paths *)

(* A section of the plan is a sequence over what its entries become.       *)
LEMMA SectionInSeq ==
  ASSUME NEW T, NEW S, NEW s \in Seq(T), NEW t,
         \A x \in T : [type |-> t, on |-> x] \in S
  PROVE  Section(t, s) \in Seq(S)
<1>1. Len(s) \in Nat /\ s \in [1..Len(s) -> T]
  BY LenProperties
<1>2. \A i \in 1..Len(s) : [type |-> t, on |-> s[i]] \in S
  BY <1>1
<1> QED
  BY <1>1, <1>2 DEF Section

(* Undoing backwards visits the same actions.                              *)
LEMMA BackwardsInSeq ==
  ASSUME NEW S, NEW s \in Seq(S)
  PROVE  Backwards(s) \in Seq(S)
<1>1. Len(s) \in Nat /\ s \in [1..Len(s) -> S]
  BY LenProperties
<1>2. \A i \in 1..Len(s) : s[Len(s) + 1 - i] \in S
  BY <1>1
<1> QED
  BY <1>1, <1>2 DEF Backwards

(* Concatenating sequences over a set stays over the set.                  *)
LEMMA ConcatInSeq ==
  ASSUME NEW S, NEW s \in Seq(S), NEW t \in Seq(S)
  PROVE  s \o t \in Seq(S)
BY ConcatProperties

(* Appending an element of the set stays over the set.                     *)
LEMMA AppendInSeq ==
  ASSUME NEW S, NEW s \in Seq(S), NEW e \in S
  PROVE  Append(s, e) \in Seq(S)
OBVIOUS

(* The parent of a path is one of its ancestors, when it has any.          *)
LEMMA ParentIsAncestor ==
  ASSUME NEW p \in Path, Ancestors[p] # {}
  PROVE  Parent(p) \in Ancestors[p]
BY HostAssumption DEF Parent

(* The journal and the uninstaller of a manifest have their places.        *)
LEMMA Places ==
  ASSUME NEW m \in Manifests
  PROVE  /\ JournalAt(m) \in JournalPath
         /\ JournalAt(m) \in FilePath
         /\ InstallRoot(m) # NoPath => UninstallerAt(m) \in FilePath
         /\ ArpKey(m) \in Key
BY HostAssumption, EngineAssumption DEF JournalAt, UninstallerAt, ArpKey

(* The plan of install is a sequence of steps.                             *)
LEMMA PlanInSeq ==
  ASSUME NEW m \in Manifests
  PROVE  Plan(m) \in Seq(Step)
<1>0. m \in Manifest
  BY EngineAssumption
<1>1. Section("CreateDirectory", m.dirs) \in Seq(Step)
  BY <1>0, SectionInSeq, \A x \in DirPath : [type |-> "CreateDirectory", on |-> x] \in Step
  DEF Manifest, Step
<1>2. Section("CopyFile", m.files) \in Seq(Step)
  BY <1>0, SectionInSeq, \A x \in FilePath : [type |-> "CopyFile", on |-> x] \in Step
  DEF Manifest, Step
<1>3. Section("WriteRegistry", m.registry) \in Seq(Step)
  BY <1>0, SectionInSeq,
     \A x \in KeyText \X Name : [type |-> "WriteRegistry", on |-> x] \in Step
  DEF Manifest, Step
<1>4. Section("CreateShortcut", m.shortcuts) \in Seq(Step)
  BY <1>0, SectionInSeq, \A x \in FilePath : [type |-> "CreateShortcut", on |-> x] \in Step
  DEF Manifest, Step
<1>5. Section("ExecuteScript", m.scripts) \in Seq(Step)
  BY <1>0, SectionInSeq, \A x \in Script : [type |-> "ExecuteScript", on |-> x] \in Step
  DEF Manifest, Step
<1> QED
  BY <1>1, <1>2, <1>3, <1>4, <1>5, ConcatInSeq DEF Plan

(* The registration writes values of the app's key, and records each.      *)
LEMMA RegistrationInSeq ==
  ASSUME NEW m \in Manifests
  PROVE  /\ ArpValues(m) \in Seq(Key \X Name)
         /\ Len(ArpValues(m)) = Len(ArpNames)
         /\ Section("WriteRegistry", ArpValues(m)) \in Seq(Step)
<1>1. Len(ArpNames) \in Nat /\ ArpNames \in [1..Len(ArpNames) -> Name]
  BY EngineAssumption, LenProperties
<1>2. ArpKey(m) \in Key
  BY Places
<1>3. ArpValues(m) \in [1..Len(ArpNames) -> Key \X Name]
  BY <1>1, <1>2 DEF ArpValues
<1>4. ArpValues(m) \in Seq(Key \X Name) /\ Len(ArpValues(m)) = Len(ArpNames)
  BY <1>1, <1>3 DEF ArpValues
<1>5. \A x \in Key \X Name : [type |-> "WriteRegistry", on |-> x] \in Step
  BY DEF Step, KeyText
<1> QED
  BY <1>4, <1>5, SectionInSeq

(* The plan of uninstall is a sequence of things it knows how to undo.     *)
LEMMA UndoPlanInSeq ==
  ASSUME NEW j \in Doc
  PROVE  UndoPlan(j) \in Seq(UndoStep)
<1>1. Backwards(j.actions) \in Seq(UndoStep)
  <2>1. j.actions \in Seq(Step)
    BY DEF Doc
  <2>2. Backwards(j.actions) \in Seq(Step)
    BY <2>1, BackwardsInSeq
  <2> QED
    BY <2>2, SeqMonotonic, Step \subseteq UndoStep DEF UndoStep
<1>2. Section("PurgeBranch", j.branches) \in Seq(UndoStep)
  BY SectionInSeq, \A x \in KeyText : [type |-> "PurgeBranch", on |-> x] \in UndoStep
  DEF Doc, UndoStep
<1>3. Section("PurgePath", j.purges) \in Seq(UndoStep)
  BY SectionInSeq, \A x \in Path : [type |-> "PurgePath", on |-> x] \in UndoStep
  DEF Doc, UndoStep
<1> QED
  BY <1>1, <1>2, <1>3, ConcatInSeq DEF UndoPlan

-----------------------------------------------------------------------------
(* Types *)

(* A step under way, or an undo under way, is one of the plan.             *)
LEMMA TargetTyped ==
  ASSUME InstallTypeOK, NEW types, AtStep(types)
  PROVE  /\ Plan(iman)[ipos] \in Step
         /\ Plan(iman)[ipos].type \in types
         /\ Target = Plan(iman)[ipos].on
<1>1. Plan(iman) \in Seq(Step)
  BY PlanInSeq DEF InstallTypeOK
<1> QED
  BY <1>1, ElementOfSeq DEF AtStep, Target

(* The entry uninstall is at is one of its plan.                           *)
LEMMA VictimTyped ==
  ASSUME UninstallTypeOK, NEW types, Doing(types)
  PROVE  /\ UndoPlan(ujournal)[upos] \in UndoStep
         /\ UndoPlan(ujournal)[upos].type \in types
         /\ Victim = UndoPlan(ujournal)[upos].on
<1>1. UndoPlan(ujournal) \in Seq(UndoStep)
  BY UndoPlanInSeq DEF UninstallTypeOK
<1> QED
  BY <1>1, ElementOfSeq DEF Doing, Victim

(* Recording a step, failing and preparing keep the types of install.      *)
LEMMA RecordTyped ==
  ASSUME InstallTypeOK, Plan(iman)[ipos] \in Step, Record \/ Abort \/ ParentsReady
  PROVE  InstallTypeOK'
<1>1. CASE Record
  <2>1. Append(tracker, Plan(iman)[ipos]) \in Seq(Step)
    BY AppendInSeq DEF InstallTypeOK
  <2>2. tracker' \in Seq(Step)
    BY <1>1, <2>1 DEF Record
  <2>3. ipos' \in Nat
    BY <1>1 DEF Record, InstallTypeOK
  <2> QED
    BY <1>1, <2>2, <2>3 DEF Record, InstallTypeOK
<1>2. CASE Abort
  BY <1>2 DEF Abort, InstallTypeOK, InstallPc
<1>3. CASE ParentsReady
  BY <1>3 DEF ParentsReady, InstallTypeOK
<1> QED
  BY <1>1, <1>2, <1>3

(* Every step of install keeps the types it can touch.                     *)
LEMMA InstallTyped ==
  ASSUME HostTypeOK, doc \in [JournalPath -> Doc], InstallTypeOK, InstallStep
  PROVE  HostTypeOK' /\ doc' \in [JournalPath -> Doc] /\ InstallTypeOK'
<1> USE DEF hostVars, engineVars
<1>1. CASE CreateDirectory
  <2>1. Plan(iman)[ipos] \in Step
    BY <1>1, TargetTyped DEF CreateDirectory
  <2>2. HostTypeOK' /\ doc' \in [JournalPath -> Doc]
    BY <1>1 DEF CreateDirectory, MakeDirs, HostTypeOK, Origin
  <2> QED
    BY <1>1, <2>1, <2>2, RecordTyped DEF CreateDirectory
<1>2. CASE PrepareParents
  <2>1. Abort \/ ParentsReady
    BY <1>2 DEF PrepareParents
  <2>2. HostTypeOK' /\ doc' \in [JournalPath -> Doc]
    BY <1>2 DEF PrepareParents, MakeDirs, HostTypeOK, Origin
  <2>3. InstallTypeOK'
    BY <2>1 DEF Abort, ParentsReady, InstallTypeOK, InstallPc
  <2> QED
    BY <2>2, <2>3
<1>3. CASE WriteFile
  <2>1. Plan(iman)[ipos] \in Step
    BY <1>3, TargetTyped DEF WriteFile
  <2>2. HostTypeOK' /\ doc' \in [JournalPath -> Doc]
    BY <1>3 DEF WriteFile, PutFile, HostTypeOK, Origin
  <2> QED
    BY <1>3, <2>1, <2>2, RecordTyped DEF WriteFile
<1>4. CASE WriteRegistry
  <2>1. Plan(iman)[ipos] \in Step
    BY <1>4, TargetTyped DEF WriteRegistry
  <2>2. HostTypeOK' /\ doc' \in [JournalPath -> Doc]
    BY <1>4 DEF WriteRegistry, SetValue, HostTypeOK, Origin
  <2> QED
    BY <1>4, <2>1, <2>2, RecordTyped DEF WriteRegistry
<1>5. CASE ExecuteScript
  <2>1. Plan(iman)[ipos] \in Step
    BY <1>5, TargetTyped DEF ExecuteScript
  <2>2. HostTypeOK' /\ doc' \in [JournalPath -> Doc]
    BY <1>5 DEF ExecuteScript, HostTypeOK, Origin
  <2> QED
    BY <1>5, <2>1, <2>2, RecordTyped DEF ExecuteScript
<1>6. CASE InstallUninstaller
  <2>1. UninstallerAt(iman) \in FilePath
    BY <1>6, Places DEF InstallUninstaller, AtUninstaller, InstallTypeOK
  <2>2. [type |-> "CopyFile", on |-> UninstallerAt(iman)] \in Step
    BY <2>1 DEF Step
  <2>3. Append(tracker, [type |-> "CopyFile", on |-> UninstallerAt(iman)]) \in Seq(Step)
    BY <2>2, AppendInSeq DEF InstallTypeOK
  <2>6. tracker' \in Seq(Step)
    BY <1>6, <2>3 DEF InstallUninstaller, Abort, InstallTypeOK
  <2>7. ipc' \in {"register", "failed"} /\ ipos' \in {ipos, 1}
    BY <1>6 DEF InstallUninstaller, Abort
  <2>8. UNCHANGED <<iman, ielev, iready>>
    BY <1>6 DEF InstallUninstaller, Abort
  <2>5. InstallTypeOK'
    BY <2>6, <2>7, <2>8 DEF InstallTypeOK, InstallPc
  <2>4. HostTypeOK' /\ doc' \in [JournalPath -> Doc]
    BY <1>6 DEF InstallUninstaller, PutFile, HostTypeOK, Origin
  <2> QED
    BY <2>5, <2>4
<1>7. CASE RegisterValue
  <2>1. tracker \o Section("WriteRegistry", ArpValues(iman)) \in Seq(Step)
    BY RegistrationInSeq, ConcatInSeq DEF InstallTypeOK
  <2>2. InstallTypeOK'
    <3>1. iman' \in Manifests /\ ielev' \in BOOLEAN /\ iready' \in BOOLEAN
      BY <1>7 DEF RegisterValue, InstallTypeOK
    <3>2. ipos' \in Nat /\ ipc' \in InstallPc
      BY <1>7 DEF RegisterValue, InstallTypeOK, InstallPc
    <3>3. tracker' \in Seq(Step)
      BY <1>7, <2>1 DEF RegisterValue, InstallTypeOK
    <3> QED
      BY <3>1, <3>2, <3>3 DEF InstallTypeOK
  <2>3. HostTypeOK' /\ doc' \in [JournalPath -> Doc]
    BY <1>7 DEF RegisterValue, SetValue, HostTypeOK, Origin
  <2> QED
    BY <2>2, <2>3
<1>8. CASE SkipUninstaller
  BY <1>8 DEF SkipUninstaller, HostTypeOK, InstallTypeOK, InstallPc
<1>9. CASE OpenJournal
  <2>1. [NoDoc EXCEPT !.state = "torn"] \in Doc
    BY EmptySeq DEF NoDoc, Doc
  <2>2. HostTypeOK' /\ doc' \in [JournalPath -> Doc]
    BY <1>9, <2>1 DEF OpenJournal, HostTypeOK, Origin
  <2>3. InstallTypeOK'
    BY <1>9 DEF OpenJournal, InstallTypeOK, InstallPc
  <2> QED
    BY <2>2, <2>3
<1>10. CASE CompleteJournal
  <2>1. JournalOf(iman, tracker) \in Doc
    BY EngineAssumption DEF JournalOf, InstallTypeOK, Manifest, Doc
  <2> QED
    BY <1>10, <2>1 DEF CompleteJournal, HostTypeOK, InstallTypeOK, InstallPc
<1>11. CASE FinishInstall
  BY <1>11 DEF FinishInstall, HostTypeOK, InstallTypeOK, InstallPc
<1> QED
  BY <1>1, <1>2, <1>3, <1>4, <1>5, <1>6, <1>7, <1>8, <1>9, <1>10, <1>11 DEF InstallStep

(* Removals keep the types of the machine, whatever they are aimed at.     *)
LEMMA RemovalsTyped ==
  ASSUME HostTypeOK, UNCHANGED <<held, images>>, NEW elev,
         \/ \E d : RemoveDir(d, elev) /\ UNCHANGED <<reg, pending>>
         \/ \E l : RemoveLink(l, elev) /\ UNCHANGED <<reg, pending>>
         \/ \E f : (f \in FilePath \/ ~Exists(f)) /\ RemoveFile(f, elev) /\ UNCHANGED reg
         \/ \E k : DeleteTree(k, elev) /\ UNCHANGED <<node, pending>>
  PROVE  HostTypeOK'
<1>1. ASSUME NEW d, RemoveDir(d, elev), UNCHANGED <<reg, pending>>
      PROVE  HostTypeOK'
  BY <1>1 DEF RemoveDir, HostTypeOK, Origin
<1>2. ASSUME NEW f, f \in FilePath \/ ~Exists(f), RemoveFile(f, elev), UNCHANGED reg
      PROVE  HostTypeOK'
  BY <1>2 DEF RemoveFile, HostTypeOK, Origin
<1>3. ASSUME NEW k, DeleteTree(k, elev), UNCHANGED <<node, pending>>
      PROVE  HostTypeOK'
  BY <1>3 DEF DeleteTree, HostTypeOK, Origin
<1>4. ASSUME NEW l, RemoveLink(l, elev), UNCHANGED <<reg, pending>>
      PROVE  HostTypeOK'
  BY <1>4 DEF RemoveLink, HostTypeOK, Origin
<1> QED
  BY <1>1, <1>2, <1>3, <1>4

(* Going on, failing and walking keep the types of uninstall.              *)
LEMMA AdvanceTyped ==
  ASSUME UninstallTypeOK, Advance \/ FailUninstall \/ \E p : Walked(p)
  PROVE  UninstallTypeOK'
<1>1. CASE Advance
  <2>1. upos' \in Nat
    BY <1>1 DEF Advance, UninstallTypeOK
  <2> QED
    BY <1>1, <2>1 DEF Advance, UninstallTypeOK
<1>2. CASE FailUninstall
  BY <1>2 DEF FailUninstall, UninstallTypeOK, UninstallPc
<1>3. ASSUME NEW p, Walked(p)
      PROVE  UninstallTypeOK'
  <2>1. upos' \in Nat /\ uwalk' \subseteq Path
    BY <1>3 DEF Walked, UninstallTypeOK
  <2> QED
    BY <1>3, <2>1 DEF Walked, UninstallTypeOK
<1> QED
  BY <1>1, <1>2, <1>3

(* Every step of uninstall keeps the types it can touch.                   *)
LEMMA UninstallTyped ==
  ASSUME HostTypeOK, UninstallTypeOK, UndoStepTaken
  PROVE  HostTypeOK' /\ UninstallTypeOK'
<1> USE DEF hostVars, engineVars
<1>1. CASE UndoDirectory
  BY <1>1, RemovalsTyped, AdvanceTyped DEF UndoDirectory
<1>2. CASE DeferSelfDelete
  <2>1. uself' = uimage /\ UNCHANGED hostVars
    BY <1>2 DEF DeferSelfDelete
  <2>2. upos' \in Nat
    BY <1>2 DEF DeferSelfDelete, UninstallTypeOK
  <2>3. UninstallTypeOK'
    BY <1>2, <2>1, <2>2 DEF DeferSelfDelete, UninstallTypeOK
  <2> QED
    BY <2>1, <2>3 DEF HostTypeOK
<1>3. CASE UndoFile
  <2>1. Victim \in FilePath
    <3>1. Doing({"CopyFile"}) \/ Doing({"CreateShortcut"})
      BY <1>3 DEF UndoFile
    <3> QED
      BY <3>1, VictimTyped DEF UndoStep, Step
  <2>2. HostTypeOK'
    BY <1>3, <2>1, RemovalsTyped DEF UndoFile
  <2> QED
    BY <1>3, <2>2, AdvanceTyped DEF UndoFile
<1>4. CASE DeferRegistration
  <2>1. ukeys' \in Seq(Key)
    <3>1. Victim[1] \in Key
      BY <1>4, HostAssumption DEF DeferRegistration
    <3>2. Append(ukeys, Victim[1]) \in Seq(Key)
      BY <3>1, AppendInSeq DEF UninstallTypeOK
    <3> QED
      BY <1>4, <3>2 DEF DeferRegistration, UninstallTypeOK
  <2>2. upos' \in Nat
    BY <1>4 DEF DeferRegistration, UninstallTypeOK
  <2>3. UninstallTypeOK'
    BY <1>4, <2>1, <2>2 DEF DeferRegistration, UninstallTypeOK
  <2> QED
    BY <1>4, <2>3 DEF DeferRegistration, HostTypeOK
<1>5. CASE UndoRegistry
  BY <1>5, RemovalsTyped, AdvanceTyped DEF UndoRegistry
<1>6. CASE SkipScript
  BY <1>6, AdvanceTyped DEF SkipScript, HostTypeOK
<1>7. CASE PurgeBranch
  <2>1. HostTypeOK'
    BY <1>7, RemovalsTyped DEF PurgeBranch, HostTypeOK
  <2> QED
    BY <1>7, <2>1, AdvanceTyped DEF PurgeBranch
<1>8. CASE PurgeSingle
  <2>1. HostTypeOK'
    BY <1>8, RemovalsTyped DEF PurgeSingle
  <2> QED
    BY <1>8, <2>1, AdvanceTyped DEF PurgeSingle
<1>9. CASE OpenPurge
  <2>1. uwalk' \subseteq Path
    <3>1. Victim \in Path
      BY <1>9, VictimTyped DEF OpenPurge, UndoStep, Step
    <3> QED
      BY <1>9, <3>1 DEF OpenPurge, Inside, Below
  <2>2. UninstallTypeOK'
    BY <1>9, <2>1 DEF OpenPurge, UninstallTypeOK
  <2> QED
    BY <1>9, <2>2 DEF OpenPurge, HostTypeOK
<1>10. ASSUME NEW f \in FilePath, PurgeFile(f)
       PROVE  HostTypeOK' /\ UninstallTypeOK'
  BY <1>10, RemovalsTyped, AdvanceTyped DEF PurgeFile
<1>11. ASSUME NEW d \in DirPath, PurgeDir(d)
       PROVE  HostTypeOK' /\ UninstallTypeOK'
  BY <1>11, RemovalsTyped, AdvanceTyped DEF PurgeDir
<1>12. CASE RemoveRegistration
  <2>1. HostTypeOK'
    BY <1>12, RemovalsTyped DEF RemoveRegistration
  <2>2. Tail(ukeys) \in Seq(Key)
    BY <1>12, HeadTailProperties DEF RemoveRegistration, UninstallTypeOK
  <2>3. UninstallTypeOK'
    <3>1. CASE FailUninstall
      BY <3>1, AdvanceTyped
    <3>2. CASE ~FailUninstall
      BY <1>12, <3>2, <2>2 DEF RemoveRegistration, UninstallTypeOK
    <3> QED
      BY <3>1, <3>2
  <2> QED
    BY <2>1, <2>3
<1>13. CASE FinishUninstall
  BY <1>13 DEF FinishUninstall, HostTypeOK, UninstallTypeOK, UninstallPc
<1>14. CASE ExitUninstaller
  <2>1. HostTypeOK'
    BY <1>14 DEF ExitUninstaller, HostTypeOK
  <2> QED
    BY <1>14, <2>1 DEF ExitUninstaller, UninstallTypeOK, UninstallPc
<1>15. CASE PurgeNothing
  BY <1>15, AdvanceTyped DEF PurgeNothing, HostTypeOK
<1>16. ASSUME NEW p \in Path, PassOver(p)
       PROVE  HostTypeOK' /\ UninstallTypeOK'
  BY <1>16, AdvanceTyped DEF PassOver, HostTypeOK
<1>17. ASSUME NEW l \in Link, PurgeLink(l)
       PROVE  HostTypeOK' /\ UninstallTypeOK'
  BY <1>17, RemovalsTyped, AdvanceTyped DEF PurgeLink
<1>18. CASE CloseReport
  BY <1>18 DEF CloseReport, HostTypeOK, UninstallTypeOK, UninstallPc
<1> QED
  BY <1>1, <1>2, <1>3, <1>4, <1>5, <1>6, <1>7, <1>8, <1>9, <1>10, <1>11, <1>12,
     <1>13, <1>14, <1>15, <1>16, <1>17, <1>18 DEF UndoStepTaken

(* The helper, and the hand-over to it, know which file to remove: without *)
(* this the removal could be aimed at no path at all.                      *)
TargetKnown ==
  /\ upc = "handoff" => uself # NoPath
  /\ HelperRunning => htarget # NoPath

ToldTypeOK == told \in {"nothing", "removed", "reboot", "failed"}

(* Every step of the helper, of PowerShell and of the user keeps the types. *)
LEMMA HelperTyped ==
  ASSUME HostTypeOK, HelperTypeOK, ToldTypeOK, TargetKnown,
         \/ HelperStep \/ SelfCleanupFallback \/ HelperFails
         \/ UserAnswers \/ PowershellDeletes
  PROVE  HostTypeOK' /\ HelperTypeOK' /\ ToldTypeOK' /\ TargetKnown'
<1> USE DEF hostVars, engineVars, uninstallVars, ToldTypeOK
<1>1. CASE Poll
  <2>1. HostTypeOK'
    BY <1>1 DEF Poll, HostTypeOK, Origin
  <2>3. htries' \in 0..MaxTries
    <3>1. htries \in 0..MaxTries /\ htries < MaxTries /\ htries' = htries + 1
      BY <1>1 DEF Poll, HelperTypeOK
    <3> QED
      BY <3>1, CleanupAssumption
  <2>2. HelperTypeOK'
    BY <1>1, <2>3 DEF Poll, HelperAt, HelperTypeOK, HelperPc
  <2> QED
    BY <1>1, <2>1, <2>2 DEF Poll, HelperAt, TargetKnown, HelperRunning
<1>2. CASE PollExpires
  BY <1>2 DEF PollExpires, HelperAt, HostTypeOK, HelperTypeOK, HelperPc,
              TargetKnown, HelperRunning
<1>3. CASE Fallback
  <2>1. htarget \in FilePath
    BY <1>3 DEF Fallback, HelperTypeOK, TargetKnown, HelperRunning
  <2>2. HostTypeOK'
    BY <1>3, <2>1, RemovalsTyped DEF Fallback
  <2>4. hreboot' \in BOOLEAN
    BY <1>3 DEF Fallback
  <2>3. HelperTypeOK'
    BY <1>3, <2>4 DEF Fallback, HelperAt, HelperTypeOK, HelperPc
  <2> QED
    BY <1>3, <2>2, <2>3 DEF Fallback, HelperAt, TargetKnown, HelperRunning
<1>4. CASE RemoveRoot
  <2>1. HostTypeOK'
    BY <1>4, RemovalsTyped DEF RemoveRoot
  <2>2. HelperTypeOK'
    BY <1>4 DEF RemoveRoot, HelperAt, HelperTypeOK, HelperPc
  <2> QED
    BY <1>4, <2>1, <2>2 DEF RemoveRoot, HelperAt, TargetKnown, HelperRunning
<1>5. CASE ScheduleSelfCleanup
  BY <1>5 DEF ScheduleSelfCleanup, HelperAt, HostTypeOK, HelperTypeOK, HelperPc,
              TargetKnown, HelperRunning
<1>6. CASE SelfCleanupFallback
  <2>1. HostTypeOK'
    BY <1>6, RemovalsTyped, CleanupAssumption DEF SelfCleanupFallback
  <2>2. HelperTypeOK'
    BY <1>6 DEF SelfCleanupFallback, HelperAt, HelperTypeOK, HelperPc
  <2> QED
    BY <1>6, <2>1, <2>2 DEF SelfCleanupFallback, HelperAt, TargetKnown, HelperRunning
<1>7. CASE Tell
  <2>1. HelperTypeOK'
    BY <1>7 DEF Tell, HelperAt, HelperTypeOK, HelperPc
  <2>2. ToldTypeOK' /\ HostTypeOK'
    BY <1>7 DEF Tell, HostTypeOK
  <2> QED
    BY <1>7, <2>1, <2>2 DEF Tell, HelperAt, TargetKnown, HelperRunning
<1>8. CASE ExitHelper
  <2>1. HostTypeOK'
    BY <1>8 DEF ExitHelper, HostTypeOK
  <2> QED
    BY <1>8, <2>1 DEF ExitHelper, HelperAt, HelperTypeOK, HelperPc,
                      TargetKnown, HelperRunning
<1>9. CASE HelperFails
  BY <1>9 DEF HelperFails, HelperAt, HostTypeOK, HelperTypeOK, HelperPc,
              TargetKnown, HelperRunning
<1>10. CASE UserAnswers
  BY <1>10 DEF UserAnswers, HelperAt, HostTypeOK, HelperTypeOK, HelperPc,
               TargetKnown, HelperRunning
<1>11. CASE PowershellDeletes
  <2>1. HostTypeOK'
    BY <1>11 DEF PowershellDeletes, HostTypeOK, Origin
  <2> QED
    BY <1>11, <2>1 DEF PowershellDeletes, HelperTypeOK, TargetKnown, HelperRunning
<1> QED
  BY <1>1, <1>2, <1>3, <1>4, <1>5, <1>6, <1>7, <1>8, <1>9, <1>10, <1>11 DEF HelperStep

(* Copying and starting the helper keep the types and give it a target.    *)
LEMMA HandOverTyped ==
  ASSUME HostTypeOK, UninstallTypeOK, HelperTypeOK, TargetKnown,
         CopyHelper \/ SpawnHelper
  PROVE  HostTypeOK' /\ UninstallTypeOK' /\ HelperTypeOK' /\ TargetKnown'
<1> USE DEF engineVars, helperVars
<1>1. CASE CopyHelper
  <2>1. HostTypeOK'
    BY <1>1 DEF CopyHelper, PutFile, HostTypeOK, Origin
  <2>2. HelperTypeOK'
    BY <1>1 DEF CopyHelper, HelperTypeOK
  <2>3. CASE FailUninstall
    <3>1. UninstallTypeOK'
      BY <2>3, AdvanceTyped
    <3> QED
      BY <1>1, <2>1, <2>2, <2>3, <3>1
      DEF CopyHelper, FailUninstall, TargetKnown, HelperRunning
  <2>4. CASE ~FailUninstall
    <3>1. UninstallTypeOK'
      BY <1>1, <2>4 DEF CopyHelper, UninstallTypeOK, UninstallPc
    <3> QED
      BY <1>1, <2>1, <2>2, <2>4, <3>1 DEF CopyHelper, TargetKnown, HelperRunning
  <2> QED
    BY <2>3, <2>4
<1>2. CASE SpawnHelper
  <2>1. HostTypeOK'
    BY <1>2, CleanupAssumption DEF SpawnHelper, HostTypeOK
  <2>2. htries' \in 0..MaxTries
    BY <1>2, CleanupAssumption DEF SpawnHelper
  <2>3. UninstallTypeOK' /\ HelperTypeOK'
    BY <1>2, <2>2 DEF SpawnHelper, UninstallTypeOK, UninstallPc, HelperTypeOK, HelperPc
  <2> QED
    BY <1>2, <2>1, <2>3 DEF SpawnHelper, TargetKnown, HelperRunning
<1> QED
  BY <1>1, <1>2

(* The initial state has its types.                                        *)
LEMMA InitTyped ==
  ASSUME Init
  PROVE  TypeOK /\ TargetKnown
<1> USE HostAssumption, EngineAssumption, CleanupAssumption, LifecycleAssumption
<1>1. NoDoc \in Doc
  BY EmptySeq DEF NoDoc, Doc
<1>2. EngineTypeOK
  BY <1>1 DEF Init, EngineInit, HostInit, EngineTypeOK, HostTypeOK, Origin
<1>3. InstallTypeOK
  <2>1. iman \in Manifests
    BY DEF Init, InstallInit
  <2>2. tracker \in Seq(Step) /\ ipos \in Nat
    BY EmptySeq DEF Init, InstallInit
  <2> QED
    BY <2>1, <2>2 DEF Init, InstallInit, InstallTypeOK, InstallPc
<1>4. UninstallTypeOK
  <2>1. ukeys \in Seq(Key) /\ upos \in Nat
    BY EmptySeq DEF Init, UninstallInit
  <2> QED
    BY <1>1, <2>1 DEF Init, UninstallInit, UninstallTypeOK, UninstallPc, Mode
<1>5. HelperTypeOK
  <2>1. htries \in 0..MaxTries
    BY DEF Init, HelperInit
  <2> QED
    BY <2>1 DEF Init, HelperInit, HelperTypeOK, HelperPc, Mode
<1>6. /\ installs \in 0..MaxInstalls /\ uninstalls \in 0..MaxUninstalls
      /\ boots \in 0..MaxBoots /\ ran = {} /\ quiet = {} /\ alone = FALSE
      /\ trouble \in 0..(MaxFaults + MaxBoots)
  BY DEF Init
<1>7. promised \in Doc
  BY <1>1 DEF Init
<1>8. TargetKnown
  BY DEF Init, UninstallInit, HelperInit, TargetKnown, HelperRunning
<1> QED
  BY <1>2, <1>3, <1>4, <1>5, <1>6, <1>7, <1>8 DEF TypeOK

(* What a step of one process leaves alone keeps its types.                *)
LifeTypeOK ==
  /\ installs \in 0..MaxInstalls
  /\ uninstalls \in 0..MaxUninstalls
  /\ boots \in 0..MaxBoots
  /\ ran \subseteq Manifests
  /\ promised \in Doc
  /\ quiet \subseteq {"uninstall", "helper"}
  /\ alone \in BOOLEAN
  /\ trouble \in 0..(MaxFaults + MaxBoots)

DocTypeOK == doc \in [JournalPath -> Doc]
FaultTypeOK == faults \in 0..MaxFaults

(* TypeOK, taken apart by component.                                       *)
LEMMA TypeParts ==
  /\ TypeOK => /\ HostTypeOK /\ DocTypeOK /\ FaultTypeOK
               /\ InstallTypeOK /\ UninstallTypeOK /\ HelperTypeOK /\ LifeTypeOK
  /\ HostTypeOK' /\ DocTypeOK' /\ FaultTypeOK' /\ InstallTypeOK' /\ UninstallTypeOK'
       /\ HelperTypeOK' /\ LifeTypeOK' => TypeOK'
BY DEF TypeOK, EngineTypeOK, DocTypeOK, FaultTypeOK, LifeTypeOK

(* The types of a component hold on while its variables stay.              *)
LEMMA PartsStay ==
  /\ HostTypeOK /\ UNCHANGED hostVars => HostTypeOK'
  /\ DocTypeOK /\ UNCHANGED doc => DocTypeOK'
  /\ FaultTypeOK /\ (UNCHANGED faults \/ Fault) => FaultTypeOK'
  /\ InstallTypeOK /\ UNCHANGED installVars => InstallTypeOK'
  /\ UninstallTypeOK /\ UNCHANGED <<uninstallVars, told>> => UninstallTypeOK'
  /\ HelperTypeOK /\ UNCHANGED helperVars => HelperTypeOK'
  /\ LifeTypeOK /\ UNCHANGED lifeVars => LifeTypeOK'
  /\ LifeTypeOK /\ UNCHANGED <<runVars, quiet, trouble>> /\ StillAlone => LifeTypeOK'
<1>1. FaultTypeOK /\ (UNCHANGED faults \/ Fault) => FaultTypeOK'
  BY EngineAssumption DEF FaultTypeOK, Fault
<1>2. HostTypeOK /\ UNCHANGED hostVars => HostTypeOK'
  BY DEF HostTypeOK, hostVars
<1>3. InstallTypeOK /\ UNCHANGED installVars => InstallTypeOK'
  BY DEF InstallTypeOK, installVars
<1>4. UninstallTypeOK /\ UNCHANGED <<uninstallVars, told>> => UninstallTypeOK'
  BY DEF UninstallTypeOK, uninstallVars
<1>5. HelperTypeOK /\ UNCHANGED helperVars => HelperTypeOK'
  BY DEF HelperTypeOK, helperVars
<1>6. LifeTypeOK /\ UNCHANGED lifeVars => LifeTypeOK'
  BY DEF LifeTypeOK, lifeVars, runVars
<1>8. LifeTypeOK /\ UNCHANGED <<runVars, quiet, trouble>> /\ StillAlone => LifeTypeOK'
  BY DEF LifeTypeOK, runVars, StillAlone
<1>7. DocTypeOK /\ UNCHANGED doc => DocTypeOK'
  BY DEF DocTypeOK
<1> QED
  BY <1>1, <1>2, <1>3, <1>4, <1>5, <1>6, <1>7, <1>8

(* Which shared variables a step of each process leaves alone.             *)
LEMMA Frames ==
  /\ InstallStep => UNCHANGED <<faults, held, images, pending>>
  /\ UndoStepTaken => UNCHANGED engineVars /\ upc' # "handoff"
  /\ (CopyHelper \/ SpawnHelper) => UNCHANGED engineVars
  /\ (HelperStep \/ UserAnswers \/ PowershellDeletes)
       => UNCHANGED engineVars /\ UNCHANGED uninstallVars
  /\ (HelperFails \/ SelfCleanupFallback)
       => Fault /\ UNCHANGED doc /\ UNCHANGED uninstallVars
<1>1. InstallStep => UNCHANGED <<faults, held, images, pending>>
  BY DEF InstallStep, CreateDirectory, PrepareParents, WriteFile, WriteRegistry,
         ExecuteScript, InstallUninstaller, RegisterValue, SkipUninstaller,
         OpenJournal, CompleteJournal, FinishInstall, engineVars, hostVars
<1>2. UndoStepTaken => UNCHANGED engineVars
  BY DEF UndoStepTaken, UndoDirectory, DeferSelfDelete, UndoFile, DeferRegistration,
         UndoRegistry, SkipScript, PurgeBranch, PurgeSingle, PurgeNothing, OpenPurge,
         PassOver, PurgeFile, PurgeDir, PurgeLink, RemoveRegistration, FinishUninstall,
         CloseReport, ExitUninstaller
<1>3. UndoStepTaken => upc' # "handoff"
  BY DEF UndoStepTaken, UndoDirectory, DeferSelfDelete, UndoFile, DeferRegistration,
         UndoRegistry, SkipScript, PurgeBranch, PurgeSingle, PurgeNothing, OpenPurge,
         PassOver, PurgeFile, PurgeDir, PurgeLink, RemoveRegistration, FinishUninstall,
         CloseReport, ExitUninstaller,
         Advance, FailUninstall, Walked, Doing, AllUndone
<1>4. (CopyHelper \/ SpawnHelper) => UNCHANGED engineVars
  BY DEF CopyHelper, SpawnHelper
<1>5. (HelperStep \/ UserAnswers \/ PowershellDeletes)
        => UNCHANGED engineVars /\ UNCHANGED uninstallVars
  BY DEF HelperStep, Poll, PollExpires, Fallback, RemoveRoot, ScheduleSelfCleanup,
         Tell, ExitHelper, UserAnswers, PowershellDeletes, HelperAt
<1>6. (HelperFails \/ SelfCleanupFallback)
        => Fault /\ UNCHANGED doc /\ UNCHANGED uninstallVars
  BY DEF HelperFails, SelfCleanupFallback, HelperAt
<1> QED
  BY <1>1, <1>2, <1>3, <1>4, <1>5, <1>6

(* TargetKnown holds on while the helper and the hand-over stay.           *)
LEMMA TargetKnownStays ==
  ASSUME TargetKnown, UNCHANGED helperVars, UNCHANGED uninstallVars \/ upc' # "handoff"
  PROVE  TargetKnown'
BY DEF TargetKnown, HelperRunning, helperVars, uninstallVars

(* One case per disjunct of Next.                                          *)
LEMMA NextTyped ==
  ASSUME TypeOK, TargetKnown, [Next]_vars
  PROVE  TypeOK' /\ TargetKnown'
<1> USE TypeParts, PartsStay
<1>1. ASSUME NEW m \in Manifests, NEW elev \in Tokens, LaunchInstall(m, elev)
      PROVE  TypeOK' /\ TargetKnown'
  <2>1. InstallTypeOK'
    <3>1. tracker' \in Seq(Step) /\ ipos' \in Nat
      BY <1>1, EmptySeq DEF LaunchInstall, StartInstall
    <3> QED
      BY <1>1, <3>1, LifecycleAssumption
      DEF LaunchInstall, StartInstall, InstallTypeOK, InstallPc
  <2>2. LifeTypeOK'
    BY <1>1, LifecycleAssumption DEF LaunchInstall, LifeTypeOK
  <2>3. UNCHANGED <<hostVars, engineVars, uninstallVars, told, helperVars>>
    BY <1>1 DEF LaunchInstall, StartInstall
  <2> QED
    BY <2>1, <2>2, <2>3, TargetKnownStays DEF engineVars
<1>2. CASE RunInstall
  <2>1. HostTypeOK' /\ DocTypeOK' /\ InstallTypeOK'
    BY <1>2, InstallTyped DEF RunInstall, DocTypeOK
  <2>2. LifeTypeOK'
    <3>1. JournalAt(iman) \in JournalPath
      BY Places DEF InstallTypeOK
    <3>2. promised' \in Doc
      BY <1>2, <2>1, <3>1 DEF RunInstall, LifeTypeOK, DocTypeOK
    <3> QED
      BY <1>2, <3>2 DEF RunInstall, LifeTypeOK
  <2>3. UNCHANGED <<faults, uninstallVars, told, helperVars>>
    BY <1>2, Frames DEF RunInstall
  <2> QED
    BY <2>1, <2>2, <2>3, TargetKnownStays
<1>3. CASE InstallBreaks
  <2>1. InstallTypeOK'
    BY <1>3 DEF InstallBreaks, InstallFails, Abort, InstallTypeOK, InstallPc
  <2>2. Fault /\ UNCHANGED <<hostVars, doc, lifeVars, uninstallVars, told, helperVars>>
    BY <1>3 DEF InstallBreaks, InstallFails
  <2> QED
    BY <2>1, <2>2, TargetKnownStays
<1>4. ASSUME NEW j \in JournalPath, NEW image \in Images, NEW elev \in Tokens,
             NEW mode \in Modes, LaunchUninstall(j, image, elev, mode)
      PROVE  TypeOK' /\ TargetKnown'
  <2>1. HostTypeOK'
    BY <1>4, LifecycleAssumption DEF LaunchUninstall, StartUninstall, HostTypeOK
  <2>2. UninstallTypeOK'
    <3>1. ukeys' \in Seq(Key) /\ upos' \in Nat /\ ujournal' \in Doc
      BY <1>4, EmptySeq DEF LaunchUninstall, StartUninstall, DocTypeOK
    <3> QED
      BY <1>4, <3>1, LifecycleAssumption
      DEF LaunchUninstall, StartUninstall, UninstallTypeOK, UninstallPc
  <2>3. LifeTypeOK'
    <3>1. NoDoc \in Doc
      BY EmptySeq DEF NoDoc, Doc
    <3>2. faults + boots \in 0..(MaxFaults + MaxBoots)
      BY LifecycleAssumption, EngineAssumption DEF LifeTypeOK, FaultTypeOK
    <3>3. uninstalls' \in 0..MaxUninstalls
      BY <1>4, LifecycleAssumption DEF LaunchUninstall, LifeTypeOK
    <3> QED
      BY <1>4, <3>1, <3>2, <3>3 DEF LaunchUninstall, Begun, LifeTypeOK
  <2>4. UNCHANGED <<engineVars, installVars, helperVars>> /\ upc' # "handoff"
    BY <1>4 DEF LaunchUninstall, StartUninstall
  <2> QED
    BY <2>1, <2>2, <2>3, <2>4, TargetKnownStays DEF engineVars
<1>5. CASE RunUninstall
  <2>1. HostTypeOK' /\ UninstallTypeOK'
    BY <1>5, UninstallTyped DEF RunUninstall
  <2>2. UNCHANGED <<engineVars, lifeVars, installVars, helperVars>> /\ upc' # "handoff"
    BY <1>5, Frames DEF RunUninstall
  <2> QED
    BY <2>1, <2>2, TargetKnownStays DEF engineVars
<1>6. CASE HandOver
  <2>1. HostTypeOK' /\ UninstallTypeOK' /\ HelperTypeOK' /\ TargetKnown'
    BY <1>6, HandOverTyped DEF HandOver
  <2>2. UNCHANGED <<engineVars, installVars>>
    BY <1>6, Frames DEF HandOver
  <2>3. LifeTypeOK'
    BY <1>6 DEF HandOver, Begun, LifeTypeOK, runVars
  <2> QED
    BY <2>1, <2>2, <2>3 DEF engineVars
<1>7. CASE UninstallBreaks
  <2>1. UninstallTypeOK'
    BY <1>7, AdvanceTyped DEF UninstallBreaks, UninstallFails
  <2>2. Fault /\ UNCHANGED <<hostVars, doc, lifeVars, installVars, helperVars>>
          /\ upc' # "handoff"
    BY <1>7 DEF UninstallBreaks, UninstallFails, FailUninstall
  <2> QED
    BY <2>1, <2>2, TargetKnownStays
<1>8. CASE RunHelper \/ HelperBreaks \/ User \/ Powershell
  <2>1. HostTypeOK' /\ HelperTypeOK' /\ ToldTypeOK' /\ TargetKnown'
    BY <1>8, HelperTyped
    DEF RunHelper, HelperBreaks, User, Powershell, ToldTypeOK, UninstallTypeOK
  <2>2. UNCHANGED <<doc, uninstallVars, installVars>> /\ (UNCHANGED faults \/ Fault)
    BY <1>8, Frames DEF RunHelper, HelperBreaks, User, Powershell, engineVars
  <2>4. LifeTypeOK'
    BY <1>8 DEF RunHelper, HelperBreaks, User, Powershell
  <2>3. UninstallTypeOK'
    BY <2>1, <2>2 DEF ToldTypeOK, UninstallTypeOK, uninstallVars
  <2> QED
    BY <2>1, <2>2, <2>3, <2>4
<1>9. CASE OtherProgram
  <2>1. HostTypeOK'
    BY <1>9, LifecycleAssumption DEF OtherProgram, Hold, Release, HostTypeOK
  <2>2. UNCHANGED <<engineVars, installVars, uninstallVars, told, helperVars, lifeVars>>
    BY <1>9 DEF OtherProgram
  <2> QED
    BY <2>1, <2>2, TargetKnownStays DEF engineVars
<1>10. CASE Reboot
  <2>1. HostTypeOK'
    BY <1>10 DEF Reboot, Boot, HostTypeOK, Origin
  <2>2. InstallTypeOK'
    BY <1>10 DEF Reboot, InstallTypeOK, InstallPc
  <2>3. UninstallTypeOK'
    BY <1>10 DEF Reboot, UninstallTypeOK, UninstallPc
  <2>4. HelperTypeOK'
    BY <1>10 DEF Reboot, HelperTypeOK, HelperPc
  <2>5. LifeTypeOK'
    <3>1. boots' \in 0..MaxBoots
      BY <1>10, LifecycleAssumption DEF Reboot, LifeTypeOK
    <3> QED
      BY <1>10, <3>1 DEF Reboot, LifeTypeOK
  <2>6. TargetKnown'
    BY <1>10 DEF Reboot, TargetKnown, HelperRunning
  <2>7. UNCHANGED <<doc, faults>>
    BY <1>10 DEF Reboot, engineVars
  <2> QED
    BY <2>1, <2>2, <2>3, <2>4, <2>5, <2>6, <2>7
<1>11. CASE UNCHANGED vars
  <2>1. UNCHANGED <<hostVars, engineVars, installVars, uninstallVars, told, helperVars,
                    lifeVars>>
    BY <1>11 DEF vars
  <2> QED
    BY <2>1, TargetKnownStays DEF engineVars
<1> QED
  BY <1>1, <1>2, <1>3, <1>4, <1>5, <1>6, <1>7, <1>8, <1>9, <1>10, <1>11 DEF Next

(* Every reachable state of install, uninstall, helper and machine has     *)
(* its type; in particular the deletion attempts of the helper never       *)
(* exceed MaxTries, whatever is deleted at the next boot is a file, and a  *)
(* journal holds steps that uninstall knows how to reverse.                *)
THEOREM TypeCorrect == Spec => []TypeOK
<1>1. Init => TypeOK /\ TargetKnown
  BY InitTyped
<1>2. TypeOK /\ TargetKnown /\ [Next]_vars => (TypeOK /\ TargetKnown)'
  BY NextTyped
<1> QED
  BY <1>1, <1>2, PTL DEF Spec

(* A helper that is running knows the executable it has to remove, and an  *)
(* uninstaller that hands over has one to name (spawn_cleanup_helper).     *)
THEOREM TargetCorrect == Spec => []TargetKnown
<1>1. Init => TypeOK /\ TargetKnown
  BY InitTyped
<1>2. TypeOK /\ TargetKnown /\ [Next]_vars => (TypeOK /\ TargetKnown)'
  BY NextTyped
<1> QED
  BY <1>1, <1>2, PTL DEF Spec
=============================================================================
