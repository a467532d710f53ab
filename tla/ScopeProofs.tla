---------------------------- MODULE ScopeProofs ----------------------------
(***************************************************************************)
(* Whatever is interrupted, repeated or overlaps, the engine changes no    *)
(* path and no registry value outside what the manifests installed so far  *)
(* declare and where the junctions under their purge paths lead.  The      *)
(* argument: a manifest, and with it every journal, tracker, deferred list *)
(* and pending deletion made from it, holds only things whose removal      *)
(* stays in its scope; S stands for a set of manifests.                    *)
(***************************************************************************)
EXTENDS LifecycleProofs

(* The helper's copy is in scope too, but no manifest and no journal names it. *)
ScopedFile(S) == {p \in FilePath \ {HelperExe} : {p} \cup Ancestors[p] \subseteq Scope(S)}
ScopedDir(S) == {p \in DirPath : {p} \cup Ancestors[p] \subseteq Scope(S)}
ScopedPurge(S) == {p \in Path : {p} \cup Inside(p) \subseteq Scope(S)}
ScopedScript(S) == {s \in Script : Leaves[s] \subseteq Scope(S)}
ScopedKey(S) == {k \in Key : InTree(k) \subseteq RegScope(S)}
ScopedText(S) == ScopedKey(S) \cup {BadKey}

(* A planned step may still meet an unparsable key; a recorded one has not.*)
ScopedSteps(S, keys) ==
  [type: {"CreateDirectory"}, on: ScopedDir(S)]
    \cup [type: {"CopyFile", "CreateShortcut"}, on: ScopedFile(S)]
    \cup [type: {"ExecuteScript"}, on: ScopedScript(S)]
    \cup [type: {"WriteRegistry"}, on: keys \X Name]

PlannedStep(S) == ScopedSteps(S, ScopedText(S))
RecordedStep(S) == ScopedSteps(S, ScopedKey(S))

ScopedDoc(S) ==
  [state: {"none", "torn", "whole"}, actions: Seq(RecordedStep(S)),
   branches: Seq(ScopedText(S)), purges: Seq(ScopedPurge(S))]

ScopedUndo(S) ==
  RecordedStep(S) \cup [type: {"PurgeBranch"}, on: ScopedText(S)]
    \cup [type: {"PurgePath"}, on: ScopedPurge(S)]

PathsKept(S) == \A p \in Path \ Scope(S) : node[p] = Node0[p]
ValuesKept(S) == \A v \in Value \ RegScope(S) : reg[v] = Reg0[v]

(* The inductive invariant.                                                *)
InScope(S) ==
  /\ PathsKept(S)
  /\ ValuesKept(S)
  /\ pending \subseteq Scope(S)
  /\ doc \in [JournalPath -> ScopedDoc(S)]
  /\ tracker \in Seq(RecordedStep(S))
  /\ ipc = "register" => ipos \in 1..Len(ArpNames)
  /\ ujournal \in ScopedDoc(S)
  /\ ukeys \in Seq(ScopedKey(S))
  /\ uwalk \subseteq Scope(S)
  /\ uself \in ScopedFile(S) \cup {NoPath}
  /\ htarget \in ScopedFile(S) \cup {NoPath}

-----------------------------------------------------------------------------
(* Manifests are in scope *)

(* A sequence lies over any set its elements lie in.                       *)
LEMMA SeqRefined ==
  ASSUME NEW T, NEW U, NEW s \in Seq(T), \A i \in 1..Len(s) : s[i] \in U
  PROVE  s \in Seq(U)
<1>1. Len(s) \in Nat /\ s \in [1..Len(s) -> T]
  BY LenProperties
<1> QED
  BY <1>1

(* What a manifest names is in scope, with the directories above it.       *)
LEMMA NamedInScope ==
  ASSUME NEW S \in SUBSET Manifests, NEW m \in S, NEW p \in Named(m)
  PROVE  {p} \cup Ancestors[p] \subseteq Scope(S)
<1>1. DeclaredPaths(m) \subseteq Scope(S)
  BY DEF Scope
<1>2. p \in DeclaredPaths(m) /\ Ancestors[p] \subseteq DeclaredPaths(m)
  BY DEF DeclaredPaths
<1> QED
  BY <1>1, <1>2

(* The tree of a key a manifest declares is in scope.                      *)
LEMMA KeyInScope ==
  ASSUME NEW S \in SUBSET Manifests, NEW m \in S, NEW k \in DeclaredKeys(m)
  PROVE  InTree(k) \subseteq RegScope(S)
BY DEF RegScope

(* Every section of a manifest names things in scope.                      *)
LEMMA ManifestInScope ==
  ASSUME NEW S \in SUBSET Manifests, NEW m \in S
  PROVE  /\ m.dirs \in Seq(ScopedDir(S))
         /\ m.files \in Seq(ScopedFile(S))
         /\ m.shortcuts \in Seq(ScopedFile(S))
         /\ m.registry \in Seq(ScopedText(S) \X Name)
         /\ m.scripts \in Seq(ScopedScript(S))
         /\ m.branches \in Seq(ScopedText(S))
         /\ m.purges \in Seq(ScopedPurge(S))
<1>0. m \in Manifest
  BY EngineAssumption
<1>1. m.dirs \in Seq(ScopedDir(S))
  <2>1. m.dirs \in Seq(DirPath)
    BY <1>0 DEF Manifest
  <2>2. \A i \in 1..Len(m.dirs) : m.dirs[i] \in DirPath /\ m.dirs[i] \in Named(m)
    BY <2>1, ElementOfSeq DEF Named, Elements
  <2>3. \A i \in 1..Len(m.dirs) : m.dirs[i] \in ScopedDir(S)
    BY <2>2, NamedInScope DEF ScopedDir
  <2> QED
    BY <2>1, <2>3, SeqRefined
<1>2. m.files \in Seq(ScopedFile(S))
  <2>1. m.files \in Seq(FilePath)
    BY <1>0 DEF Manifest
  <2>2. \A i \in 1..Len(m.files) :
          m.files[i] \in FilePath \ {HelperExe} /\ m.files[i] \in Named(m)
    BY <2>1, ElementOfSeq, CleanupAssumption DEF Named, Elements
  <2>3. \A i \in 1..Len(m.files) : m.files[i] \in ScopedFile(S)
    BY <2>2, NamedInScope DEF ScopedFile
  <2> QED
    BY <2>1, <2>3, SeqRefined
<1>3. m.shortcuts \in Seq(ScopedFile(S))
  <2>1. m.shortcuts \in Seq(FilePath)
    BY <1>0 DEF Manifest
  <2>2. \A i \in 1..Len(m.shortcuts) :
          m.shortcuts[i] \in FilePath \ {HelperExe} /\ m.shortcuts[i] \in Named(m)
    BY <2>1, ElementOfSeq, CleanupAssumption DEF Named, Elements
  <2>3. \A i \in 1..Len(m.shortcuts) : m.shortcuts[i] \in ScopedFile(S)
    BY <2>2, NamedInScope DEF ScopedFile
  <2> QED
    BY <2>1, <2>3, SeqRefined
<1>4. m.registry \in Seq(ScopedText(S) \X Name)
  <2>1. m.registry \in Seq(KeyText \X Name)
    BY <1>0 DEF Manifest
  <2>2. \A i \in 1..Len(m.registry) : m.registry[i] \in KeyText \X Name
    BY <2>1, ElementOfSeq
  <2>4. \A i \in 1..Len(m.registry) :
          m.registry[i][1] # BadKey => m.registry[i][1] \in DeclaredKeys(m)
    BY DEF DeclaredKeys
  <2>3. \A i \in 1..Len(m.registry) : m.registry[i] \in ScopedText(S) \X Name
    BY <2>2, <2>4, KeyInScope DEF ScopedText, ScopedKey, KeyText
  <2> QED
    BY <2>1, <2>3, SeqRefined
<1>5. m.scripts \in Seq(ScopedScript(S))
  <2>1. m.scripts \in Seq(Script)
    BY <1>0 DEF Manifest
  <2>2. \A i \in 1..Len(m.scripts) :
          m.scripts[i] \in Script /\ Leaves[m.scripts[i]] \subseteq DeclaredPaths(m)
    <3>1. \A s \in Elements(m.scripts) : Leaves[s] \subseteq DeclaredPaths(m)
      BY DEF DeclaredPaths
    <3> QED
      BY <2>1, <3>1, ElementOfSeq DEF Elements
  <2>3. DeclaredPaths(m) \subseteq Scope(S)
    BY DEF Scope
  <2>4. \A i \in 1..Len(m.scripts) : m.scripts[i] \in ScopedScript(S)
    BY <2>2, <2>3 DEF ScopedScript
  <2> QED
    BY <2>1, <2>4, SeqRefined
<1>6. m.branches \in Seq(ScopedText(S))
  <2>1. m.branches \in Seq(KeyText)
    BY <1>0 DEF Manifest
  <2>2. \A i \in 1..Len(m.branches) :
          /\ m.branches[i] \in KeyText
          /\ m.branches[i] # BadKey => m.branches[i] \in DeclaredKeys(m)
    <3>1. \A k \in Elements(m.branches) : k # BadKey => k \in DeclaredKeys(m)
      BY DEF DeclaredKeys
    <3> QED
      BY <2>1, <3>1, ElementOfSeq DEF Elements
  <2>3. \A i \in 1..Len(m.branches) : m.branches[i] \in ScopedText(S)
    BY <2>2, KeyInScope DEF ScopedText, ScopedKey, KeyText
  <2> QED
    BY <2>1, <2>3, SeqRefined
<1>7. m.purges \in Seq(ScopedPurge(S))
  <2>1. m.purges \in Seq(Path)
    BY <1>0 DEF Manifest
  <2>2. \A i \in 1..Len(m.purges) :
          /\ m.purges[i] \in Path
          /\ m.purges[i] \in Elements(m.purges)
    BY <2>1, ElementOfSeq DEF Elements
  <2>3. \A p \in Elements(m.purges) : {p} \cup Inside(p) \subseteq Scope(S)
    <3>1. \A p \in Elements(m.purges) :
            /\ {p} \cup Below(p) \subseteq PurgeScope(m.purges)
            /\ Inside(p) \subseteq PurgeScope(m.purges) \cup Beyond(m.purges)
      BY DEF PurgeScope, Span, Inside, Beyond
    <3>2. PurgeScope(m.purges) \cup Beyond(m.purges) \subseteq DeclaredPaths(m)
      BY DEF DeclaredPaths
    <3> QED
      BY <3>1, <3>2 DEF Scope
  <2>4. \A i \in 1..Len(m.purges) : m.purges[i] \in ScopedPurge(S)
    BY <2>2, <2>3 DEF ScopedPurge
  <2> QED
    BY <2>1, <2>4, SeqRefined
<1> QED
  BY <1>1, <1>2, <1>3, <1>4, <1>5, <1>6, <1>7

(* So are the journal, the uninstaller and the registration.               *)
LEMMA PlacesScoped ==
  ASSUME NEW S \in SUBSET Manifests, NEW m \in S
  PROVE  /\ JournalAt(m) \in ScopedFile(S)
         /\ InstallRoot(m) # NoPath => UninstallerAt(m) \in ScopedFile(S)
         /\ ArpKey(m) \in ScopedKey(S)
<1>1. JournalAt(m) \in Named(m) /\ ArpKey(m) \in DeclaredKeys(m)
  BY DEF Named, DeclaredKeys
<1>2. InstallRoot(m) # NoPath => UninstallerAt(m) \in Named(m)
  BY DEF Named
<1>3. JournalAt(m) # HelperExe /\ (InstallRoot(m) # NoPath => UninstallerAt(m) # HelperExe)
  BY Places, EngineAssumption, CleanupAssumption DEF UninstallerAt
<1> QED
  BY <1>1, <1>2, <1>3, Places, NamedInScope, KeyInScope DEF ScopedFile, ScopedKey

(* The plan of install holds only steps in scope.                          *)
LEMMA PlanScoped ==
  ASSUME NEW S \in SUBSET Manifests, NEW m \in S
  PROVE  Plan(m) \in Seq(PlannedStep(S))
<1> USE DEF PlannedStep, ScopedSteps
<1>1. Section("CreateDirectory", m.dirs) \in Seq(PlannedStep(S))
  BY ManifestInScope, SectionInSeq,
     \A x \in ScopedDir(S) : [type |-> "CreateDirectory", on |-> x] \in PlannedStep(S)
<1>2. Section("CopyFile", m.files) \in Seq(PlannedStep(S))
  BY ManifestInScope, SectionInSeq,
     \A x \in ScopedFile(S) : [type |-> "CopyFile", on |-> x] \in PlannedStep(S)
<1>3. Section("WriteRegistry", m.registry) \in Seq(PlannedStep(S))
  BY ManifestInScope, SectionInSeq,
     \A x \in ScopedText(S) \X Name : [type |-> "WriteRegistry", on |-> x] \in PlannedStep(S)
<1>4. Section("CreateShortcut", m.shortcuts) \in Seq(PlannedStep(S))
  BY ManifestInScope, SectionInSeq,
     \A x \in ScopedFile(S) : [type |-> "CreateShortcut", on |-> x] \in PlannedStep(S)
<1>5. Section("ExecuteScript", m.scripts) \in Seq(PlannedStep(S))
  BY ManifestInScope, SectionInSeq,
     \A x \in ScopedScript(S) : [type |-> "ExecuteScript", on |-> x] \in PlannedStep(S)
<1> QED
  BY <1>1, <1>2, <1>3, <1>4, <1>5, ConcatInSeq DEF Plan

(* The registration writes, and records, only values in scope.             *)
LEMMA RegistrationScoped ==
  ASSUME NEW S \in SUBSET Manifests, NEW m \in S
  PROVE  /\ \A i \in 1..Len(ArpNames) : ArpValues(m)[i] \in ScopedKey(S) \X Name
         /\ Section("WriteRegistry", ArpValues(m)) \in Seq(RecordedStep(S))
<1>1. ArpValues(m) \in Seq(Key \X Name) /\ Len(ArpValues(m)) = Len(ArpNames)
  BY RegistrationInSeq
<1>2. \A i \in 1..Len(ArpNames) : ArpValues(m)[i] \in ScopedKey(S) \X Name
  <2>1. \A i \in 1..Len(ArpNames) : ArpNames[i] \in Name
    BY EngineAssumption, ElementOfSeq
  <2> QED
    BY <2>1, PlacesScoped DEF ArpValues
<1>3. ArpValues(m) \in Seq(ScopedKey(S) \X Name)
  BY <1>1, <1>2, SeqRefined
<1>4. \A x \in ScopedKey(S) \X Name : [type |-> "WriteRegistry", on |-> x] \in RecordedStep(S)
  BY DEF RecordedStep, ScopedSteps
<1> QED
  BY <1>2, <1>3, <1>4, SectionInSeq

(* A journal in scope has an undo plan in scope.                           *)
LEMMA UndoPlanScoped ==
  ASSUME NEW S, NEW j \in ScopedDoc(S)
  PROVE  UndoPlan(j) \in Seq(ScopedUndo(S))
<1>1. Backwards(j.actions) \in Seq(ScopedUndo(S))
  <2>1. j.actions \in Seq(RecordedStep(S))
    BY DEF ScopedDoc
  <2>2. Backwards(j.actions) \in Seq(RecordedStep(S))
    BY <2>1, BackwardsInSeq
  <2> QED
    BY <2>2, SeqMonotonic, RecordedStep(S) \subseteq ScopedUndo(S) DEF ScopedUndo
<1>2. Section("PurgeBranch", j.branches) \in Seq(ScopedUndo(S))
  BY SectionInSeq, \A x \in ScopedText(S) : [type |-> "PurgeBranch", on |-> x] \in ScopedUndo(S)
  DEF ScopedDoc, ScopedUndo
<1>3. Section("PurgePath", j.purges) \in Seq(ScopedUndo(S))
  BY SectionInSeq, \A x \in ScopedPurge(S) : [type |-> "PurgePath", on |-> x] \in ScopedUndo(S)
  DEF ScopedDoc, ScopedUndo
<1> QED
  BY <1>1, <1>2, <1>3, ConcatInSeq DEF UndoPlan

(* The step install is at is in scope.                                     *)
LEMMA TargetScoped ==
  ASSUME NEW S \in SUBSET Manifests, iman \in S, NEW types, AtStep(types)
  PROVE  /\ Plan(iman)[ipos] \in PlannedStep(S)
         /\ Plan(iman)[ipos].type \in types
         /\ Target = Plan(iman)[ipos].on
<1>1. Plan(iman) \in Seq(PlannedStep(S))
  BY PlanScoped
<1> QED
  BY <1>1, ElementOfSeq DEF AtStep, Target

(* The entry uninstall is at is in scope.                                  *)
LEMMA VictimScoped ==
  ASSUME NEW S, InScope(S), NEW types, Doing(types)
  PROVE  /\ UndoPlan(ujournal)[upos] \in ScopedUndo(S)
         /\ UndoPlan(ujournal)[upos].type \in types
         /\ Victim = UndoPlan(ujournal)[upos].on
<1>1. UndoPlan(ujournal) \in Seq(ScopedUndo(S))
  BY UndoPlanScoped DEF InScope
<1> QED
  BY <1>1, ElementOfSeq DEF Doing, Victim

-----------------------------------------------------------------------------
(* The wrappers stay where they are sent *)

(* Wrappers that are sent into the scope leave the paths outside alone.    *)
LEMMA PathsStay ==
  ASSUME NEW S, HostTypeOK, PathsKept(S), NEW elev,
         \/ \E ds : ds \subseteq Scope(S) /\ MakeDirs(ds, elev)
         \/ \E f \in Scope(S) : PutFile(f)
         \/ \E d : (d \in Scope(S) \/ d \notin Path) /\ RemoveDir(d, elev)
         \/ \E f \in Scope(S) : RemoveFile(f, elev)
         \/ \E l \in Scope(S) : RemoveLink(l, elev)
         \/ UNCHANGED node
  PROVE  PathsKept(S)'
<1>1. \A p \in Path \ Scope(S) : node'[p] = node[p]
  BY DEF MakeDirs, Missing, PutFile, RemoveDir, RemoveFile, RemoveLink, HostTypeOK
<1> QED
  BY <1>1 DEF PathsKept

(* A removal in scope puts nothing else on the boot-time list.             *)
LEMMA PendingStays ==
  ASSUME NEW S, pending \subseteq Scope(S), NEW elev, NEW f \in Scope(S), RemoveFile(f, elev)
  PROVE  pending' \subseteq Scope(S)
BY DEF RemoveFile

(* Registry wrappers sent into the scope leave other values alone.         *)
LEMMA ValuesStay ==
  ASSUME NEW S, HostTypeOK, ValuesKept(S), NEW elev,
         \/ \E k \in ScopedKey(S) : DeleteTree(k, elev)
         \/ \E v \in ScopedKey(S) \X Name : SetValue(v)
         \/ UNCHANGED reg
  PROVE  ValuesKept(S)'
<1>1. ASSUME NEW k \in ScopedKey(S), DeleteTree(k, elev)
      PROVE  ValuesKept(S)'
  BY <1>1 DEF DeleteTree, ScopedKey, ValuesKept
<1>2. ASSUME NEW v \in ScopedKey(S) \X Name, SetValue(v)
      PROVE  ValuesKept(S)'
  <2>1. v \in Value /\ v[1] \in Key /\ v[1] \in ScopedKey(S)
    BY DEF ScopedKey, Value
  <2>2. v \in InTree(v[1])
    BY <2>1, HostAssumption DEF InTree
  <2>3. v \in RegScope(S)
    BY <2>1, <2>2 DEF ScopedKey
  <2> QED
    BY <1>2, <2>3 DEF SetValue, ValuesKept, HostTypeOK
<1>3. CASE UNCHANGED reg
  BY <1>3 DEF ValuesKept
<1> QED
  BY <1>1, <1>2, <1>3

-----------------------------------------------------------------------------
(* The steps of install *)

InstallScope(S) ==
  /\ PathsKept(S)
  /\ ValuesKept(S)
  /\ doc \in [JournalPath -> ScopedDoc(S)]
  /\ tracker \in Seq(RecordedStep(S))
  /\ ipc = "register" => ipos \in 1..Len(ArpNames)

(* What is recorded, if anything, is a step in scope.                      *)
LEMMA RecordScoped ==
  ASSUME NEW S, InScope(S), ipc = "steps", Plan(iman)[ipos] \in RecordedStep(S) \/ ~Record,
         Record \/ Abort \/ ParentsReady
  PROVE  tracker' \in Seq(RecordedStep(S)) /\ ipc' # "register"
<1>1. CASE Record
  <2>1. Append(tracker, Plan(iman)[ipos]) \in Seq(RecordedStep(S))
    BY <1>1, AppendInSeq DEF InScope
  <2> QED
    BY <1>1, <2>1 DEF Record
<1>2. CASE Abort
  BY <1>2 DEF Abort, InScope
<1>3. CASE ParentsReady
  BY <1>3 DEF ParentsReady, InScope
<1> QED
  BY <1>1, <1>2, <1>3

(* A step of install is a step of a running installation, which it goes on *)
(* with or ends.                                                           *)
LEMMA StepsInstall ==
  InstallStep => Installing /\ UNCHANGED iman
BY DEF InstallStep, CreateDirectory, PrepareParents, WriteFile, WriteRegistry,
       ExecuteScript, InstallUninstaller, RegisterValue, SkipUninstaller, OpenJournal,
       CompleteJournal, FinishInstall, AtStep, AtUninstaller, Installing, Record, Abort,
       ParentsReady

(* Every step of install stays in scope.                                   *)
LEMMA InstallScoped ==
  ASSUME NEW S \in SUBSET Manifests, iman \in S, InScope(S), HostTypeOK, InstallStep
  PROVE  InstallScope(S)'
<1> USE DEF hostVars, engineVars
<1>a. /\ PathsKept(S) /\ ValuesKept(S)
      /\ doc \in [JournalPath -> ScopedDoc(S)] /\ tracker \in Seq(RecordedStep(S))
  BY DEF InScope
<1>1. CASE CreateDirectory
  <2>1. Target \in ScopedDir(S) /\ Plan(iman)[ipos] \in RecordedStep(S)
    BY <1>1, TargetScoped DEF CreateDirectory, PlannedStep, RecordedStep, ScopedSteps
  <2>2. PathsKept(S)'
    BY <1>a, <1>1, <2>1, PathsStay DEF CreateDirectory, ScopedDir
  <2>3. tracker' \in Seq(RecordedStep(S)) /\ ipc' # "register"
    BY <1>1, <2>1, RecordScoped DEF CreateDirectory, AtStep
  <2>4. ValuesKept(S)' /\ UNCHANGED doc
    BY <1>a, <1>1 DEF CreateDirectory, ValuesKept
  <2> QED
    BY <1>a, <2>2, <2>3, <2>4 DEF InstallScope
<1>2. CASE PrepareParents
  <2>1. ipc = "steps" /\ ~Record
    BY <1>2 DEF PrepareParents, AtUninstaller, AtStep, Abort, ParentsReady, Record
  <2>2. tracker' \in Seq(RecordedStep(S)) /\ ipc' # "register"
    BY <1>2, <2>1, RecordScoped DEF PrepareParents
  <2>3. PathsKept(S)'
    <3>1. CASE AtUninstaller
      <4>1. Ancestors[UninstallerAt(iman)] \subseteq Scope(S)
        BY <3>1, PlacesScoped DEF AtUninstaller, ScopedFile
      <4> QED
        BY <1>a, <1>2, <3>1, <4>1, PathsStay DEF PrepareParents
    <3>2. CASE ~AtUninstaller
      <4>1. Ancestors[Target] \subseteq Scope(S)
        BY <1>2, <3>2, TargetScoped DEF PrepareParents, PlannedStep, ScopedSteps, ScopedFile
      <4> QED
        BY <1>a, <1>2, <3>2, <4>1, PathsStay DEF PrepareParents
    <3> QED
      BY <3>1, <3>2
  <2>4. ValuesKept(S)' /\ UNCHANGED doc
    BY <1>a, <1>2 DEF PrepareParents, ValuesKept
  <2> QED
    BY <1>a, <2>2, <2>3, <2>4 DEF InstallScope
<1>3. CASE WriteFile
  <2>1. Target \in ScopedFile(S) /\ Plan(iman)[ipos] \in RecordedStep(S)
    BY <1>3, TargetScoped DEF WriteFile, PlannedStep, RecordedStep, ScopedSteps
  <2>2. PathsKept(S)'
    BY <1>a, <1>3, <2>1, PathsStay DEF WriteFile, ScopedFile
  <2>3. tracker' \in Seq(RecordedStep(S)) /\ ipc' # "register"
    BY <1>3, <2>1, RecordScoped DEF WriteFile, AtStep
  <2>4. ValuesKept(S)' /\ UNCHANGED doc
    BY <1>a, <1>3 DEF WriteFile, ValuesKept
  <2> QED
    BY <1>a, <2>2, <2>3, <2>4 DEF InstallScope
<1>4. CASE WriteRegistry
  <2>1. Target \in ScopedText(S) \X Name
    BY <1>4, TargetScoped DEF WriteRegistry, PlannedStep, ScopedSteps
  <2>2. Target[1] # BadKey => Target \in ScopedKey(S) \X Name
    BY <2>1 DEF ScopedText
  <2>3. Target[1] # BadKey => Plan(iman)[ipos] \in RecordedStep(S)
    BY <1>4, <2>2, TargetScoped DEF WriteRegistry, PlannedStep, RecordedStep, ScopedSteps
  <2>4. ValuesKept(S)'
    BY <1>a, <1>4, <2>2, ValuesStay DEF WriteRegistry
  <2>5. tracker' \in Seq(RecordedStep(S)) /\ ipc' # "register"
    <3>1. CASE Abort
      BY <3>1, <1>a DEF Abort
    <3>2. CASE ~Abort
      BY <1>4, <2>3, <3>2, RecordScoped DEF WriteRegistry, AtStep
    <3> QED
      BY <3>1, <3>2
  <2>6. PathsKept(S)' /\ UNCHANGED doc
    BY <1>a, <1>4 DEF WriteRegistry, PathsKept
  <2> QED
    BY <1>a, <2>4, <2>5, <2>6 DEF InstallScope
<1>5. CASE ExecuteScript
  <2>1. Target \in ScopedScript(S) /\ Plan(iman)[ipos] \in RecordedStep(S)
    BY <1>5, TargetScoped DEF ExecuteScript, PlannedStep, RecordedStep, ScopedSteps
  <2>2. PathsKept(S)'
    BY <1>a, <1>5, <2>1 DEF ExecuteScript, ScopedScript, PathsKept
  <2>3. tracker' \in Seq(RecordedStep(S)) /\ ipc' # "register"
    BY <1>5, <2>1, RecordScoped DEF ExecuteScript, AtStep
  <2>4. ValuesKept(S)' /\ UNCHANGED doc
    BY <1>a, <1>5 DEF ExecuteScript, ValuesKept
  <2> QED
    BY <1>a, <2>2, <2>3, <2>4 DEF InstallScope
<1>6. CASE InstallUninstaller
  <2>1. UninstallerAt(iman) \in ScopedFile(S)
    BY <1>6, PlacesScoped DEF InstallUninstaller, AtUninstaller
  <2>2. PathsKept(S)'
    BY <1>a, <1>6, <2>1, PathsStay DEF InstallUninstaller, ScopedFile
  <2>3. tracker' \in Seq(RecordedStep(S))
    <3>1. [type |-> "CopyFile", on |-> UninstallerAt(iman)] \in RecordedStep(S)
      BY <2>1 DEF RecordedStep, ScopedSteps
    <3>2. Append(tracker, [type |-> "CopyFile", on |-> UninstallerAt(iman)])
            \in Seq(RecordedStep(S))
      BY <1>a, <3>1, AppendInSeq
    <3> QED
      BY <1>a, <1>6, <3>2 DEF InstallUninstaller, Abort
  <2>4. ipc' = "register" => ipos' \in 1..Len(ArpNames)
    <3>1. 1 \in 1..Len(ArpNames)
      BY EngineAssumption, EmptySeq, LenProperties
    <3> QED
      BY <1>6, <3>1 DEF InstallUninstaller, Abort
  <2>5. ValuesKept(S)' /\ UNCHANGED doc
    BY <1>a, <1>6 DEF InstallUninstaller, ValuesKept
  <2> QED
    BY <1>a, <2>2, <2>3, <2>4, <2>5 DEF InstallScope
<1>7. CASE RegisterValue
  <2>0. ipos \in 1..Len(ArpNames) /\ Len(ArpNames) \in Nat
    BY <1>7, EngineAssumption, LenProperties DEF RegisterValue, InScope
  <2>1. ValuesKept(S)'
    <3>1. ArpValues(iman)[ipos] \in ScopedKey(S) \X Name
      BY <2>0, RegistrationScoped
    <3> QED
      BY <1>a, <1>7, <3>1, ValuesStay DEF RegisterValue
  <2>2. tracker' \in Seq(RecordedStep(S))
    <3>1. tracker \o Section("WriteRegistry", ArpValues(iman)) \in Seq(RecordedStep(S))
      BY <1>a, RegistrationScoped, ConcatInSeq
    <3> QED
      BY <1>a, <1>7, <3>1 DEF RegisterValue
  <2>3. ipc' = "register" => ipos' \in 1..Len(ArpNames)
    <3>1. ipc' = "register" => ipos < Len(ArpNames) /\ ipos' = ipos + 1
      BY <1>7 DEF RegisterValue
    <3> QED
      BY <2>0, <3>1
  <2>4. PathsKept(S)' /\ UNCHANGED doc
    BY <1>a, <1>7 DEF RegisterValue, PathsKept
  <2> QED
    BY <1>a, <2>1, <2>2, <2>3, <2>4 DEF InstallScope
<1>8. CASE SkipUninstaller \/ FinishInstall
  BY <1>a, <1>8 DEF SkipUninstaller, FinishInstall, InstallScope, PathsKept, ValuesKept
<1>9. CASE OpenJournal
  <2>1. JournalAt(iman) \in Scope(S) /\ Ancestors[JournalAt(iman)] \subseteq Scope(S)
    BY PlacesScoped DEF ScopedFile
  <2>2. PathsKept(S)'
    BY <1>a, <1>9, <2>1 DEF OpenJournal, Missing, PathsKept
  <2>3. [NoDoc EXCEPT !.state = "torn"] \in ScopedDoc(S)
    BY EmptySeq DEF NoDoc, ScopedDoc
  <2>4. doc' \in [JournalPath -> ScopedDoc(S)]
    BY <1>a, <1>9, <2>3 DEF OpenJournal
  <2>5. UNCHANGED <<reg, tracker>> /\ ipc' # "register"
    BY <1>9 DEF OpenJournal
  <2> QED
    BY <1>a, <2>2, <2>4, <2>5 DEF InstallScope, ValuesKept
<1>10. CASE CompleteJournal
  <2>1. JournalOf(iman, tracker) \in ScopedDoc(S)
    BY <1>a, ManifestInScope DEF JournalOf, ScopedDoc
  <2>2. doc' \in [JournalPath -> ScopedDoc(S)]
    BY <1>a, <1>10, <2>1 DEF CompleteJournal
  <2>3. UNCHANGED <<node, reg, tracker>> /\ ipc' # "register"
    BY <1>10 DEF CompleteJournal
  <2> QED
    BY <1>a, <2>2, <2>3 DEF InstallScope, PathsKept, ValuesKept
<1> QED
  BY <1>1, <1>2, <1>3, <1>4, <1>5, <1>6, <1>7, <1>8, <1>9, <1>10 DEF InstallStep

-----------------------------------------------------------------------------
(* The steps of uninstall *)

DeferredInScope(S) ==
  /\ ujournal \in ScopedDoc(S)
  /\ ukeys \in Seq(ScopedKey(S))
  /\ uwalk \subseteq Scope(S)
  /\ uself \in ScopedFile(S) \cup {NoPath}

UninstallScope(S) ==
  /\ PathsKept(S)
  /\ ValuesKept(S)
  /\ pending \subseteq Scope(S)
  /\ DeferredInScope(S)

(* Going on, failing and walking keep the deferred work in scope.          *)
LEMMA AdvanceScoped ==
  ASSUME NEW S, DeferredInScope(S), Advance \/ FailUninstall \/ \E p : Walked(p)
  PROVE  DeferredInScope(S)'
BY DEF DeferredInScope, Advance, FailUninstall, Walked

(* Every step of uninstall stays in scope.                                 *)
LEMMA UninstallScoped ==
  ASSUME NEW S, InScope(S), HostTypeOK, UninstallTypeOK, UndoStepTaken
  PROVE  UninstallScope(S)'
<1> USE DEF hostVars, engineVars
<1>a. PathsKept(S) /\ ValuesKept(S) /\ pending \subseteq Scope(S) /\ DeferredInScope(S)
  BY DEF InScope, DeferredInScope
<1>b. UNCHANGED node => PathsKept(S)'
  BY <1>a DEF PathsKept
<1>c. UNCHANGED reg => ValuesKept(S)'
  BY <1>a DEF ValuesKept
<1>1. CASE UndoDirectory
  <2>1. Victim \in Scope(S)
    BY <1>1, VictimScoped DEF UndoDirectory, ScopedUndo, RecordedStep, ScopedSteps, ScopedDir
  <2>2. PathsKept(S)'
    BY <1>a, <1>1, <2>1, PathsStay DEF UndoDirectory
  <2> QED
    BY <1>a, <1>c, <1>1, <2>2, AdvanceScoped DEF UndoDirectory, UninstallScope
<1>2. CASE DeferSelfDelete
  <2>1. Victim \in ScopedFile(S)
    BY <1>2, VictimScoped DEF DeferSelfDelete, ScopedUndo, RecordedStep, ScopedSteps
  <2>2. DeferredInScope(S)'
    BY <1>a, <1>2, <2>1 DEF DeferSelfDelete, DeferredInScope
  <2> QED
    BY <1>a, <1>b, <1>c, <1>2, <2>2 DEF DeferSelfDelete, UninstallScope
<1>3. CASE UndoFile
  <2>1. Victim \in Scope(S)
    <3>1. Doing({"CopyFile"}) \/ Doing({"CreateShortcut"})
      BY <1>3 DEF UndoFile
    <3> QED
      BY <3>1, VictimScoped DEF ScopedUndo, RecordedStep, ScopedSteps, ScopedFile
  <2>2. PathsKept(S)' /\ pending' \subseteq Scope(S)
    BY <1>a, <1>3, <2>1, PathsStay, PendingStays DEF UndoFile
  <2> QED
    BY <1>a, <1>c, <1>3, <2>2, AdvanceScoped DEF UndoFile, UninstallScope
<1>4. CASE DeferRegistration
  <2>1. Victim[1] \in ScopedKey(S)
    BY <1>4, VictimScoped DEF DeferRegistration, ScopedUndo, RecordedStep, ScopedSteps
  <2>2. ukeys' \in Seq(ScopedKey(S))
    <3>1. Append(ukeys, Victim[1]) \in Seq(ScopedKey(S))
      BY <1>a, <2>1, AppendInSeq DEF DeferredInScope
    <3> QED
      BY <1>a, <1>4, <3>1 DEF DeferRegistration, DeferredInScope
  <2>3. DeferredInScope(S)'
    BY <1>a, <1>4, <2>2 DEF DeferRegistration, DeferredInScope
  <2> QED
    BY <1>a, <1>b, <1>c, <1>4, <2>3 DEF DeferRegistration, UninstallScope
<1>5. CASE UndoRegistry
  <2>1. Victim[1] \in ScopedKey(S)
    BY <1>5, VictimScoped DEF UndoRegistry, ScopedUndo, RecordedStep, ScopedSteps
  <2>2. ValuesKept(S)'
    BY <1>a, <1>5, <2>1, ValuesStay DEF UndoRegistry
  <2> QED
    BY <1>a, <1>b, <1>5, <2>2, AdvanceScoped DEF UndoRegistry, UninstallScope
<1>6. CASE SkipScript \/ PurgeNothing \/ \E p \in Path : PassOver(p)
  BY <1>a, <1>b, <1>c, <1>6, AdvanceScoped
  DEF SkipScript, PurgeNothing, PassOver, UninstallScope
<1>7. CASE PurgeBranch
  <2>1. Victim # BadKey => Victim \in ScopedKey(S)
    BY <1>7, VictimScoped
    DEF PurgeBranch, ScopedUndo, RecordedStep, ScopedSteps, ScopedText
  <2>2. ValuesKept(S)'
    BY <1>a, <1>c, <1>7, <2>1, ValuesStay DEF PurgeBranch
  <2> QED
    BY <1>a, <1>b, <1>7, <2>2, AdvanceScoped DEF PurgeBranch, UninstallScope
<1>8. CASE PurgeSingle
  <2>1. Victim \in Scope(S)
    BY <1>8, VictimScoped
    DEF PurgeSingle, ScopedUndo, RecordedStep, ScopedSteps, ScopedPurge
  <2>2. PathsKept(S)' /\ pending' \subseteq Scope(S)
    BY <1>a, <1>8, <2>1, PathsStay, PendingStays DEF PurgeSingle
  <2> QED
    BY <1>a, <1>c, <1>8, <2>2, AdvanceScoped DEF PurgeSingle, UninstallScope
<1>9. CASE OpenPurge
  <2>1. {Victim} \cup Inside(Victim) \subseteq Scope(S)
    BY <1>9, VictimScoped
    DEF OpenPurge, ScopedUndo, RecordedStep, ScopedSteps, ScopedPurge
  <2>2. uwalk' \subseteq Scope(S)
    BY <1>9, <2>1 DEF OpenPurge
  <2>3. DeferredInScope(S)'
    BY <1>a, <1>9, <2>2 DEF OpenPurge, DeferredInScope
  <2> QED
    BY <1>a, <1>b, <1>c, <1>9, <2>3 DEF OpenPurge, UninstallScope
<1>10. ASSUME NEW f \in FilePath, PurgeFile(f)
       PROVE  UninstallScope(S)'
  <2>1. f \in Scope(S)
    BY <1>a, <1>10 DEF PurgeFile, DeferredInScope
  <2>2. PathsKept(S)' /\ pending' \subseteq Scope(S)
    BY <1>a, <1>10, <2>1, PathsStay, PendingStays DEF PurgeFile
  <2> QED
    BY <1>a, <1>c, <1>10, <2>2, AdvanceScoped DEF PurgeFile, UninstallScope
<1>11. ASSUME NEW d \in DirPath, PurgeDir(d)
       PROVE  UninstallScope(S)'
  <2>1. d \in Scope(S)
    BY <1>a, <1>11 DEF PurgeDir, DeferredInScope
  <2>2. PathsKept(S)'
    BY <1>a, <1>11, <2>1, PathsStay DEF PurgeDir
  <2> QED
    BY <1>a, <1>c, <1>11, <2>2, AdvanceScoped DEF PurgeDir, UninstallScope
<1>12. CASE RemoveRegistration
  <2>1. Head(ukeys) \in ScopedKey(S) /\ Tail(ukeys) \in Seq(ScopedKey(S))
    BY <1>a, <1>12, HeadTailProperties DEF RemoveRegistration, DeferredInScope
  <2>2. ValuesKept(S)'
    BY <1>a, <1>12, <2>1, ValuesStay DEF RemoveRegistration
  <2>3. DeferredInScope(S)'
    <3>1. CASE FailUninstall
      BY <1>a, <3>1, AdvanceScoped
    <3>2. CASE ~FailUninstall
      BY <1>a, <1>12, <2>1, <3>2 DEF RemoveRegistration, DeferredInScope
    <3> QED
      BY <3>1, <3>2
  <2> QED
    BY <1>a, <1>b, <1>12, <2>2, <2>3 DEF RemoveRegistration, UninstallScope
<1>13. CASE FinishUninstall \/ CloseReport \/ ExitUninstaller
  <2>1. DeferredInScope(S)'
    BY <1>a, <1>13 DEF FinishUninstall, CloseReport, ExitUninstaller, DeferredInScope
  <2> QED
    BY <1>a, <1>b, <1>c, <1>13, <2>1
    DEF FinishUninstall, CloseReport, ExitUninstaller, UninstallScope
<1>14. ASSUME NEW l \in Link, PurgeLink(l)
       PROVE  UninstallScope(S)'
  <2>1. l \in Scope(S)
    BY <1>a, <1>14 DEF PurgeLink, DeferredInScope
  <2>2. PathsKept(S)'
    BY <1>a, <1>14, <2>1, PathsStay DEF PurgeLink
  <2> QED
    BY <1>a, <1>c, <1>14, <2>2, AdvanceScoped DEF PurgeLink, UninstallScope
<1> QED
  BY <1>1, <1>2, <1>3, <1>4, <1>5, <1>6, <1>7, <1>8, <1>9, <1>10, <1>11, <1>12, <1>13, <1>14
  DEF UndoStepTaken

-----------------------------------------------------------------------------
(* The steps of the helper *)

HelperScope(S) ==
  /\ PathsKept(S)
  /\ ValuesKept(S)
  /\ pending \subseteq Scope(S)
  /\ htarget \in ScopedFile(S) \cup {NoPath}

(* Every step of the helper, of its start and its end stays in scope.      *)
LEMMA HelperScoped ==
  ASSUME NEW S, InScope(S), HostTypeOK, TargetKnown,
         \/ HelperStep \/ SelfCleanupFallback \/ HelperFails
         \/ UserAnswers \/ PowershellDeletes \/ CopyHelper \/ SpawnHelper
  PROVE  HelperScope(S)'
<1> USE DEF hostVars, engineVars, helperVars
<1>a. /\ PathsKept(S) /\ ValuesKept(S) /\ pending \subseteq Scope(S)
      /\ htarget \in ScopedFile(S) \cup {NoPath} /\ uself \in ScopedFile(S) \cup {NoPath}
  BY DEF InScope
<1>b. UNCHANGED node => PathsKept(S)'
  BY <1>a DEF PathsKept
<1>c. UNCHANGED reg => ValuesKept(S)'
  BY <1>a DEF ValuesKept
<1>d. HelperExe \in Scope(S)
  BY DEF Scope
<1>1. CASE Poll
  <2>1. htarget \in Scope(S)
    BY <1>a, <1>1 DEF Poll, TargetKnown, HelperRunning, ScopedFile
  <2>2. PathsKept(S)'
    BY <1>a, <1>1, <2>1 DEF Poll, PathsKept, HostTypeOK
  <2> QED
    BY <1>a, <1>c, <1>1, <2>2 DEF Poll, HelperAt, HelperScope
<1>2. CASE Fallback
  <2>1. htarget \in Scope(S)
    BY <1>a, <1>2 DEF Fallback, TargetKnown, HelperRunning, ScopedFile
  <2>2. PathsKept(S)' /\ pending' \subseteq Scope(S)
    BY <1>a, <1>2, <2>1, PathsStay, PendingStays DEF Fallback
  <2> QED
    BY <1>a, <1>c, <1>2, <2>2 DEF Fallback, HelperAt, HelperScope
<1>3. CASE RemoveRoot
  <2>1. htarget \in ScopedFile(S)
    BY <1>a, <1>3 DEF RemoveRoot, TargetKnown, HelperRunning
  <2>2. Parent(htarget) \in Scope(S) \/ Parent(htarget) \notin Path
    <3>1. CASE Ancestors[htarget] = {}
      BY <3>1, HostAssumption DEF Parent
    <3>2. CASE Ancestors[htarget] # {}
      BY <2>1, <3>2, ParentIsAncestor DEF ScopedFile, Path
    <3> QED
      BY <3>1, <3>2
  <2>3. PathsKept(S)'
    BY <1>a, <1>3, <2>2, PathsStay DEF RemoveRoot
  <2> QED
    BY <1>a, <1>c, <1>3, <2>3 DEF RemoveRoot, HelperAt, HelperScope
<1>4. CASE SelfCleanupFallback
  <2>1. PathsKept(S)' /\ pending' \subseteq Scope(S)
    BY <1>a, <1>d, <1>4, PathsStay, PendingStays DEF SelfCleanupFallback
  <2> QED
    BY <1>a, <1>c, <1>4, <2>1 DEF SelfCleanupFallback, HelperAt, HelperScope
<1>5. CASE PowershellDeletes
  <2>1. PathsKept(S)'
    BY <1>a, <1>d, <1>5 DEF PowershellDeletes, PathsKept, HostTypeOK
  <2> QED
    BY <1>a, <1>c, <1>5, <2>1 DEF PowershellDeletes, HelperScope
<1>6. CASE CopyHelper
  <2>1. PathsKept(S)'
    BY <1>a, <1>d, <1>6, PathsStay DEF CopyHelper
  <2> QED
    BY <1>a, <1>c, <1>6, <2>1 DEF CopyHelper, HelperScope
<1>7. CASE SpawnHelper
  BY <1>a, <1>b, <1>c, <1>7 DEF SpawnHelper, HelperScope
<1>8. CASE PollExpires \/ ScheduleSelfCleanup \/ Tell \/ ExitHelper \/ HelperFails
             \/ UserAnswers
  BY <1>a, <1>b, <1>c, <1>8
  DEF PollExpires, ScheduleSelfCleanup, Tell, ExitHelper, HelperFails, UserAnswers,
      HelperAt, HelperScope
<1> QED
  BY <1>1, <1>2, <1>3, <1>4, <1>5, <1>6, <1>7, <1>8 DEF HelperStep

-----------------------------------------------------------------------------
(* The composition *)

(* The initial state is in scope.                                          *)
LEMMA InitScoped ==
  ASSUME NEW S, Init
  PROVE  InScope(S)
<1>1. NoDoc \in ScopedDoc(S)
  BY EmptySeq DEF NoDoc, ScopedDoc
<1>2. PathsKept(S) /\ ValuesKept(S) /\ pending \subseteq Scope(S)
  BY DEF Init, EngineInit, HostInit, PathsKept, ValuesKept
<1>3. doc \in [JournalPath -> ScopedDoc(S)]
  BY <1>1 DEF Init, EngineInit
<1>4. tracker \in Seq(RecordedStep(S)) /\ ipc # "register"
  BY EmptySeq DEF Init, InstallInit
<1>5. ujournal \in ScopedDoc(S) /\ ukeys \in Seq(ScopedKey(S)) /\ uwalk \subseteq Scope(S)
        /\ uself \in ScopedFile(S) \cup {NoPath}
  BY <1>1, EmptySeq DEF Init, UninstallInit
<1>6. htarget \in ScopedFile(S) \cup {NoPath}
  BY DEF Init, HelperInit
<1> QED
  BY <1>2, <1>3, <1>4, <1>5, <1>6 DEF InScope

(* What a process leaves alone stays in scope.                             *)
LEMMA ScopeStays ==
  ASSUME NEW S, InScope(S)
  PROVE  /\ UNCHANGED node => PathsKept(S)'
         /\ UNCHANGED reg => ValuesKept(S)'
         /\ UNCHANGED pending => pending' \subseteq Scope(S)
         /\ UNCHANGED doc => doc' \in [JournalPath -> ScopedDoc(S)]
         /\ UNCHANGED tracker => tracker' \in Seq(RecordedStep(S))
         /\ UNCHANGED <<ipc, ipos>> => (ipc' = "register" => ipos' \in 1..Len(ArpNames))
         /\ UNCHANGED uninstallVars => DeferredInScope(S)'
         /\ UNCHANGED htarget => htarget' \in ScopedFile(S) \cup {NoPath}
BY DEF InScope, PathsKept, ValuesKept, DeferredInScope, uninstallVars

(* InScope, put together from its parts.                                   *)
LEMMA ScopeParts ==
  ASSUME NEW S
  PROVE
  /\ PathsKept(S)' /\ ValuesKept(S)' /\ pending' \subseteq Scope(S)
  /\ doc' \in [JournalPath -> ScopedDoc(S)]
  /\ tracker' \in Seq(RecordedStep(S))
  /\ (ipc' = "register" => ipos' \in 1..Len(ArpNames))
  /\ DeferredInScope(S)'
  /\ htarget' \in ScopedFile(S) \cup {NoPath}
  => InScope(S)'
BY DEF InScope, DeferredInScope

(* One case per disjunct of Next.                                          *)
LEMMA NextScoped ==
  ASSUME NEW S \in SUBSET Manifests, Installing => iman \in S,
         TypeOK, TargetKnown, InScope(S), [Next]_vars
  PROVE  InScope(S)'
<1> USE TypeParts, ScopeStays, ScopeParts
<1>1. ASSUME NEW m \in Manifests, NEW elev \in Tokens, LaunchInstall(m, elev)
      PROVE  InScope(S)'
  <2>1. tracker' \in Seq(RecordedStep(S)) /\ ipc' # "register"
    BY <1>1, EmptySeq DEF LaunchInstall, StartInstall
  <2>2. UNCHANGED <<node, reg, pending, doc, uninstallVars, htarget>>
    BY <1>1 DEF LaunchInstall, StartInstall, hostVars, engineVars, helperVars
  <2> QED
    BY <2>1, <2>2
<1>2. CASE RunInstall
  <2>0. iman \in S
    BY <1>2, StepsInstall DEF RunInstall
  <2>1. InstallScope(S)'
    BY <1>2, <2>0, InstallScoped DEF RunInstall
  <2>2. UNCHANGED <<pending, uninstallVars, htarget>>
    BY <1>2, Frames DEF RunInstall, helperVars
  <2> QED
    BY <2>1, <2>2 DEF InstallScope
<1>3. CASE InstallBreaks
  <2>1. UNCHANGED <<node, reg, pending, doc, uninstallVars, htarget, tracker>>
          /\ ipc' # "register"
    BY <1>3 DEF InstallBreaks, InstallFails, Abort, hostVars, helperVars
  <2> QED
    BY <2>1
<1>4. ASSUME NEW j \in JournalPath, NEW image \in Images, NEW elev \in Tokens,
             NEW mode \in Modes, LaunchUninstall(j, image, elev, mode)
      PROVE  InScope(S)'
  <2>1. DeferredInScope(S)'
    <3>1. doc[j] \in ScopedDoc(S)
      BY DEF InScope
    <3> QED
      BY <1>4, <3>1, EmptySeq DEF LaunchUninstall, StartUninstall, DeferredInScope
  <2>2. UNCHANGED <<node, reg, pending, doc, ipc, ipos, tracker, htarget>>
    BY <1>4 DEF LaunchUninstall, StartUninstall, engineVars, installVars, helperVars
  <2> QED
    BY <2>1, <2>2
<1>5. CASE RunUninstall
  <2>1. UninstallScope(S)'
    BY <1>5, UninstallScoped DEF RunUninstall
  <2>2. UNCHANGED <<doc, ipc, ipos, tracker, htarget>>
    BY <1>5, Frames DEF RunUninstall, engineVars, installVars, helperVars
  <2> QED
    BY <2>1, <2>2 DEF UninstallScope
<1>6. CASE HandOver
  <2>1. HelperScope(S)'
    BY <1>6, HelperScoped DEF HandOver
  <2>2. UNCHANGED <<ujournal, ukeys, uwalk, uself>>
    BY <1>6 DEF HandOver, CopyHelper, SpawnHelper, FailUninstall
  <2>3. DeferredInScope(S)'
    BY <2>2 DEF DeferredInScope, InScope
  <2>4. UNCHANGED <<doc, ipc, ipos, tracker>>
    BY <1>6, Frames DEF HandOver, engineVars, installVars
  <2> QED
    BY <2>1, <2>3, <2>4 DEF HelperScope
<1>7. CASE UninstallBreaks
  <2>1. DeferredInScope(S)'
    BY <1>7, AdvanceScoped DEF UninstallBreaks, UninstallFails, InScope, DeferredInScope
  <2>2. UNCHANGED <<node, reg, pending, doc, ipc, ipos, tracker, htarget>>
    BY <1>7 DEF UninstallBreaks, UninstallFails, hostVars, installVars, helperVars
  <2> QED
    BY <2>1, <2>2
<1>8. CASE RunHelper \/ HelperBreaks \/ User \/ Powershell
  <2>1. HelperScope(S)'
    BY <1>8, HelperScoped DEF RunHelper, HelperBreaks, User, Powershell
  <2>2. UNCHANGED <<doc, uninstallVars, ipc, ipos, tracker>>
    BY <1>8, Frames DEF RunHelper, HelperBreaks, User, Powershell, engineVars, installVars
  <2> QED
    BY <2>1, <2>2 DEF HelperScope
<1>9. CASE OtherProgram
  <2>1. UNCHANGED <<node, reg, pending, doc, ipc, ipos, tracker, uninstallVars, htarget>>
    BY <1>9 DEF OtherProgram, Hold, Release, engineVars, installVars, helperVars
  <2> QED
    BY <2>1
<1>10. CASE Reboot
  <2>1. PathsKept(S)' /\ UNCHANGED reg /\ pending' = {}
    BY <1>10 DEF Reboot, Boot, PathsKept, InScope
  <2>2. DeferredInScope(S)'
    BY <1>10 DEF Reboot, DeferredInScope, InScope
  <2>3. UNCHANGED <<doc, ipos, tracker, htarget>> /\ ipc' \in {ipc, "failed"}
    BY <1>10 DEF Reboot, engineVars
  <2>4. ipc' = "register" => ipos' \in 1..Len(ArpNames)
    BY <2>3 DEF InScope
  <2> QED
    BY <2>1, <2>2, <2>3, <2>4
<1>11. CASE UNCHANGED vars
  <2>1. UNCHANGED <<node, reg, pending, doc, ipc, ipos, tracker, uninstallVars, htarget>>
    BY <1>11 DEF vars, hostVars, engineVars, installVars, helperVars
  <2> QED
    BY <2>1
<1> QED
  BY <1>1, <1>2, <1>3, <1>4, <1>5, <1>6, <1>7, <1>8, <1>9, <1>10, <1>11 DEF Next

(* The manifest of a running installation is among those installed.        *)
RunCounted == Installing => iman \in ran

(* So it stays, and `ran` only grows.                                      *)
LEMMA RunStaysCounted ==
  ASSUME TypeOK, RunCounted, [Next]_vars
  PROVE  RunCounted' /\ ran \subseteq ran'
<1>1. ASSUME NEW m \in Manifests, NEW elev \in Tokens, LaunchInstall(m, elev)
      PROVE  RunCounted' /\ ran \subseteq ran'
  BY <1>1 DEF LaunchInstall, StartInstall, RunCounted
<1>2. CASE RunInstall
  <2>1. Installing /\ UNCHANGED <<iman, ran>>
    BY <1>2, StepsInstall DEF RunInstall
  <2> QED
    BY <2>1 DEF RunCounted
<1>3. CASE ~(\E m \in Manifests, elev \in Tokens : LaunchInstall(m, elev)) /\ ~RunInstall
  <2>1. /\ UNCHANGED <<iman, ran>>
        /\ UNCHANGED ipc \/ ipc' = "failed"
    BY <1>3
    DEF Next, InstallBreaks, InstallFails, Abort, LaunchUninstall, RunUninstall, HandOver,
        UninstallBreaks, RunHelper, HelperBreaks, User, Powershell, OtherProgram, Reboot,
        vars, lifeVars, runVars, installVars
  <2> QED
    BY <2>1 DEF RunCounted, Installing
<1> QED
  BY <1>1, <1>2, <1>3

(***************************************************************************)
(* The inductive invariant: the machine, and all the engine still has to   *)
(* do, is in the scope of every set of manifests that holds those          *)
(* installed so far.  It speaks of all these sets because the set grows.   *)
(***************************************************************************)
ScopeInv ==
  /\ TypeOK
  /\ TargetKnown
  /\ RunCounted
  /\ \A S \in SUBSET Manifests : ran \subseteq S => InScope(S)

(* A step keeps it: what holds of a set after the step held of it before.  *)
LEMMA NextScopeInv ==
  ASSUME ScopeInv, [Next]_vars
  PROVE  ScopeInv'
<1>1. /\ TypeOK /\ TargetKnown /\ RunCounted
      /\ \A S \in SUBSET Manifests : ran \subseteq S => InScope(S)
  BY DEF ScopeInv
<1>2. TypeOK' /\ TargetKnown' /\ RunCounted' /\ ran \subseteq ran'
  BY <1>1, NextTyped, RunStaysCounted
<1>3. ASSUME NEW S \in SUBSET Manifests, ran' \subseteq S
      PROVE  InScope(S)'
  <2>1. InScope(S) /\ (Installing => iman \in S)
    BY <1>1, <1>2, <1>3 DEF RunCounted
  <2> QED
    BY <1>1, <2>1, NextScoped
<1> QED
  BY <1>2, <1>3 DEF ScopeInv

(* Whatever the manifests, the machine and its junctions, the failures,    *)
(* the kills, the boots and the overlaps of install, uninstall and helper: *)
(* what no manifest installed so far declares, and no junction under one   *)
(* of their purge paths leads to, is as it was.                            *)
THEOREM ScopeCorrect == Spec => []OnlyDeclared
<1>1. Init => ScopeInv
  <2> SUFFICES ASSUME Init PROVE ScopeInv
    OBVIOUS
  <2>1. TypeOK /\ TargetKnown
    BY InitTyped
  <2>2. RunCounted
    BY DEF Init, InstallInit, RunCounted, Installing
  <2>3. \A S \in SUBSET Manifests : InScope(S)
    BY InitScoped
  <2> QED
    BY <2>1, <2>2, <2>3 DEF ScopeInv
<1>2. ScopeInv /\ [Next]_vars => ScopeInv'
  BY NextScopeInv
<1>3. ScopeInv => OnlyDeclared
  <2> SUFFICES ASSUME ScopeInv PROVE OnlyDeclared
    OBVIOUS
  <2>1. ran \in SUBSET Manifests
    BY DEF ScopeInv, TypeOK
  <2>2. InScope(ran)
    BY <2>1 DEF ScopeInv
  <2> QED
    BY <2>2 DEF InScope, PathsKept, ValuesKept, OnlyDeclared
<1> QED
  BY <1>1, <1>2, <1>3, PTL DEF Spec
=============================================================================
