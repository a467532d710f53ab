--------------------------- MODULE JournalProofs ---------------------------
(***************************************************************************)
(* What a journal is worth.  One that can be read is complete, and of one  *)
(* manifest: at every step of install the tracker holds exactly what the   *)
(* plan lists before the step, and the journal is written in one piece     *)
(* from a tracker that has come to the end of the plan.  It is there to    *)
(* try again with, since uninstall removes only what it lists and a        *)
(* manifest that is apart does not list it.  And it covers what is on the  *)
(* machine: every path and value is made for some manifest, a directory    *)
(* only where none was or where one has been taken away.                   *)
(***************************************************************************)
EXTENDS RemovalProofs

UninstallerStep(m) == [type |-> "CopyFile", on |-> UninstallerAt(m)]

(* What the tracker holds: the steps before ipos; then the uninstaller;    *)
(* then all there is to record.                                            *)
TrackerFollows ==
  /\ ipc = "steps" => /\ ipos \in 1..(Len(Plan(iman)) + 1)
                      /\ tracker = SubSeq(Plan(iman), 1, ipos - 1)
  /\ ipc = "register" => /\ InstallRoot(iman) # NoPath
                         /\ tracker = Append(Plan(iman), UninstallerStep(iman))
  /\ ipc \in {"journal", "writing"} => tracker = Recorded(iman)

-----------------------------------------------------------------------------
(* A prefix and the next entry make the next prefix.                       *)
LEMMA PrefixGrows ==
  ASSUME NEW S, NEW s \in Seq(S), NEW n \in 1..Len(s)
  PROVE  Append(SubSeq(s, 1, n - 1), s[n]) = SubSeq(s, 1, n)
<1>1. Len(s) \in Nat /\ s \in [1..Len(s) -> S]
  BY LenProperties
<1>2. SubSeq(s, 1, n - 1) \in Seq(S) /\ SubSeq(s, 1, n) \in Seq(S)
  BY <1>1, SubSeqProperties
<1>3. Len(SubSeq(s, 1, n - 1)) = n - 1 /\ Len(SubSeq(s, 1, n)) = n
  BY <1>1, SubSeqProperties
<1>4. \A i \in 1..(n - 1) : SubSeq(s, 1, n - 1)[i] = s[i]
  BY <1>1, SubSeqProperties
<1>5. \A i \in 1..n : SubSeq(s, 1, n)[i] = s[i]
  BY <1>1, SubSeqProperties
<1>6. s[n] \in S
  BY <1>1
<1>7. /\ Append(SubSeq(s, 1, n - 1), s[n]) \in Seq(S)
      /\ Len(Append(SubSeq(s, 1, n - 1), s[n])) = n
      /\ \A i \in 1..n : Append(SubSeq(s, 1, n - 1), s[n])[i] = s[i]
  BY <1>1, <1>2, <1>3, <1>4, <1>6, AppendProperties
<1> QED
  BY <1>2, <1>3, <1>5, <1>7, SeqEqual

(* A plan that is through has been recorded as a whole.                    *)
LEMMA PlanRecorded ==
  ASSUME InstallTypeOK, TrackerFollows, ipc = "steps", ipos > Len(Plan(iman))
  PROVE  tracker = Plan(iman)
<1>1. Plan(iman) \in Seq(Step) /\ Len(Plan(iman)) \in Nat
  BY PlanInSeq, LenProperties DEF InstallTypeOK
<1>2. ipos - 1 = Len(Plan(iman))
  BY <1>1 DEF TrackerFollows
<1> QED
  BY <1>1, <1>2, SubSeqFull DEF TrackerFollows

(* A step of the plan is recorded, or stops install, or is prepared.       *)
LEMMA StepTracked ==
  ASSUME InstallTypeOK, TrackerFollows, NEW types, AtStep(types),
         Record \/ Abort \/ ParentsReady
  PROVE  TrackerFollows'
<1>1. Plan(iman) \in Seq(Step) /\ Len(Plan(iman)) \in Nat
  BY PlanInSeq, LenProperties DEF InstallTypeOK
<1>2. /\ ipc = "steps" /\ ipos \in 1..Len(Plan(iman))
      /\ tracker = SubSeq(Plan(iman), 1, ipos - 1)
  BY DEF AtStep, TrackerFollows
<1>3. CASE Record
  <2>1. tracker' = SubSeq(Plan(iman), 1, ipos)
    BY <1>1, <1>2, <1>3, PrefixGrows DEF Record
  <2>2. ipc' = "steps" /\ iman' = iman /\ ipos' = ipos + 1
    BY <1>2, <1>3 DEF Record
  <2>3. ipos' - 1 = ipos /\ ipos' \in 1..(Len(Plan(iman)) + 1)
    BY <1>1, <1>2, <2>2
  <2> QED
    BY <2>1, <2>2, <2>3 DEF TrackerFollows
<1>4. CASE Abort
  BY <1>4 DEF Abort, TrackerFollows
<1>5. CASE ParentsReady
  BY <1>5 DEF ParentsReady, TrackerFollows
<1> QED
  BY <1>3, <1>4, <1>5

(* Every step of install leaves the tracker where the plan is.             *)
LEMMA InstallTracked ==
  ASSUME InstallTypeOK, TrackerFollows, InstallStep
  PROVE  TrackerFollows'
<1>1. CASE CreateDirectory
  BY <1>1, StepTracked DEF CreateDirectory
<1>2. CASE PrepareParents
  <2>1. Abort \/ ParentsReady
    BY <1>2 DEF PrepareParents
  <2> QED
    BY <2>1 DEF Abort, ParentsReady, TrackerFollows
<1>3. CASE WriteFile
  BY <1>3, StepTracked DEF WriteFile
<1>4. CASE WriteRegistry
  BY <1>4, StepTracked DEF WriteRegistry
<1>5. CASE ExecuteScript
  BY <1>5, StepTracked DEF ExecuteScript
<1>6. CASE InstallUninstaller
  <2>1. CASE Abort
    BY <2>1 DEF Abort, TrackerFollows
  <2>2. CASE ~Abort
    <3>1. tracker = Plan(iman) /\ InstallRoot(iman) # NoPath
      BY <1>6, PlanRecorded DEF InstallUninstaller, AtUninstaller
    <3>2. ipc' = "register" /\ iman' = iman
            /\ tracker' = Append(tracker, UninstallerStep(iman))
      BY <1>6, <2>2 DEF InstallUninstaller, UninstallerStep
    <3> QED
      BY <3>1, <3>2 DEF TrackerFollows
  <2> QED
    BY <2>1, <2>2
<1>7. CASE RegisterValue
  <2>1. CASE ipos < Len(ArpNames)
    <3>1. UNCHANGED <<ipc, iman, tracker>> /\ ipc = "register"
      BY <1>7, <2>1 DEF RegisterValue
    <3> QED
      BY <3>1 DEF TrackerFollows
  <2>2. CASE ~(ipos < Len(ArpNames))
    <3>1. ipc' = "journal" /\ iman' = iman
            /\ tracker' = tracker \o Section("WriteRegistry", ArpValues(iman))
      BY <1>7, <2>2 DEF RegisterValue
    <3>2. InstallRoot(iman) # NoPath
            /\ tracker = Append(Plan(iman), UninstallerStep(iman))
      BY <1>7 DEF RegisterValue, TrackerFollows
    <3>3. tracker' = Recorded(iman)
      BY <3>1, <3>2 DEF Recorded, UninstallerStep
    <3> QED
      BY <3>1, <3>3 DEF TrackerFollows
  <2> QED
    BY <2>1, <2>2
<1>8. CASE SkipUninstaller
  <2>1. tracker = Plan(iman) /\ InstallRoot(iman) = NoPath
    BY <1>8, PlanRecorded DEF SkipUninstaller
  <2>2. ipc' = "journal" /\ iman' = iman /\ tracker' = tracker
    BY <1>8 DEF SkipUninstaller
  <2>3. tracker' = Recorded(iman)
    BY <2>1, <2>2 DEF Recorded
  <2> QED
    BY <2>2, <2>3 DEF TrackerFollows
<1>9. CASE OpenJournal
  BY <1>9 DEF OpenJournal, TrackerFollows
<1>10. CASE CompleteJournal
  BY <1>10 DEF CompleteJournal, TrackerFollows
<1>11. CASE FinishInstall
  BY <1>11 DEF FinishInstall, TrackerFollows
<1> QED
  BY <1>1, <1>2, <1>3, <1>4, <1>5, <1>6, <1>7, <1>8, <1>9, <1>10, <1>11 DEF InstallStep

(* Install tears a journal, or completes it, or leaves the journals alone. *)
LEMMA JournalWritten ==
  ASSUME DocTypeOK, InstallTypeOK, TrackerFollows, JournalComplete, InstallStep
  PROVE  JournalComplete'
<1>1. CASE UNCHANGED doc
  BY <1>1 DEF JournalComplete
<1>2. CASE OpenJournal
  <2>1. ASSUME NEW j \in JournalPath, doc'[j].state = "whole"
        PROVE  doc'[j] = doc[j]
    BY <1>2, <2>1 DEF OpenJournal, NoDoc, DocTypeOK
  <2> QED
    BY <2>1 DEF JournalComplete
<1>3. CASE CompleteJournal
  <2>1. iman \in Manifests /\ JournalAt(iman) \in JournalPath
    BY Places DEF InstallTypeOK
  <2>2. tracker = Recorded(iman)
    BY <1>3 DEF CompleteJournal, TrackerFollows
  <2>3. doc'[JournalAt(iman)] = JournalOf(iman, Recorded(iman))
    BY <1>3, <2>1, <2>2 DEF CompleteJournal, DocTypeOK
  <2>4. \A j \in JournalPath : j # JournalAt(iman) => doc'[j] = doc[j]
    BY <1>3 DEF CompleteJournal, DocTypeOK
  <2>5. /\ doc'[JournalAt(iman)].actions = Recorded(iman)
        /\ doc'[JournalAt(iman)].branches = iman.branches
        /\ doc'[JournalAt(iman)].purges = iman.purges
    BY <2>3 DEF JournalOf
  <2> QED
    BY <2>1, <2>4, <2>5 DEF JournalComplete
<1>4. UNCHANGED doc \/ OpenJournal \/ CompleteJournal
  BY DEF InstallStep, CreateDirectory, PrepareParents, WriteFile, WriteRegistry,
         ExecuteScript, InstallUninstaller, RegisterValue, SkipUninstaller,
         FinishInstall, engineVars
<1> QED
  BY <1>1, <1>2, <1>3, <1>4

(* Nothing but install touches the journals and the tracker.               *)
LEMMA NextTracked ==
  ASSUME TypeOK, TrackerFollows, JournalComplete, [Next]_vars
  PROVE  TrackerFollows' /\ JournalComplete'
<1>1. ASSUME NEW m \in Manifests, NEW elev \in Tokens, LaunchInstall(m, elev)
      PROVE  TrackerFollows' /\ JournalComplete'
  <2>1. /\ ipc' = "steps" /\ iman' = m /\ ipos' = 1 /\ tracker' = <<>>
        /\ UNCHANGED doc
    BY <1>1 DEF LaunchInstall, StartInstall, engineVars
  <2>2. Plan(m) \in Seq(Step) /\ Len(Plan(m)) \in Nat
    BY PlanInSeq, LenProperties
  <2>3. SubSeq(Plan(m), 1, 0) = <<>>
    BY <2>2, SubSeqProperties, EmptySeq
  <2>4. ipos' \in 1..(Len(Plan(m)) + 1) /\ ipos' - 1 = 0
    BY <2>1, <2>2
  <2>5. TrackerFollows'
    BY <2>1, <2>3, <2>4 DEF TrackerFollows
  <2> QED
    BY <2>1, <2>5 DEF JournalComplete
<1>2. CASE RunInstall
  BY <1>2, TypeParts, InstallTracked, JournalWritten DEF RunInstall
<1>3. CASE InstallBreaks
  <2>1. ipc' = "failed" /\ UNCHANGED doc
    BY <1>3 DEF InstallBreaks, InstallFails, Abort
  <2> QED
    BY <2>1 DEF TrackerFollows, JournalComplete
<1>4. CASE Reboot
  <2>1. UNCHANGED <<doc, iman, ipos, tracker>> /\ ipc' \in {ipc, "failed"}
    BY <1>4 DEF Reboot, engineVars
  <2> QED
    BY <2>1 DEF TrackerFollows, JournalComplete
<1>5. CASE UNCHANGED <<doc, installVars>>
  BY <1>5 DEF TrackerFollows, JournalComplete, installVars
<1>6. ASSUME NEW j \in JournalPath, NEW image \in Images, NEW elev \in Tokens,
             NEW mode \in Modes, LaunchUninstall(j, image, elev, mode)
      PROVE  UNCHANGED <<doc, installVars>>
  BY <1>6 DEF LaunchUninstall, StartUninstall, engineVars
<1>7. RunUninstall \/ HandOver \/ UninstallBreaks \/ RunHelper \/ HelperBreaks
        \/ User \/ Powershell \/ OtherProgram
        => UNCHANGED <<doc, installVars>>
  BY Frames DEF RunUninstall, HandOver, UninstallBreaks, UninstallFails, RunHelper,
     HelperBreaks, User, Powershell, OtherProgram, engineVars
<1>8. UNCHANGED vars => UNCHANGED <<doc, installVars>>
  BY DEF vars, engineVars
<1> QED
  BY <1>1, <1>2, <1>3, <1>4, <1>5, <1>6, <1>7, <1>8 DEF Next

(* Whatever was interrupted, whichever journal it replaces and however     *)
(* installations and uninstallations overlap: a journal that can be read   *)
(* lists all that one manifest's installation records, in order, and that  *)
(* manifest's purge section (DeclaredTracker, install).                    *)
THEOREM JournalCorrect == Spec => []JournalComplete
<1>1. Init => TypeOK /\ TargetKnown /\ TrackerFollows /\ JournalComplete
  <2>1. Init => \A j \in JournalPath : doc[j].state = "none"
    BY DEF Init, EngineInit, NoDoc
  <2>2. Init => JournalComplete
    BY <2>1 DEF JournalComplete
  <2>3. Init => TrackerFollows
    BY DEF Init, InstallInit, TrackerFollows
  <2> QED
    BY <2>2, <2>3, InitTyped
<1>2. TypeOK /\ TargetKnown /\ TrackerFollows /\ JournalComplete /\ [Next]_vars
        => (TypeOK /\ TargetKnown /\ TrackerFollows /\ JournalComplete)'
  BY NextTyped, NextTracked
<1> QED
  BY <1>1, <1>2, PTL DEF Spec
-----------------------------------------------------------------------------
(* What a complete journal lists *)

StepsOf(t, xs) == {[type |-> t, on |-> x] : x \in xs}

(* The elements of a concatenation.                                        *)
LEMMA ElementsJoined ==
  ASSUME NEW S, NEW s \in Seq(S), NEW t \in Seq(S)
  PROVE  Elements(s \o t) = Elements(s) \cup Elements(t)
<1>1. Len(s) \in Nat /\ Len(t) \in Nat
  BY LenProperties
<1>2. /\ Len(s \o t) = Len(s) + Len(t)
      /\ \A i \in 1..(Len(s) + Len(t)) :
           (s \o t)[i] = IF i <= Len(s) THEN s[i] ELSE t[i - Len(s)]
  BY ConcatProperties
<1> DEFINE a == Len(s)
           b == Len(t)
           u == s \o t
<1>3. /\ a \in Nat /\ b \in Nat /\ Len(u) = a + b
      /\ \A i \in 1..(a + b) : u[i] = IF i <= a THEN s[i] ELSE t[i - a]
      /\ Elements(s) = {s[i] : i \in 1..a} /\ Elements(t) = {t[i] : i \in 1..b}
      /\ Elements(u) = {u[i] : i \in 1..Len(u)}
  BY <1>1, <1>2 DEF Elements
<1> HIDE DEF a, b, u
<1>4. ASSUME NEW i \in 1..(a + b)
      PROVE  u[i] \in Elements(s) \cup Elements(t)
  <2>1. CASE i <= a
    BY <1>3, <2>1
  <2>2. CASE ~(i <= a)
    <3>1. i - a \in 1..b
      BY <1>3, <2>2
    <3> QED
      BY <1>3, <2>2, <3>1
  <2> QED
    BY <2>1, <2>2
<1>5. ASSUME NEW i \in 1..a
      PROVE  s[i] \in Elements(u)
  <2>1. i \in 1..(a + b) /\ i <= a
    BY <1>3
  <2> QED
    BY <1>3, <2>1
<1>6. ASSUME NEW i \in 1..b
      PROVE  t[i] \in Elements(u)
  <2>1. a + i \in 1..(a + b) /\ ~(a + i <= a) /\ a + i - a = i
    BY <1>3, Offsets
  <2>2. u[a + i] = t[i]
    BY <1>3, <2>1
  <2> QED
    BY <1>3, <2>1, <2>2
<1>7. Elements(u) = Elements(s) \cup Elements(t)
  BY <1>3, <1>4, <1>5, <1>6
<1> QED
  BY <1>7 DEF u

LEMMA ElementsOfSection ==
  ASSUME NEW T, NEW s \in Seq(T), NEW t
  PROVE  Elements(Section(t, s)) = StepsOf(t, Elements(s))
<1>1. Len(s) \in Nat
  BY LenProperties
<1>2. Len(Section(t, s)) = Len(s)
        /\ \A i \in 1..Len(s) : Section(t, s)[i] = [type |-> t, on |-> s[i]]
  BY <1>1 DEF Section
<1> QED
  BY <1>2 DEF Elements, StepsOf

LEMMA ElementsAppended ==
  ASSUME NEW S, NEW s \in Seq(S), NEW e \in S
  PROVE  Elements(Append(s, e)) = Elements(s) \cup {e}
<1>1. Len(s) \in Nat
  BY LenProperties
<1>2. /\ Len(Append(s, e)) = Len(s) + 1
      /\ Append(s, e)[Len(s) + 1] = e
      /\ \A i \in 1..Len(s) : Append(s, e)[i] = s[i]
  BY AppendProperties
<1>3. 1..(Len(s) + 1) = 1..Len(s) \cup {Len(s) + 1}
  BY <1>1
<1> QED
  BY <1>2, <1>3 DEF Elements

(* What install records is the five sections, the uninstaller and the      *)
(* registration.                                                           *)
LEMMA PlanElements ==
  ASSUME NEW m \in Manifests
  PROVE  Elements(Plan(m)) = StepsOf("CreateDirectory", Elements(m.dirs))
           \cup StepsOf("CopyFile", Elements(m.files))
           \cup StepsOf("WriteRegistry", Elements(m.registry))
           \cup StepsOf("CreateShortcut", Elements(m.shortcuts))
           \cup StepsOf("ExecuteScript", Elements(m.scripts))
<1>0. /\ m.dirs \in Seq(DirPath) /\ m.files \in Seq(FilePath)
      /\ m.registry \in Seq(KeyText \X Name) /\ m.shortcuts \in Seq(FilePath)
      /\ m.scripts \in Seq(Script)
  BY EngineAssumption DEF Manifest
<1> DEFINE A == Section("CreateDirectory", m.dirs)
           B == Section("CopyFile", m.files)
           C == Section("WriteRegistry", m.registry)
           D == Section("CreateShortcut", m.shortcuts)
           E == Section("ExecuteScript", m.scripts)
<1>1. A \in Seq(Step)
  BY <1>0, SectionInSeq, \A x \in DirPath : [type |-> "CreateDirectory", on |-> x] \in Step
  DEF Step
<1>2. B \in Seq(Step)
  BY <1>0, SectionInSeq, \A x \in FilePath : [type |-> "CopyFile", on |-> x] \in Step
  DEF Step
<1>3. C \in Seq(Step)
  BY <1>0, SectionInSeq, \A x \in KeyText \X Name : [type |-> "WriteRegistry", on |-> x] \in Step
  DEF Step
<1>4. D \in Seq(Step)
  BY <1>0, SectionInSeq, \A x \in FilePath : [type |-> "CreateShortcut", on |-> x] \in Step
  DEF Step
<1>5. E \in Seq(Step)
  BY <1>0, SectionInSeq, \A x \in Script : [type |-> "ExecuteScript", on |-> x] \in Step
  DEF Step
<1>6. /\ Elements(A) = StepsOf("CreateDirectory", Elements(m.dirs))
      /\ Elements(B) = StepsOf("CopyFile", Elements(m.files))
      /\ Elements(C) = StepsOf("WriteRegistry", Elements(m.registry))
      /\ Elements(D) = StepsOf("CreateShortcut", Elements(m.shortcuts))
      /\ Elements(E) = StepsOf("ExecuteScript", Elements(m.scripts))
  BY <1>0, ElementsOfSection
<1>7. Plan(m) = (((A \o B) \o C) \o D) \o E
  BY DEF Plan
<1> HIDE DEF A, B, C, D, E
<1>8. /\ A \o B \in Seq(Step) /\ (A \o B) \o C \in Seq(Step)
      /\ ((A \o B) \o C) \o D \in Seq(Step)
  BY <1>1, <1>2, <1>3, <1>4, ConcatInSeq
<1>9. /\ Elements(A \o B) = Elements(A) \cup Elements(B)
      /\ Elements((A \o B) \o C) = Elements(A \o B) \cup Elements(C)
      /\ Elements(((A \o B) \o C) \o D) = Elements((A \o B) \o C) \cup Elements(D)
      /\ Elements((((A \o B) \o C) \o D) \o E)
           = Elements(((A \o B) \o C) \o D) \cup Elements(E)
  BY <1>1, <1>2, <1>3, <1>4, <1>5, <1>8, ElementsJoined
<1> QED
  BY <1>6, <1>7, <1>9

LEMMA RecordedElements ==
  ASSUME NEW m \in Manifests
  PROVE  Elements(Recorded(m)) =
           Elements(Plan(m)) \cup
             (IF InstallRoot(m) = NoPath THEN {}
              ELSE {UninstallerStep(m)} \cup StepsOf("WriteRegistry", Elements(ArpValues(m))))
<1>1. CASE InstallRoot(m) = NoPath
  BY <1>1 DEF Recorded
<1>2. CASE InstallRoot(m) # NoPath
  <2>1. Plan(m) \in Seq(Step) /\ UninstallerStep(m) \in Step
    BY <1>2, PlanInSeq, Places DEF UninstallerStep, Step
  <2>2. /\ Append(Plan(m), UninstallerStep(m)) \in Seq(Step)
        /\ Elements(Append(Plan(m), UninstallerStep(m)))
             = Elements(Plan(m)) \cup {UninstallerStep(m)}
    BY <2>1, AppendInSeq, ElementsAppended
  <2>3. /\ Section("WriteRegistry", ArpValues(m)) \in Seq(Step)
        /\ Elements(Section("WriteRegistry", ArpValues(m)))
             = StepsOf("WriteRegistry", Elements(ArpValues(m)))
    BY RegistrationInSeq, ElementsOfSection
  <2>4. Recorded(m) = Append(Plan(m), UninstallerStep(m))
                        \o Section("WriteRegistry", ArpValues(m))
    BY <1>2 DEF Recorded, UninstallerStep
  <2>5. Elements(Recorded(m))
          = Elements(Append(Plan(m), UninstallerStep(m)))
              \cup Elements(Section("WriteRegistry", ArpValues(m)))
    BY <2>2, <2>3, <2>4, ElementsJoined
  <2> QED
    BY <1>2, <2>2, <2>3, <2>5
<1> QED
  BY <1>1, <1>2

(* So these are the files, the directories and the values of a complete    *)
(* journal; and its shortcuts.                                             *)
LEMMA JournalLists ==
  ASSUME NEW m \in Manifests, NEW j, j.actions = Recorded(m)
  PROVE  /\ FilesOf(j) = Elements(m.files) \cup Elements(m.shortcuts)
              \cup (IF InstallRoot(m) = NoPath THEN {} ELSE {UninstallerAt(m)})
         /\ DirsOf(j) = Elements(m.dirs)
         /\ ValuesOf(j) = Elements(m.registry)
              \cup (IF InstallRoot(m) = NoPath THEN {} ELSE Elements(ArpValues(m)))
         /\ \A i \in 1..Len(j.actions) :
              j.actions[i].type = "CreateShortcut" => j.actions[i].on \in Elements(m.shortcuts)
<1>1. /\ FilesOf(j) = {a.on : a \in {x \in Elements(j.actions) :
                                      x.type \in {"CopyFile", "CreateShortcut"}}}
      /\ DirsOf(j) = {a.on : a \in {x \in Elements(j.actions) : x.type = "CreateDirectory"}}
      /\ ValuesOf(j) = {a.on : a \in {x \in Elements(j.actions) : x.type = "WriteRegistry"}}
      /\ \A i \in 1..Len(j.actions) : j.actions[i] \in Elements(j.actions)
  BY DEF FilesOf, DirsOf, ValuesOf, Elements
<1>2. Elements(j.actions) =
        StepsOf("CreateDirectory", Elements(m.dirs))
          \cup StepsOf("CopyFile", Elements(m.files))
          \cup StepsOf("WriteRegistry", Elements(m.registry))
          \cup StepsOf("CreateShortcut", Elements(m.shortcuts))
          \cup StepsOf("ExecuteScript", Elements(m.scripts))
          \cup (IF InstallRoot(m) = NoPath THEN {}
                ELSE {UninstallerStep(m)} \cup StepsOf("WriteRegistry", Elements(ArpValues(m))))
  BY PlanElements, RecordedElements
<1> DEFINE all == Elements(j.actions)
           dirs == Elements(m.dirs)
           files == Elements(m.files)
           values == Elements(m.registry)
           links == Elements(m.shortcuts)
           scripts == Elements(m.scripts)
           arp == Elements(ArpValues(m))
<1> HIDE DEF all, dirs, files, values, links, scripts, arp
<1>3. \A a : a \in all <=>
        \/ \E x \in dirs : a = [type |-> "CreateDirectory", on |-> x]
        \/ \E x \in files : a = [type |-> "CopyFile", on |-> x]
        \/ \E x \in values : a = [type |-> "WriteRegistry", on |-> x]
        \/ \E x \in links : a = [type |-> "CreateShortcut", on |-> x]
        \/ \E x \in scripts : a = [type |-> "ExecuteScript", on |-> x]
        \/ InstallRoot(m) # NoPath /\ a = [type |-> "CopyFile", on |-> UninstallerAt(m)]
        \/ InstallRoot(m) # NoPath /\ \E x \in arp : a = [type |-> "WriteRegistry", on |-> x]
  BY <1>2 DEF all, dirs, files, values, links, scripts, arp, StepsOf, UninstallerStep
<1>4. {a.on : a \in {x \in all : x.type \in {"CopyFile", "CreateShortcut"}}}
        = files \cup links \cup (IF InstallRoot(m) = NoPath THEN {} ELSE {UninstallerAt(m)})
  <2> DEFINE these == {x \in all : x.type \in {"CopyFile", "CreateShortcut"}}
             own == IF InstallRoot(m) = NoPath THEN {} ELSE {UninstallerAt(m)}
  <2>1. ASSUME NEW a \in these
        PROVE  a.on \in files \cup links \cup own
    BY <1>3
  <2>2. ASSUME NEW x \in files
        PROVE  \E a \in these : a.on = x
    <3>1. [type |-> "CopyFile", on |-> x] \in these
      BY <1>3, <2>2
    <3> QED
      BY <3>1
  <2>3. ASSUME NEW x \in links
        PROVE  \E a \in these : a.on = x
    <3>1. [type |-> "CreateShortcut", on |-> x] \in these
      BY <1>3, <2>3
    <3> QED
      BY <3>1
  <2>4. ASSUME NEW x \in own
        PROVE  \E a \in these : a.on = x
    <3>1. InstallRoot(m) # NoPath /\ x = UninstallerAt(m)
      BY <2>4
    <3>2. [type |-> "CopyFile", on |-> x] \in these
      BY <1>3, <3>1
    <3> QED
      BY <3>2
  <2> HIDE DEF these, own
  <2>5. {a.on : a \in these} = files \cup links \cup own
    BY <2>1, <2>2, <2>3, <2>4
  <2> QED
    BY <2>5 DEF these, own
<1>5. {a.on : a \in {x \in all : x.type = "CreateDirectory"}} = dirs
  <2> DEFINE these == {x \in all : x.type = "CreateDirectory"}
  <2>1. ASSUME NEW a \in these
        PROVE  a.on \in dirs
    BY <1>3
  <2>2. ASSUME NEW x \in dirs
        PROVE  \E a \in these : a.on = x
    <3>1. [type |-> "CreateDirectory", on |-> x] \in these
      BY <1>3, <2>2
    <3> QED
      BY <3>1
  <2> HIDE DEF these
  <2>3. {a.on : a \in these} = dirs
    BY <2>1, <2>2
  <2> QED
    BY <2>3 DEF these
<1>6. {a.on : a \in {x \in all : x.type = "WriteRegistry"}}
        = values \cup (IF InstallRoot(m) = NoPath THEN {} ELSE arp)
  <2> DEFINE these == {x \in all : x.type = "WriteRegistry"}
             own == IF InstallRoot(m) = NoPath THEN {} ELSE arp
  <2>1. ASSUME NEW a \in these
        PROVE  a.on \in values \cup own
    BY <1>3
  <2>2. ASSUME NEW x \in values \cup own
        PROVE  \E a \in these : a.on = x
    <3>1. [type |-> "WriteRegistry", on |-> x] \in these
      BY <1>3, <2>2
    <3> QED
      BY <3>1
  <2> HIDE DEF these, own
  <2>3. {a.on : a \in these} = values \cup own
    BY <2>1, <2>2
  <2> QED
    BY <2>3 DEF these, own
<1>7. \A a \in all : a.type = "CreateShortcut" => a.on \in links
  BY <1>3
<1> QED
  BY <1>1, <1>4, <1>5, <1>6, <1>7 DEF all, dirs, files, values, links, arp
-----------------------------------------------------------------------------
(* A journal to try again with *)

(* The journal uninstall has read is one that a manifest's installation    *)
(* has left, and its executable one of those there are.                    *)
ReadFromManifest ==
  /\ \/ ujournal = NoDoc
     \/ \E m \in Manifests : ujournal.actions = Recorded(m) /\ ujournal.purges = m.purges
  /\ uimage \in Images \cup {NoPath}

AllApart == \A m \in Manifests : Apart(m)

(* Before the first uninstall nothing waits for a boot.                    *)
BeforeFirst ==
  uninstalls = 0 => upc = "idle" /\ hpc = "idle" /\ ujournal = NoDoc /\ pending = {}

(* The first uninstall has put off only files of its journal, and not its  *)
(* own executable, until it is through and its helper runs.                *)
FirstPuts ==
  uninstalls <= 1 /\ ujournal.purges = <<>> /\ AllApart =>
    IF hpc = "idle" THEN pending \subseteq FilesOf(ujournal) \ {uimage}
    ELSE /\ upc \in {"exiting", "ok", "failed"}
         /\ upos > Len(UndoPlan(ujournal)) /\ ukeys = <<>>

Repeatable ==
  /\ \E j \in JournalPath : Readable(j) /\ doc[j] = ujournal
  /\ uimage # NoPath => Exists(uimage)

RetryStays ==
  /\ upc # "idle" /\ Quiet /\ alone /\ ujournal.purges = <<>> /\ AllApart
  /\ ~(uninstalls > 1 /\ boots > 0)
  => Repeatable \/ (uninstalls <= 1 /\ hpc # "idle")

RetryInv ==
  /\ RemovalInv /\ TrackerFollows /\ JournalComplete
  /\ ReadFromManifest /\ BeforeFirst /\ FirstPuts /\ RetryStays

(* Manifests that are apart leave journals that are.                       *)
LEMMA FilesApart ==
  ASSUME ReadFromManifest, AllApart
  PROVE  /\ FilesOf(ujournal) \cap JournalPath = {}
         /\ \A i \in 1..Len(ujournal.actions) :
              ujournal.actions[i].type = "CreateShortcut" => ujournal.actions[i].on \notin Images
<1>1. CASE ujournal = NoDoc
  <2>1. Len(ujournal.actions) = 0
    BY <1>1 DEF NoDoc
  <2> QED
    BY <2>1 DEF FilesOf
<1>2. ASSUME NEW m \in Manifests, ujournal.actions = Recorded(m)
      PROVE  /\ FilesOf(ujournal) \cap JournalPath = {}
             /\ \A i \in 1..Len(ujournal.actions) :
                  ujournal.actions[i].type = "CreateShortcut" => ujournal.actions[i].on \notin Images
  <2>1. Apart(m)
    BY DEF AllApart
  <2> QED
    BY <1>2, <2>1, JournalLists DEF Apart
<1> QED
  BY <1>1, <1>2 DEF ReadFromManifest

(* What uninstall removes of a journal without purge paths is a directory  *)
(* of it, or a file of it that is not its executable.                      *)
LEMMA UndoRemoves ==
  ASSUME HostTypeOK, UninstallTypeOK, ReadFromManifest, AllApart,
         ujournal.purges = <<>>, UndoStepTaken
  PROVE  /\ \A f \in FilePath : Exists(f) /\ ~Exists(f)' => f \in FilesOf(ujournal) \ {uimage}
         /\ pending' \subseteq pending \cup (FilesOf(ujournal) \ {uimage})
<1>0. ujournal \in Doc
  BY DEF UninstallTypeOK
<1>1. ~Doing({"PurgePath"})
  <2> SUFFICES ASSUME Doing({"PurgePath"})
               PROVE  FALSE
    OBVIOUS
  <2>1. /\ upos \in 1..Len(UndoPlan(ujournal))
        /\ UndoPlan(ujournal)[upos].type = "PurgePath"
    BY DEF Doing
  <2>2. \E k \in 1..Len(ujournal.purges) : TRUE
    BY <1>0, <2>1, UndoPlanOrder
  <2> QED
    BY <2>2
<1>2. CASE UndoFile
  <2>1. /\ upos \in 1..Len(UndoPlan(ujournal))
        /\ UndoPlan(ujournal)[upos].type \in {"CopyFile", "CreateShortcut"}
        /\ UndoPlan(ujournal)[upos].type = "CopyFile" => Victim # uimage
        /\ Victim = UndoPlan(ujournal)[upos].on
    BY <1>2 DEF UndoFile, Doing, Victim
  <2>2. upos \in 1..Len(ujournal.actions)
    BY <1>0, <2>1, UndoPlanOrder
  <2> DEFINE a == Len(ujournal.actions)
             n == a + 1 - upos
  <2>3. a \in Nat /\ UndoPlan(ujournal)[upos] = ujournal.actions[n]
    BY <1>0, <2>2, UndoPlanShape
  <2>4. n \in 1..a
    <3> HIDE DEF a
    <3> QED
      BY <2>2, <2>3 DEF a
  <2> HIDE DEF a, n
  <2>5. ujournal.actions[n].type \in {"CopyFile", "CreateShortcut"}
          /\ ujournal.actions[n].on = Victim
    BY <2>1, <2>3
  <2>6. Victim \in FilesOf(ujournal)
    BY <2>4, <2>5 DEF FilesOf, a
  <2>7. Victim # uimage
    <3>1. CASE UndoPlan(ujournal)[upos].type = "CreateShortcut"
      <4>1. Victim \notin Images
        BY <2>3, <2>4, <2>5, <3>1, FilesApart DEF a
      <4>2. Victim # NoPath
        <5>1. Victim \in FilePath
          BY <1>2, VictimTyped DEF UndoFile, UndoStep, Step
        <5> QED
          BY <5>1, HostAssumption DEF Path
      <4> QED
        BY <4>1, <4>2 DEF ReadFromManifest
    <3> QED
      BY <2>1, <3>1
  <2>8. RemoveFile(Victim, uelev)
    BY <1>2 DEF UndoFile
  <2> QED
    BY <2>6, <2>7, <2>8 DEF RemoveFile, Exists, HostTypeOK
<1>3. CASE UndoDirectory
  <2>1. Victim \in DirPath
    BY <1>3, VictimTyped DEF UndoDirectory, UndoStep, Step
  <2> QED
    BY <1>3, <2>1, HostAssumption DEF UndoDirectory, RemoveDir, Exists, HostTypeOK
<1>4. CASE UNCHANGED <<node, pending>>
  BY <1>4 DEF Exists
<1>5. DeferSelfDelete \/ DeferRegistration \/ UndoRegistry \/ SkipScript \/ PurgeBranch
        \/ RemoveRegistration \/ FinishUninstall \/ CloseReport \/ ExitUninstaller
        => UNCHANGED <<node, pending>>
  BY DEF DeferSelfDelete, DeferRegistration, UndoRegistry, SkipScript, PurgeBranch,
         RemoveRegistration, FinishUninstall, CloseReport, ExitUninstaller, hostVars
<1> QED
  BY <1>1, <1>2, <1>3, <1>4, <1>5
  DEF UndoStepTaken, PurgeSingle, PurgeNothing, OpenPurge, PassOver, PurgeFile, PurgeDir,
      PurgeLink

(* Uninstall reads what an installation has left.                          *)
LEMMA ReadStays ==
  ASSUME JournalComplete, ReadFromManifest, [Next]_vars
  PROVE  ReadFromManifest'
<1>1. ASSUME NEW j \in JournalPath, NEW image \in Images, NEW elev \in Tokens,
             NEW mode \in Modes, LaunchUninstall(j, image, elev, mode)
      PROVE  ReadFromManifest'
  <2>1. doc[j].state = "whole" /\ ujournal' = doc[j] /\ uimage' = image
    BY <1>1 DEF LaunchUninstall, StartUninstall, Readable
  <2>2. \E m \in Manifests : doc[j].actions = Recorded(m) /\ doc[j].purges = m.purges
    BY <2>1 DEF JournalComplete
  <2> QED
    BY <2>1, <2>2 DEF ReadFromManifest
<1>2. CASE ~UninstallBegins
  BY <1>2, UninstallFrame DEF ReadFromManifest
<1> QED
  BY <1>1, <1>2 DEF UninstallBegins

(* How a step that begins no uninstall moves the counters, the processes   *)
(* and the boot-time list.                                                 *)
LEMMA Counted ==
  ASSUME TypeOK, [Next]_vars, ~UninstallBegins
  PROVE  /\ uninstalls' = uninstalls
         /\ boots' = boots \/ boots' = boots + 1
         /\ \/ RunUninstall
            \/ HandOver
            \/ UninstallBreaks /\ UNCHANGED <<node, pending, hpc>> /\ upc' = "failing"
            \/ /\ RunHelper \/ HelperBreaks \/ User \/ Powershell
               /\ UNCHANGED <<upc, boots>> /\ hpc # "idle" /\ hpc' # "idle"
            \/ /\ Reboot /\ pending' = {} /\ boots' = boots + 1
               /\ upc' = upc \/ (Uninstalling /\ upc' = "failed")
               /\ hpc' = hpc \/ (HelperRunning /\ hpc' = "done")
            \/ UNCHANGED <<pending, upc, hpc>>
<1>1. ASSUME NEW m \in Manifests, NEW elev \in Tokens, LaunchInstall(m, elev)
      PROVE  UNCHANGED <<uninstalls, boots, pending, upc, hpc>>
  BY <1>1 DEF LaunchInstall, StartInstall, hostVars, uninstallVars, helperVars
<1>2. RunInstall => UNCHANGED <<uninstalls, boots, pending, upc, hpc>>
  BY Frames DEF RunInstall, uninstallVars, helperVars
<1>3. InstallBreaks \/ OtherProgram \/ UNCHANGED vars
        => UNCHANGED <<uninstalls, boots, pending, upc, hpc>>
  BY DEF InstallBreaks, InstallFails, OtherProgram, Hold, Release, vars, hostVars, lifeVars,
         runVars, uninstallVars, helperVars
<1>4. RunUninstall \/ HandOver => UNCHANGED <<uninstalls, boots>>
  BY DEF RunUninstall, HandOver, lifeVars, runVars
<1>5. UninstallBreaks => /\ UNCHANGED <<uninstalls, boots, node, pending, hpc>>
                         /\ upc' = "failing"
  BY DEF UninstallBreaks, UninstallFails, FailUninstall, lifeVars, runVars, hostVars, helperVars
<1>6. RunHelper \/ HelperBreaks \/ User \/ Powershell
        => UNCHANGED <<uninstalls, boots, upc>> /\ hpc # "idle" /\ hpc' # "idle"
  <2>1. RunHelper \/ HelperBreaks \/ User \/ Powershell => UNCHANGED <<uninstalls, boots, upc>>
    BY Frames DEF RunHelper, HelperBreaks, User, Powershell, lifeVars, runVars, uninstallVars
  <2>2. RunHelper \/ HelperBreaks \/ User => hpc # "idle" /\ hpc' # "idle"
    BY DEF RunHelper, HelperBreaks, User, HelperStep, Poll, PollExpires, Fallback, RemoveRoot,
           ScheduleSelfCleanup, Tell, ExitHelper, SelfCleanupFallback, HelperFails,
           UserAnswers, HelperAt, HelperRunning
  <2>3. Powershell => hpc # "idle" /\ hpc' # "idle"
    BY DEF Powershell, PowershellDeletes
  <2> QED
    BY <2>1, <2>2, <2>3
<1>7. Reboot => /\ UNCHANGED uninstalls /\ boots' = boots + 1 /\ pending' = {}
                /\ upc' = upc \/ (Uninstalling /\ upc' = "failed")
                /\ hpc' = hpc \/ (HelperRunning /\ hpc' = "done")
  BY DEF Reboot, Boot
<1> QED
  BY <1>1, <1>2, <1>3, <1>4, <1>5, <1>6, <1>7 DEF Next, UninstallBegins

LEMMA BeforeFirstStays ==
  ASSUME TypeOK, BeforeFirst, [Next]_vars
  PROVE  BeforeFirst'
<1>1. CASE UninstallBegins
  <2>1. uninstalls' = uninstalls + 1
    BY <1>1 DEF UninstallBegins, LaunchUninstall
  <2>2. uninstalls' # 0
    BY <2>1, LifecycleAssumption DEF TypeOK
  <2> QED
    BY <2>2 DEF BeforeFirst
<1>2. CASE ~UninstallBegins
  <2> SUFFICES ASSUME uninstalls' = 0
               PROVE  (upc = "idle" /\ hpc = "idle" /\ ujournal = NoDoc /\ pending = {})'
    BY DEF BeforeFirst
  <2>1. upc = "idle" /\ hpc = "idle" /\ ujournal' = NoDoc /\ pending = {}
    BY <1>2, Counted, UninstallFrame DEF BeforeFirst
  <2>2. ~RunUninstall
    BY <2>1, UndoRuns DEF RunUninstall, CloseReport, ExitUninstaller
  <2>3. ~HandOver /\ ~UninstallBreaks
    BY <2>1 DEF HandOver, CopyHelper, SpawnHelper, AllUndone, UninstallBreaks, UninstallFails
  <2> QED
    BY <1>2, <2>1, <2>2, <2>3, Counted DEF Uninstalling, HelperRunning
<1> QED
  BY <1>1, <1>2

LEMMA FirstPutsStays ==
  ASSUME TypeOK, Through, ReadFromManifest, BeforeFirst, FirstPuts, [Next]_vars
  PROVE  FirstPuts'
<1>1. CASE UninstallBegins
  <2>0. uninstalls \in Nat
    BY LifecycleAssumption DEF TypeOK
  <2>1. uninstalls' = uninstalls + 1 /\ UNCHANGED <<pending, hpc>>
    BY <1>1 DEF UninstallBegins, LaunchUninstall, StartUninstall, helperVars
  <2>2. uninstalls' <= 1 => uninstalls = 0
    BY <2>0, <2>1
  <2> QED
    BY <2>1, <2>2 DEF FirstPuts, BeforeFirst
<1>2. CASE ~UninstallBegins
  <2>0. UNCHANGED <<ujournal, uimage, uninstalls>>
    BY <1>2, UninstallFrame, Counted
  <2>a. HostTypeOK /\ UninstallTypeOK
    BY TypeParts
  <2>1. SUFFICES ASSUME uninstalls <= 1, ujournal.purges = <<>>, AllApart
                 PROVE  IF hpc' = "idle" THEN pending' \subseteq FilesOf(ujournal) \ {uimage}
                        ELSE /\ upc' \in {"exiting", "ok", "failed"}
                             /\ upos' > Len(UndoPlan(ujournal)) /\ ukeys' = <<>>
    BY <2>0 DEF FirstPuts, FilesOf
  <2>2. IF hpc = "idle" THEN pending \subseteq FilesOf(ujournal) \ {uimage}
        ELSE /\ upc \in {"exiting", "ok", "failed"}
             /\ upos > Len(UndoPlan(ujournal)) /\ ukeys = <<>>
    BY <2>1 DEF FirstPuts
  <2>3. CASE RunUninstall
    <3>1. UndoStepTaken /\ hpc' = hpc
      BY <2>3 DEF RunUninstall, helperVars
    <3>2. CASE hpc = "idle"
      BY <2>a, <2>1, <2>2, <3>1, <3>2, UndoRemoves
    <3>3. CASE hpc # "idle"
      <4>1. ExitUninstaller
        BY <2>2, <3>1, <3>3, UndoRuns DEF CloseReport
      <4> QED
        BY <2>2, <3>1, <3>3, <4>1 DEF ExitUninstaller
    <3> QED
      BY <3>2, <3>3
  <2>4. CASE HandOver
    <3>1. CASE CopyHelper
      BY <2>2, <3>1 DEF CopyHelper, AllUndone, helperVars
    <3>2. CASE SpawnHelper
      <4>1. upc' = "exiting" /\ hpc' = "poll" /\ UNCHANGED <<upos, ukeys>>
        BY <3>2 DEF SpawnHelper
      <4>2. upos > Len(UndoPlan(ujournal)) /\ ukeys = <<>>
        BY <3>2 DEF SpawnHelper, Through
      <4> QED
        BY <4>1, <4>2
    <3> QED
      BY <2>4, <3>1, <3>2 DEF HandOver
  <2>5. CASE ~RunUninstall
    <3>1. UNCHANGED <<upos, ukeys>>
      BY <1>2, <2>5, UninstallFrame
    <3>2. UninstallBreaks => upc \in {"undo", "handoff", "reporting"}
      BY DEF UninstallBreaks, UninstallFails
    <3>3. hpc # "idle" \/ ~HelperRunning
      BY DEF HelperRunning
    <3> QED
      BY <1>2, <2>2, <2>4, <2>5, <3>1, <3>2, <3>3, Counted
  <2> QED
    BY <2>3, <2>5
<1> QED
  BY <1>1, <1>2

(* While only uninstall removes, what it could be repeated with stays.     *)
LEMMA RepeatableStays ==
  ASSUME TypeOK, QuietAlone, ReadFromManifest, AllApart, ujournal.purges = <<>>, Repeatable,
         [Next]_vars, ~UninstallBegins, Quiet', alone',
         Reboot => pending \subseteq FilesOf(ujournal) \ {uimage}
  PROVE  Repeatable'
<1>0. HostTypeOK /\ UninstallTypeOK /\ UNCHANGED <<ujournal, uimage>>
  BY TypeParts, UninstallFrame
<1>1. UNCHANGED doc
  <2>1. Quiet
    BY QuietStays DEF Quiet, UninstallBegins
  <2>2. RunInstall => Installing /\ quiet # {}
    BY <2>1, InstallRuns DEF RunInstall, Quiet
  <2>3. ~RunInstall
    BY <2>2 DEF QuietAlone
  <2>4. ASSUME NEW m \in Manifests, NEW elev \in Tokens, LaunchInstall(m, elev)
        PROVE  UNCHANGED doc
    BY <2>4 DEF LaunchInstall, StartInstall, engineVars
  <2>5. RunUninstall \/ HandOver \/ UninstallBreaks \/ RunHelper \/ HelperBreaks
          \/ User \/ Powershell \/ OtherProgram \/ InstallBreaks \/ Reboot \/ UNCHANGED vars
          => UNCHANGED doc
    BY Frames DEF RunUninstall, HandOver, UninstallBreaks, UninstallFails, RunHelper,
       HelperBreaks, User, Powershell, OtherProgram, InstallBreaks, InstallFails, Reboot,
       engineVars, vars
  <2> QED
    BY <2>3, <2>4, <2>5 DEF Next, UninstallBegins
<1>2. \A f \in FilePath : Exists(f) /\ ~Exists(f)' => f \in FilesOf(ujournal) \ {uimage}
  <2>1. CASE Reboot
    <3>1. node' = [p \in Path |-> IF p \in pending THEN "absent" ELSE node[p]]
      BY <2>1 DEF Reboot, Boot
    <3> QED
      BY <2>1, <3>1 DEF Exists, Path
  <2>2. CASE ~Reboot
    <3>1. RunUninstall \/ CopyHelper \/ UNCHANGED node
      BY <2>2, AloneStays
    <3>2. CASE RunUninstall
      BY <1>0, <3>2, UndoRemoves DEF RunUninstall
    <3>3. CASE CopyHelper
      BY <1>0, <3>3 DEF CopyHelper, PutFile, Exists, HostTypeOK, Path
    <3>4. CASE UNCHANGED node
      BY <3>4 DEF Exists
    <3> QED
      BY <3>1, <3>2, <3>3, <3>4
  <2> QED
    BY <2>1, <2>2
<1>3. PICK j \in JournalPath : Exists(j) /\ doc[j].state = "whole" /\ doc[j] = ujournal
  BY DEF Repeatable, Readable
<1>4. Exists(j)'
  <2>1. j \in FilePath /\ j \notin FilesOf(ujournal)
    BY EngineAssumption, FilesApart
  <2> QED
    BY <1>2, <1>3, <2>1
<1>5. uimage # NoPath => Exists(uimage)'
  <2>1. uimage # NoPath => uimage \in FilePath /\ Exists(uimage)
    BY <1>0 DEF UninstallTypeOK, Repeatable
  <2> QED
    BY <1>0, <1>2, <2>1
<1>6. Readable(j)' /\ doc'[j] = ujournal'
  BY <1>0, <1>1, <1>3, <1>4 DEF Readable
<1> QED
  BY <1>0, <1>5, <1>6 DEF Repeatable, Exists

LEMMA RetryKept ==
  ASSUME TypeOK, QuietAlone, ReadFromManifest, FirstPuts, RetryStays, [Next]_vars
  PROVE  RetryStays'
<1>0. uninstalls \in Nat /\ boots \in Nat
  BY LifecycleAssumption DEF TypeOK
<1>1. CASE UninstallBegins
  <2>1. PICK j \in JournalPath, image \in Images, elev \in Tokens, mode \in Modes :
          LaunchUninstall(j, image, elev, mode)
    BY <1>1 DEF UninstallBegins
  <2>2. /\ Readable(j) /\ (image # NoPath => Exists(image))
        /\ ujournal' = doc[j] /\ uimage' = image /\ UNCHANGED <<node, doc>>
    BY <2>1 DEF LaunchUninstall, StartUninstall, engineVars
  <2>3. Readable(j)' /\ doc'[j] = ujournal'
    BY <2>2 DEF Readable, Exists
  <2>4. (uimage # NoPath => Exists(uimage))'
    BY <2>2 DEF Exists
  <2>5. Repeatable'
    BY <2>3, <2>4 DEF Repeatable
  <2> QED
    BY <2>5 DEF RetryStays
<1>2. CASE ~UninstallBegins
  <2>0. UNCHANGED <<ujournal, uimage, uninstalls>>
    BY <1>2, UninstallFrame, Counted
  <2>1. SUFFICES ASSUME upc' # "idle", Quiet', alone', ujournal.purges = <<>>, AllApart,
                        ~(uninstalls > 1 /\ boots' > 0)
                 PROVE  Repeatable' \/ (uninstalls <= 1 /\ hpc' # "idle")
    BY <2>0 DEF RetryStays
  <2>2. upc # "idle" /\ ~(uninstalls > 1 /\ boots > 0)
    <3>1. boots' = boots \/ boots' = boots + 1
      BY <1>2, Counted
    <3>2. ~(uninstalls > 1 /\ boots > 0)
      BY <1>0, <2>1, <3>1
    <3>3. RunUninstall \/ HandOver \/ UninstallBreaks => upc # "idle"
      BY UndoRuns DEF RunUninstall, CloseReport, ExitUninstaller, HandOver, CopyHelper,
         SpawnHelper, AllUndone,
         UninstallBreaks, UninstallFails
    <3>4. Uninstalling => upc # "idle"
      BY DEF Uninstalling
    <3>5. upc # "idle"
      BY <1>2, <2>1, <3>3, <3>4, Counted
    <3> QED
      BY <3>2, <3>5
  <2>3. Quiet /\ alone
    <3>1. Quiet
      BY <1>2, <2>1, QuietStays DEF Quiet, UninstallBegins
    <3>2. CASE Reboot
      BY <2>1, <3>1, <3>2 DEF Reboot
    <3>3. CASE ~Reboot
      BY <1>2, <2>1, <3>3, AloneStays
    <3> QED
      BY <3>1, <3>2, <3>3
  <2>4. Repeatable \/ (uninstalls <= 1 /\ hpc # "idle")
    BY <2>1, <2>2, <2>3 DEF RetryStays
  <2>5. CASE uninstalls <= 1 /\ hpc # "idle"
    <3>1. hpc' # "idle"
      <4>1. RunUninstall => hpc' = hpc
        BY DEF RunUninstall, helperVars
      <4>2. HandOver => hpc' = hpc \/ hpc' = "poll"
        BY DEF HandOver, CopyHelper, SpawnHelper, helperVars
      <4> QED
        BY <1>2, <2>5, <4>1, <4>2, Counted
    <3> QED
      BY <2>5, <3>1
  <2>6. CASE Repeatable /\ ~(uninstalls <= 1 /\ hpc # "idle")
    <3>1. ASSUME Reboot
          PROVE  pending \subseteq FilesOf(ujournal) \ {uimage}
      <4>1. boots' > 0
        BY <1>0, <3>1 DEF Reboot
      <4>2. uninstalls <= 1 /\ hpc = "idle"
        BY <1>0, <2>1, <2>6, <4>1
      <4> QED
        BY <2>1, <4>2 DEF FirstPuts
    <3> QED
      BY <1>2, <2>1, <2>6, <3>1, RepeatableStays
  <2> QED
    BY <2>4, <2>5, <2>6
<1> QED
  BY <1>1, <1>2

LEMMA RetryInitial ==
  ASSUME Init
  PROVE  RetryInv
<1>1. RemovalInv
  BY RemovalInitial
<1>2. \A j \in JournalPath : doc[j].state = "none"
  BY DEF Init, EngineInit, NoDoc
<1>3. TrackerFollows /\ JournalComplete
  BY <1>2 DEF Init, InstallInit, TrackerFollows, JournalComplete
<1>4. ReadFromManifest /\ BeforeFirst /\ FirstPuts /\ RetryStays
  BY DEF Init, UninstallInit, HelperInit, EngineInit, HostInit, ReadFromManifest, BeforeFirst,
         FirstPuts, RetryStays
<1> QED
  BY <1>1, <1>3, <1>4 DEF RetryInv

LEMMA RetryInvKept ==
  ASSUME RetryInv, [Next]_vars
  PROVE  RetryInv'
BY RemovalKept, NextTracked, ReadStays, BeforeFirstStays, FirstPutsStays, RetryKept
DEF RetryInv, RemovalInv

LEMMA RetryAlways == Spec => []RetryInv
BY RetryInitial, RetryInvKept, PTL DEF Spec

(* After a failed or killed uninstall that left its Installed Apps entry,  *)
(* the user can try again: with the journal, which only an installation    *)
(* replaces, and the executable, which only its own helper deletes         *)
(* (uninstall).                                                            *)
THEOREM RetryCorrect == Spec => []RetryPossible
<1>1. RetryInv => RetryPossible
  <2> SUFFICES ASSUME RetryInv, upc = "failed", Quiet, alone, ujournal.purges = <<>>, AllApart,
                      NEW k \in KeysOf(ujournal), ~Blank(k), ~(uninstalls > 1 /\ boots > 0)
               PROVE  Repeatable
    BY DEF RetryPossible, Repeatable, AllApart
  <2>1. Repeatable \/ (uninstalls <= 1 /\ hpc # "idle")
    BY DEF RetryInv, RetryStays
  <2>2. ASSUME uninstalls <= 1, hpc # "idle"
        PROVE  FALSE
    <3>1. /\ TypeOK /\ PassedSettled /\ ujournal \in Doc /\ upos \in Nat
      BY TypeParts DEF RetryInv, RemovalInv, UninstallTypeOK
    <3>2. upos > Len(UndoPlan(ujournal)) /\ ukeys = <<>>
      BY <2>2 DEF RetryInv, FirstPuts
    <3>3. upos > Len(ujournal.actions)
      <4>1. Len(ujournal.actions) \in Nat /\ Len(UndoPlan(ujournal)) \in Nat
              /\ Len(ujournal.actions) <= Len(UndoPlan(ujournal))
        BY <3>1, UndoPlanShape, UndoPlanLength
      <4> QED
        BY <3>1, <3>2, <4>1
    <3>4. Elements(ukeys) = {}
      BY <3>2 DEF Elements
    <3> QED
      BY <3>1, <3>3, <3>4, PassedActions
  <2> QED
    BY <2>1, <2>2
<1> QED
  BY <1>1, RetryAlways, PTL
-----------------------------------------------------------------------------
(* A journal that covers the machine *)

(* What the engine and its scripts have made, they make for a manifest.    *)
PathsMade ==
  \A p \in Path : node[p] = "app" =>
    p = HelperExe \/ \E m \in Manifests : p \in Makes(m)

ValuesSet == \A v \in Value : reg[v] = "app" => \E m \in Manifests : v \in Sets(m)

(* A directory that is missing was missing at first, or can be taken away. *)
DirsTaken ==
  \A d \in DirPath : node[d] = "absent" => Node0[d] = "absent" \/ d \in Removable

TakesRemovable ==
  /\ uwalk \cap DirPath \subseteq Removable
  /\ htarget \in Images \cup {NoPath}

PromiseRecorded ==
  promised.state = "whole" =>
    \E m \in Manifests : promised.actions = Recorded(m) /\ promised.purges = m.purges

CoverInv ==
  /\ RetryInv
  /\ PathsMade /\ ValuesSet /\ DirsTaken /\ TakesRemovable /\ PromiseRecorded

(* The target of a step is in the section of its type.                     *)
LEMMA TargetOf ==
  ASSUME InstallTypeOK, NEW types, AtStep(types)
  PROVE  /\ types = {"CreateDirectory"} => Target \in Elements(iman.dirs)
         /\ types = {"CopyFile", "CreateShortcut"} =>
              Target \in Elements(iman.files) \cup Elements(iman.shortcuts)
         /\ types = {"WriteRegistry"} => Target \in Elements(iman.registry)
         /\ types = {"ExecuteScript"} => Target \in Elements(iman.scripts)
<1> DEFINE a == Plan(iman)[ipos]
           all == Elements(Plan(iman))
           dirs == Elements(iman.dirs)
           files == Elements(iman.files)
           values == Elements(iman.registry)
           links == Elements(iman.shortcuts)
           scripts == Elements(iman.scripts)
<1>1. a \in all /\ a.type \in types /\ Target = a.on
  BY DEF AtStep, Target, Elements
<1>2. all = StepsOf("CreateDirectory", dirs) \cup StepsOf("CopyFile", files)
              \cup StepsOf("WriteRegistry", values) \cup StepsOf("CreateShortcut", links)
              \cup StepsOf("ExecuteScript", scripts)
  BY PlanElements DEF InstallTypeOK
<1> HIDE DEF a, all, dirs, files, values, links, scripts
<1>3. \/ \E x \in dirs : a = [type |-> "CreateDirectory", on |-> x]
      \/ \E x \in files : a = [type |-> "CopyFile", on |-> x]
      \/ \E x \in values : a = [type |-> "WriteRegistry", on |-> x]
      \/ \E x \in links : a = [type |-> "CreateShortcut", on |-> x]
      \/ \E x \in scripts : a = [type |-> "ExecuteScript", on |-> x]
  BY <1>1, <1>2 DEF StepsOf
<1>4. /\ a.type = "CreateDirectory" => a.on \in dirs
      /\ a.type = "CopyFile" => a.on \in files
      /\ a.type = "WriteRegistry" => a.on \in values
      /\ a.type = "CreateShortcut" => a.on \in links
      /\ a.type = "ExecuteScript" => a.on \in scripts
  BY <1>3
<1> QED
  BY <1>1, <1>4 DEF dirs, files, values, links, scripts

(* Directories above what a manifest names are made for it.                *)
LEMMA ParentsMade ==
  ASSUME HostTypeOK, DirsTaken, NEW m \in Manifests, NEW q \in Named(m), q \in Path,
         NEW d \in Missing(Ancestors[q])
  PROVE  d \in Makes(m)
<1>1. d \in Ancestors[q] /\ d \in DirPath /\ node[d] = "absent"
  BY HostAssumption DEF Missing, Exists
<1>2. Node0[d] = "absent" \/ d \in Removable
  BY <1>1 DEF DirsTaken
<1> QED
  BY <1>1, <1>2 DEF Makes

(* What install makes, it makes for its manifest.                          *)
LEMMA InstallMakesNamed ==
  ASSUME HostTypeOK, InstallTypeOK, DirsTaken, InstallStep,
         NEW p \in Path, node[p] # "app", node'[p] = "app"
  PROVE  p \in Makes(iman)
<1> USE DEF HostTypeOK
<1>0. iman \in Manifests /\ Named(iman) \subseteq Makes(iman)
  BY DEF InstallTypeOK, Makes
<1>1. CASE CreateDirectory
  <2>1. Target \in Named(iman) /\ Target \in Path
    BY <1>0, <1>1, TargetOf, TargetTyped DEF CreateDirectory, Named, Step, Path
  <2>2. p = Target \/ p \in Missing(Ancestors[Target])
    BY <1>1 DEF CreateDirectory, MakeDirs, Missing
  <2> QED
    BY <1>0, <2>1, <2>2, ParentsMade
<1>2. CASE PrepareParents
  <2>1. CASE AtUninstaller
    <3>1. UninstallerAt(iman) \in Named(iman) /\ UninstallerAt(iman) \in Path
      BY <1>0, <2>1, Places DEF AtUninstaller, Named, Path
    <3>2. p \in Missing(Ancestors[UninstallerAt(iman)])
      BY <1>2, <2>1 DEF PrepareParents, MakeDirs
    <3> QED
      BY <1>0, <3>1, <3>2, ParentsMade
  <2>2. CASE ~AtUninstaller
    <3>1. Target \in Named(iman) /\ Target \in Path
      BY <1>0, <1>2, <2>2, TargetOf, TargetTyped DEF PrepareParents, Named, Step, Path
    <3>2. p \in Missing(Ancestors[Target])
      BY <1>2, <2>2 DEF PrepareParents, MakeDirs
    <3> QED
      BY <1>0, <3>1, <3>2, ParentsMade
  <2> QED
    BY <2>1, <2>2
<1>3. CASE WriteFile
  <2>1. Target \in Named(iman)
    BY <1>0, <1>3, TargetOf DEF WriteFile, Named
  <2> QED
    BY <1>0, <1>3, <2>1 DEF WriteFile, PutFile
<1>4. CASE ExecuteScript
  <2>1. Target \in Elements(iman.scripts) /\ p \in Leaves[Target]
    BY <1>4, TargetOf DEF ExecuteScript
  <2> QED
    BY <2>1 DEF Makes
<1>5. CASE InstallUninstaller
  <2>1. UninstallerAt(iman) \in Named(iman)
    BY <1>5 DEF InstallUninstaller, AtUninstaller, Named
  <2> QED
    BY <1>0, <1>5, <2>1 DEF InstallUninstaller, PutFile
<1>6. CASE OpenJournal
  <2>1. JournalAt(iman) \in Named(iman) /\ JournalAt(iman) \in Path
    BY <1>0, Places DEF Named, Path
  <2>2. p = JournalAt(iman) \/ p \in Missing(Ancestors[JournalAt(iman)])
    BY <1>6 DEF OpenJournal
  <2> QED
    BY <1>0, <2>1, <2>2, ParentsMade
<1>7. WriteRegistry \/ RegisterValue \/ SkipUninstaller \/ CompleteJournal \/ FinishInstall
        => UNCHANGED node
  BY DEF WriteRegistry, RegisterValue, SkipUninstaller, CompleteJournal, FinishInstall, hostVars
<1> QED
  BY <1>1, <1>2, <1>3, <1>4, <1>5, <1>6, <1>7 DEF InstallStep

(* The values it sets are its manifest's, too.                             *)
LEMMA InstallSets ==
  ASSUME HostTypeOK, InstallTypeOK, TrackerFollows, InScope(Manifests), InstallStep,
         NEW v \in Value, reg[v] # "app", reg'[v] = "app"
  PROVE  v \in Sets(iman)
<1> USE DEF HostTypeOK
<1>1. CASE WriteRegistry
  <2>1. Target \in Elements(iman.registry)
    BY <1>1, TargetOf DEF WriteRegistry
  <2>2. v = Target
    BY <1>1 DEF WriteRegistry, SetValue
  <2> QED
    BY <2>1, <2>2 DEF Sets
<1>2. CASE RegisterValue
  <2>1. v = ArpValues(iman)[ipos]
    BY <1>2 DEF RegisterValue, SetValue
  <2>2. InstallRoot(iman) # NoPath /\ ipos \in 1..Len(ArpNames)
    BY <1>2 DEF RegisterValue, TrackerFollows, InScope
  <2>3. Len(ArpValues(iman)) = Len(ArpNames)
    BY RegistrationInSeq DEF InstallTypeOK
  <2>4. v \in Elements(ArpValues(iman))
    BY <2>1, <2>2, <2>3 DEF Elements
  <2> QED
    BY <2>2, <2>4 DEF Sets
<1>3. ~WriteRegistry /\ ~RegisterValue => UNCHANGED reg
  BY DEF InstallStep, CreateDirectory, PrepareParents, WriteFile, ExecuteScript,
         InstallUninstaller, SkipUninstaller, OpenJournal, CompleteJournal, FinishInstall, hostVars
<1> QED
  BY <1>1, <1>2, <1>3
(* The directories and purge paths of a journal can be taken away.         *)
LEMMA VictimRemovable ==
  ASSUME UninstallTypeOK, ReadFromManifest
  PROVE  /\ Doing({"CreateDirectory"}) => Victim \in Removable
         /\ Doing({"PurgePath"}) => {Victim} \cup Inside(Victim) \subseteq Removable
<1>0. ujournal \in Doc
  BY DEF UninstallTypeOK
<1>1. ASSUME Doing({"CreateDirectory"})
      PROVE  Victim \in Removable
  <2> DEFINE a == Len(ujournal.actions)
             n == a + 1 - upos
  <2>1. upos \in 1..Len(UndoPlan(ujournal)) /\ UndoPlan(ujournal)[upos].type = "CreateDirectory"
          /\ Victim = UndoPlan(ujournal)[upos].on
    BY <1>1 DEF Doing, Victim
  <2>2. upos \in 1..a
    BY <1>0, <2>1, UndoPlanOrder
  <2>3. a \in Nat /\ UndoPlan(ujournal)[upos] = ujournal.actions[n]
    BY <1>0, <2>2, UndoPlanShape
  <2>4. n \in 1..a
    <3> HIDE DEF a
    <3> QED
      BY <2>2, <2>3 DEF a
  <2> HIDE DEF n
  <2>5. Victim \in DirsOf(ujournal)
    BY <2>1, <2>3, <2>4 DEF DirsOf
  <2>6. ujournal # NoDoc
    BY <2>4 DEF NoDoc
  <2>7. PICK m \in Manifests : ujournal.actions = Recorded(m)
    BY <2>6 DEF ReadFromManifest
  <2>8. DirsOf(ujournal) = Elements(m.dirs)
    BY <2>7, JournalLists
  <2> QED
    BY <2>5, <2>8 DEF Removable
<1>2. ASSUME Doing({"PurgePath"})
      PROVE  {Victim} \cup Inside(Victim) \subseteq Removable
  <2>1. upos \in 1..Len(UndoPlan(ujournal)) /\ UndoPlan(ujournal)[upos].type = "PurgePath"
          /\ Victim = UndoPlan(ujournal)[upos].on
    BY <1>2 DEF Doing, Victim
  <2>2. PICK k \in 1..Len(ujournal.purges) : Victim = ujournal.purges[k]
    BY <1>0, <2>1, UndoPlanOrder
  <2>3. ujournal # NoDoc
    BY <2>2 DEF NoDoc
  <2>4. PICK m \in Manifests : ujournal.purges = m.purges
    BY <2>3 DEF ReadFromManifest
  <2>5. {Victim} \cup Inside(Victim) \subseteq PurgeScope(m.purges) \cup Beyond(m.purges)
    <3>1. {Victim} \cup Below(Victim) \subseteq PurgeScope(m.purges)
      BY <2>2, <2>4 DEF PurgeScope, Span, Elements
    <3> QED
      BY <3>1 DEF Inside, Beyond
  <2> QED
    BY <2>5 DEF Removable
<1> QED
  BY <1>1, <1>2

(* What uninstall walks, and what it leaves to the helper.                 *)
LEMMA TakesStays ==
  ASSUME TypeOK, SelfIsImage, ReadFromManifest, TakesRemovable, [Next]_vars
  PROVE  TakesRemovable'
<1>1. uwalk' \cap DirPath \subseteq Removable
  <2>1. CASE UninstallBegins
    BY <2>1 DEF UninstallBegins, LaunchUninstall, StartUninstall
  <2>2. CASE RunUninstall
    <3>1. CASE OpenPurge
      BY <3>1, VictimRemovable, TypeParts DEF OpenPurge
    <3>2. CASE ~OpenPurge
      <4>1. uwalk' \subseteq uwalk
        BY <2>2, <3>2
        DEF RunUninstall, UndoStepTaken, UndoDirectory, DeferSelfDelete, UndoFile,
            DeferRegistration, UndoRegistry, SkipScript, PurgeBranch, PurgeSingle,
            PurgeNothing, PassOver, PurgeFile, PurgeDir, PurgeLink, RemoveRegistration,
            FinishUninstall, CloseReport, ExitUninstaller, Advance, FailUninstall, Walked
      <4> QED
        BY <4>1 DEF TakesRemovable
    <3> QED
      BY <3>1, <3>2
  <2>3. CASE ~UninstallBegins /\ ~RunUninstall
    BY <2>3, UninstallFrame DEF TakesRemovable
  <2> QED
    BY <2>1, <2>2, <2>3
<1>2. htarget' \in Images \cup {NoPath}
  <2>1. ASSUME NEW m \in Manifests, NEW elev \in Tokens, LaunchInstall(m, elev)
        PROVE  htarget' = htarget
    BY <2>1 DEF LaunchInstall, helperVars
  <2>2. UninstallBegins => htarget' = htarget
    BY DEF UninstallBegins, LaunchUninstall, helperVars
  <2>3. RunInstall \/ InstallBreaks \/ RunUninstall \/ UninstallBreaks \/ RunHelper
          \/ HelperBreaks \/ User \/ Powershell \/ OtherProgram \/ Reboot \/ UNCHANGED vars
          => htarget' = htarget
    BY DEF RunInstall, InstallBreaks, RunUninstall, UninstallBreaks, RunHelper, HelperBreaks,
       User, Powershell, OtherProgram, Reboot, vars, helperVars, HelperStep, Poll, PollExpires,
       Fallback, RemoveRoot, ScheduleSelfCleanup, Tell, ExitHelper, HelperFails,
       SelfCleanupFallback, UserAnswers, PowershellDeletes, HelperAt
  <2>4. HandOver => htarget' = htarget \/ htarget' = uself
    BY DEF HandOver, CopyHelper, SpawnHelper, helperVars
  <2>5. {htarget, uself} \subseteq Images \cup {NoPath}
    BY DEF TakesRemovable, SelfIsImage, ReadFromManifest
  <2> QED
    BY <2>1, <2>2, <2>3, <2>4, <2>5 DEF Next, UninstallBegins
<1> QED
  BY <1>1, <1>2 DEF TakesRemovable

(* No other directory is taken away.                                       *)
LEMMA OnlyTaken ==
  ASSUME TypeOK, TargetKnown, ReadFromManifest, TakesRemovable, [Next]_vars,
         NEW d \in DirPath, node[d] # "absent", node'[d] = "absent"
  PROVE  d \in Removable
<1>0. /\ HostTypeOK /\ InstallTypeOK /\ UninstallTypeOK /\ HelperTypeOK
      /\ d \in Path /\ d \notin FilePath
  BY TypeParts, HostAssumption DEF Path
<1>1. CASE RunUninstall
  <2>1. CASE UndoDirectory
    <3>1. d = Victim
      BY <1>0, <2>1 DEF UndoDirectory, RemoveDir, HostTypeOK
    <3> QED
      BY <1>0, <2>1, <3>1, VictimRemovable DEF UndoDirectory
  <2>2. CASE UndoFile
    <3>1. Victim \in FilePath
      BY <1>0, <2>2, VictimTyped DEF UndoFile, UndoStep, Step
    <3> QED
      BY <1>0, <2>2, <3>1 DEF UndoFile, RemoveFile, HostTypeOK
  <2>3. CASE PurgeSingle
    <3>1. d = Victim
      BY <1>0, <2>3 DEF PurgeSingle, RemoveFile, HostTypeOK
    <3> QED
      BY <1>0, <2>3, <3>1, VictimRemovable DEF PurgeSingle
  <2>4. ASSUME NEW f \in FilePath, PurgeFile(f)
        PROVE  FALSE
    BY <1>0, <2>4 DEF PurgeFile, RemoveFile, HostTypeOK
  <2>5. ASSUME NEW e \in DirPath, PurgeDir(e)
        PROVE  d \in Removable
    <3>1. d = e /\ e \in uwalk
      BY <1>0, <2>5 DEF PurgeDir, RemoveDir, HostTypeOK
    <3> QED
      BY <3>1 DEF TakesRemovable
  <2>6. DeferSelfDelete \/ DeferRegistration \/ UndoRegistry \/ SkipScript \/ PurgeBranch
          \/ PurgeNothing \/ OpenPurge \/ (\E p \in Path : PassOver(p))
          \/ RemoveRegistration \/ FinishUninstall \/ CloseReport \/ ExitUninstaller
          => UNCHANGED node
    BY DEF DeferSelfDelete, DeferRegistration, UndoRegistry, SkipScript, PurgeBranch,
           PurgeNothing, OpenPurge, PassOver, RemoveRegistration, FinishUninstall,
           CloseReport, ExitUninstaller, hostVars
  <2>7. ASSUME NEW l \in Link, PurgeLink(l)
        PROVE  FALSE
    BY <1>0, <2>7, HostAssumption DEF PurgeLink, RemoveLink, HostTypeOK
  <2> QED
    BY <1>1, <2>1, <2>2, <2>3, <2>4, <2>5, <2>6, <2>7 DEF RunUninstall, UndoStepTaken
<1>2. CASE RunHelper \/ HelperBreaks \/ Powershell
  <2>1. CASE Poll \/ Fallback
    <3>1. htarget \in FilePath
      BY <1>0, <2>1 DEF Poll, Fallback, TargetKnown, HelperRunning, HelperTypeOK
    <3> QED
      BY <1>0, <2>1, <3>1 DEF Poll, Fallback, RemoveFile, HostTypeOK
  <2>2. CASE RemoveRoot
    <3>1. d = Parent(htarget)
      BY <1>0, <2>2 DEF RemoveRoot, RemoveDir, HostTypeOK
    <3>2. htarget \in Images \ {NoPath}
      BY <2>2 DEF RemoveRoot, TargetKnown, HelperRunning, TakesRemovable
    <3> QED
      BY <3>1, <3>2 DEF Removable
  <2>3. CASE SelfCleanupFallback \/ PowershellDeletes
    BY <1>0, <2>3, CleanupAssumption DEF SelfCleanupFallback, PowershellDeletes, RemoveFile, HostTypeOK
  <2>4. PollExpires \/ ScheduleSelfCleanup \/ Tell \/ ExitHelper \/ HelperFails
          => UNCHANGED node
    BY DEF PollExpires, ScheduleSelfCleanup, Tell, ExitHelper, HelperFails, hostVars
  <2> QED
    BY <1>2, <2>1, <2>2, <2>3, <2>4 DEF RunHelper, HelperBreaks, Powershell, HelperStep
<1>3. CASE Reboot
  BY <1>0, <1>3 DEF Reboot, Boot, HostTypeOK
<1>4. CASE RunInstall
  BY <1>0, <1>4, InstallMakes DEF RunInstall, HostTypeOK
<1>5. CASE HandOver
  BY <1>0, <1>5 DEF HandOver, CopyHelper, SpawnHelper, PutFile, HostTypeOK
<1>6. ASSUME NEW m \in Manifests, NEW elev \in Tokens, LaunchInstall(m, elev)
      PROVE  UNCHANGED node
  BY <1>6 DEF LaunchInstall, StartInstall, hostVars
<1>7. UninstallBegins => UNCHANGED node
  BY DEF UninstallBegins, LaunchUninstall, StartUninstall
<1>8. InstallBreaks \/ UninstallBreaks \/ User \/ OtherProgram \/ UNCHANGED vars => UNCHANGED node
  BY DEF InstallBreaks, InstallFails, UninstallBreaks, UninstallFails, User, UserAnswers,
         OtherProgram, Hold, Release, vars, hostVars
<1> QED
  BY <1>1, <1>2, <1>3, <1>4, <1>5, <1>6, <1>7, <1>8 DEF Next, UninstallBegins

(* Nothing is made but for a manifest, and nothing set.                    *)
LEMMA MadeStays ==
  ASSUME TypeOK, InScope(Manifests), TrackerFollows, DirsTaken, PathsMade, ValuesSet, [Next]_vars
  PROVE  PathsMade' /\ ValuesSet'
<1>0. HostTypeOK /\ InstallTypeOK /\ UninstallTypeOK /\ HelperTypeOK
  BY TypeParts
<1>1. CASE RunInstall
  <2>1. InstallStep /\ iman \in Manifests
    BY <1>0, <1>1 DEF RunInstall, InstallTypeOK
  <2>2. \A p \in Path : node'[p] = "app" => node[p] = "app" \/ p \in Makes(iman)
    BY <1>0, <2>1, InstallMakesNamed
  <2>3. \A v \in Value : reg'[v] = "app" => reg[v] = "app" \/ v \in Sets(iman)
    BY <1>0, <2>1, InstallSets
  <2> QED
    BY <2>1, <2>2, <2>3 DEF PathsMade, ValuesSet
<1>2. CASE OnlyRemoves
  BY <1>2 DEF OnlyRemoves, PathsMade, ValuesSet
<1>3. RunUninstall \/ HandOver \/ UninstallBreaks \/ RunHelper \/ HelperBreaks
        \/ User \/ Powershell => OnlyRemoves
  BY <1>0, RunsRemove
  DEF RunUninstall, HandOver, UninstallBreaks, RunHelper, HelperBreaks, User, Powershell
<1>4. Reboot => OnlyRemoves
  BY <1>0 DEF Reboot, Boot, OnlyRemoves, HostTypeOK, Path
<1>5. CASE UNCHANGED <<node, reg>>
  BY <1>5 DEF PathsMade, ValuesSet
<1>6. ASSUME NEW m \in Manifests, NEW elev \in Tokens, LaunchInstall(m, elev)
      PROVE  UNCHANGED <<node, reg>>
  BY <1>6 DEF LaunchInstall, StartInstall, hostVars
<1>7. UninstallBegins => UNCHANGED <<node, reg>>
  BY DEF UninstallBegins, LaunchUninstall, StartUninstall
<1>8. InstallBreaks \/ OtherProgram \/ UNCHANGED vars => UNCHANGED <<node, reg>>
  BY DEF InstallBreaks, InstallFails, OtherProgram, Hold, Release, vars, hostVars
<1> QED
  BY <1>1, <1>2, <1>3, <1>4, <1>5, <1>6, <1>7, <1>8 DEF Next, UninstallBegins

(* What is promised is what one manifest's installation has recorded.      *)
LEMMA PromiseStays ==
  ASSUME TypeOK, TrackerFollows, PromiseRecorded, [Next]_vars
  PROVE  PromiseRecorded'
<1>0. DocTypeOK /\ InstallTypeOK
  BY TypeParts
<1>1. CASE RunInstall /\ ipc = "writing" /\ ipc' = "finishing"
  <2>1. CompleteJournal
    BY <1>1 DEF RunInstall, InstallStep, CreateDirectory, PrepareParents, WriteFile,
       WriteRegistry, ExecuteScript, InstallUninstaller, RegisterValue, SkipUninstaller,
       OpenJournal, FinishInstall, AtStep, AtUninstaller
  <2>2. JournalAt(iman) \in JournalPath /\ iman \in Manifests
    BY <1>0, Places DEF InstallTypeOK
  <2>3. promised' = JournalOf(iman, Recorded(iman))
    BY <1>0, <1>1, <2>1, <2>2
    DEF RunInstall, CompleteJournal, TrackerFollows, DocTypeOK
  <2> QED
    BY <2>2, <2>3 DEF PromiseRecorded, JournalOf
<1>2. CASE RunInstall /\ ~(ipc = "writing" /\ ipc' = "finishing")
  BY <1>2 DEF RunInstall, PromiseRecorded
<1>3. CASE UninstallBegins
  <2>1. promised' = NoDoc
    BY <1>3 DEF UninstallBegins, LaunchUninstall
  <2> QED
    BY <2>1 DEF PromiseRecorded, NoDoc
<1>4. ASSUME NEW m \in Manifests, NEW elev \in Tokens, LaunchInstall(m, elev)
      PROVE  UNCHANGED promised
  BY <1>4 DEF LaunchInstall
<1>5. InstallBreaks \/ RunUninstall \/ HandOver \/ UninstallBreaks \/ RunHelper \/ HelperBreaks
        \/ User \/ Powershell \/ OtherProgram \/ Reboot \/ UNCHANGED vars
        => UNCHANGED promised
  BY DEF InstallBreaks, RunUninstall, HandOver, UninstallBreaks, RunHelper, HelperBreaks,
         User, Powershell, OtherProgram, Reboot, vars, lifeVars, runVars
<1>6. CASE UNCHANGED promised
  BY <1>6 DEF PromiseRecorded
<1> QED
  BY <1>1, <1>2, <1>3, <1>4, <1>5, <1>6 DEF Next, UninstallBegins

LEMMA CoverInitial ==
  ASSUME Init
  PROVE  CoverInv
<1>1. node = Node0 /\ reg = Reg0 /\ uwalk = {} /\ htarget = NoPath /\ promised = NoDoc
  BY DEF Init, EngineInit, HostInit, UninstallInit, HelperInit
<1>2. PathsMade /\ ValuesSet
  BY <1>1, HostAssumption DEF PathsMade, ValuesSet
<1>3. DirsTaken /\ TakesRemovable /\ PromiseRecorded
  BY <1>1 DEF DirsTaken, TakesRemovable, PromiseRecorded, NoDoc
<1> QED
  BY <1>2, <1>3, RetryInitial DEF CoverInv

LEMMA CoverKept ==
  ASSUME CoverInv, [Next]_vars
  PROVE  CoverInv'
<1>1. /\ TypeOK /\ TargetKnown /\ InScope(Manifests) /\ SelfIsImage /\ TrackerFollows /\ ReadFromManifest
      /\ PathsMade /\ ValuesSet /\ DirsTaken /\ TakesRemovable /\ PromiseRecorded
  BY DEF CoverInv, RetryInv, RemovalInv
<1>2. DirsTaken'
  BY <1>1, OnlyTaken DEF DirsTaken
<1> QED
  BY <1>1, <1>2, RetryInvKept, MadeStays, TakesStays, PromiseStays DEF CoverInv

LEMMA CoverAlways == Spec => []CoverInv
BY CoverInitial, CoverKept, PTL DEF Spec

(* However installations, uninstallations, helpers and failures follow one *)
(* another: whatever of theirs is on the machine, made by this run or left *)
(* by an earlier one, the last completed journal covers, unless one of the *)
(* manifests makes it and one does not cover it (tracker.record in         *)
(* install).                                                               *)
THEOREM CoverCorrect == Spec => []JournalCoversMachine
<1>1. CoverInv => JournalCoversMachine
  <2> SUFFICES ASSUME CoverInv, promised.state = "whole"
               PROVE  /\ \A p \in Path \ Loose : node[p] = "app" =>
                           p \in FilesOf(promised) \cup DirsOf(promised)
                                   \cup PurgeScope(promised.purges) \cup {HelperExe}
                      /\ \A v \in Value \ LooseValues :
                           reg[v] = "app" => v \in ValuesOf(promised)
    BY DEF JournalCoversMachine
  <2>1. PICK n \in Manifests : promised.actions = Recorded(n) /\ promised.purges = n.purges
    BY DEF CoverInv, PromiseRecorded
  <2>2. /\ FilesOf(promised) = Elements(n.files) \cup Elements(n.shortcuts)
              \cup (IF InstallRoot(n) = NoPath THEN {} ELSE {UninstallerAt(n)})
        /\ DirsOf(promised) = Elements(n.dirs)
        /\ ValuesOf(promised) = Elements(n.registry)
              \cup (IF InstallRoot(n) = NoPath THEN {} ELSE Elements(ArpValues(n)))
    BY <2>1, JournalLists
  <2>3. FilesOf(promised) \cup DirsOf(promised) \cup PurgeScope(promised.purges) = Covers(n)
    BY <2>1, <2>2 DEF Covers
  <2>4. ValuesOf(promised) = Sets(n)
    BY <2>2 DEF Sets
  <2>5. ASSUME NEW p \in Path \ Loose, node[p] = "app"
        PROVE  p \in Covers(n) \cup {HelperExe}
    <3>1. p = HelperExe \/ \E m \in Manifests : p \in Makes(m)
      BY <2>5 DEF CoverInv, PathsMade
    <3>2. CASE \E m \in Manifests : p \in Makes(m)
      <4>1. PICK m \in Manifests : p \in Makes(m)
        BY <3>2
      <4>2. Makes(m) \ Covers(n) \subseteq Loose
        <5> DEFINE all == {Makes(x) \ Covers(y) : x, y \in Manifests}
        <5>1. Makes(m) \ Covers(n) \in all
          BY <2>1, <4>1
        <5>2. Loose = UNION all
          BY DEF Loose
        <5> HIDE DEF all
        <5> QED
          BY <5>1, <5>2
      <4> QED
        BY <2>5, <4>1, <4>2
    <3> QED
      BY <3>1, <3>2
  <2>6. ASSUME NEW v \in Value \ LooseValues, reg[v] = "app"
        PROVE  v \in Sets(n)
    <3>1. \E m \in Manifests : v \in Sets(m)
      BY <2>6 DEF CoverInv, ValuesSet
    <3>2. PICK m \in Manifests : v \in Sets(m)
      BY <3>1
    <3>3. Sets(m) \ Sets(n) \subseteq LooseValues
      <4> DEFINE all == {Sets(x) \ Sets(y) : x, y \in Manifests}
      <4>1. Sets(m) \ Sets(n) \in all
        BY <2>1, <3>2
      <4>2. LooseValues = UNION all
        BY DEF LooseValues
      <4> HIDE DEF all
      <4> QED
        BY <4>1, <4>2
    <3> QED
      BY <2>6, <3>2, <3>3
  <2> QED
    BY <2>3, <2>4, <2>5, <2>6
<1> QED
  BY <1>1, CoverAlways, PTL
=============================================================================
