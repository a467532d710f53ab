--------------------------- MODULE RemovalProofs ---------------------------
(***************************************************************************)
(* What uninstall has removed stays removed, the Installed Apps entry goes *)
(* last, and the helper tells the truth.  The argument: while no           *)
(* installation meets a run, every step of every process, of PowerShell    *)
(* and of a boot only removes; so what uninstall has passed stays settled, *)
(* and what it has not passed is still in the journal it reads.  In the    *)
(* end: together they implement Removal.                                   *)
(***************************************************************************)
EXTENDS ScopeProofs

(* No installation runs beside a run that is quiet.                        *)
QuietAlone == Installing => quiet = {}

(* A helper that runs, or is about to, has its executable.                 *)
HelperThere ==
  /\ uimage # HelperExe
  /\ HelperRunning => HelperExe \in images /\ Exists(HelperExe)
  /\ upc = "handoff" => Exists(HelperExe) /\ ~HelperRunning /\ ps # "armed"

(* What the helper will tell, once it has dealt with its target.           *)
AnswerTrue ==
  hpc \in {"root", "self", "tell", "prompt"} =>
    IF hreboot THEN pending # {} ELSE "helper" \in quiet => ~Exists(htarget)

(* What an entry of the undo plan leaves behind once it is passed.         *)
Settled(s) ==
  CASE s.type \in {"CopyFile", "CreateShortcut"} -> Doomed(s.on) \/ s.on = uself
    [] s.type = "WriteRegistry" -> Blank(s.on[1]) \/ s.on[1] \in Elements(ukeys)
    [] s.type = "PurgeBranch" -> s.on # BadKey /\ Blank(s.on)
    [] OTHER -> TRUE

PassedSettled ==
  Quiet => \A i \in 1..Len(UndoPlan(ujournal)) :
             i < upos => Settled(UndoPlan(ujournal)[i])

SelfIsImage == uself \in {NoPath, uimage}

(* An uninstall that hands over or reports success is through its plan.    *)
Through ==
  upc \in {"handoff", "reporting", "exiting", "ok"} =>
    upos > Len(UndoPlan(ujournal)) /\ ukeys = <<>>

(* A step that makes nothing but the helper's copy.                        *)
OnlyRemoves ==
  /\ \A p \in Path : node'[p] \in {node[p], "absent"} \/ p = HelperExe
  /\ \A v \in Value : reg'[v] \in {reg[v], "absent"}
  /\ \A f \in pending : f \in pending' \/ node'[f] = "absent"

-----------------------------------------------------------------------------
(* The undo plan *)

(* Arithmetic of positions.                                                *)
LEMMA Offsets ==
  /\ \A a, b \in Nat : \A i \in 1..b :
       /\ a + i \in 1..(a + b) /\ ~(a + i <= a) /\ a + i - a = i /\ a + i <= a + b
       /\ \A c \in Nat : a + i \in 1..(a + b + c)
  /\ \A a, b, c \in Nat : \A i \in 1..(a + b + c) :
       /\ i <= a => i \in 1..a
       /\ i > a /\ i <= a + b => i - a \in 1..b /\ a + (i - a) = i
       /\ i > a + b => i - (a + b) \in 1..c /\ a + b + (i - (a + b)) = i /\ i > a
       /\ i <= a \/ (i > a /\ i <= a + b) \/ i > a + b
       /\ i > a => ~(i <= a)
  /\ \A a, b, c \in Nat : \A n \in 1..a :
       /\ a + 1 - n \in 1..a /\ a + 1 - n \in 1..(a + b + c) /\ a + 1 - (a + 1 - n) = n
OBVIOUS

(* Where the actions, the branches and the purge paths stand in the plan.  *)
LEMMA UndoPlanShape ==
  ASSUME NEW j \in Doc
  PROVE  /\ Len(j.actions) \in Nat /\ Len(j.branches) \in Nat /\ Len(j.purges) \in Nat
         /\ Len(UndoPlan(j)) = Len(j.actions) + Len(j.branches) + Len(j.purges)
         /\ \A i \in 1..Len(j.actions) :
              /\ UndoPlan(j)[i] = j.actions[Len(j.actions) + 1 - i]
              /\ UndoPlan(j)[i] = Backwards(j.actions)[i]
         /\ \A i \in 1..Len(j.branches) :
              UndoPlan(j)[Len(j.actions) + i] = [type |-> "PurgeBranch", on |-> j.branches[i]]
         /\ \A i \in 1..Len(j.purges) :
              UndoPlan(j)[Len(j.actions) + Len(j.branches) + i]
                = [type |-> "PurgePath", on |-> j.purges[i]]
<1> DEFINE A == Backwards(j.actions)
           B == Section("PurgeBranch", j.branches)
           C == Section("PurgePath", j.purges)
<1>1. j.actions \in Seq(Step) /\ j.branches \in Seq(KeyText) /\ j.purges \in Seq(Path)
  BY DEF Doc
<1>2. Len(j.actions) \in Nat /\ Len(j.branches) \in Nat /\ Len(j.purges) \in Nat
  BY <1>1, LenProperties
<1>3. A \in Seq(UndoStep)
  <2>1. A \in Seq(Step)
    BY <1>1, BackwardsInSeq
  <2> QED
    BY <2>1, SeqMonotonic, Step \subseteq UndoStep DEF UndoStep
<1>4. B \in Seq(UndoStep)
  BY <1>1, SectionInSeq, \A x \in KeyText : [type |-> "PurgeBranch", on |-> x] \in UndoStep
  DEF UndoStep
<1>5. C \in Seq(UndoStep)
  BY <1>1, SectionInSeq, \A x \in Path : [type |-> "PurgePath", on |-> x] \in UndoStep
  DEF UndoStep
<1>6. /\ Len(A) = Len(j.actions)
      /\ \A i \in 1..Len(j.actions) : A[i] = j.actions[Len(j.actions) + 1 - i]
  BY <1>2 DEF Backwards
<1>7. /\ Len(B) = Len(j.branches)
      /\ \A i \in 1..Len(j.branches) : B[i] = [type |-> "PurgeBranch", on |-> j.branches[i]]
  BY <1>2 DEF Section
<1>8. /\ Len(C) = Len(j.purges)
      /\ \A i \in 1..Len(j.purges) : C[i] = [type |-> "PurgePath", on |-> j.purges[i]]
  BY <1>2 DEF Section
<1> HIDE DEF A, B, C
<1>9. /\ A \o B \in Seq(UndoStep) /\ Len(A \o B) = Len(A) + Len(B)
      /\ \A i \in 1..(Len(A) + Len(B)) :
           (A \o B)[i] = IF i <= Len(A) THEN A[i] ELSE B[i - Len(A)]
  BY <1>3, <1>4, ConcatProperties
<1>10. /\ Len((A \o B) \o C) = Len(A \o B) + Len(C)
       /\ \A i \in 1..(Len(A \o B) + Len(C)) :
            ((A \o B) \o C)[i] = IF i <= Len(A \o B) THEN (A \o B)[i]
                                 ELSE C[i - Len(A \o B)]
  BY <1>5, <1>9, ConcatProperties
<1>11. UndoPlan(j) = (A \o B) \o C
  BY DEF UndoPlan, A, B, C
<1>12. Len(UndoPlan(j)) = Len(j.actions) + Len(j.branches) + Len(j.purges)
  BY <1>2, <1>6, <1>7, <1>8, <1>9, <1>10, <1>11
<1>13. \A i \in 1..Len(j.actions) : UndoPlan(j)[i] = A[i]
  BY <1>2, <1>6, <1>7, <1>8, <1>9, <1>10, <1>11
<1> DEFINE a == Len(j.actions)
           b == Len(j.branches)
           c == Len(j.purges)
           D == A \o B
           E == D \o C
<1>17. a \in Nat /\ b \in Nat /\ c \in Nat
  BY <1>2
<1>18. Len(A) = a /\ Len(B) = b /\ Len(C) = c
  BY <1>6, <1>7, <1>8
<1> HIDE DEF a, b, c
<1>19. /\ Len(D) = a + b
       /\ \A i \in 1..(a + b) : D[i] = IF i <= a THEN A[i] ELSE B[i - a]
  BY <1>9, <1>17, <1>18
<1>20. \A i \in 1..(a + b + c) : E[i] = IF i <= a + b THEN D[i] ELSE C[i - (a + b)]
  BY <1>10, <1>17, <1>18, <1>19
<1>21. UndoPlan(j) = E
  BY <1>11
<1> HIDE DEF D, E
<1>16. /\ a \in Nat /\ b \in Nat /\ c \in Nat /\ a + b \in Nat
       /\ UndoPlan(j) = E
  BY <1>17, <1>21
<1>14. \A i \in 1..b : UndoPlan(j)[a + i] = B[i]
  <2> TAKE i \in 1..b
  <2>1. /\ a + i \in 1..(a + b) /\ ~(a + i <= a) /\ a + i - a = i /\ a + i <= a + b
        /\ a + i \in 1..(a + b + c)
    BY <1>16, Offsets
  <2> QED
    BY <1>16, <1>19, <1>20, <2>1
<1>15. \A i \in 1..c : UndoPlan(j)[a + b + i] = C[i]
  <2> TAKE i \in 1..c
  <2>1. /\ a + b + i \in 1..(a + b + c) /\ ~(a + b + i <= a + b)
        /\ a + b + i - (a + b) = i
    BY <1>16, Offsets
  <2> QED
    BY <1>16, <1>20, <2>1
<1> QED
  BY <1>2, <1>6, <1>7, <1>8, <1>12, <1>13, <1>14, <1>15 DEF A, a, b, c

(* The actions are a part of it.                                           *)
LEMMA UndoPlanLength ==
  ASSUME NEW j \in Doc
  PROVE  /\ Len(UndoPlan(j)) \in Nat
         /\ Len(j.actions) <= Len(UndoPlan(j))
         /\ 1..Len(j.actions) \subseteq 1..Len(UndoPlan(j))
<1> DEFINE a == Len(j.actions)
           b == Len(j.branches)
           c == Len(j.purges)
           n == Len(UndoPlan(j))
<1>1. a \in Nat /\ b \in Nat /\ c \in Nat /\ n = a + b + c
  BY UndoPlanShape
<1> HIDE DEF a, b, c, n
<1>2. n \in Nat /\ a <= n /\ 1..a \subseteq 1..n
  BY <1>1
<1> QED
  BY <1>2 DEF a, n

(* So the type of an entry tells how far uninstall has come.               *)
LEMMA UndoPlanOrder ==
  ASSUME NEW j \in Doc, NEW i \in 1..Len(UndoPlan(j))
  PROVE  /\ UndoPlan(j)[i].type \notin {"PurgeBranch", "PurgePath"}
              => i \in 1..Len(j.actions)
         /\ UndoPlan(j)[i].type = "PurgeBranch" => i > Len(j.actions)
         /\ UndoPlan(j)[i].type = "PurgePath" =>
              \E k \in 1..Len(j.purges) :
                i = Len(j.actions) + Len(j.branches) + k /\ UndoPlan(j)[i].on = j.purges[k]
<1> DEFINE a == Len(j.actions)
           b == Len(j.branches)
           c == Len(j.purges)
<1>1. a \in Nat /\ b \in Nat /\ c \in Nat /\ Len(UndoPlan(j)) = a + b + c
  BY UndoPlanShape
<1>5. i \in 1..(a + b + c)
  BY <1>1
<1> HIDE DEF a, b, c
<1>6. i <= a \/ (i > a /\ i <= a + b) \/ i > a + b
  BY <1>1, <1>5, Offsets
<1>2. CASE i <= a
  <2>1. i \in 1..a
    BY <1>1, <1>2, <1>5, Offsets
  <2>2. j.actions \in Seq(Step) /\ a + 1 - i \in 1..a
    BY <1>1, <2>1, Offsets DEF Doc
  <2>3. UndoPlan(j)[i] \in Step
    BY <2>1, <2>2, UndoPlanShape, ElementOfSeq DEF a
  <2>4. UndoPlan(j)[i].type \notin {"PurgeBranch", "PurgePath"}
    BY <2>3 DEF Step
  <2> QED
    BY <2>1, <2>4 DEF a
<1>3. CASE i > a /\ i <= a + b
  <2>1. i - a \in 1..b /\ a + (i - a) = i
    BY <1>1, <1>3, <1>5, Offsets
  <2>2. UndoPlan(j)[a + (i - a)] = [type |-> "PurgeBranch", on |-> j.branches[i - a]]
    BY <2>1, UndoPlanShape DEF a, b
  <2>3. UndoPlan(j)[i].type = "PurgeBranch"
    BY <2>1, <2>2
  <2> QED
    BY <1>3, <2>3 DEF a
<1>4. CASE i > a + b
  <2>1. i - (a + b) \in 1..c /\ a + b + (i - (a + b)) = i
    BY <1>1, <1>4, <1>5, Offsets
  <2>2. UndoPlan(j)[a + b + (i - (a + b))]
          = [type |-> "PurgePath", on |-> j.purges[i - (a + b)]]
    BY <2>1, UndoPlanShape DEF a, b, c
  <2>3. UndoPlan(j)[i].type = "PurgePath" /\ UndoPlan(j)[i].on = j.purges[i - (a + b)]
    BY <2>1, <2>2
  <2>4. \E k \in 1..c : i = a + b + k /\ UndoPlan(j)[i].on = j.purges[k]
    BY <2>1, <2>3
  <2> QED
    BY <2>3, <2>4 DEF a, b, c
<1> QED
  BY <1>6, <1>2, <1>3, <1>4

(* Every action of the journal stands in the plan.                         *)
LEMMA ActionsInPlan ==
  ASSUME NEW j \in Doc, NEW n \in 1..Len(j.actions)
  PROVE  \E i \in 1..Len(j.actions) :
           i \in 1..Len(UndoPlan(j)) /\ UndoPlan(j)[i] = j.actions[n]
<1> DEFINE a == Len(j.actions)
           b == Len(j.branches)
           c == Len(j.purges)
<1>1. a \in Nat /\ b \in Nat /\ c \in Nat /\ Len(UndoPlan(j)) = a + b + c
  BY UndoPlanShape
<1>2. n \in 1..a
  OBVIOUS
<1> HIDE DEF a, b, c
<1>3. a + 1 - n \in 1..a /\ a + 1 - n \in 1..(a + b + c) /\ a + 1 - (a + 1 - n) = n
  BY <1>1, <1>2, Offsets
<1>4. UndoPlan(j)[a + 1 - n] = j.actions[a + 1 - (a + 1 - n)]
  BY <1>3, UndoPlanShape DEF a
<1>5. UndoPlan(j)[a + 1 - n] = j.actions[n]
  BY <1>3, <1>4
<1> QED
  BY <1>1, <1>3, <1>5 DEF a

(* The deferred keys: appending one adds it, the head is the one taken.    *)
LEMMA ElementsOf ==
  ASSUME NEW S, NEW s \in Seq(S)
  PROVE  /\ \A e \in S : Elements(s) \cup {e} \subseteq Elements(Append(s, e))
         /\ s # <<>> => Elements(s) \subseteq {Head(s)} \cup Elements(Tail(s))
<1>1. Len(s) \in Nat
  BY LenProperties
<1>2. ASSUME NEW e \in S
      PROVE  Elements(s) \cup {e} \subseteq Elements(Append(s, e))
  <2>1. Len(Append(s, e)) = Len(s) + 1 /\ Append(s, e)[Len(s) + 1] = e
          /\ \A i \in 1..Len(s) : Append(s, e)[i] = s[i]
    BY AppendProperties
  <2>2. Len(s) + 1 \in 1..Len(Append(s, e)) /\ 1..Len(s) \subseteq 1..Len(Append(s, e))
    BY <1>1, <2>1
  <2> QED
    BY <2>1, <2>2 DEF Elements
<1>3. ASSUME s # <<>>
      PROVE  Elements(s) \subseteq {Head(s)} \cup Elements(Tail(s))
  <2>1. Len(Tail(s)) = Len(s) - 1 /\ \A i \in 1..Len(Tail(s)) : Tail(s)[i] = s[i + 1]
    BY <1>3, HeadTailProperties
  <2>2. Head(s) = s[1]
    OBVIOUS
  <2>3. ASSUME NEW i \in 1..Len(s), i # 1
        PROVE  s[i] \in Elements(Tail(s))
    <3>1. i - 1 \in 1..Len(Tail(s)) /\ (i - 1) + 1 = i
      BY <1>1, <2>1, <2>3
    <3>2. Tail(s)[i - 1] = s[i]
      BY <2>1, <3>1
    <3> QED
      BY <3>1, <3>2 DEF Elements
  <2> QED
    BY <2>2, <2>3 DEF Elements
<1> QED
  BY <1>2, <1>3

-----------------------------------------------------------------------------
(* Which steps only remove *)

(* Install runs only while it is installing.                               *)
LEMMA InstallRuns ==
  InstallStep \/ InstallFails => Installing
BY DEF InstallStep, CreateDirectory, PrepareParents, WriteFile, WriteRegistry,
       ExecuteScript, InstallUninstaller, RegisterValue, SkipUninstaller,
       OpenJournal, CompleteJournal, FinishInstall, InstallFails, AtStep,
       AtUninstaller, Installing

(* Install only makes paths, and values.                                   *)
LEMMA InstallMakes ==
  ASSUME HostTypeOK, InstallTypeOK, InstallStep
  PROVE  /\ \A p \in Path : node'[p] \in {node[p], "app"}
         /\ \A v \in Value : reg'[v] \in {reg[v], "app"}
<1> USE DEF HostTypeOK, hostVars, engineVars, MakeDirs, PutFile, SetValue
<1>1. \A p \in Path : node'[p] \in {node[p], "app"}
  <2>1. CASE CreateDirectory
    BY <2>1 DEF CreateDirectory
  <2>2. CASE PrepareParents
    BY <2>2 DEF PrepareParents
  <2>3. CASE WriteFile
    BY <2>3 DEF WriteFile
  <2>4. CASE ExecuteScript
    BY <2>4 DEF ExecuteScript
  <2>5. CASE InstallUninstaller
    BY <2>5 DEF InstallUninstaller
  <2>6. CASE OpenJournal
    BY <2>6 DEF OpenJournal
  <2>7. CASE UNCHANGED node
    BY <2>7
  <2>8. WriteRegistry \/ RegisterValue \/ SkipUninstaller \/ CompleteJournal \/ FinishInstall
          => UNCHANGED node
    BY DEF WriteRegistry, RegisterValue, SkipUninstaller, CompleteJournal, FinishInstall
  <2> QED
    BY <2>1, <2>2, <2>3, <2>4, <2>5, <2>6, <2>7, <2>8 DEF InstallStep
<1>2. \A v \in Value : reg'[v] \in {reg[v], "app"}
  <2>1. CASE WriteRegistry
    BY <2>1 DEF WriteRegistry
  <2>2. CASE RegisterValue
    BY <2>2 DEF RegisterValue
  <2>3. CASE UNCHANGED reg
    BY <2>3
  <2>4. ~WriteRegistry /\ ~RegisterValue => UNCHANGED reg
    BY DEF InstallStep, CreateDirectory, PrepareParents, WriteFile, ExecuteScript,
           InstallUninstaller, SkipUninstaller, OpenJournal, CompleteJournal, FinishInstall
  <2> QED
    BY <2>1, <2>2, <2>3, <2>4
<1> QED
  BY <1>1, <1>2

(* The wrappers that remove make nothing and forget no pending deletion.   *)
LEMMA WrappersRemove ==
  ASSUME HostTypeOK, NEW elev,
         \/ \E d : RemoveDir(d, elev) /\ UNCHANGED <<reg, pending>>
         \/ \E l : RemoveLink(l, elev) /\ UNCHANGED <<reg, pending>>
         \/ \E f : RemoveFile(f, elev) /\ UNCHANGED reg
         \/ \E k : DeleteTree(k, elev) /\ UNCHANGED <<node, pending>>
         \/ UNCHANGED <<node, reg, pending>>
  PROVE  OnlyRemoves /\ pending \subseteq pending'
<1> USE DEF OnlyRemoves, HostTypeOK
<1>1. ASSUME NEW d, RemoveDir(d, elev), UNCHANGED <<reg, pending>>
      PROVE  OnlyRemoves /\ pending \subseteq pending'
  BY <1>1 DEF RemoveDir
<1>2. ASSUME NEW f, RemoveFile(f, elev), UNCHANGED reg
      PROVE  OnlyRemoves /\ pending \subseteq pending'
  BY <1>2 DEF RemoveFile
<1>3. ASSUME NEW k, DeleteTree(k, elev), UNCHANGED <<node, pending>>
      PROVE  OnlyRemoves /\ pending \subseteq pending'
  BY <1>3 DEF DeleteTree
<1>4. CASE UNCHANGED <<node, reg, pending>>
  BY <1>4
<1>5. ASSUME NEW l, RemoveLink(l, elev), UNCHANGED <<reg, pending>>
      PROVE  OnlyRemoves /\ pending \subseteq pending'
  BY <1>5 DEF RemoveLink
<1> QED
  BY <1>1, <1>2, <1>3, <1>4, <1>5

(* Uninstall and the helper, with its start and its end, only remove.      *)
LEMMA RunsRemove ==
  ASSUME HostTypeOK,
         \/ UndoStepTaken \/ UninstallFails \/ CopyHelper \/ SpawnHelper
         \/ HelperStep \/ SelfCleanupFallback \/ HelperFails
         \/ UserAnswers \/ PowershellDeletes
  PROVE  OnlyRemoves /\ pending \subseteq pending'
<1> USE WrappersRemove DEF hostVars
<1>1. CASE UndoDirectory \/ \E d \in DirPath : PurgeDir(d)
  BY <1>1 DEF UndoDirectory, PurgeDir
<1>2. CASE UndoFile \/ PurgeSingle \/ \E f \in FilePath : PurgeFile(f)
  BY <1>2 DEF UndoFile, PurgeSingle, PurgeFile
<1>3. CASE UndoRegistry \/ PurgeBranch \/ RemoveRegistration
  BY <1>3 DEF UndoRegistry, PurgeBranch, RemoveRegistration
<1>4. CASE UNCHANGED <<node, reg, pending>>
  BY <1>4
<1>5. DeferSelfDelete \/ DeferRegistration \/ SkipScript \/ PurgeNothing \/ OpenPurge
        \/ (\E p \in Path : PassOver(p)) \/ FinishUninstall \/ CloseReport
        \/ ExitUninstaller \/ UninstallFails \/ SpawnHelper
        => UNCHANGED <<node, reg, pending>>
  BY DEF DeferSelfDelete, DeferRegistration, SkipScript, PurgeNothing, OpenPurge, PassOver,
         FinishUninstall, CloseReport, ExitUninstaller, UninstallFails, SpawnHelper
<1>6. PollExpires \/ ScheduleSelfCleanup \/ Tell \/ ExitHelper \/ HelperFails \/ UserAnswers
        => UNCHANGED <<node, reg, pending>>
  BY DEF PollExpires, ScheduleSelfCleanup, Tell, ExitHelper, HelperFails, UserAnswers
<1>7. CASE CopyHelper
  BY <1>7 DEF CopyHelper, PutFile, OnlyRemoves, HostTypeOK
<1>8. CASE Poll
  BY <1>8 DEF Poll, OnlyRemoves, HostTypeOK
<1>9. CASE PowershellDeletes
  BY <1>9 DEF PowershellDeletes, OnlyRemoves, HostTypeOK
<1>10. CASE Fallback \/ SelfCleanupFallback
  BY <1>10 DEF Fallback, SelfCleanupFallback
<1>11. CASE RemoveRoot
  BY <1>11 DEF RemoveRoot
<1>12. CASE \E l \in Link : PurgeLink(l)
  BY <1>12 DEF PurgeLink
<1> QED
  BY <1>1, <1>2, <1>3, <1>4, <1>5, <1>6, <1>7, <1>8, <1>9, <1>10, <1>11, <1>12
  DEF UndoStepTaken, HelperStep

(* While no installation has met uninstall or helper, everything that      *)
(* happens only removes; and only a boot shortens the boot-time list.      *)
LEMMA NextRemoves ==
  ASSUME TypeOK, QuietAlone, [Next]_vars
  PROVE  /\ quiet' # {} => OnlyRemoves
         /\ ~Reboot => pending \subseteq pending'
<1> USE TypeParts
<1>1. ASSUME NEW m \in Manifests, NEW elev \in Tokens, LaunchInstall(m, elev)
      PROVE  quiet' = {} /\ UNCHANGED pending
  BY <1>1 DEF LaunchInstall, StartInstall, hostVars
<1>2. ASSUME RunInstall \/ InstallBreaks
      PROVE  quiet' = {} /\ UNCHANGED pending
  <2>1. quiet = {}
    BY <1>2, InstallRuns DEF RunInstall, InstallBreaks, QuietAlone
  <2>2. UNCHANGED <<quiet, pending>>
    BY <1>2, Frames DEF RunInstall, InstallBreaks, InstallFails, lifeVars, hostVars
  <2> QED
    BY <2>1, <2>2
<1>3. CASE RunUninstall \/ HandOver \/ UninstallBreaks \/ RunHelper \/ HelperBreaks
             \/ User \/ Powershell
  BY <1>3, RunsRemove
  DEF RunUninstall, HandOver, UninstallBreaks, RunHelper, HelperBreaks, User, Powershell
<1>4. CASE Reboot
  <2>1. /\ node' = [p \in Path |-> IF p \in pending THEN "absent" ELSE node[p]]
        /\ UNCHANGED reg
    BY <1>4 DEF Reboot, Boot
  <2>2. OnlyRemoves
    BY <2>1 DEF OnlyRemoves, HostTypeOK, Path
  <2> QED
    BY <1>4, <2>2
<1>5. CASE UNCHANGED <<node, reg, pending>>
  BY <1>5, WrappersRemove
<1>6. ASSUME NEW j \in JournalPath, NEW image \in Images, NEW elev \in Tokens,
             NEW mode \in Modes, LaunchUninstall(j, image, elev, mode)
      PROVE  UNCHANGED <<node, reg, pending>>
  BY <1>6 DEF LaunchUninstall, StartUninstall
<1>7. OtherProgram \/ UNCHANGED vars => UNCHANGED <<node, reg, pending>>
  BY DEF OtherProgram, Hold, Release, vars, hostVars
<1> QED
  BY <1>1, <1>2, <1>3, <1>4, <1>5, <1>6, <1>7 DEF Next

(* A quiet run stays so until an installation begins; and a quiet          *)
(* uninstall was quiet before, or has just begun.                          *)
LEMMA QuietStays ==
  ASSUME QuietAlone, [Next]_vars
  PROVE  /\ QuietAlone'
         /\ Quiet' => Quiet \/ \E j \in JournalPath, image \in Images, elev \in Tokens,
                                 mode \in Modes : LaunchUninstall(j, image, elev, mode)
         /\ "helper" \in quiet' => "helper" \in quiet \/ SpawnHelper
<1> USE DEF Quiet, QuietAlone
<1>1. ASSUME NEW m \in Manifests, NEW elev \in Tokens, LaunchInstall(m, elev)
      PROVE  quiet' = {}
  BY <1>1 DEF LaunchInstall
<1>2. ASSUME RunInstall \/ InstallBreaks
      PROVE  quiet' = {}
  BY <1>2, InstallRuns DEF RunInstall, InstallBreaks, lifeVars
<1>3. ASSUME NEW j \in JournalPath, NEW image \in Images, NEW elev \in Tokens,
             NEW mode \in Modes, LaunchUninstall(j, image, elev, mode)
      PROVE  QuietAlone' /\ ("helper" \in quiet' => "helper" \in quiet)
  BY <1>3 DEF LaunchUninstall, Begun, Installing, installVars
<1>4. ASSUME HandOver
      PROVE  /\ QuietAlone' /\ (Quiet' => Quiet)
             /\ "helper" \in quiet' => "helper" \in quiet \/ SpawnHelper
  BY <1>4 DEF HandOver, Begun, Installing, installVars
<1>5. ASSUME \/ RunUninstall \/ UninstallBreaks \/ RunHelper \/ HelperBreaks
             \/ User \/ Powershell \/ OtherProgram \/ UNCHANGED vars
      PROVE  UNCHANGED <<quiet, ipc>>
  BY <1>5 DEF RunUninstall, UninstallBreaks, RunHelper, HelperBreaks, User, Powershell,
              OtherProgram, vars, lifeVars, installVars
<1>6. ASSUME Reboot
      PROVE  UNCHANGED quiet /\ ipc' \in {ipc, "failed"}
  BY <1>6 DEF Reboot
<1> QED
  BY <1>1, <1>2, <1>3, <1>4, <1>5, <1>6 DEF Next, Installing

-----------------------------------------------------------------------------
(* The helper and its executable *)

(* An executable that is running stays.                                    *)
LEMMA ImageStays ==
  ASSUME HostTypeOK, NEW f \in FilePath, f \in images, Exists(f), NEW elev,
         \/ \E d : d \notin FilePath /\ RemoveDir(d, elev)
         \/ \E g : RemoveFile(g, elev)
         \/ UNCHANGED node
  PROVE  Exists(f)'
<1> USE HostAssumption DEF HostTypeOK, Exists, Path
<1>1. ASSUME NEW d, d \notin FilePath, RemoveDir(d, elev)
      PROVE  Exists(f)'
  BY <1>1 DEF RemoveDir
<1>2. ASSUME NEW g, RemoveFile(g, elev)
      PROVE  Exists(f)'
  <2>1. f = g => ~Writable(g, elev)
    BY DEF Writable, InUse
  <2> QED
    BY <1>2, <2>1 DEF RemoveFile
<1>3. CASE UNCHANGED node
  BY <1>3
<1> QED
  BY <1>1, <1>2, <1>3

(* An uninstall under way leaves a running executable alone.               *)
LEMMA UndoSparesImages ==
  ASSUME HostTypeOK, UninstallTypeOK, UndoStepTaken,
         NEW f \in FilePath, f \in images, Exists(f)
  PROVE  Exists(f)' /\ (f # uimage => f \in images')
<1>0. Exists(f)'
  <2> USE ImageStays DEF hostVars
  <2>1. CASE UndoDirectory
    <3>1. Victim \notin FilePath
      BY <2>1, VictimTyped, HostAssumption DEF UndoDirectory, UndoStep, Step
    <3> QED
      BY <2>1, <3>1 DEF UndoDirectory
  <2>2. CASE \E d \in DirPath : PurgeDir(d)
    BY <2>2, HostAssumption DEF PurgeDir
  <2>3. CASE UndoFile \/ PurgeSingle \/ \E g \in FilePath : PurgeFile(g)
    BY <2>3 DEF UndoFile, PurgeSingle, PurgeFile
  <2>4. CASE UNCHANGED node
    BY <2>4
  <2>5. \/ DeferSelfDelete \/ DeferRegistration \/ UndoRegistry \/ SkipScript \/ PurgeBranch
        \/ PurgeNothing \/ OpenPurge \/ (\E p \in Path : PassOver(p))
        \/ RemoveRegistration \/ FinishUninstall \/ CloseReport \/ ExitUninstaller
        => UNCHANGED node
    BY DEF DeferSelfDelete, DeferRegistration, UndoRegistry, SkipScript, PurgeBranch,
           PurgeNothing, OpenPurge, PassOver, RemoveRegistration, FinishUninstall,
           CloseReport, ExitUninstaller
  <2>6. CASE \E l \in Link : PurgeLink(l)
    BY <2>6, HostAssumption DEF PurgeLink, RemoveLink, Exists
  <2> QED
    BY <2>1, <2>2, <2>3, <2>4, <2>5, <2>6 DEF UndoStepTaken
<1>1. images' \in {images, images \ {uimage}}
  BY DEF UndoStepTaken, UndoDirectory, DeferSelfDelete, UndoFile, DeferRegistration,
         UndoRegistry, SkipScript, PurgeBranch, PurgeSingle, PurgeNothing, OpenPurge,
         PassOver, PurgeFile, PurgeDir, PurgeLink, RemoveRegistration, FinishUninstall,
         CloseReport, ExitUninstaller, hostVars
<1> QED
  BY <1>0, <1>1

(* So does the helper, and its PowerShell.                                 *)
LEMMA HelperSparesImages ==
  ASSUME HostTypeOK, HelperTypeOK, TargetKnown,
         NEW f \in FilePath, f \in images, Exists(f),
         \/ HelperStep \/ SelfCleanupFallback \/ HelperFails \/ UserAnswers
         \/ PowershellDeletes
  PROVE  Exists(f)' /\ (hpc # "exit" => f \in images')
<1> USE ImageStays DEF hostVars
<1>1. CASE Poll \/ PowershellDeletes
  <2>1. ~Writable(f, helev)
    BY DEF Writable, InUse
  <2> QED
    BY <1>1, <2>1 DEF Poll, PowershellDeletes, Exists, HostTypeOK, Path
<1>2. CASE RemoveRoot
  <2>1. Parent(htarget) \notin FilePath
    <3>1. htarget \in Path
      BY <1>2 DEF RemoveRoot, TargetKnown, HelperRunning, HelperTypeOK, Path
    <3>2. CASE Ancestors[htarget] = {}
      BY <3>2, HostAssumption DEF Parent, Path
    <3>3. CASE Ancestors[htarget] # {}
      BY <3>1, <3>3, ParentIsAncestor, HostAssumption
    <3> QED
      BY <3>2, <3>3
  <2> QED
    BY <1>2, <2>1 DEF RemoveRoot
<1>3. CASE Fallback \/ SelfCleanupFallback
  BY <1>3 DEF Fallback, SelfCleanupFallback
<1>4. CASE PollExpires \/ ScheduleSelfCleanup \/ Tell \/ ExitHelper \/ HelperFails
             \/ UserAnswers
  BY <1>4 DEF PollExpires, ScheduleSelfCleanup, Tell, ExitHelper, HelperFails, UserAnswers
<1> QED
  BY <1>1, <1>2, <1>3, <1>4 DEF HelperStep

(* Every step keeps the helper's executable there while it is needed.      *)
LEMMA HelperThereStays ==
  ASSUME TypeOK, TargetKnown, HelperThere, [Next]_vars
  PROVE  HelperThere'
<1> USE TypeParts
<1>a. HelperExe \in FilePath /\ HelperExe \in Path
  BY CleanupAssumption DEF Path
<1>1. ASSUME NEW m \in Manifests, NEW elev \in Tokens, LaunchInstall(m, elev)
      PROVE  UNCHANGED <<node, images, uninstallVars, helperVars>>
  BY <1>1 DEF LaunchInstall, StartInstall, hostVars
<1>2. CASE UNCHANGED <<node, images, uninstallVars, helperVars>>
  BY <1>2 DEF HelperThere, Exists, HelperRunning, uninstallVars, helperVars
<1>3. ASSUME RunInstall
      PROVE  HelperThere'
  <2>1. UNCHANGED <<images, uninstallVars, helperVars>>
    BY <1>3, Frames DEF RunInstall
  <2>2. Exists(HelperExe) => Exists(HelperExe)'
    BY <1>3, <1>a, InstallMakes DEF RunInstall, Exists
  <2> QED
    BY <2>1, <2>2 DEF HelperThere, HelperRunning, uninstallVars, helperVars
<1>4. ASSUME InstallBreaks \/ OtherProgram \/ UNCHANGED vars
      PROVE  UNCHANGED <<node, images, uninstallVars, helperVars>>
  BY <1>4 DEF InstallBreaks, InstallFails, OtherProgram, Hold, Release, vars, hostVars
<1>5. ASSUME NEW j \in JournalPath, NEW image \in Images, NEW elev \in Tokens,
             NEW mode \in Modes, LaunchUninstall(j, image, elev, mode)
      PROVE  HelperThere'
  <2>1. /\ uimage' = image /\ upc' = "undo" /\ images \subseteq images'
        /\ UNCHANGED <<node, helperVars>>
    BY <1>5 DEF LaunchUninstall, StartUninstall
  <2>2. image # HelperExe
    BY <1>a, LifecycleAssumption, HostAssumption DEF Path
  <2> QED
    BY <2>1, <2>2 DEF HelperThere, Exists, HelperRunning, helperVars
<1>6. ASSUME RunUninstall
      PROVE  HelperThere'
  <2>1. UNCHANGED helperVars /\ upc' # "handoff"
    BY <1>6, Frames DEF RunUninstall
  <2>2. HelperRunning => Exists(HelperExe)' /\ HelperExe \in images'
    BY <1>6, <1>a, UndoSparesImages DEF RunUninstall, HelperThere
  <2>3. uimage' = uimage
    BY <1>6 DEF RunUninstall, UndoStepTaken, UndoDirectory, DeferSelfDelete, UndoFile,
         DeferRegistration, UndoRegistry, SkipScript, PurgeBranch, PurgeSingle,
         PurgeNothing, OpenPurge, PassOver, PurgeFile, PurgeDir, PurgeLink,
         RemoveRegistration, FinishUninstall, CloseReport, ExitUninstaller,
         Advance, FailUninstall, Walked
  <2> QED
    BY <2>1, <2>2, <2>3 DEF HelperThere, HelperRunning, helperVars
<1>7. ASSUME HandOver
      PROVE  HelperThere'
  <2>1. CASE CopyHelper /\ upc' = "handoff"
    <3>1. /\ UNCHANGED helperVars /\ ~HelperRunning /\ ps # "armed"
      BY <2>1 DEF CopyHelper
    <3>2. ~FailUninstall
      BY <2>1 DEF FailUninstall
    <3>3. PutFile(HelperExe) /\ uimage' = uimage
      BY <2>1, <3>2 DEF CopyHelper
    <3>4. Exists(HelperExe)'
      BY <3>3, <1>a DEF PutFile, Exists, HostTypeOK
    <3> QED
      BY <3>1, <3>3, <3>4 DEF HelperThere, HelperRunning, helperVars
  <2>2. CASE CopyHelper /\ upc' # "handoff"
    <3>1. /\ UNCHANGED helperVars /\ ~HelperRunning
      BY <2>2 DEF CopyHelper
    <3>2. uimage' = uimage
      BY <2>2 DEF CopyHelper, FailUninstall
    <3> QED
      BY <2>2, <3>1, <3>2 DEF HelperThere, HelperRunning, helperVars
  <2>3. CASE SpawnHelper
    <3>1. /\ upc = "handoff" /\ upc' = "exiting" /\ images' = images \cup {HelperExe}
          /\ UNCHANGED <<node, uimage>>
      BY <2>3 DEF SpawnHelper
    <3> QED
      BY <3>1 DEF HelperThere, Exists
  <2> QED
    BY <1>7, <2>1, <2>2, <2>3 DEF HandOver
<1>8. ASSUME UninstallBreaks
      PROVE  HelperThere'
  <2>1. UNCHANGED <<node, images, uimage, helperVars>> /\ upc' = "failing"
    BY <1>8 DEF UninstallBreaks, UninstallFails, FailUninstall, hostVars
  <2> QED
    BY <2>1 DEF HelperThere, Exists, HelperRunning, helperVars
<1>9. ASSUME RunHelper \/ HelperBreaks \/ User
      PROVE  HelperThere'
  <2>1. HelperRunning /\ UNCHANGED <<upc, uimage>>
    BY <1>9, Frames DEF RunHelper, HelperBreaks, User, uninstallVars, HelperRunning,
       HelperStep, Poll, PollExpires, Fallback, RemoveRoot, ScheduleSelfCleanup, Tell,
       ExitHelper, SelfCleanupFallback, HelperFails, UserAnswers
  <2>2. Exists(HelperExe)' /\ (hpc # "exit" => HelperExe \in images')
    BY <1>9, <1>a, <2>1, HelperSparesImages DEF RunHelper, HelperBreaks, User, HelperThere
  <2>3. hpc = "exit" => hpc' = "done"
    BY <1>9 DEF RunHelper, HelperBreaks, User, HelperStep, HelperAt, Poll, PollExpires,
       Fallback, RemoveRoot, ScheduleSelfCleanup, Tell, ExitHelper, SelfCleanupFallback,
       HelperFails, UserAnswers
  <2> QED
    BY <2>1, <2>2, <2>3 DEF HelperThere, HelperRunning
<1>10. ASSUME Powershell
       PROVE  HelperThere'
  <2>1. ps = "armed" /\ UNCHANGED <<hpc, upc, uimage, images>>
    BY <1>10 DEF Powershell, PowershellDeletes, uninstallVars
  <2>2. HelperRunning => Exists(HelperExe)'
    BY <1>10, <1>a, HelperSparesImages DEF Powershell, HelperThere
  <2> QED
    BY <2>1, <2>2 DEF HelperThere, HelperRunning
<1>11. ASSUME Reboot
       PROVE  HelperThere'
  <2>1. uimage' = uimage /\ upc' # "handoff" /\ ~HelperRunning'
    BY <1>11 DEF Reboot, HelperRunning, Uninstalling
  <2> QED
    BY <2>1 DEF HelperThere
<1> QED
  BY <1>1, <1>2, <1>3, <1>4, <1>5, <1>6, <1>7, <1>8, <1>9, <1>10, <1>11 DEF Next

(* The verdict the helper carries, and whether it tells it.                *)
Verdict(target) ==
  IF hreboot THEN pending # {} ELSE "helper" \in quiet => ~Exists(target)

(* A verdict stays true: what is gone stays gone, what waits for the boot  *)
(* waits until the boot, which ends the helper.                            *)
LEMMA VerdictStays ==
  ASSUME TypeOK, QuietAlone, [Next]_vars, ~Reboot, ~SpawnHelper,
         NEW target \in FilePath \ {HelperExe}, Verdict(target), hreboot' = hreboot
  PROVE  Verdict(target)'
<1>1. CASE hreboot
  BY <1>1, NextRemoves DEF Verdict
<1>2. CASE ~hreboot
  <2>1. ASSUME "helper" \in quiet'
        PROVE  ~Exists(target)'
    <3>1. "helper" \in quiet /\ OnlyRemoves
      BY <2>1, QuietStays, NextRemoves
    <3>2. target \in Path /\ ~Exists(target)
      BY <1>2, <3>1 DEF Verdict, Path
    <3> QED
      BY <3>1, <3>2 DEF OnlyRemoves, Exists
  <2> QED
    BY <1>2, <2>1 DEF Verdict
<1> QED
  BY <1>1, <1>2

(* The helper finds its verdict by what it has done.                       *)
LEMMA VerdictFound ==
  ASSUME HostTypeOK, HelperTypeOK, TargetKnown, HelperThere,
         Fallback \/ SelfCleanupFallback, hpc' # "exit"
  PROVE  Verdict(htarget)'
<1>1. CASE Fallback
  <2>1. htarget \in FilePath /\ htarget \in Path
    BY <1>1 DEF Fallback, TargetKnown, HelperRunning, HelperTypeOK, Path
  <2>2. RemoveFile(htarget, helev) /\ RemoveFileOk(htarget, helev)
    BY <1>1 DEF Fallback, HelperAt
  <2>3. hreboot' = (node'[htarget] # "absent") /\ htarget' = htarget
    BY <1>1 DEF Fallback, HelperAt
  <2>4. node'[htarget] # "absent" => htarget \in pending'
    BY <2>1, <2>2 DEF RemoveFile, RemoveFileOk, Exists, HostTypeOK
  <2> QED
    BY <2>3, <2>4 DEF Verdict, Exists
<1>2. CASE SelfCleanupFallback
  <2>1. HelperExe \in images /\ Exists(HelperExe)
    BY <1>2 DEF SelfCleanupFallback, HelperThere, HelperRunning
  <2>2. RemoveFile(HelperExe, helev) /\ RemoveFileOk(HelperExe, helev) /\ hreboot' = TRUE
    BY <1>2 DEF SelfCleanupFallback, HelperAt
  <2>3. HelperExe \in pending'
    BY <2>1, <2>2 DEF RemoveFile, RemoveFileOk, Writable, InUse
  <2> QED
    BY <2>2, <2>3 DEF Verdict
<1> QED
  BY <1>1, <1>2

(* What the helper will tell stays true.                                   *)
LEMMA AnswerStays ==
  ASSUME TypeOK, TargetKnown, InScope(Manifests), QuietAlone, HelperThere, AnswerTrue, [Next]_vars
  PROVE  AnswerTrue'
<1> DEFINE Decided == hpc \in {"root", "self", "tell", "prompt"}
<1> USE TypeParts
<1>1. Decided => Verdict(htarget) /\ HelperRunning
  BY DEF AnswerTrue, Verdict, HelperRunning
<1>2. Decided => htarget \in FilePath \ {HelperExe}
  BY <1>1 DEF InScope, TargetKnown, ScopedFile
<1>3. SUFFICES ASSUME Decided'
               PROVE  Verdict(htarget)'
  BY DEF AnswerTrue, Verdict
<1>4. CASE Decided /\ ~Reboot /\ ~SpawnHelper /\ UNCHANGED <<htarget, hreboot>>
  <2>1. Verdict(htarget) /\ htarget \in FilePath \ {HelperExe}
    BY <1>1, <1>2, <1>4
  <2>2. PICK target \in FilePath \ {HelperExe} : target = htarget
    BY <2>1
  <2>3. Verdict(target) /\ htarget' = target
    BY <1>4, <2>1, <2>2
  <2>4. Verdict(target)'
    BY <1>4, <2>3, VerdictStays
  <2> QED
    BY <2>3, <2>4 DEF Verdict
<1>5. CASE RunHelper \/ HelperBreaks \/ User
  <2>1. CASE Fallback \/ SelfCleanupFallback
    BY <1>3, <2>1, VerdictFound
  <2>2. CASE ~Fallback /\ ~SelfCleanupFallback
    <3>1. Decided /\ ~Reboot /\ ~SpawnHelper /\ UNCHANGED <<htarget, hreboot>>
      <4>1. PollExpires \/ Poll \/ ExitHelper \/ HelperFails => ~Decided'
        BY DEF PollExpires, Poll, ExitHelper, HelperFails, HelperAt
      <4>2. RemoveRoot \/ ScheduleSelfCleanup \/ Tell \/ UserAnswers
        BY <1>3, <1>5, <2>2, <4>1 DEF RunHelper, HelperBreaks, User, HelperStep
      <4>3. Decided /\ UNCHANGED <<htarget, hreboot, upc, boots>>
        BY <4>2, <1>5 DEF RemoveRoot, ScheduleSelfCleanup, Tell, UserAnswers, HelperAt,
           uninstallVars, RunHelper, HelperBreaks, User, runVars, lifeVars
      <4>4. ~SpawnHelper
        BY <4>3 DEF SpawnHelper
      <4>5. ~Reboot
        BY <4>3 DEF Reboot, TypeOK
      <4> QED
        BY <4>3, <4>4, <4>5
    <3> QED
      BY <1>4, <3>1
  <2> QED
    BY <2>1, <2>2
<1>6. CASE Reboot
  BY <1>3, <1>6 DEF Reboot, HelperRunning
<1>7. CASE SpawnHelper
  BY <1>3, <1>7 DEF SpawnHelper
<1>8. CASE ~Reboot /\ ~SpawnHelper /\ UNCHANGED <<hpc, htarget, hreboot>>
  BY <1>3, <1>4, <1>8
<1>9. ASSUME NEW m \in Manifests, NEW elev \in Tokens, LaunchInstall(m, elev)
      PROVE  UNCHANGED <<hpc, htarget, hreboot>>
  BY <1>9 DEF LaunchInstall, helperVars
<1>10. ASSUME NEW j \in JournalPath, NEW image \in Images, NEW elev \in Tokens,
              NEW mode \in Modes, LaunchUninstall(j, image, elev, mode)
       PROVE  UNCHANGED <<hpc, htarget, hreboot>>
  BY <1>10 DEF LaunchUninstall, helperVars
<1>11. RunInstall \/ InstallBreaks \/ RunUninstall \/ UninstallBreaks \/ OtherProgram
         \/ Powershell \/ CopyHelper \/ UNCHANGED vars
         => UNCHANGED <<hpc, htarget, hreboot>>
  BY DEF RunInstall, InstallBreaks, RunUninstall, UninstallBreaks, OtherProgram,
         Powershell, PowershellDeletes, CopyHelper, vars, helperVars
<1>12. HandOver => CopyHelper \/ SpawnHelper
  BY DEF HandOver
<1> QED
  BY <1>5, <1>6, <1>7, <1>8, <1>9, <1>10, <1>11, <1>12 DEF Next

-----------------------------------------------------------------------------
(* What uninstall has passed *)

(* A removal that returns Ok leaves nothing, or leaves it to the boot.     *)
LEMMA FileDealtWith ==
  ASSUME HostTypeOK, NEW f \in FilePath, NEW elev, RemoveFile(f, elev), RemoveFileOk(f, elev)
  PROVE  Doomed(f)'
BY DEF RemoveFile, RemoveFileOk, Doomed, Exists, HostTypeOK, Path

(* A deleted key is empty.                                                 *)
LEMMA KeyDealtWith ==
  ASSUME HostTypeOK, NEW k, NEW elev, DeleteTree(k, elev), DeleteTreeOk(k, elev)
  PROVE  Blank(k)'
<1>1. \A v \in InTree(k) : v \in Value
  BY DEF InTree
<1> QED
  BY <1>1 DEF DeleteTree, DeleteTreeOk, Blank

(* An entry that is settled stays so while everything only removes.        *)
LEMMA SettledStays ==
  ASSUME HostTypeOK, OnlyRemoves, NEW s \in ScopedUndo(Manifests), Settled(s),
         uself' = uself \/ uself = NoPath,
         \A k \in Elements(ukeys) : k \in Elements(ukeys') \/ Blank(k)'
  PROVE  Settled(s)'
<1>1. ASSUME NEW k, Blank(k)
      PROVE  Blank(k)'
  BY <1>1 DEF Blank, InTree, OnlyRemoves
<1>2. ASSUME NEW f \in FilePath \ {HelperExe}, Doomed(f)
      PROVE  Doomed(f)'
  BY <1>2 DEF Doomed, Exists, OnlyRemoves, Path
<1>3. CASE s.type \in {"CopyFile", "CreateShortcut"}
  <2>1. s.on \in FilePath \ {HelperExe}
    BY <1>3 DEF ScopedUndo, RecordedStep, ScopedSteps, ScopedFile
  <2>2. Doomed(s.on) \/ s.on = uself
    BY <1>3 DEF Settled
  <2>3. Doomed(s.on)' \/ s.on = uself'
    BY <1>2, <2>1, <2>2, HostAssumption DEF Path
  <2> QED
    BY <1>3, <2>3 DEF Settled
<1>4. CASE s.type = "WriteRegistry"
  <2>1. Blank(s.on[1]) \/ s.on[1] \in Elements(ukeys)
    BY <1>4 DEF Settled
  <2>2. Blank(s.on[1])' \/ s.on[1] \in Elements(ukeys')
    BY <1>1, <2>1
  <2> QED
    BY <1>4, <2>2 DEF Settled
<1>5. CASE s.type = "PurgeBranch"
  <2>1. s.on # BadKey /\ Blank(s.on)
    BY <1>5 DEF Settled
  <2>2. s.on # BadKey /\ Blank(s.on)'
    BY <1>1, <2>1
  <2> QED
    BY <1>5, <2>2 DEF Settled
<1>6. CASE s.type \notin {"CopyFile", "CreateShortcut", "WriteRegistry", "PurgeBranch"}
  BY <1>6 DEF Settled
<1> QED
  BY <1>3, <1>4, <1>5, <1>6

(* What a step of uninstall does to its own variables.                     *)
LEMMA UndoFrame ==
  ASSUME UndoStepTaken
  PROVE  /\ UNCHANGED <<ujournal, uimage, uelev, umode>>
         /\ uself' = uself \/ DeferSelfDelete
         /\ ukeys' = ukeys \/ DeferRegistration \/ RemoveRegistration
         /\ \/ upc' = upc \/ upc' = "failing"
            \/ FinishUninstall \/ CloseReport \/ ExitUninstaller
BY DEF UndoStepTaken, UndoDirectory, DeferSelfDelete, UndoFile, DeferRegistration,
       UndoRegistry, SkipScript, PurgeBranch, PurgeSingle, PurgeNothing, OpenPurge, PassOver,
       PurgeFile, PurgeDir, PurgeLink, RemoveRegistration, FinishUninstall, CloseReport,
       ExitUninstaller, Advance, FailUninstall, Walked

(* Uninstall goes on to the next entry only when it has dealt with this.   *)
LEMMA UndoSettles ==
  ASSUME InScope(Manifests), HostTypeOK, UninstallTypeOK, UndoStepTaken, upos' # upos,
         NEW s, s = UndoPlan(ujournal)[upos]
  PROVE  /\ upos' = upos + 1
         /\ upos \in 1..Len(UndoPlan(ujournal))
         /\ Settled(s)'
<1>a. Advance => upos' = upos + 1
  BY DEF Advance
<1>b. ~FailUninstall
  BY DEF FailUninstall
<1>c. \A types : Doing(types) =>
        /\ upos \in 1..Len(UndoPlan(ujournal)) /\ s \in ScopedUndo(Manifests)
        /\ s.type \in types /\ Victim = s.on
  BY VictimScoped DEF Doing
<1>1. CASE UndoDirectory
  <2>1. s.type = "CreateDirectory" /\ upos \in 1..Len(UndoPlan(ujournal)) /\ Advance
    BY <1>1, <1>b, <1>c DEF UndoDirectory
  <2>2. Settled(s)'
    BY <2>1 DEF Settled
  <2> QED
    BY <1>a, <2>1, <2>2
<1>2. CASE DeferSelfDelete
  <2>1. /\ s.type = "CopyFile" /\ upos \in 1..Len(UndoPlan(ujournal))
        /\ uself' = s.on /\ upos' = upos + 1
    BY <1>2, <1>c DEF DeferSelfDelete
  <2>2. Settled(s)'
    BY <2>1 DEF Settled
  <2> QED
    BY <2>1, <2>2
<1>3. CASE UndoFile
  <2>1. /\ s.type \in {"CopyFile", "CreateShortcut"} /\ upos \in 1..Len(UndoPlan(ujournal))
        /\ s \in ScopedUndo(Manifests) /\ Victim = s.on
    BY <1>3, <1>c DEF UndoFile
  <2>2. s.on \in FilePath
    BY <2>1 DEF ScopedUndo, RecordedStep, ScopedSteps, ScopedFile
  <2>3. RemoveFile(s.on, uelev) /\ RemoveFileOk(s.on, uelev) /\ Advance
    BY <1>3, <1>b, <2>1 DEF UndoFile
  <2>4. Doomed(s.on)'
    BY <2>2, <2>3, FileDealtWith
  <2>5. Settled(s)'
    BY <2>1, <2>4 DEF Settled
  <2> QED
    BY <1>a, <2>1, <2>3, <2>5
<1>4. CASE DeferRegistration
  <2>1. /\ s.type = "WriteRegistry" /\ upos \in 1..Len(UndoPlan(ujournal))
        /\ s \in ScopedUndo(Manifests) /\ Victim = s.on
    BY <1>4, <1>c DEF DeferRegistration
  <2>2. /\ ukeys' = IF s.on[1] \in Elements(ukeys) THEN ukeys ELSE Append(ukeys, s.on[1])
        /\ upos' = upos + 1
    BY <1>4, <2>1 DEF DeferRegistration
  <2>3. ukeys \in Seq(ScopedKey(Manifests)) /\ s.on[1] \in ScopedKey(Manifests)
    BY <2>1 DEF InScope, ScopedUndo, RecordedStep, ScopedSteps
  <2>4. s.on[1] \in Elements(ukeys')
    BY <2>2, <2>3, ElementsOf
  <2>5. Settled(s)'
    BY <2>1, <2>4 DEF Settled
  <2> QED
    BY <2>1, <2>2, <2>5
<1>5. CASE UndoRegistry
  <2>1. /\ s.type = "WriteRegistry" /\ upos \in 1..Len(UndoPlan(ujournal))
        /\ Victim = s.on
    BY <1>5, <1>c DEF UndoRegistry
  <2>2. DeleteTree(s.on[1], uelev) /\ DeleteTreeOk(s.on[1], uelev) /\ Advance
    BY <1>5, <1>b, <2>1 DEF UndoRegistry
  <2>3. Blank(s.on[1])'
    BY <2>2, KeyDealtWith
  <2>4. Settled(s)'
    BY <2>1, <2>3 DEF Settled
  <2> QED
    BY <1>a, <2>1, <2>2, <2>4
<1>6. CASE SkipScript
  <2>1. s.type = "ExecuteScript" /\ upos \in 1..Len(UndoPlan(ujournal)) /\ Advance
    BY <1>6, <1>c DEF SkipScript
  <2>2. Settled(s)'
    BY <2>1 DEF Settled
  <2> QED
    BY <1>a, <2>1, <2>2
<1>7. CASE PurgeBranch
  <2>1. s.type = "PurgeBranch" /\ upos \in 1..Len(UndoPlan(ujournal)) /\ Victim = s.on
    BY <1>7, <1>c DEF PurgeBranch
  <2>2. /\ s.on # BadKey /\ DeleteTree(s.on, uelev) /\ DeleteTreeOk(s.on, uelev)
        /\ Advance
    BY <1>7, <1>b, <2>1 DEF PurgeBranch
  <2>3. Blank(s.on)'
    BY <2>2, KeyDealtWith
  <2>4. Settled(s)'
    BY <2>1, <2>2, <2>3 DEF Settled
  <2> QED
    BY <1>a, <2>1, <2>2, <2>4
<1>8. CASE \/ PurgeSingle \/ PurgeNothing \/ \E p \in Path : PassOver(p)
           \/ \E f \in FilePath : PurgeFile(f)
           \/ \E d \in DirPath : PurgeDir(d)
           \/ \E l \in Link : PurgeLink(l)
  <2>1. Doing({"PurgePath"})
    BY <1>8 DEF PurgeSingle, PurgeNothing, PassOver, PurgeFile, PurgeDir, PurgeLink
  <2>2. s.type = "PurgePath" /\ upos \in 1..Len(UndoPlan(ujournal))
    BY <1>c, <2>1
  <2>3. upos' = upos + 1
    BY <1>8, <1>a, <1>b DEF PurgeSingle, PurgeNothing, PassOver, PurgeFile, PurgeDir,
       PurgeLink, Walked
  <2>4. Settled(s)'
    BY <2>2 DEF Settled
  <2> QED
    BY <2>2, <2>3, <2>4
<1>9. OpenPurge \/ RemoveRegistration \/ FinishUninstall \/ CloseReport \/ ExitUninstaller
        => upos' = upos
  BY DEF OpenPurge, RemoveRegistration, FinishUninstall, CloseReport, ExitUninstaller,
         FailUninstall
<1> QED
  BY <1>1, <1>2, <1>3, <1>4, <1>5, <1>6, <1>7, <1>8, <1>9 DEF UndoStepTaken

(* What uninstall has put off it still holds, or has done.                 *)
LEMMA UndoKeepsDeferred ==
  ASSUME InScope(Manifests), HostTypeOK, SelfIsImage, UndoStepTaken
  PROVE  /\ uself' = uself \/ uself = NoPath
         /\ \A k \in Elements(ukeys) : k \in Elements(ukeys') \/ Blank(k)'
<1>1. uself' = uself \/ uself = NoPath
  BY UndoFrame DEF DeferSelfDelete, SelfIsImage
<1>2. CASE ukeys' = ukeys
  BY <1>1, <1>2
<1>3. CASE DeferRegistration
  <2>1. Victim[1] \in ScopedKey(Manifests)
    BY <1>3, VictimScoped DEF DeferRegistration, ScopedUndo, RecordedStep, ScopedSteps
  <2>2. ukeys' = ukeys \/ ukeys' = Append(ukeys, Victim[1])
    BY <1>3 DEF DeferRegistration
  <2>3. Elements(ukeys) \subseteq Elements(ukeys')
    BY <2>1, <2>2, ElementsOf DEF InScope
  <2> QED
    BY <1>1, <2>3
<1>4. CASE RemoveRegistration /\ ~FailUninstall
  <2>0. PICK k : k = Head(ukeys)
    OBVIOUS
  <2>1. /\ ukeys # <<>> /\ ukeys' = Tail(ukeys)
        /\ DeleteTree(k, uelev) /\ DeleteTreeOk(k, uelev)
    BY <1>4, <2>0 DEF RemoveRegistration
  <2>2. Blank(k)'
    BY <2>1, KeyDealtWith
  <2>3. Elements(ukeys) \subseteq {k} \cup Elements(Tail(ukeys))
    BY <2>0, <2>1, ElementsOf DEF InScope
  <2> QED
    BY <1>1, <2>1, <2>2, <2>3
<1>5. FailUninstall => ukeys' = ukeys
  BY DEF FailUninstall
<1> QED
  BY <1>2, <1>3, <1>4, <1>5, UndoFrame

(* An uninstall begins.                                                    *)
UninstallBegins ==
  \E j \in JournalPath, image \in Images, elev \in Tokens, mode \in Modes :
    LaunchUninstall(j, image, elev, mode)

(* Only uninstall itself moves on; everything else leaves its place, its   *)
(* journal and what it has put off alone.                                  *)
LEMMA UninstallFrame ==
  ASSUME [Next]_vars, ~UninstallBegins
  PROVE  /\ UNCHANGED <<ujournal, uimage, uelev>>
         /\ RunUninstall \/ UNCHANGED <<upos, uwalk, uself, ukeys>>
<1>1. ASSUME NEW m \in Manifests, NEW elev \in Tokens, LaunchInstall(m, elev)
      PROVE  UNCHANGED <<ujournal, uimage, uelev, upos, uwalk, uself, ukeys>>
  BY <1>1 DEF LaunchInstall, uninstallVars
<1>2. ASSUME RunInstall \/ InstallBreaks \/ OtherProgram \/ UNCHANGED vars
      PROVE  UNCHANGED <<ujournal, uimage, uelev, upos, uwalk, uself, ukeys>>
  BY <1>2 DEF RunInstall, InstallBreaks, OtherProgram, vars, uninstallVars
<1>3. ASSUME RunUninstall
      PROVE  UNCHANGED <<ujournal, uimage, uelev>>
  BY <1>3, UndoFrame DEF RunUninstall
<1>4. ASSUME HandOver \/ UninstallBreaks
      PROVE  UNCHANGED <<ujournal, uimage, uelev, upos, uwalk, uself, ukeys>>
  BY <1>4 DEF HandOver, CopyHelper, SpawnHelper, UninstallBreaks, UninstallFails,
     FailUninstall
<1>5. ASSUME RunHelper \/ HelperBreaks \/ User \/ Powershell
      PROVE  UNCHANGED <<ujournal, uimage, uelev, upos, uwalk, uself, ukeys>>
  BY <1>5, Frames DEF RunHelper, HelperBreaks, User, Powershell, uninstallVars
<1>6. ASSUME Reboot
      PROVE  UNCHANGED <<ujournal, uimage, uelev, upos, uwalk, uself, ukeys>>
  BY <1>6 DEF Reboot
<1> QED
  BY <1>1, <1>2, <1>3, <1>4, <1>5, <1>6 DEF Next, UninstallBegins

(* While no installation and no helper comes between, only uninstall       *)
(* removes.                                                                *)
LEMMA AloneStays ==
  ASSUME QuietAlone, [Next]_vars, ~UninstallBegins, ~Reboot, Quiet', alone'
  PROVE  /\ Quiet /\ alone
         /\ RunUninstall \/ CopyHelper \/ UNCHANGED node
<1>1. Quiet /\ quiet' # {}
  BY QuietStays DEF Quiet, UninstallBegins
<1>2. ASSUME NEW m \in Manifests, NEW elev \in Tokens, LaunchInstall(m, elev)
      PROVE  UNCHANGED <<node, alone>>
  BY <1>2 DEF LaunchInstall, StartInstall, hostVars
<1>3. ~RunInstall
  <2>1. RunInstall => Installing /\ UNCHANGED quiet
    BY InstallRuns DEF RunInstall
  <2> QED
    BY <1>1, <2>1 DEF QuietAlone
<1>4. InstallBreaks \/ OtherProgram \/ UNCHANGED vars \/ UninstallBreaks \/ User
        => UNCHANGED <<node, alone>>
  BY DEF InstallBreaks, InstallFails, OtherProgram, Hold, Release, UninstallBreaks,
         UninstallFails, User, UserAnswers, vars, hostVars, lifeVars
<1>5. RunUninstall \/ HandOver => UNCHANGED alone
  BY DEF RunUninstall, HandOver, lifeVars
<1>6. SpawnHelper => UNCHANGED node
  BY DEF SpawnHelper
<1>7. RunHelper \/ HelperBreaks \/ Powershell => UNCHANGED <<node, alone>>
  BY DEF RunHelper, HelperBreaks, Powershell, StillAlone
<1> QED
  BY <1>1, <1>2, <1>3, <1>4, <1>5, <1>6, <1>7 DEF Next, UninstallBegins, HandOver

(* The executable left to the helper is the one that runs.                 *)
LEMMA SelfStays ==
  ASSUME SelfIsImage, [Next]_vars
  PROVE  SelfIsImage'
<1>1. CASE UninstallBegins
  BY <1>1 DEF UninstallBegins, LaunchUninstall, StartUninstall, SelfIsImage
<1>2. CASE ~UninstallBegins /\ RunUninstall
  BY <1>2, UninstallFrame, UndoFrame DEF RunUninstall, DeferSelfDelete, SelfIsImage
<1>3. CASE ~UninstallBegins /\ ~RunUninstall
  BY <1>3, UninstallFrame DEF SelfIsImage
<1> QED
  BY <1>1, <1>2, <1>3

(* What uninstall has passed stays settled.                                *)
LEMMA PassedStays ==
  ASSUME TypeOK, InScope(Manifests), QuietAlone, SelfIsImage, PassedSettled, [Next]_vars
  PROVE  PassedSettled'
<1> USE TypeParts
<1>1. CASE UninstallBegins
  <2>1. upos' = 1
    BY <1>1 DEF UninstallBegins, LaunchUninstall, StartUninstall
  <2> QED
    BY <2>1 DEF PassedSettled
<1>2. CASE ~UninstallBegins
  <2>1. SUFFICES ASSUME Quiet', NEW i, i \in 1..Len(UndoPlan(ujournal)), i < upos',
                        NEW s, s = UndoPlan(ujournal)[i]
                 PROVE  Settled(s)'
    <3>1. ujournal' = ujournal
      BY <1>2, UninstallFrame
    <3> QED
      BY <3>1 DEF PassedSettled, Settled
  <2>2. Quiet /\ OnlyRemoves
    <3>1. Quiet
      BY <1>2, <2>1, QuietStays DEF UninstallBegins
    <3>2. quiet' # {}
      BY <2>1 DEF Quiet
    <3> QED
      BY <3>1, <3>2, NextRemoves
  <2>3. s \in ScopedUndo(Manifests)
    <3>1. UndoPlan(ujournal) \in Seq(ScopedUndo(Manifests))
      BY UndoPlanScoped DEF InScope
    <3> QED
      BY <2>1, <3>1, ElementOfSeq
  <2>4. /\ uself' = uself \/ uself = NoPath
        /\ \A k \in Elements(ukeys) : k \in Elements(ukeys') \/ Blank(k)'
    BY <1>2, UninstallFrame, UndoKeepsDeferred DEF RunUninstall
  <2>5. CASE i < upos
    <3>1. Settled(s)
      BY <2>1, <2>2, <2>5 DEF PassedSettled
    <3> QED
      BY <2>2, <2>3, <2>4, <3>1, SettledStays
  <2>6. CASE ~(i < upos)
    <3>1. upos \in Nat /\ i \in Nat
      BY <2>1 DEF UninstallTypeOK
    <3>2. upos' # upos
      BY <2>1, <2>6
    <3>3. UndoStepTaken
      BY <1>2, <3>2, UninstallFrame DEF RunUninstall
    <3>4. upos' = upos + 1
      BY <3>2, <3>3, UndoSettles
    <3>5. i = upos
      BY <2>1, <2>6, <3>1, <3>4
    <3> QED
      BY <2>1, <3>2, <3>3, <3>5, UndoSettles
  <2> QED
    BY <2>5, <2>6
<1> QED
  BY <1>1, <1>2

(* The plan's actions, once settled, are reversed.                         *)
LEMMA SettledIsReversed ==
  ASSUME NEW j \in Doc, NEW i \in 1..Len(j.actions), Settled(UndoPlan(j)[i])
  PROVE  Reversed(Backwards(j.actions)[i])
<1>1. UndoPlan(j)[i] = Backwards(j.actions)[i]
  BY UndoPlanShape
<1>2. Backwards(j.actions)[i] \in Step
  <2>1. Backwards(j.actions) \in Seq(Step)
    BY BackwardsInSeq DEF Doc
  <2>2. Len(Backwards(j.actions)) = Len(j.actions)
    BY UndoPlanShape DEF Backwards
  <2> QED
    BY <2>1, <2>2, ElementOfSeq
<1>3. PICK a \in Step : a = Backwards(j.actions)[i]
  BY <1>2
<1>4. Settled(a)
  BY <1>1, <1>3
<1>5. Reversed(a)
  BY <1>4 DEF Settled, Reversed
<1> QED
  BY <1>3, <1>5

(* What uninstall has passed of a journal's actions is settled wherever    *)
(* the plan is passed.                                                     *)
LEMMA PassedActions ==
  ASSUME TypeOK, PassedSettled, Quiet, upos > Len(ujournal.actions)
  PROVE  /\ \A f \in FilesOf(ujournal) \ {uself} : Doomed(f)
         /\ \A k \in KeysOf(ujournal) : Blank(k) \/ k \in Elements(ukeys)
<1>0. ujournal \in Doc /\ upos \in Nat
  BY TypeParts DEF UninstallTypeOK
<1>1. ASSUME NEW n \in 1..Len(ujournal.actions)
      PROVE  Settled(ujournal.actions[n])
  <2>1. PICK i \in 1..Len(ujournal.actions) :
          i \in 1..Len(UndoPlan(ujournal)) /\ UndoPlan(ujournal)[i] = ujournal.actions[n]
    BY <1>0, ActionsInPlan
  <2>2. i < upos
    <3>1. Len(ujournal.actions) \in Nat
      BY <1>0, UndoPlanShape
    <3> QED
      BY <1>0, <3>1
  <2>3. Settled(UndoPlan(ujournal)[i])
    BY <2>1, <2>2 DEF PassedSettled
  <2> QED
    BY <2>1, <2>3
<1>2. ASSUME NEW f \in FilesOf(ujournal) \ {uself}
      PROVE  Doomed(f)
  <2>1. PICK n \in 1..Len(ujournal.actions) :
          /\ ujournal.actions[n].type \in {"CopyFile", "CreateShortcut"}
          /\ ujournal.actions[n].on = f
    BY <1>2 DEF FilesOf
  <2>2. Settled(ujournal.actions[n])
    BY <1>1
  <2> QED
    BY <1>2, <2>1, <2>2 DEF Settled
<1>3. ASSUME NEW k \in KeysOf(ujournal)
      PROVE  Blank(k) \/ k \in Elements(ukeys)
  <2>1. PICK n \in 1..Len(ujournal.actions) :
          /\ ujournal.actions[n].type = "WriteRegistry"
          /\ ujournal.actions[n].on[1] = k
    BY <1>3 DEF KeysOf, ValuesOf
  <2>2. Settled(ujournal.actions[n])
    BY <1>1
  <2> QED
    BY <2>1, <2>2 DEF Settled
<1> QED
  BY <1>2, <1>3

-----------------------------------------------------------------------------
(* The Installed Apps entry *)

(* Who changes the registry.                                               *)
LEMMA RegistryFrame ==
  ASSUME [Next]_vars
  PROVE  \/ UNCHANGED reg \/ RunInstall
         \/ UndoRegistry \/ PurgeBranch \/ RemoveRegistration
<1>1. ASSUME NEW m \in Manifests, NEW elev \in Tokens, LaunchInstall(m, elev)
      PROVE  UNCHANGED reg
  BY <1>1 DEF LaunchInstall, StartInstall, hostVars
<1>2. ASSUME NEW j \in JournalPath, NEW image \in Images, NEW elev \in Tokens,
             NEW mode \in Modes, LaunchUninstall(j, image, elev, mode)
      PROVE  UNCHANGED reg
  BY <1>2 DEF LaunchUninstall, StartUninstall
<1>3. ASSUME RunUninstall, ~UndoRegistry, ~PurgeBranch, ~RemoveRegistration
      PROVE  UNCHANGED reg
  BY <1>3 DEF RunUninstall, UndoStepTaken, UndoDirectory, DeferSelfDelete, UndoFile,
     DeferRegistration, SkipScript, PurgeSingle, PurgeNothing, OpenPurge, PassOver,
     PurgeFile, PurgeDir, PurgeLink, FinishUninstall, CloseReport, ExitUninstaller, hostVars
<1>4. ASSUME HandOver \/ UninstallBreaks \/ InstallBreaks \/ OtherProgram \/ UNCHANGED vars
             \/ Reboot
      PROVE  UNCHANGED reg
  BY <1>4 DEF HandOver, CopyHelper, SpawnHelper, UninstallBreaks, UninstallFails,
     InstallBreaks, InstallFails, OtherProgram, Hold, Release, Reboot, Boot, vars, hostVars
<1>5. ASSUME RunHelper \/ HelperBreaks \/ User \/ Powershell
      PROVE  UNCHANGED reg
  BY <1>5 DEF RunHelper, HelperBreaks, User, Powershell, HelperStep, Poll, PollExpires,
     Fallback, RemoveRoot, ScheduleSelfCleanup, Tell, ExitHelper, SelfCleanupFallback,
     HelperFails, UserAnswers, PowershellDeletes, hostVars
<1> QED
  BY <1>1, <1>2, <1>3, <1>4, <1>5 DEF Next

(* A step that takes an Installed Apps value away comes after the actions. *)
LEMMA EntryTaken ==
  ASSUME TypeOK, InScope(Manifests), QuietAlone, [Next]_vars, Quiet, Sheltered(ujournal),
         NEW v \in ValuesOf(ujournal), v[1] \in UninstallKey,
         reg[v] # "absent", reg'[v] = "absent"
  PROVE  upos > Len(ujournal.actions)
<1> USE TypeParts
<1>0. ujournal \in Doc /\ upos \in Nat /\ Len(ujournal.actions) \in Nat
  BY UndoPlanShape DEF UninstallTypeOK
<1>1. UndoRegistry \/ PurgeBranch \/ RemoveRegistration
  <2>1. CASE RunInstall
    BY <2>1, InstallRuns DEF RunInstall, QuietAlone, Quiet
  <2> QED
    BY <2>1, RegistryFrame
<1>2. ~UndoRegistry
  <2> SUFFICES ASSUME UndoRegistry
               PROVE  FALSE
    OBVIOUS
  <2>1. /\ upos \in 1..Len(UndoPlan(ujournal))
        /\ UndoPlan(ujournal)[upos].type = "WriteRegistry"
        /\ Victim = UndoPlan(ujournal)[upos].on
    BY VictimTyped DEF UndoRegistry, Doing
  <2>2. upos \in 1..Len(ujournal.actions)
    BY <1>0, <2>1, UndoPlanOrder
  <2>3. UndoPlan(ujournal)[upos] = ujournal.actions[Len(ujournal.actions) + 1 - upos]
          /\ Len(ujournal.actions) + 1 - upos \in 1..Len(ujournal.actions)
    BY <1>0, <2>2, UndoPlanShape, Offsets
  <2>4. Victim[1] \in KeysOf(ujournal) \ UninstallKey
    BY <2>1, <2>3 DEF KeysOf, ValuesOf, UndoRegistry
  <2>5. v[1] \notin Tree[Victim[1]]
    BY <2>4 DEF Sheltered
  <2>6. reg'[v] = reg[v]
    <3>1. v \notin InTree(Victim[1])
      BY <2>5 DEF InTree
    <3>2. v \in Value
      <4>1. PICK n \in 1..Len(ujournal.actions) :
              ujournal.actions[n].type = "WriteRegistry" /\ ujournal.actions[n].on = v
        BY DEF ValuesOf
      <4>2. ujournal.actions[n] \in RecordedStep(Manifests)
        BY ElementOfSeq DEF InScope, ScopedDoc
      <4> QED
        BY <4>1, <4>2 DEF RecordedStep, ScopedSteps, ScopedKey, Value
    <3> QED
      BY <3>1, <3>2 DEF UndoRegistry, DeleteTree
  <2> QED
    BY <2>6
<1>3. CASE PurgeBranch
  <2>1. upos \in 1..Len(UndoPlan(ujournal)) /\ UndoPlan(ujournal)[upos].type = "PurgeBranch"
    BY <1>3, VictimTyped DEF PurgeBranch, Doing
  <2> QED
    BY <1>0, <2>1, UndoPlanOrder
<1>4. CASE RemoveRegistration
  <2>1. upos > Len(UndoPlan(ujournal))
    BY <1>4 DEF RemoveRegistration, AllUndone
  <2>2. Len(UndoPlan(ujournal)) \in Nat /\ Len(ujournal.actions) <= Len(UndoPlan(ujournal))
    BY <1>0, UndoPlanLength
  <2> QED
    BY <1>0, <2>1, <2>2
<1> QED
  BY <1>1, <1>2, <1>3, <1>4

-----------------------------------------------------------------------------
(* The composition *)

(* Uninstall steps only while it undoes, until it has told and exits.      *)
LEMMA UndoRuns ==
  ASSUME UndoStepTaken
  PROVE  upc = "undo" \/ CloseReport \/ ExitUninstaller
BY DEF UndoStepTaken, UndoDirectory, DeferSelfDelete, UndoFile, DeferRegistration,
       UndoRegistry, SkipScript, PurgeBranch, PurgeSingle, PurgeNothing, OpenPurge, PassOver,
       PurgeFile, PurgeDir, PurgeLink, RemoveRegistration, FinishUninstall, Doing, AllUndone

(* An uninstall that hands over or succeeds stays through its plan.        *)
LEMMA ThroughStays ==
  ASSUME Through, [Next]_vars
  PROVE  Through'
<1>1. CASE UninstallBegins
  <2>1. upc' = "undo"
    BY <1>1 DEF UninstallBegins, LaunchUninstall, StartUninstall
  <2> QED
    BY <2>1 DEF Through
<1>2. CASE ~UninstallBegins
  <2>0. ujournal' = ujournal
    BY <1>2, UninstallFrame
  <2>1. CASE UNCHANGED <<upos, ukeys>>
               /\ (upc' \in {"handoff", "reporting", "exiting", "ok"}
                     => upc \in {"handoff", "reporting", "exiting", "ok"})
    BY <2>0, <2>1 DEF Through
  <2>2. CASE AllUndone /\ ukeys = <<>> /\ UNCHANGED <<upos, ukeys>>
    BY <2>0, <2>2 DEF Through, AllUndone
  <2>3. CASE RunUninstall
    <3>1. CASE FinishUninstall
      BY <2>2, <3>1 DEF FinishUninstall
    <3>2. CASE CloseReport \/ ExitUninstaller
      BY <2>1, <3>2 DEF CloseReport, ExitUninstaller
    <3>3. CASE ~FinishUninstall /\ ~CloseReport /\ ~ExitUninstaller
      <4>1. upc' \in {"undo", "failing"}
        BY <2>3, <3>3, UndoRuns, UndoFrame DEF RunUninstall
      <4> QED
        BY <4>1 DEF Through
    <3> QED
      BY <3>1, <3>2, <3>3
  <2>4. CASE HandOver
    <3>1. CASE CopyHelper
      BY <2>2, <3>1 DEF CopyHelper, FailUninstall
    <3>2. CASE SpawnHelper
      BY <2>1, <3>2 DEF SpawnHelper
    <3> QED
      BY <2>4, <3>1, <3>2 DEF HandOver
  <2>5. CASE UninstallBreaks
    BY <2>5 DEF UninstallBreaks, UninstallFails, FailUninstall, Through
  <2>6. CASE Reboot
    BY <2>1, <2>6 DEF Reboot
  <2>7. CASE UNCHANGED uninstallVars
    BY <2>1, <2>7 DEF uninstallVars
  <2>8. ASSUME NEW m \in Manifests, NEW elev \in Tokens, LaunchInstall(m, elev)
        PROVE  UNCHANGED uninstallVars
    BY <2>8 DEF LaunchInstall
  <2>9. RunInstall \/ InstallBreaks \/ OtherProgram \/ UNCHANGED vars \/ RunHelper
          \/ HelperBreaks \/ User \/ Powershell => UNCHANGED uninstallVars
    BY Frames DEF RunInstall, InstallBreaks, OtherProgram, RunHelper, HelperBreaks, User,
       Powershell, vars
  <2> QED
    BY <1>2, <2>3, <2>4, <2>5, <2>6, <2>7, <2>8, <2>9 DEF Next, UninstallBegins
<1> QED
  BY <1>1, <1>2

(* The inductive invariant.                                                *)
RemovalInv ==
  /\ TypeOK
  /\ TargetKnown
  /\ InScope(Manifests)
  /\ QuietAlone
  /\ HelperThere
  /\ AnswerTrue
  /\ SelfIsImage
  /\ PassedSettled
  /\ Through

(* It holds at first, and every step keeps it.                             *)
LEMMA RemovalInitial ==
  ASSUME Init
  PROVE  RemovalInv
<1>1. QuietAlone /\ SelfIsImage /\ PassedSettled /\ Through /\ AnswerTrue
  BY DEF Init, InstallInit, UninstallInit, HelperInit, QuietAlone, SelfIsImage,
         PassedSettled, Through, AnswerTrue, Installing, Quiet
<1>2. HelperThere
  BY HostAssumption, CleanupAssumption
  DEF Init, UninstallInit, HelperInit, HelperThere, HelperRunning, Path
<1> QED
  BY <1>1, <1>2, InitTyped, InitScoped DEF RemovalInv

LEMMA RemovalKept ==
  ASSUME RemovalInv, [Next]_vars
  PROVE  RemovalInv'
<1>1. InScope(Manifests)'
  <2>1. Manifests \in SUBSET Manifests /\ iman \in Manifests
    BY TypeParts DEF RemovalInv, InstallTypeOK
  <2> QED
    BY <2>1, NextScoped DEF RemovalInv
<1> QED
  BY <1>1, NextTyped, QuietStays, HelperThereStays, AnswerStays, SelfStays, PassedStays,
     ThroughStays
  DEF RemovalInv

LEMMA RemovalAlways == Spec => []RemovalInv
BY RemovalInitial, RemovalKept, PTL DEF Spec

-----------------------------------------------------------------------------
(* Whatever fails, is killed or overlaps: a helper that asks for a reboot  *)
(* has left work for the boot, and one that reports the removal has removed*)
(* its target, unless an installation has met it (cleanup).                *)
THEOREM HelperCorrect == Spec => []HelperHonest
<1>1. RemovalInv => HelperHonest
  BY DEF RemovalInv, AnswerTrue, HelperHonest
<1> QED
  BY <1>1, RemovalAlways, PTL

(* Whatever fails, is killed, is left over from earlier runs or is         *)
(* rebooted: what uninstall has passed is reversed, as long as no          *)
(* installation has met it (reverse loop of uninstall).                    *)
THEOREM UndoneCorrect == Spec => []UndoneStaysUndone
<1>1. RemovalInv => UndoneStaysUndone
  <2> SUFFICES ASSUME RemovalInv, Quiet, NEW i \in 1..Len(ujournal.actions), i < upos
               PROVE  Reversed(Backwards(ujournal.actions)[i])
    BY DEF UndoneStaysUndone
  <2>1. ujournal \in Doc
    BY TypeParts DEF RemovalInv, UninstallTypeOK
  <2>2. i \in 1..Len(UndoPlan(ujournal))
    BY <2>1, UndoPlanLength
  <2>3. Settled(UndoPlan(ujournal)[i])
    BY <2>2 DEF RemovalInv, PassedSettled
  <2> QED
    BY <2>1, <2>3, SettledIsReversed
<1> QED
  BY <1>1, RemovalAlways, PTL

(* Whatever fails or is killed: as long as a recorded file is neither gone *)
(* nor due at the boot, the entry that lets the user try again stays       *)
(* (deferred_uninstall_registry).                                          *)
THEOREM RegistrationCorrect == Spec => RegistrationGoesLast
<1> DEFINE Last == \A v \in ValuesOf(ujournal) :
                     /\ Quiet
                     /\ Sheltered(ujournal)
                     /\ v[1] \in UninstallKey
                     /\ reg[v] # "absent"
                     /\ reg'[v] = "absent"
                     => \A f \in FilesOf(ujournal) \ {uself} : Doomed(f)
<1>1. RemovalInv /\ [Next]_vars => [Last]_vars
  <2>1. ASSUME RemovalInv, [Next]_vars
        PROVE  Last
    BY <2>1, EntryTaken, PassedActions DEF RemovalInv
  <2> QED
    BY <2>1
<1> QED
  BY <1>1, RemovalAlways, PTL DEF Spec, RegistrationGoesLast

-----------------------------------------------------------------------------
(* A removal *)

(* A run that is through has erased what the journal records.              *)
LEMMA ThroughErased ==
  ASSUME RemovalInv, upc \in {"reporting", "exiting", "ok"}, Quiet
  PROVE  Erased(ujournal)
<1>0. TypeOK /\ PassedSettled /\ Through /\ ujournal \in Doc /\ upos \in Nat
  BY TypeParts DEF RemovalInv, UninstallTypeOK
<1>1. upos > Len(UndoPlan(ujournal)) /\ ukeys = <<>>
  BY <1>0 DEF Through
<1>2. upos > Len(ujournal.actions)
  <2>1. Len(ujournal.actions) \in Nat /\ Len(UndoPlan(ujournal)) \in Nat
        /\ Len(ujournal.actions) <= Len(UndoPlan(ujournal))
    BY <1>0, UndoPlanShape, UndoPlanLength
  <2> QED
    BY <1>0, <1>1, <2>1
<1>3. /\ \A f \in FilesOf(ujournal) \ {uself} : Doomed(f)
      /\ \A k \in KeysOf(ujournal) : Blank(k)
  <2>1. Elements(ukeys) = {}
    BY <1>1 DEF Elements
  <2> QED
    BY <1>0, <1>2, <2>1, PassedActions
<1>4. ASSUME NEW k \in Elements(ujournal.branches)
      PROVE  Blank(k)
  <2> DEFINE a == Len(ujournal.actions)
             b == Len(ujournal.branches)
             c == Len(ujournal.purges)
             n == Len(UndoPlan(ujournal))
  <2>1. a \in Nat /\ b \in Nat /\ c \in Nat /\ n = a + b + c
    BY <1>0, UndoPlanShape
  <2>2. PICK i \in 1..b : k = ujournal.branches[i]
    BY DEF Elements
  <2>3. UndoPlan(ujournal)[a + i] = [type |-> "PurgeBranch", on |-> k]
    BY <1>0, <2>2, UndoPlanShape
  <2>4. a + i \in 1..n /\ a + i < upos
    <3>1. upos > n
      BY <1>1
    <3> HIDE DEF a, b, c, n
    <3> QED
      BY <1>0, <2>1, <2>2, <3>1
  <2>5. Settled(UndoPlan(ujournal)[a + i])
    BY <1>0, <2>4 DEF PassedSettled
  <2> QED
    BY <2>3, <2>5 DEF Settled
<1> QED
  BY <1>3, <1>4 DEF Erased

(* A journal lists files, none of them the helper's copy, and keys.        *)
LEMMA ListedThings ==
  ASSUME NEW j \in Doc, j \in ScopedDoc(Manifests)
  PROVE  /\ FilesOf(j) \subseteq FilePath \ {HelperExe}
         /\ (KeysOf(j) \cup Elements(j.branches)) \ {BadKey} \subseteq Key
<1>1. ASSUME NEW i \in 1..Len(j.actions)
      PROVE  /\ j.actions[i].type \in {"CopyFile", "CreateShortcut"}
                  => j.actions[i].on \in FilePath \ {HelperExe}
             /\ j.actions[i].type = "WriteRegistry" => j.actions[i].on[1] \in Key
  <2>1. j.actions[i] \in RecordedStep(Manifests)
    BY ElementOfSeq DEF ScopedDoc
  <2> QED
    BY <2>1 DEF RecordedStep, ScopedSteps, ScopedFile, ScopedKey
<1>2. Elements(j.branches) \subseteq Key \cup {BadKey}
  <2>1. \A i \in 1..Len(j.branches) : j.branches[i] \in KeyText
    BY ElementOfSeq DEF Doc
  <2> QED
    BY <2>1 DEF Elements, KeyText
<1> QED
  BY <1>1, <1>2 DEF FilesOf, KeysOf, ValuesOf

(* Uninstall moves from place to place; only the end of one that was       *)
(* through is a success.                                                   *)
LEMMA UninstallMoves ==
  ASSUME [Next]_vars, ~UninstallBegins, upc' # upc
  PROVE  /\ Uninstalling
         /\ \/ upc' \in {"handoff", "reporting", "exiting", "failing", "failed"}
            \/ upc = "exiting" /\ upc' = "ok" /\ UNCHANGED <<node, reg, pending>>
<1>1. CASE RunUninstall
  BY <1>1, UndoRuns, UndoFrame
  DEF RunUninstall, Uninstalling, ExitUninstaller, CloseReport, FinishUninstall, AllUndone
<1>2. HandOver \/ UninstallBreaks
        => Uninstalling /\ upc' \in {"handoff", "exiting", "failing", "failed"}
  BY DEF HandOver, CopyHelper, SpawnHelper, AllUndone, UninstallBreaks, UninstallFails,
         FailUninstall, Uninstalling
<1>3. Reboot => Uninstalling /\ upc' = "failed"
  BY DEF Reboot
<1>4. ASSUME NEW m \in Manifests, NEW elev \in Tokens, LaunchInstall(m, elev)
      PROVE  UNCHANGED upc
  BY <1>4 DEF LaunchInstall, uninstallVars
<1>5. RunInstall \/ InstallBreaks \/ OtherProgram \/ UNCHANGED vars \/ RunHelper
        \/ HelperBreaks \/ User \/ Powershell => UNCHANGED upc
  BY Frames DEF RunInstall, InstallBreaks, OtherProgram, RunHelper, HelperBreaks, User,
     Powershell, vars, uninstallVars
<1> QED
  BY <1>1, <1>2, <1>3, <1>4, <1>5 DEF Next, UninstallBegins

(* While no installation meets it, what is listed only goes.               *)
LEMMA ListedGoes ==
  ASSUME RemovalInv, [Next]_vars, ~UninstallBegins, Phase # "none", Phase' # "none"
  PROVE  /\ Remaining' \subseteq Remaining
         /\ Left' \subseteq Left \cup (Remaining \ Remaining')
         /\ KeysLeft' \subseteq KeysLeft
         /\ Order' = Order
<1>0. /\ TypeOK /\ InScope(Manifests) /\ QuietAlone /\ SelfIsImage
      /\ Quiet' /\ ujournal' = ujournal /\ uimage' = uimage
      /\ ujournal \in Doc /\ ujournal \in ScopedDoc(Manifests)
  BY UninstallFrame, TypeParts DEF RemovalInv, Phase, InScope, UninstallTypeOK
<1>1. OnlyRemoves
  BY <1>0, NextRemoves DEF Quiet
<1>2. uself' = uself \/ uself = NoPath
  <2>1. SelfIsImage'
    BY <1>0, SelfStays
  <2>2. RunUninstall => uself' = uself \/ uself' = uimage
    BY UndoFrame DEF RunUninstall, DeferSelfDelete
  <2> QED
    BY <1>0, <2>2, UninstallFrame DEF SelfIsImage
<1>3. FilesOf(ujournal') = FilesOf(ujournal) /\ NoPath \notin FilesOf(ujournal)
  BY <1>0, ListedThings, HostAssumption DEF Path
<1>4. ASSUME NEW f \in FilesOf(ujournal), Exists(f)'
      PROVE  Exists(f) /\ (f \in pending => f \in pending')
  <2>1. f \in Path /\ f # HelperExe
    BY <1>0, ListedThings DEF Path
  <2> QED
    BY <1>1, <1>4, <2>1 DEF OnlyRemoves, Exists
<1>5. ASSUME NEW f, f \in Remaining'
      PROVE  f \in Remaining
  <2>1. f \in FilesOf(ujournal) /\ f # uself' /\ Exists(f)' /\ f \notin pending'
    BY <1>3, <1>5 DEF Remaining, Listed, Doomed
  <2>2. Exists(f) /\ f \notin pending
    BY <1>4, <2>1
  <2>3. f # uself
    BY <1>2, <1>3, <2>1
  <2> QED
    BY <2>1, <2>2, <2>3 DEF Remaining, Listed, Doomed
<1>6. ASSUME NEW f, f \in Left'
      PROVE  f \in Left \cup (Remaining \ Remaining')
  <2>1. f \in FilesOf(ujournal) /\ Exists(f)' /\ f \in pending' \cup {uself'}
    BY <1>3, <1>6 DEF Left, Listed
  <2>2. Exists(f)
    BY <1>4, <2>1
  <2>3. f \notin Remaining'
    BY <2>1 DEF Remaining, Listed, Doomed
  <2> QED
    BY <2>1, <2>2, <2>3 DEF Remaining, Left, Listed, Doomed
<1>7. ASSUME NEW k, k \in KeysLeft'
      PROVE  k \in KeysLeft
  <2>1. /\ k \in (KeysOf(ujournal) \cup Elements(ujournal.branches)) \ {BadKey}
        /\ ~Blank(k)'
    BY <1>0, <1>7 DEF KeysLeft, Listed
  <2>2. PICK v \in InTree(k) : reg'[v] # "absent"
    BY <2>1 DEF Blank
  <2>3. v \in Value /\ reg[v] # "absent"
    BY <1>1, <2>2 DEF InTree, OnlyRemoves
  <2> QED
    BY <2>1, <2>2, <2>3 DEF KeysLeft, Listed, Blank
<1> QED
  BY <1>0, <1>5, <1>6, <1>7 DEF Order

LEMMA GoesOnRemoves ==
  ASSUME RemovalInv, [Next]_vars, ~UninstallBegins, Phase # "none", Phase' # "none"
  PROVE  R!RemovalNext
<1>0. /\ Quiet /\ Quiet' /\ upc # "idle" /\ upc' # "idle" /\ ujournal' = ujournal
      /\ UninstallTypeOK
  BY UninstallFrame, TypeParts DEF RemovalInv, Phase
<1>1. CASE upc' = "ok" /\ upc # "ok"
  <2>1. upc = "exiting" /\ UNCHANGED <<node, reg, pending>> /\ uself' = uself
    <3>1. ~RunUninstall \/ ~DeferSelfDelete
      BY <1>1 DEF DeferSelfDelete, Doing
    <3> QED
      BY <1>1, <3>1, UninstallMoves, UninstallFrame, UndoFrame DEF RunUninstall
  <2>2. Remaining = {} /\ KeysLeft = {}
    BY <1>0, <2>1, ThroughErased DEF Erased, Remaining, KeysLeft, Listed
  <2>3. Phase = "removing" /\ Phase' = "removed"
    BY <1>0, <1>1, <2>1 DEF Phase, Uninstalling
  <2>4. UNCHANGED <<Remaining, Left, KeysLeft, Order>>
    BY <1>0, <2>1, <2>3
    DEF Remaining, Left, KeysLeft, Order, Listed, Doomed, Exists, Blank
  <2>5. R!Succeed
    BY <2>2, <2>3, <2>4 DEF R!Succeed
  <2> QED
    BY <2>5 DEF R!RemovalNext
<1>2. CASE ~(upc' = "ok" /\ upc # "ok")
  <2>1. Phase' \in {Phase} \cup (IF Phase = "removing" THEN {"failed"} ELSE {})
    <3>1. \/ upc' = upc
          \/ /\ Uninstalling
             /\ upc' \in {"handoff", "reporting", "exiting", "failing", "failed"}
      BY <1>2, UninstallMoves
    <3> QED
      BY <1>0, <3>1 DEF Phase, Uninstalling
  <2>2. R!Remove
    BY <2>1, ListedGoes DEF R!Remove
  <2> QED
    BY <2>2 DEF R!RemovalNext
<1> QED
  BY <1>1, <1>2

(* A new uninstall finds what is there, a retry no more than was left.     *)
LEMMA BeginsRemoving ==
  ASSUME RemovalInv, RemovalInv', UninstallBegins, Phase' # "none"
  PROVE  R!Begin
<1>1. PICK j \in JournalPath, image \in Images, elev \in Tokens, mode \in Modes :
        LaunchUninstall(j, image, elev, mode)
  BY DEF UninstallBegins
<1>2. /\ ~Uninstalling /\ upc' = "undo" /\ ujournal' = doc[j] /\ doc[j].state = "whole"
      /\ UNCHANGED <<node, reg, pending>>
  BY <1>1 DEF LaunchUninstall, StartUninstall, Readable
<1>3. Phase # "removing" /\ Phase' = "removing"
  BY <1>2 DEF Phase, Uninstalling
<1>4. ujournal' # NoDoc /\ Order' = ujournal'
  BY <1>2, <1>3 DEF NoDoc, Order
<1>5. /\ Remaining' \in SUBSET FilePath
      /\ Left' \in SUBSET (FilePath \ Remaining')
      /\ KeysLeft' \in SUBSET Key
  <2>1. TypeOK /\ InScope(Manifests) /\ TypeOK' /\ InScope(Manifests)'
    BY DEF RemovalInv
  <2>2. ujournal' \in Doc /\ ujournal' \in ScopedDoc(Manifests)
    <3>1. doc[j] \in Doc
      BY <2>1, TypeParts DEF DocTypeOK
    <3> QED
      BY <1>2, <2>1, <3>1 DEF InScope
  <2>3. /\ FilesOf(ujournal') \subseteq FilePath
        /\ (KeysOf(ujournal') \cup Elements(ujournal'.branches)) \ {BadKey} \subseteq Key
    BY <2>2, ListedThings
  <2> QED
    BY <2>3 DEF Remaining, Left, KeysLeft, Listed, Doomed
<1>6. ASSUME Order' = Order
      PROVE  Remaining' \cup Left' \subseteq Remaining \cup Left /\ KeysLeft' \subseteq KeysLeft
  <2>1. Phase # "none" /\ ujournal' = ujournal
    BY <1>4, <1>6 DEF Order
  <2> QED
    BY <1>2, <2>1 DEF Remaining, Left, KeysLeft, Listed, Doomed, Exists, Blank
<1> QED
  BY <1>3, <1>4, <1>5, <1>6 DEF R!Begin

(* Uninstaller, helpers, PowerShell and boots implement Removal.           *)
THEOREM RemovalCorrect == Spec => IsRemoval
<1>1. ASSUME Init
      PROVE  R!RemovalInit
  <2>1. Phase = "none"
    BY <1>1 DEF Init, UninstallInit, Phase
  <2> QED
    BY <2>1 DEF R!RemovalInit, R!Nothing, Order, Remaining, Left, KeysLeft, Listed
<1>2. ASSUME RemovalInv, RemovalInv', [Next]_vars
      PROVE  R!RemovalNext
  <2>1. CASE Phase' = "none"
    <3>1. R!Disturb
      BY <2>1 DEF R!Disturb, R!Nothing, Order, Remaining, Left, KeysLeft, Listed
    <3> QED
      BY <3>1 DEF R!RemovalNext
  <2>2. CASE Phase' # "none" /\ UninstallBegins
    BY <1>2, <2>2, BeginsRemoving DEF R!RemovalNext
  <2>3. CASE Phase' # "none" /\ ~UninstallBegins
    <3>1. Phase # "none"
      <4>1. upc' # "idle" /\ Quiet'
        BY <2>3 DEF Phase
      <4>2. upc # "idle"
        BY <1>2, <2>3, <4>1, UninstallMoves DEF Uninstalling
      <4>3. Quiet
        BY <1>2, <2>3, <4>1, QuietStays DEF RemovalInv, UninstallBegins
      <4> QED
        BY <4>2, <4>3 DEF Phase, Uninstalling
    <3> QED
      BY <1>2, <2>3, <3>1, GoesOnRemoves
  <2> QED
    BY <2>1, <2>2, <2>3
<1> QED
  BY <1>1, <1>2, RemovalAlways, PTL DEF Spec, IsRemoval, R!RemovalSpec
=============================================================================
