---------------------------- MODULE Correctness ----------------------------
(***************************************************************************)
(* What installing and uninstalling promise.  The first part holds and is  *)
(* checked (much of it proved in the ...Proofs modules); the second part   *)
(* states what the documentation says and the code does not do.            *)
(***************************************************************************)
EXTENDS Lifecycle

FilesOf(j) == {j.actions[i].on : i \in {n \in 1..Len(j.actions) :
                 j.actions[n].type \in {"CopyFile", "CreateShortcut"}}}

DirsOf(j) == {j.actions[i].on : i \in {n \in 1..Len(j.actions) :
                j.actions[n].type = "CreateDirectory"}}

ValuesOf(j) == {j.actions[i].on : i \in {n \in 1..Len(j.actions) :
                  j.actions[n].type = "WriteRegistry"}}

KeysOf(j) == {v[1] : v \in ValuesOf(j)}

Span(p) == {p} \cup Below(p)

PurgeScope(paths) == UNION {Span(p) : p \in Elements(paths)}

(* Where the junctions under the purge paths lead.                         *)
Beyond(paths) == UNION {Below(Leads[l]) : l \in Link \cap PurgeScope(paths)}

Doomed(f) == ~Exists(f) \/ f \in pending

Blank(k) == \A v \in InTree(k) : reg[v] = "absent"

(* No installation has met the last uninstall: none ran when it began and  *)
(* none began since.                                                       *)
Quiet == "uninstall" \in quiet

(* Neither a fault nor a boot has. *)
Undisturbed == faults + boots = trouble

-----------------------------------------------------------------------------
(* An action uninstall has passed is reversed, and stays so, whatever the  *)
(* helpers of this and earlier runs, failures and boots do meanwhile: its  *)
(* file is gone, due at the next boot or the executable left to the        *)
(* helper; its key is empty or in the deferred list.  (reverse loop of     *)
(* uninstall, push_unique_registry_branch)                                 *)
Reversed(a) ==
  CASE a.type \in {"CopyFile", "CreateShortcut"} -> Doomed(a.on) \/ a.on = uself
    [] a.type = "WriteRegistry" -> Blank(a.on[1]) \/ a.on[1] \in Elements(ukeys)
    [] OTHER -> TRUE

UndoneStaysUndone ==
  Quiet => \A i \in 1..Len(ujournal.actions) :
             i < upos => Reversed(Backwards(ujournal.actions)[i])

(* Every directory is listed before what lies in it, and no purge path     *)
(* lies in one, nor does what a junction under a purge path leads to.      *)
TopDown(j) ==
  \A k \in 1..Len(j.actions) : j.actions[k].type = "CreateDirectory" =>
    /\ \A i \in 1..(k - 1) : j.actions[i].on \notin Below(j.actions[k].on)
    /\ Elements(j.purges) \cap Below(j.actions[k].on) = {}
    /\ Beyond(j.purges) \cap Span(j.actions[k].on) = {}

(* A directory uninstall has passed is gone, still holds something or is   *)
(* being purged, unless the helper of an earlier run has come in between.  *)
(* (the order of the reverse loop, purge_path)                             *)
EmptyDirectoriesGo ==
  Uninstalling /\ Quiet /\ alone /\ TopDown(ujournal) =>
    \A i \in 1..Len(ujournal.actions) :
      LET a == Backwards(ujournal.actions)[i]
      IN  i < upos /\ a.type = "CreateDirectory"
            => ~Exists(a.on) \/ Occupied(a.on) \/ a.on \in uwalk

(* No key the journal removes at once lies above an Installed Apps key.    *)
Sheltered(j) ==
  \A k \in KeysOf(j) \ UninstallKey : Tree[k] \cap UninstallKey = {}

(* The Installed Apps entry outlives the application: the step that takes  *)
(* a value of it away finds every recorded file gone or due at the next    *)
(* boot, but for the running uninstaller.  So a run that fails or is       *)
(* killed before leaves the user an entry to try again with.               *)
(* (deferred_uninstall_registry of uninstall)                              *)
RegistrationGoesLast ==
  [][\A v \in ValuesOf(ujournal) :
       /\ Quiet
       /\ Sheltered(ujournal)
       /\ v[1] \in UninstallKey
       /\ reg[v] # "absent"
       /\ reg'[v] = "absent"
       => \A f \in FilesOf(ujournal) \ {uself} : Doomed(f)]_vars

(* An uninstall that reports success has left nothing it knew of: files    *)
(* are gone or due at the next boot, keys and branches are empty; and      *)
(* everything under a purge path is gone or due at the next boot           *)
(* (directories wait for such a file), unless a boot or a helper has taken *)
(* a file out of a directory that waited for it, or a purge path, or where *)
(* a junction under one leads, comes after a path that holds it.  One that *)
(* leads nowhere, or that the rights do not suffice for, stays, with the   *)
(* directories above it.  The running uninstaller is left to the helper,   *)
(* the helper's copy to its PowerShell.  (uninstall, purge_path)           *)
Erased(j) ==
  /\ \A f \in FilesOf(j) \ {uself} : Doomed(f)
  /\ \A k \in KeysOf(j) \cup Elements(j.branches) : Blank(k)

Waiting(p) ==
  \/ p \in pending
  \/ \E f \in pending \cup {uself} : f \in Below(p) /\ Exists(f)

Stuck(p) ==
  \E l \in Link \cap Span(p) :
    Exists(l) /\ (~Exists(Leads[l]) \/ ~Permitted(l, uelev))

Purged(j) ==
  \A p \in PurgeScope(j.purges) \ {HelperExe} : Exists(p) => Waiting(p) \/ Stuck(p)

Orderly(j) ==
  \A i, k \in 1..Len(j.purges) :
    /\ i < k => j.purges[k] \notin Below(j.purges[i])
    /\ i <= k => Beyond(<<j.purges[k]>>) \cap Span(j.purges[i]) = {}

SuccessMeansErased ==
  upc \in {"reporting", "exiting", "ok"} /\ Quiet =>
    /\ Erased(ujournal)
    /\ Undisturbed /\ alone /\ Orderly(ujournal) => Purged(ujournal)

(* The manifest puts nothing where a journal can lie, and no shortcut where *)
(* uninstall is run from.                                                  *)
Apart(m) ==
  /\ (Elements(m.files) \cup Elements(m.shortcuts)) \cap JournalPath = {}
  /\ InstallRoot(m) # NoPath => UninstallerAt(m) \notin JournalPath
  /\ Elements(m.shortcuts) \cap Images = {}

(* After a failed or killed uninstall that left the entry, the user can    *)
(* try again: the journal is readable, and so is the executable the run    *)
(* was started from, unless a boot has carried out what an earlier         *)
(* uninstall had scheduled, or the helper of an earlier one has come in    *)
(* between.  (uninstall; for manifests without purge paths that are apart) *)
RetryPossible ==
  upc = "failed" /\ Quiet /\ alone /\ ujournal.purges = <<>>
      /\ (\A m \in Manifests : Apart(m))
      /\ (\E k \in KeysOf(ujournal) \cap UninstallKey : ~Blank(k))
    => \/ uninstalls > 1 /\ boots > 0
       \/ /\ \E j \in JournalPath : Readable(j) /\ doc[j] = ujournal
          /\ uimage # NoPath => Exists(uimage)

(* What the helper tells is true of its own work: when it asks for a       *)
(* reboot, the boot-time list has work; when it reports the removal, the   *)
(* uninstaller is gone, unless an installation has met the helper.         *)
(* (reboot_required in cleanup)                                            *)
HelperHonest ==
  hpc = "prompt" =>
    IF hreboot THEN pending # {} ELSE "helper" \in quiet => ~Exists(htarget)

(* What a manifest names: its files and directories, its journal and its   *)
(* uninstaller; and what it declares: these with the directories above     *)
(* them, what its scripts leave, everything under a purge path and where   *)
(* the junctions there lead.                                               *)
Named(m) ==
  Elements(m.dirs) \cup Elements(m.files) \cup Elements(m.shortcuts) \cup {JournalAt(m)}
    \cup (IF InstallRoot(m) = NoPath THEN {} ELSE {UninstallerAt(m)})

DeclaredPaths(m) ==
  Named(m) \cup (UNION {Ancestors[p] : p \in Named(m)})
    \cup (UNION {Leaves[s] : s \in Elements(m.scripts)})
    \cup PurgeScope(m.purges) \cup Beyond(m.purges)

DeclaredKeys(m) ==
  {ArpKey(m)} \cup
    (({m.registry[i][1] : i \in 1..Len(m.registry)} \cup Elements(m.branches)) \ {BadKey})

Scope(S) == {HelperExe} \cup (UNION {DeclaredPaths(m) : m \in S})
RegScope(S) == UNION {InTree(k) : k \in UNION {DeclaredKeys(m) : m \in S}}

(* Nothing outside what the manifests installed so far declare ever        *)
(* changes, whatever fails or overlaps: no file, no directory and no       *)
(* registry value; in particular nothing that belongs to an application    *)
(* that was never installed, though the machine could meet its manifest.   *)
(* Declared is also, though no manifest says so, where a junction under a  *)
(* purge path leads.  (install, uninstall, purge_path, cleanup)            *)
OnlyDeclared ==
  /\ \A p \in Path \ Scope(ran) : node[p] = Node0[p]
  /\ \A v \in Value \ RegScope(ran) : reg[v] = Reg0[v]

(* What an installation can make: what its manifest names, what its        *)
(* scripts leave, and the directories above that were not there at first   *)
(* or that an uninstallation takes away; and the values it can set.        *)
Removable ==
  (UNION {Elements(m.dirs) \cup PurgeScope(m.purges) \cup Beyond(m.purges) :
            m \in Manifests})
    \cup {Parent(f) : f \in Images \ {NoPath}}

Makes(m) ==
  Named(m) \cup (UNION {Leaves[s] : s \in Elements(m.scripts)})
    \cup {d \in UNION {Ancestors[p] : p \in Named(m)} :
            Node0[d] = "absent" \/ d \in Removable}

Sets(m) ==
  Elements(m.registry) \cup
    (IF InstallRoot(m) = NoPath THEN {} ELSE Elements(ArpValues(m)))

(* What its uninstallation removes: the recorded steps, the purge paths.   *)
Covers(m) ==
  Elements(m.dirs) \cup Elements(m.files) \cup Elements(m.shortcuts)
    \cup (IF InstallRoot(m) = NoPath THEN {} ELSE {UninstallerAt(m)})
    \cup PurgeScope(m.purges)

(* What a manifest makes and not every manifest covers: its journal, the   *)
(* directories it implies and what its scripts leave, where no purge path  *)
(* holds them; and what another version no longer has.                     *)
Loose == UNION {Makes(m) \ Covers(n) : m, n \in Manifests}

LooseValues == UNION {Sets(m) \ Sets(n) : m, n \in Manifests}

(* A completed journal covers the machine: every path the engine or its    *)
(* scripts made, in this run or in any before it, is reversed by an        *)
(* action, lies under a purge path or is a leftover helper, unless it is   *)
(* loose; and every value is recorded.  (tracker.record in install)        *)
JournalCoversMachine ==
  promised.state = "whole" =>
    /\ \A p \in Path \ Loose : node[p] = "app" =>
         p \in FilesOf(promised) \cup DirsOf(promised)
                 \cup PurgeScope(promised.purges) \cup {HelperExe}
    /\ \A v \in Value \ LooseValues : reg[v] = "app" => v \in ValuesOf(promised)

(* What install records of a manifest: the plan, then the uninstaller and  *)
(* the values of its registration.                                         *)
Recorded(m) ==
  IF InstallRoot(m) = NoPath THEN Plan(m)
  ELSE Append(Plan(m), [type |-> "CopyFile", on |-> UninstallerAt(m)])
         \o Section("WriteRegistry", ArpValues(m))

(* A journal that can be read is complete: it is all that one manifest     *)
(* plans, its uninstaller and its registration, in the order in which they *)
(* were made, with the purge section of the same manifest; whatever was    *)
(* interrupted before, and whichever journal it replaced.  (tracker.record *)
(* and DeclaredTracker::finish)                                            *)
JournalComplete ==
  \A j \in JournalPath : doc[j].state = "whole" =>
    \E m \in Manifests : /\ JournalAt(m) = j
                         /\ doc[j].actions = Recorded(m)
                         /\ doc[j].branches = m.branches
                         /\ doc[j].purges = m.purges

(* The last uninstall, its helper and PowerShell are through.              *)
AllQuiet == upc = "ok" /\ ~HelperRunning /\ ps # "armed" /\ Quiet

(* No helper deletes anything below the path, unless it is the install     *)
(* root of the one executable that it deletes there: that it removes too.  *)
Clear(p) == Below(p) \cap (Images \cup {HelperExe}) = {}

Seat(p) == \E f \in Images : p = Parent(f) /\ Below(p) \cap (Images \cup {HelperExe}) = {f}

(* What an uninstallation of the journal clears away for good.             *)
Clears(j) ==
  (FilesOf(j) \ Images)
    \cup {p \in PurgeScope(j.purges) \ {HelperExe} : Clear(p) \/ Seat(p)}

ClearsValues(j) == UNION {InTree(k) : k \in (KeysOf(j) \cup Elements(j.branches)) \ {BadKey}}

Made == UNION {Makes(m) : m \in Manifests}
AllSet == UNION {Sets(m) : m \in Manifests}

(* What may be different afterwards: what some installation makes and the  *)
(* journal does not clear; and what was there before but went by the name  *)
(* of something to make or to remove.                                      *)
Lasting(j) ==
  {HelperExe} \cup (Made \ Clears(j))
    \cup {p \in Made \cup Removable : Node0[p] = "foreign"}

LastingValues(j) ==
  (AllSet \ ClearsValues(j)) \cup {v \in RegScope(Manifests) : Reg0[v] = "foreign"}

(* An undisturbed uninstall leaves no trace, whatever earlier runs that    *)
(* failed, were killed or overlapped left undone: the machine is as it was *)
(* before the first installation, but for what lasts; nothing does but the *)
(* copy in %TEMP%, where the purge section holds the install root and what *)
(* no action lists, and no junction is stuck there.                        *)
LeavesNoTrace ==
  AllQuiet /\ Undisturbed /\ Orderly(ujournal) /\ (\A f \in pending : ~Exists(f))
      /\ (\A p \in Elements(ujournal.purges) : ~Stuck(p)) =>
    /\ \A p \in Path \ Lasting(ujournal) : node[p] = Node0[p]
    /\ \A v \in Value \ LastingValues(ujournal) : reg[v] = Reg0[v]

(* Where the last uninstall is, while no installation has met it.          *)
Phase ==
  IF ~Quiet \/ upc = "idle" THEN "none"
  ELSE IF Uninstalling THEN "removing"
  ELSE IF upc = "ok" THEN "removed" ELSE "failed"

(* What its journal lists: files that nobody is to remove any more, files  *)
(* left to the boot or to the helper, and keys that hold anything.         *)
Listed(S) == IF Phase = "none" THEN {} ELSE S

Remaining == Listed({f \in FilesOf(ujournal) \ {uself} : ~Doomed(f)})

Left == Listed({f \in FilesOf(ujournal) : Exists(f) /\ f \in pending \cup {uself}})

KeysLeft == Listed({k \in (KeysOf(ujournal) \cup Elements(ujournal.branches)) \ {BadKey} :
                      ~Blank(k)})

Order == IF Phase = "none" THEN NoDoc ELSE ujournal

R == INSTANCE Removal WITH File <- FilePath, Entry <- Key, NoOrder <- NoDoc,
       phase <- Phase, order <- Order, files <- Remaining, due <- Left, entries <- KeysLeft

(* Uninstaller, helpers, PowerShell and boots together are a removal in    *)
(* the sense of Removal: what the journal lists goes and does not come     *)
(* back, success means that all of it has gone or is due, and a retry      *)
(* finds no more than the last attempt left.  (uninstall, cleanup)         *)
IsRemoval == R!RemovalSpec

(* The helper comes to its end or waits for the user: its attempts are     *)
(* bounded.  (cleanup)                                                     *)
HelperEnds == HelperRunning ~> hpc \in {"prompt", "done"}

(* An elevated uninstall that nothing disturbs succeeds, whoever holds the *)
(* files open: DeleteFileW or the boot-time list takes each of them; it    *)
(* comes to its end or to the window that tells of the success.  Only a    *)
(* purge branch with an unsupported root, which install accepts, stops it. *)
(* (uninstall, parse_registry_key)                                         *)
ElevatedUninstallSucceeds ==
  (/\ upc = "undo" /\ uelev
   /\ \A i \in 1..Len(ujournal.branches) : ujournal.branches[i] # BadKey)
    ~> (upc \in {"reporting", "ok"} \/ ~Undisturbed)

-----------------------------------------------------------------------------
(* README.md:27: an uninstall "purges declared registry/path namespaces";  *)
(* so it leaves alone what lies under none of the declared paths.          *)
PurgeStaysInside ==
  [][Doing({"PurgePath"}) /\ upc' = upc =>
       \A p \in Path \ PurgeScope(ujournal.purges) : node'[p] = node[p]]_vars

(* README.md:63-66: the installed app gets a journal, an uninstaller and   *)
(* an uninstall registry entry.  So an entry means the other two exist.    *)
RegisteredMeansUninstallable ==
  ~Installing /\ ~Uninstalling =>
    \A m \in Manifests :
      (\A i \in 1..Len(ArpNames) : reg[ArpValues(m)[i]] = "app")
        => Readable(JournalAt(m)) /\ Exists(UninstallerAt(m))

(* README.md:63-66 again: an installed application has its files, until    *)
(* somebody uninstalls it.                                                 *)
InstalledStaysIntact ==
  promised.state = "whole" => \A f \in FilesOf(promised) : Exists(f)

(* README.md:96: "reboot prompt when uninstall requires reboot to finish   *)
(* some cleanup".                                                          *)
PendingReported ==
  told = "removed" /\ Quiet => \A f \in FilesOf(ujournal) : ~Exists(f)

(* README.md:70-73: Installed Apps launches the uninstaller, and it works: *)
(* no uninstall fails that nothing disturbs.                               *)
UndisturbedUninstallWorks == upc = "failing" => faults > 0 \/ held # {}

(* docs/implementation-notes.md:12: the helper "schedules its own cleanup  *)
(* via PowerShell + MoveFileEx reboot fallback".                           *)
HelperCleansItself ==
  hpc = "done" /\ ps = "done" /\ faults = 0 /\ boots = 0 => Doomed(HelperExe)
=============================================================================
