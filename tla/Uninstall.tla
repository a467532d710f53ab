----------------------------- MODULE Uninstall -----------------------------
(***************************************************************************)
(* `covenant-setup uninstall`: function uninstall of main.rs, run from the *)
(* installed uninstaller (uimage) or from the setup executable (NoPath).   *)
(***************************************************************************)
EXTENDS Engine

VARIABLES
  upc,      \* where uninstall is
  ujournal, \* the journal it has read
  uimage,   \* std::env::current_exe(), when it is a path we know
  uelev,    \* whether its token is elevated
  umode,    \* how it talks to the user
  upos,     \* next entry of UndoPlan(ujournal)
  uwalk,    \* what purge_path still has to visit
  uself,    \* deferred_self_delete
  ukeys,    \* deferred_uninstall_registry
  told      \* the last thing the user was told

uninstallVars == <<upc, ujournal, uimage, uelev, umode, upos, uwalk, uself, ukeys>>

(* "silent" asks nothing: --json, or a window under --automation; a        *)
(* terminal asks under --automation too.                                   *)
Mode == {"gui", "tui", "silent"}

UninstallPc == {"idle", "undo", "handoff", "reporting", "exiting", "failing",
                "ok", "failed"}

Uninstalling == upc \in {"undo", "handoff", "reporting", "exiting", "failing"}

UndoStep == Step \cup [type: {"PurgeBranch"}, on: KeyText]
                 \cup [type: {"PurgePath"}, on: Path]

UninstallTypeOK ==
  /\ upc \in UninstallPc
  /\ ujournal \in Doc
  /\ uimage \in FilePath \cup {NoPath}
  /\ uelev \in BOOLEAN
  /\ umode \in Mode
  /\ upos \in Nat
  /\ uwalk \subseteq Path
  /\ uself \in FilePath \cup {NoPath}
  /\ ukeys \in Seq(Key)
  /\ told \in {"nothing", "removed", "reboot", "failed"}

UninstallInit ==
  /\ upc = "idle"
  /\ ujournal = NoDoc
  /\ uimage = NoPath
  /\ uelev = FALSE
  /\ umode = "silent"
  /\ upos = 1
  /\ uwalk = {}
  /\ uself = NoPath
  /\ ukeys = <<>>
  /\ told = "nothing"

-----------------------------------------------------------------------------
(* Mutant: .rev() is missing. *)
BackwardsNot(s) == s

Backwards(s) == [i \in 1..Len(s) |-> s[Len(s) + 1 - i]]

(* The reverse loop over the actions, then the two purge loops. *)
UndoPlan(j) == Backwards(j.actions) \o Section("PurgeBranch", j.branches)
                 \o Section("PurgePath", j.purges)

Doing(types) ==
  /\ upc = "undo"
  /\ upos \in 1..Len(UndoPlan(ujournal))
  /\ UndoPlan(ujournal)[upos].type \in types

Victim == UndoPlan(ujournal)[upos].on

AllUndone == upc = "undo" /\ upos > Len(UndoPlan(ujournal))

Advance ==
  /\ upos' = upos + 1
  /\ UNCHANGED <<upc, ujournal, uimage, uelev, umode, uwalk, uself, ukeys, told>>

(* fail_gui_progress, and in every mode the error on the console *)
FailUninstall ==
  /\ upc' = "failing"
  /\ told' = "failed"
  /\ UNCHANGED <<ujournal, uimage, uelev, umode, upos, uwalk, uself, ukeys>>

-----------------------------------------------------------------------------
(* What purge_path can come to in a directory: child.is_dir() holds of a   *)
(* junction too, so that the walk goes on where the junction leads.        *)
Inside(d) == Below(d) \cup UNION {Below(Leads[l]) : l \in Link \cap ({d} \cup Below(d))}

(* The junction on the way, if there is one, is there. *)
Reached(p) ==
  \/ p \in {Victim} \cup Below(Victim)
  \/ \E l \in Link \cap ({Victim} \cup Below(Victim)) :
       Exists(l) /\ p \in Below(Leads[l])

(* Bound: no purge path holds anything twice, and no junction leads to one. *)
ASSUME UninstallAssumption ==
  /\ \A l \in Link : Below(Leads[l]) \cap Link = {}
  /\ \A m \in Manifests : \A p \in Elements(m.purges) :
       LET tree == {p} \cup Below(p)
       IN  \A l \in Link \cap tree :
             /\ Below(Leads[l]) \cap tree = {}
             /\ \A k \in (Link \cap tree) \ {l} :
                  Below(Leads[k]) \cap Below(Leads[l]) = {}

(***************************************************************************)
(* Bound: one uninstallation at a time.  Windows cannot start a missing    *)
(* executable; a run that is refused or that cannot read the journal       *)
(* changes nothing.                                                        *)
(***************************************************************************)
StartUninstall(j, image, elev, mode) ==
  /\ ~Uninstalling
  /\ Readable(j)
  /\ image # NoPath => Exists(image)
  /\ JournalRequiresAdmin(doc[j]) = "no"
       \/ (JournalRequiresAdmin(doc[j]) = "yes" /\ elev)
  /\ upc' = "undo"
  /\ ujournal' = doc[j]
  /\ uimage' = image
  /\ uelev' = elev
  /\ umode' = mode
  /\ upos' = 1
  /\ uwalk' = {}
  /\ uself' = NoPath
  /\ ukeys' = <<>>
  /\ told' = "nothing"
  /\ images' = images \cup ({image} \ {NoPath})
  /\ UNCHANGED <<node, reg, pending, held, engineVars>>

UndoDirectory ==
  /\ Doing({"CreateDirectory"})
  /\ RemoveDir(Victim, uelev)
  /\ IF RemoveDirOk(Victim, uelev) THEN Advance ELSE FailUninstall
  /\ UNCHANGED <<reg, pending, held, images, engineVars>>

(* The running executable is left for the helper; same_path finds it. *)
DeferSelfDelete ==
  /\ Doing({"CopyFile"})
  /\ Victim = uimage
  /\ uself' = Victim
  /\ upos' = upos + 1
  /\ UNCHANGED <<upc, ujournal, uimage, uelev, umode, uwalk, ukeys, told>>
  /\ UNCHANGED <<hostVars, engineVars>>

(* Mutant: an error of the removal is passed over. *)
UndoFileRegardless ==
  /\ \/ Doing({"CopyFile"}) /\ Victim # uimage
     \/ Doing({"CreateShortcut"})
  /\ RemoveFile(Victim, uelev)
  /\ Advance
  /\ UNCHANGED <<reg, held, images, engineVars>>

UndoFile ==
  /\ \/ Doing({"CopyFile"}) /\ Victim # uimage
     \/ Doing({"CreateShortcut"})
  /\ RemoveFile(Victim, uelev)
  /\ IF RemoveFileOk(Victim, uelev) THEN Advance ELSE FailUninstall
  /\ UNCHANGED <<reg, held, images, engineVars>>

(* push_unique_registry_branch *)
DeferRegistration ==
  /\ Doing({"WriteRegistry"})
  /\ Victim[1] \in UninstallKey
  /\ ukeys' = IF Victim[1] \in Elements(ukeys) THEN ukeys
              ELSE Append(ukeys, Victim[1])
  /\ upos' = upos + 1
  /\ UNCHANGED <<upc, ujournal, uimage, uelev, umode, uwalk, uself, told>>
  /\ UNCHANGED <<hostVars, engineVars>>

(* Mutant: is_uninstall_registry_key is not consulted. *)
UndoRegistryAtOnce ==
  /\ Doing({"WriteRegistry"})
  /\ DeleteTree(Victim[1], uelev)
  /\ IF DeleteTreeOk(Victim[1], uelev) THEN Advance ELSE FailUninstall
  /\ UNCHANGED <<node, pending, held, images, engineVars>>

UndoRegistry ==
  /\ Doing({"WriteRegistry"})
  /\ Victim[1] \notin UninstallKey
  /\ DeleteTree(Victim[1], uelev)
  /\ IF DeleteTreeOk(Victim[1], uelev) THEN Advance ELSE FailUninstall
  /\ UNCHANGED <<node, pending, held, images, engineVars>>

SkipScript ==
  /\ Doing({"ExecuteScript"})
  /\ Advance
  /\ UNCHANGED <<hostVars, engineVars>>

PurgeBranch ==
  /\ Doing({"PurgeBranch"})
  /\ \/ /\ Victim # BadKey
        /\ DeleteTree(Victim, uelev)
        /\ IF DeleteTreeOk(Victim, uelev) THEN Advance ELSE FailUninstall
     \/ /\ Victim = BadKey
        /\ UNCHANGED reg
        /\ FailUninstall
  /\ UNCHANGED <<node, pending, held, images, engineVars>>

(* purge_path of a file *)
PurgeSingle ==
  /\ Doing({"PurgePath"})
  /\ uwalk = {}
  /\ Victim \in FilePath
  /\ RemoveFile(Victim, uelev)
  /\ IF RemoveFileOk(Victim, uelev) THEN Advance ELSE FailUninstall
  /\ UNCHANGED <<reg, held, images, engineVars>>

(* ... of nothing, or of a junction that leads nowhere *)
PurgeNothing ==
  /\ Doing({"PurgePath"})
  /\ uwalk = {}
  /\ Victim \notin FilePath
  /\ ~Found(Victim)
  /\ Advance
  /\ UNCHANGED <<hostVars, engineVars>>

(* Mutant: purge_path empties the directory but leaves it. *)
OpenPurgeInside ==
  /\ Doing({"PurgePath"})
  /\ uwalk = {}
  /\ Victim \notin FilePath
  /\ Found(Victim)
  /\ uwalk' = Inside(Victim)
  /\ UNCHANGED <<upc, ujournal, uimage, uelev, umode, upos, uself, ukeys, told>>
  /\ UNCHANGED <<hostVars, engineVars>>

(***************************************************************************)
(* ... and of a directory or junction, which it walks.  read_dir is lazy:  *)
(* it may meet an entry that is made, and miss one that goes, meanwhile.   *)
(***************************************************************************)
OpenPurge ==
  /\ Doing({"PurgePath"})
  /\ uwalk = {}
  /\ Victim \notin FilePath
  /\ Found(Victim)
  /\ uwalk' = {Victim} \cup Inside(Victim)
  /\ UNCHANGED <<upc, ujournal, uimage, uelev, umode, upos, uself, ukeys, told>>
  /\ UNCHANGED <<hostVars, engineVars>>

Walked(p) ==
  /\ uwalk' = uwalk \ ({p} \cup Inside(p))
  /\ upos' = IF uwalk' = {} THEN upos + 1 ELSE upos
  /\ UNCHANGED <<upc, ujournal, uimage, uelev, umode, uself, ukeys, told>>

(* What is not there when the walk comes by is passed, with all it would hold. *)
PassOver(p) ==
  /\ Doing({"PurgePath"})
  /\ p \in uwalk
  /\ ~Found(p)
  /\ Walked(p)
  /\ UNCHANGED <<hostVars, engineVars>>

PurgeFile(f) ==
  /\ Doing({"PurgePath"})
  /\ f \in uwalk
  /\ Exists(f) /\ Reached(f)
  /\ RemoveFile(f, uelev)
  /\ IF RemoveFileOk(f, uelev) THEN Walked(f) ELSE FailUninstall
  /\ UNCHANGED <<reg, held, images, engineVars>>

(* A directory comes after everything in it. *)
PurgeDir(d) ==
  /\ Doing({"PurgePath"})
  /\ d \in uwalk
  /\ uwalk \cap Inside(d) = {}
  /\ Exists(d) /\ Reached(d)
  /\ RemoveDir(d, uelev)
  /\ IF RemoveDirOk(d, uelev) THEN Walked(d) ELSE FailUninstall
  /\ UNCHANGED <<reg, pending, held, images, engineVars>>

(* A junction comes after everything where it leads. *)
PurgeLink(l) ==
  /\ Doing({"PurgePath"})
  /\ l \in uwalk
  /\ uwalk \cap Inside(l) = {}
  /\ Found(l)
  /\ RemoveLink(l, uelev)
  /\ IF RemoveLinkOk(l, uelev) THEN Walked(l) ELSE FailUninstall
  /\ UNCHANGED <<reg, pending, held, images, engineVars>>

(* The Installed Apps entry goes last. *)
RemoveRegistration ==
  /\ AllUndone
  /\ ukeys # <<>>
  /\ DeleteTree(Head(ukeys), uelev)
  /\ \/ /\ DeleteTreeOk(Head(ukeys), uelev)
        /\ ukeys' = Tail(ukeys)
        /\ UNCHANGED <<upc, ujournal, uimage, uelev, umode, upos, uwalk, uself, told>>
     \/ /\ ~DeleteTreeOk(Head(ukeys), uelev)
        /\ FailUninstall
  /\ UNCHANGED <<node, pending, held, images, engineVars>>

(* Not our own uninstaller: nobody is left to clean up.  A window tells of *)
(* the success, and uninstall waits until the user has closed it.          *)
FinishUninstall ==
  /\ AllUndone
  /\ ukeys = <<>>
  /\ uself = NoPath
  /\ upc' = IF umode = "gui" THEN "reporting" ELSE "exiting"
  /\ told' = IF umode = "gui" THEN "removed" ELSE told
  /\ UNCHANGED <<ujournal, uimage, uelev, umode, upos, uwalk, uself, ukeys>>
  /\ UNCHANGED <<hostVars, engineVars>>

CloseReport ==
  /\ upc = "reporting"
  /\ upc' = "exiting"
  /\ UNCHANGED <<ujournal, uimage, uelev, umode, upos, uwalk, uself, ukeys, told>>
  /\ UNCHANGED <<hostVars, engineVars>>

(* A failure is on the window too until the user closes it. *)
ExitUninstaller ==
  /\ upc \in {"exiting", "failing"}
  /\ upc' = IF upc = "exiting" THEN "ok" ELSE "failed"
  /\ images' = images \ {uimage}
  /\ UNCHANGED <<ujournal, uimage, uelev, umode, upos, uwalk, uself, ukeys, told>>
  /\ UNCHANGED <<node, reg, pending, held, engineVars>>

UninstallFails ==
  /\ upc \in {"undo", "handoff", "reporting"}
  /\ Fault
  /\ FailUninstall
  /\ UNCHANGED <<hostVars, doc>>

UndoStepTaken ==
  \/ UndoDirectory \/ DeferSelfDelete \/ UndoFile \/ DeferRegistration
  \/ UndoRegistry \/ SkipScript \/ PurgeBranch
  \/ PurgeSingle \/ PurgeNothing \/ OpenPurge
  \/ \E p \in Path : PassOver(p)
  \/ \E f \in FilePath : PurgeFile(f)
  \/ \E d \in DirPath : PurgeDir(d)
  \/ \E l \in Link : PurgeLink(l)
  \/ RemoveRegistration \/ FinishUninstall \/ CloseReport \/ ExitUninstaller

(* The steps that wait until the user closes a window. *)
AwaitsUser == upc = "reporting" \/ (upc = "failing" /\ umode = "gui")
=============================================================================
