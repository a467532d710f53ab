------------------------------ MODULE Install ------------------------------
(***************************************************************************)
(* `covenant-setup install`: function install of main.rs.  One action per  *)
(* call that changes the machine.  An action that meets a refusal of the   *)
(* system goes to "failed" through the code's `?`; nothing is rolled back. *)
(***************************************************************************)
EXTENDS Engine

VARIABLES
  ipc,     \* where install is
  iman,    \* the manifest it was given
  ielev,   \* whether its token is elevated
  ipos,    \* next entry of the plan, or next value of the registration
  iready,  \* the parent directories of the next file are made
  tracker  \* DeclaredTracker.actions

installVars == <<ipc, iman, ielev, ipos, iready, tracker>>

InstallPc == {"idle", "steps", "register", "journal", "writing", "finishing",
              "ok", "failed"}

Installing == ipc \in {"steps", "register", "journal", "writing", "finishing"}

InstallTypeOK ==
  /\ ipc \in InstallPc
  /\ iman \in Manifests
  /\ ielev \in BOOLEAN
  /\ ipos \in Nat
  /\ iready \in BOOLEAN
  /\ tracker \in Seq(Step)

InstallInit ==
  /\ ipc = "idle"
  /\ iman = CHOOSE m \in Manifests : TRUE
  /\ ielev = FALSE
  /\ ipos = 1
  /\ iready = FALSE
  /\ tracker = <<>>

-----------------------------------------------------------------------------
AtStep(types) ==
  /\ ipc = "steps"
  /\ ipos \in 1..Len(Plan(iman))
  /\ Plan(iman)[ipos].type \in types

AtUninstaller ==
  /\ ipc = "steps"
  /\ ipos > Len(Plan(iman))
  /\ InstallRoot(iman) # NoPath

Target == Plan(iman)[ipos].on

Abort ==
  /\ ipc' = "failed"
  /\ UNCHANGED <<iman, ielev, ipos, iready, tracker>>

(* Mutant: the shortcut loop forgets to record. *)
RecordButShortcuts ==
  /\ tracker' = IF Plan(iman)[ipos].type = "CreateShortcut" THEN tracker
                ELSE Append(tracker, Plan(iman)[ipos])
  /\ ipos' = ipos + 1
  /\ iready' = FALSE
  /\ UNCHANGED <<ipc, iman, ielev>>

(* tracker.record(..) after the step has succeeded. *)
Record ==
  /\ tracker' = Append(tracker, Plan(iman)[ipos])
  /\ ipos' = ipos + 1
  /\ iready' = FALSE
  /\ UNCHANGED <<ipc, iman, ielev>>

ParentsReady ==
  /\ iready' = TRUE
  /\ UNCHANGED <<ipc, iman, ielev, ipos, tracker>>

-----------------------------------------------------------------------------
(***************************************************************************)
(* A run that is refused (bad key, or rights it lacks) changes nothing.    *)
(* Bound: one installation at a time, though nothing in the code sees to   *)
(* it.                                                                     *)
(***************************************************************************)
StartInstall(m, elev) ==
  /\ ~Installing
  /\ ManifestRequiresAdmin(m) = "no" \/ (ManifestRequiresAdmin(m) = "yes" /\ elev)
  /\ ipc' = "steps"
  /\ iman' = m
  /\ ielev' = elev
  /\ ipos' = 1
  /\ iready' = FALSE
  /\ tracker' = <<>>
  /\ UNCHANGED <<hostVars, engineVars>>

CreateDirectory ==
  /\ AtStep({"CreateDirectory"})
  /\ MakeDirs(Ancestors[Target] \cup {Target}, ielev)
  /\ IF MakeDirsOk(Ancestors[Target] \cup {Target}, ielev) THEN Record ELSE Abort
  /\ UNCHANGED <<reg, pending, held, images, engineVars>>

(* Parent directories of a file, a shortcut or the uninstaller. *)
PrepareParents ==
  LET above == IF AtUninstaller THEN Ancestors[UninstallerAt(iman)]
                                ELSE Ancestors[Target]
  IN  /\ AtUninstaller \/ AtStep({"CopyFile", "CreateShortcut"})
      /\ ~iready
      /\ MakeDirs(above, ielev)
      /\ IF MakeDirsOk(above, ielev) THEN ParentsReady ELSE Abort
      /\ UNCHANGED <<reg, pending, held, images, engineVars>>

(* win::copy_file and win::create_shortcut *)
WriteFile ==
  /\ AtStep({"CopyFile", "CreateShortcut"})
  /\ iready
  /\ \/ /\ PutFileOk(Target, ielev)
        /\ PutFile(Target)
        /\ Record
     \/ /\ ~PutFileOk(Target, ielev)
        /\ UNCHANGED node
        /\ Abort
  /\ UNCHANGED <<reg, pending, held, images, engineVars>>

WriteRegistry ==
  /\ AtStep({"WriteRegistry"})
  /\ \/ /\ Target[1] # BadKey
        /\ KeyPermitted(Target[1], ielev)
        /\ SetValue(Target)
        /\ Record
     \/ /\ Target[1] = BadKey \/ ~KeyPermitted(Target[1], ielev)
        /\ UNCHANGED reg
        /\ Abort
  /\ UNCHANGED <<node, pending, held, images, engineVars>>

(* The journal keeps the command line, not what the script does. *)
ExecuteScript ==
  /\ AtStep({"ExecuteScript"})
  /\ node' = [p \in Path |-> IF /\ p \in Leaves[Target]
                                /\ PutFileOk(p, ielev)
                                /\ p \in Link => ~Exists(p)
                             THEN "app" ELSE node[p]]
  /\ Record
  /\ UNCHANGED <<reg, pending, held, images, engineVars>>

InstallUninstaller ==
  /\ AtUninstaller
  /\ iready
  /\ \/ /\ PutFileOk(UninstallerAt(iman), ielev)
        /\ PutFile(UninstallerAt(iman))
        /\ tracker' = Append(tracker, [type |-> "CopyFile", on |-> UninstallerAt(iman)])
        /\ ipc' = "register"
        /\ ipos' = 1
        /\ UNCHANGED <<iman, ielev, iready>>
     \/ /\ ~PutFileOk(UninstallerAt(iman), ielev)
        /\ UNCHANGED node
        /\ Abort
  /\ UNCHANGED <<reg, pending, held, images, engineVars>>

ArpValues(m) == [i \in 1..Len(ArpNames) |-> <<ArpKey(m), ArpNames[i]>>]

(* register_uninstall_entry, value by value; the records follow the last. *)
RegisterValue ==
  /\ ipc = "register"
  /\ SetValue(ArpValues(iman)[ipos])
  /\ IF ipos < Len(ArpNames)
     THEN ipos' = ipos + 1 /\ UNCHANGED <<ipc, tracker>>
     ELSE /\ ipc' = "journal"
          /\ tracker' = tracker \o Section("WriteRegistry", ArpValues(iman))
          /\ UNCHANGED ipos
  /\ UNCHANGED <<iman, ielev, iready, node, pending, held, images, engineVars>>

(* No install root: neither an uninstaller nor a registration. *)
SkipUninstaller ==
  /\ ipc = "steps"
  /\ ipos > Len(Plan(iman))
  /\ InstallRoot(iman) = NoPath
  /\ ipc' = "journal"
  /\ UNCHANGED <<iman, ielev, ipos, iready, tracker, hostVars, engineVars>>

(* fs::create_dir_all and the opening half of fs::write, which truncates. *)
OpenJournal ==
  LET j == JournalAt(iman)
      opens == MakeDirsOk(Ancestors[j], ielev) /\ Writable(j, ielev)
  IN  /\ ipc = "journal"
      /\ node' = [p \in Path |->
                    IF p = j /\ opens THEN "app"
                    ELSE IF p \in Missing(Ancestors[j]) /\ Permitted(p, ielev)
                    THEN "app" ELSE node[p]]
      /\ doc' = IF opens THEN [doc EXCEPT ![j] = [NoDoc EXCEPT !.state = "torn"]]
                ELSE doc
      /\ ipc' = IF opens THEN "writing" ELSE "failed"
      /\ UNCHANGED <<iman, ielev, ipos, iready, tracker>>
      /\ UNCHANGED <<reg, pending, held, images, faults>>

(* Mutant: the journal lists itself among the files to remove. *)
JournalOfItself(m, actions) ==
  [state |-> "whole", branches |-> m.branches, purges |-> m.purges,
   actions |-> Append(actions, [type |-> "CopyFile", on |-> JournalAt(m)])]

(* tracker.finish(..) *)
JournalOf(m, actions) ==
  [state |-> "whole", actions |-> actions, branches |-> m.branches,
   purges |-> m.purges]

CompleteJournal ==
  /\ ipc = "writing"
  /\ doc' = [doc EXCEPT ![JournalAt(iman)] = JournalOf(iman, tracker)]
  /\ ipc' = "finishing"
  /\ UNCHANGED <<iman, ielev, ipos, iready, tracker, hostVars, faults>>

(* finish_gui_progress *)
FinishInstall ==
  /\ ipc = "finishing"
  /\ ipc' = "ok"
  /\ UNCHANGED <<iman, ielev, ipos, iready, tracker, hostVars, engineVars>>

(***************************************************************************)
(* An error nobody can foresee (the progress pipe breaks, the disk fills,  *)
(* a script returns a failure), or the process is killed.                  *)
(***************************************************************************)
InstallFails ==
  /\ Installing
  /\ Fault
  /\ Abort
  /\ UNCHANGED <<hostVars, doc>>

InstallStep ==
  \/ CreateDirectory \/ PrepareParents \/ WriteFile \/ WriteRegistry
  \/ ExecuteScript \/ InstallUninstaller \/ RegisterValue \/ SkipUninstaller
  \/ OpenJournal \/ CompleteJournal \/ FinishInstall
=============================================================================
