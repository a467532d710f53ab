------------------------------- MODULE Engine -------------------------------
(***************************************************************************)
(* What the three processes of the engine (installer, uninstaller, cleanup *)
(* helper) have in common: the manifest and what main.rs derives from it,  *)
(* the journal and where it lies, the checks for administrator rights, and *)
(* the budget of failures that come from outside.                          *)
(***************************************************************************)
EXTENDS Host

CONSTANTS
  Manifests,                  \* the manifests that are ever installed
  Root,                       \* directories that can be an install root
  UninstallerIn, JournalIn,   \* root.join("covenant-setup-uninstall.exe"), root.join("journal.json")
  SideJournal,                \* journal.json next to the manifest
  JournalPath,                \* where a journal can lie
  ArpHkcu, ArpHklm,           \* the app's Installed Apps key in either hive
  ArpNames,                   \* values of that key, in the order they are written
  Script, Leaves,             \* post-install scripts; the files and junctions each leaves
  MaxFaults                   \* bound on failures and kills

KeyText == Key \cup {BadKey}

Manifest == [dirs: Seq(DirPath), files: Seq(FilePath),
             registry: Seq(KeyText \X Name), shortcuts: Seq(FilePath),
             scripts: Seq(Script),
             branches: Seq(KeyText), purges: Seq(Path),
             journal: FilePath \cup {NoPath}] \* the --journal argument

(* JournalAction; a planned step has the same shape. *)
Step == [type: {"CreateDirectory"}, on: DirPath]
          \cup [type: {"CopyFile", "CreateShortcut"}, on: FilePath]
          \cup [type: {"ExecuteScript"}, on: Script]
          \cup [type: {"WriteRegistry"}, on: KeyText \X Name]

Doc == [state: {"none", "torn", "whole"}, actions: Seq(Step),
        branches: Seq(KeyText), purges: Seq(Path)]

NoDoc == [state |-> "none", actions |-> <<>>, branches |-> <<>>, purges |-> <<>>]

-----------------------------------------------------------------------------
(* What install derives from a manifest *)

Section(t, s) == [i \in 1..Len(s) |-> [type |-> t, on |-> s[i]]]

(* The five loops of install, in order. *)
Plan(m) == Section("CreateDirectory", m.dirs)
             \o Section("CopyFile", m.files)
             \o Section("WriteRegistry", m.registry)
             \o Section("CreateShortcut", m.shortcuts)
             \o Section("ExecuteScript", m.scripts)

(* infer_install_root *)
InstallRoot(m) ==
  IF m.purges # <<>> THEN m.purges[1]
  ELSE IF m.dirs # <<>> THEN m.dirs[1]
  ELSE IF m.files # <<>> THEN Parent(m.files[1])
  ELSE NoPath

(* build_install_runtime *)
JournalAt(m) ==
  IF m.journal # NoPath THEN m.journal
  ELSE IF InstallRoot(m) # NoPath THEN JournalIn[InstallRoot(m)]
  ELSE SideJournal

UninstallerAt(m) == UninstallerIn[InstallRoot(m)]

ASSUME EngineAssumption ==
  /\ Manifests \subseteq Manifest
  /\ Root \subseteq DirPath
  /\ UninstallerIn \in [Root -> FilePath]
  /\ JournalIn \in [Root -> JournalPath]
  /\ SideJournal \in JournalPath
  /\ JournalPath \subseteq FilePath
  /\ \A m \in Manifests : InstallRoot(m) \in Root \cup {NoPath}
  /\ \A m \in Manifests : m.journal \in JournalPath \cup {NoPath}
  /\ \A r \in Root : /\ Ancestors[UninstallerIn[r]] = Ancestors[r] \cup {r}
                     /\ Ancestors[JournalIn[r]] = Ancestors[r] \cup {r}
  /\ {ArpHkcu, ArpHklm} \subseteq UninstallKey
  /\ ArpHkcu \notin AdminKey
  /\ ArpHklm \in AdminKey
  /\ ArpNames \in Seq(Name)
  /\ ArpNames # <<>>
  /\ Leaves \in [Script -> SUBSET (FilePath \cup Link)]
  /\ MaxFaults \in Nat

-----------------------------------------------------------------------------
(* Does the operation need administrator rights?  "yes", "no" or "error".  *)

(* Keys are parsed one by one: the first HKLM or unparsable key decides. *)
ScanKeys(ks) ==
  LET decisive == {i \in 1..Len(ks) : ks[i] \in AdminKey \cup {BadKey}}
      first == CHOOSE i \in decisive : \A j \in decisive : i <= j
  IN  IF decisive = {} THEN "no"
      ELSE IF ks[first] = BadKey THEN "error" ELSE "yes"

Elements(s) == {s[i] : i \in 1..Len(s)}

(* manifest_requires_admin: the purge section is not looked at. *)
ManifestRequiresAdmin(m) ==
  IF (Elements(m.dirs) \cup Elements(m.files) \cup Elements(m.shortcuts))
        \cap AdminPath # {}
  THEN "yes"
  ELSE ScanKeys([i \in 1..Len(m.registry) |-> m.registry[i][1]])

ArpKey(m) == IF ManifestRequiresAdmin(m) = "yes" THEN ArpHklm ELSE ArpHkcu

(* journal_requires_admin *)
ActionNeedsAdmin(a) ==
  \/ a.type \in {"CreateDirectory", "CopyFile", "CreateShortcut"} /\ a.on \in AdminPath
  \/ a.type = "WriteRegistry" /\ a.on[1] \in AdminKey

JournalRequiresAdmin(j) ==
  IF \E i \in 1..Len(j.actions) : ActionNeedsAdmin(j.actions[i]) THEN "yes"
  ELSE IF ScanKeys(j.branches) # "no" THEN ScanKeys(j.branches)
  ELSE IF Elements(j.purges) \cap AdminPath # {} THEN "yes" ELSE "no"

-----------------------------------------------------------------------------
VARIABLES
  doc,     \* doc[j]: what the file at journal path j holds, when it is there
  faults   \* failures and kills so far

engineVars == <<doc, faults>>

EngineTypeOK ==
  /\ HostTypeOK
  /\ doc \in [JournalPath -> Doc]
  /\ faults \in 0..MaxFaults

EngineInit ==
  /\ HostInit
  /\ doc = [j \in JournalPath |-> NoDoc]
  /\ faults = 0

Readable(j) == Exists(j) /\ doc[j].state = "whole"

(* Something outside the engine goes wrong, within the bound. *)
Fault == faults < MaxFaults /\ faults' = faults + 1
=============================================================================
