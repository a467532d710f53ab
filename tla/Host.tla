-------------------------------- MODULE Host --------------------------------
(***************************************************************************)
(* The Windows machine the engine mutates, at the level of the wrappers of *)
(* src/win.rs: a file tree, registry values, the list of renames Windows   *)
(* carries out at the next boot, files other programs keep open and the    *)
(* executables that are running.                                           *)
(*                                                                         *)
(* A path or a registry value is "absent", "foreign" (it was there before, *)
(* nothing of ours) or "app" (the engine or one of its scripts made it).   *)
(***************************************************************************)
EXTENDS Naturals, Sequences

CONSTANTS
  DirPath, FilePath, \* the directories and the files that matter
  Link, Leads,       \* where a junction may lie; the directory it leads to
  NoPath,            \* Option::None for a path
  Ancestors,         \* Ancestors[p]: the directories strictly above p
  AdminPath,         \* paths under Program Files or Windows
  Key, BadKey,       \* registry keys; a key text with an unsupported root
  Tree,              \* Tree[k]: k and the keys below it
  AdminKey,          \* keys of HKLM
  UninstallKey,      \* keys under ...\CurrentVersion\Uninstall\
  Name,              \* names of registry values
  Node0, Reg0        \* the machine before the first installation

Path == DirPath \cup FilePath \cup Link
Value == Key \X Name
Origin == {"absent", "foreign", "app"}

ASSUME HostAssumption ==
  /\ DirPath \cap FilePath = {}
  /\ Link \cap (DirPath \cup FilePath) = {}
  /\ Leads \in [Link -> DirPath]
  /\ NoPath \notin Path
  /\ Ancestors \in [Path -> SUBSET DirPath]
  /\ \A p \in Path : p \notin Ancestors[p]
  /\ \A p \in Path : \A a \in Ancestors[p] : Ancestors[a] \subseteq Ancestors[p]
  /\ \A p \in Path : \/ Ancestors[p] = {}
                     \/ \E a \in Ancestors[p] : Ancestors[p] \ {a} = Ancestors[a]
  /\ \A p \in Path : \A a, b \in Ancestors[p] :
       a = b \/ a \in Ancestors[b] \/ b \in Ancestors[a]
  /\ AdminPath \subseteq Path
  /\ \A p \in Path : Ancestors[p] \cap AdminPath # {} => p \in AdminPath
  /\ BadKey \notin Key
  /\ Tree \in [Key -> SUBSET Key]
  /\ \A k \in Key : k \in Tree[k]
  /\ AdminKey \subseteq Key
  /\ UninstallKey \subseteq Key
  /\ Node0 \in [Path -> {"absent", "foreign"}]
  /\ Reg0 \in [Value -> {"absent", "foreign"}]
  /\ \A p \in Path : Node0[p] # "absent" =>
                       \A a \in Ancestors[p] : Node0[a] # "absent"

VARIABLES
  node,    \* node[p]: what is at path p
  reg,     \* reg[v]: what is in registry value v
  pending, \* paths Windows deletes at the next boot (MOVEFILE_DELAY_UNTIL_REBOOT)
  held,    \* files other programs keep open
  images   \* executables of ours that are running

hostVars == <<node, reg, pending, held, images>>

HostTypeOK ==
  /\ node \in [Path -> Origin]
  /\ reg \in [Value -> Origin]
  /\ pending \subseteq FilePath
  /\ held \subseteq FilePath
  /\ images \subseteq FilePath

HostInit ==
  /\ node = Node0
  /\ reg = Reg0
  /\ pending = {}
  /\ held = {}
  /\ images = {}

-----------------------------------------------------------------------------
(* The file tree *)

Exists(p) == node[p] # "absent"

(* Path::exists follows a junction: one that leads nowhere is not found.   *)
Found(p) == Exists(p) /\ (p \in Link => Exists(Leads[p]))

Below(d) == {p \in Path : d \in Ancestors[p]}

Parent(p) == IF Ancestors[p] = {} THEN NoPath
             ELSE CHOOSE a \in Ancestors[p] : Ancestors[p] \ {a} = Ancestors[a]

Occupied(d) == \E p \in Below(d) : Exists(p)

Permitted(p, elev) == p \in AdminPath => elev

InUse(f) == f \in held \cup images

(* Deletes, copies and links fail on a file that is open or executing. *)
Writable(f, elev) == Permitted(f, elev) /\ ~InUse(f)

(***************************************************************************)
(* create_directory_recursive: every missing directory of the chain, from  *)
(* the top; it stops at the first one the token may not create.            *)
(***************************************************************************)
Missing(ds) == {a \in ds : ~Exists(a)}

MakeDirsOk(ds, elev) == \A a \in Missing(ds) : Permitted(a, elev)

MakeDirs(ds, elev) ==
  node' = [p \in Path |-> IF p \in Missing(ds) /\ Permitted(p, elev)
                          THEN "app" ELSE node[p]]

(* copy_file, create_shortcut and fs::copy: the parent must be there. *)
PutFileOk(f, elev) == Writable(f, elev) /\ \A a \in Ancestors[f] : Exists(a)

PutFile(f) == node' = [node EXCEPT ![f] = "app"]

(***************************************************************************)
(* remove_file_with_fallback: absent is Ok; DeleteFileW; and when that     *)
(* fails MoveFileExW, which writes the boot-time list under HKLM and so    *)
(* needs an elevated token.  Both successes return Ok.                     *)
(***************************************************************************)
(* Mutants: the result of MoveFileExW is dropped; there is no MoveFileExW. *)
RemoveFileOkUnchecked(f, elev) == TRUE
RemoveFileOkNoFallback(f, elev) == Exists(f) => Writable(f, elev)

RemoveFileOk(f, elev) == Exists(f) => Writable(f, elev) \/ elev

RemoveFile(f, elev) ==
  /\ node' = [node EXCEPT ![f] = IF Writable(f, elev) THEN "absent" ELSE @]
  /\ pending' = IF Exists(f) /\ ~Writable(f, elev) /\ elev
                THEN pending \cup {f} ELSE pending

(***************************************************************************)
(* remove_directory_if_exists: absent and not empty are both Ok.           *)
(***************************************************************************)
RemoveDirOk(d, elev) == Exists(d) => Occupied(d) \/ Permitted(d, elev)

RemoveDir(d, elev) ==
  node' = [node EXCEPT ![d] = IF Occupied(d) \/ ~Permitted(d, elev)
                              THEN @ ELSE "absent"]

(* RemoveDirectoryW takes a junction away and leaves what it leads to.     *)
RemoveLinkOk(l, elev) == Permitted(l, elev) \/ Occupied(Leads[l])

RemoveLink(l, elev) ==
  node' = [node EXCEPT ![l] = IF Permitted(l, elev) THEN "absent" ELSE @]

-----------------------------------------------------------------------------
(* The registry *)

KeyPermitted(k, elev) == k \in AdminKey => elev

(* set_registry_string *)
SetValue(v) == reg' = [reg EXCEPT ![v] = "app"]

(* delete_registry_tree: a key that is not there is Ok. *)
InTree(k) == {v \in Value : v[1] \in Tree[k]}

DeleteTreeOk(k, elev) ==
  KeyPermitted(k, elev) \/ \A v \in InTree(k) : reg[v] = "absent"

(* Mutant: a key above k counts as part of the tree. *)
DeleteTreeAndParents(k, elev) ==
  reg' = [v \in Value |-> IF KeyPermitted(k, elev) /\ (v \in InTree(k) \/ k \in Tree[v[1]])
                          THEN "absent" ELSE reg[v]]

DeleteTree(k, elev) ==
  reg' = [v \in Value |-> IF v \in InTree(k) /\ KeyPermitted(k, elev)
                          THEN "absent" ELSE reg[v]]

-----------------------------------------------------------------------------
(* The rest of the machine *)

(* Another program opens one of the files, or closes it. *)
Hold(f) ==
  /\ Exists(f)
  /\ f \notin held
  /\ held' = held \cup {f}
  /\ UNCHANGED <<node, reg, pending, images>>

Release(f) ==
  /\ f \in held
  /\ held' = held \ {f}
  /\ UNCHANGED <<node, reg, pending, images>>

(* A boot deletes what is on the list, by path, and no process survives. *)
Boot ==
  /\ node' = [p \in Path |-> IF p \in pending THEN "absent" ELSE node[p]]
  /\ pending' = {}
  /\ held' = {}
  /\ images' = {}
  /\ UNCHANGED reg
=============================================================================
