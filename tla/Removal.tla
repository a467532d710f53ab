------------------------------ MODULE Removal ------------------------------
(***************************************************************************)
(* What an uninstallation owes, without processes, walks or helpers: what  *)
(* is listed is there, due to go or gone, and never comes back, nor does   *)
(* what is due become undone.  Only when nothing is simply there may the   *)
(* removal succeed; when it fails, a new one for the same order finds no   *)
(* more than it left.  An installation ends the promise.                   *)
(***************************************************************************)

CONSTANTS File, Entry, NoOrder

VARIABLES
  phase,  \* "none", "removing", "removed" or "failed"
  order,  \* what lists the things to remove
  files,  \* listed files that are there
  due,    \* listed files that somebody is to remove: a boot, or a helper
  entries \* listed registry trees that hold anything

removalVars == <<phase, order, files, due, entries>>

Nothing == files = {} /\ due = {} /\ entries = {}

RemovalInit == phase = "none" /\ order = NoOrder /\ Nothing

Begin ==
  /\ phase # "removing"
  /\ phase' = "removing"
  /\ order' # NoOrder
  /\ files' \in SUBSET File
  /\ due' \in SUBSET (File \ files')
  /\ entries' \in SUBSET Entry
  /\ order' = order => files' \cup due' \subseteq files \cup due /\ entries' \subseteq entries

Remove ==
  /\ phase # "none"
  /\ files' \subseteq files
  /\ due' \subseteq due \cup (files \ files')
  /\ entries' \subseteq entries
  /\ phase' \in {phase} \cup (IF phase = "removing" THEN {"failed"} ELSE {})
  /\ UNCHANGED order

Succeed ==
  /\ phase = "removing"
  /\ files = {} /\ entries = {}
  /\ phase' = "removed"
  /\ UNCHANGED <<order, files, due, entries>>

Disturb ==
  /\ phase' = "none"
  /\ order' = NoOrder
  /\ Nothing'

RemovalNext == Begin \/ Remove \/ Succeed \/ Disturb

RemovalSpec == RemovalInit /\ [][RemovalNext]_removalVars
=============================================================================
