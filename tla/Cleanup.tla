------------------------------ MODULE Cleanup ------------------------------
(***************************************************************************)
(* The end of an uninstallation from the installed uninstaller: the copy   *)
(* of itself it starts from %TEMP% (spawn_cleanup_helper), that copy's     *)
(* function cleanup, and the PowerShell that deletes the copy.             *)
(***************************************************************************)
EXTENDS Uninstall

CONSTANTS
  HelperExe,  \* %TEMP%\covenant-setup-cleanup-<pid>-<ticks>.exe
  MaxTries    \* deletion attempts, 50 in the code

ASSUME CleanupAssumption ==
  /\ HelperExe \in FilePath
  /\ HelperExe \notin AdminPath
  (* The name holds the process and the time: nothing else goes by it. *)
  /\ HelperExe \notin JournalPath
  /\ \A r \in Root : UninstallerIn[r] # HelperExe
  /\ \A m \in Manifests : HelperExe \notin Elements(m.files) \cup Elements(m.shortcuts)
  /\ MaxTries \in Nat

VARIABLES
  hpc,     \* where the helper is
  htarget, \* --target-exe; its parent is --install-root
  helev,   \* the token it inherits
  hmode,   \* the user interface it inherits
  htries,  \* attempts made
  hreboot, \* reboot_required
  ps       \* the delayed Remove-Item of PowerShell

helperVars == <<hpc, htarget, helev, hmode, htries, hreboot, ps>>

HelperPc == {"idle", "poll", "check", "root", "self", "tell", "prompt", "exit", "done"}

HelperRunning == hpc \in {"poll", "check", "root", "self", "tell", "prompt", "exit"}

HelperTypeOK ==
  /\ hpc \in HelperPc
  /\ htarget \in FilePath \cup {NoPath}
  /\ helev \in BOOLEAN
  /\ hmode \in Mode
  /\ htries \in 0..MaxTries
  /\ hreboot \in BOOLEAN
  /\ ps \in {"none", "armed", "done"}

HelperInit ==
  /\ hpc = "idle"
  /\ htarget = NoPath
  /\ helev = FALSE
  /\ hmode = "silent"
  /\ htries = 0
  /\ hreboot = FALSE
  /\ ps = "none"

-----------------------------------------------------------------------------
(* spawn_cleanup_helper: copy the running executable, then start the copy. *)
CopyHelper ==
  /\ AllUndone
  /\ ukeys = <<>>
  /\ uself # NoPath
  /\ ~HelperRunning /\ ps # "armed" \* bound: one helper and its PowerShell at a time
  /\ \/ /\ PutFileOk(HelperExe, uelev)
        /\ PutFile(HelperExe)
        /\ upc' = "handoff"
        /\ UNCHANGED <<ujournal, uimage, uelev, umode, upos, uwalk, uself, ukeys, told>>
     \/ /\ ~PutFileOk(HelperExe, uelev)
        /\ UNCHANGED node
        /\ FailUninstall
  /\ UNCHANGED <<reg, pending, held, images, engineVars, helperVars>>

SpawnHelper ==
  /\ upc = "handoff"
  /\ upc' = "exiting"
  /\ images' = images \cup {HelperExe}
  /\ hpc' = "poll"
  /\ htarget' = uself
  /\ helev' = uelev
  /\ hmode' = umode
  /\ htries' = 0
  /\ hreboot' = FALSE
  /\ ps' = "none"
  /\ UNCHANGED <<ujournal, uimage, uelev, umode, upos, uwalk, uself, ukeys, told>>
  /\ UNCHANGED <<node, reg, pending, held, engineVars>>

-----------------------------------------------------------------------------
HelperAt(next) ==
  /\ hpc' = next
  /\ UNCHANGED <<htarget, helev, hmode, uninstallVars>>

(* Mutants: the loop has no last attempt; attempts are not counted. *)
PollUncapped ==
  LET removable == Exists(htarget) /\ Writable(htarget, helev)
  IN  /\ hpc = "poll"
      /\ node' = [node EXCEPT ![htarget] = IF removable THEN "absent" ELSE @]
      /\ htries' = htries + 1
      /\ HelperAt(IF ~Exists(htarget) \/ removable THEN "check" ELSE "poll")
      /\ UNCHANGED <<reg, pending, held, images, engineVars, told, hreboot, ps>>

PollUncounted ==
  LET removable == Exists(htarget) /\ Writable(htarget, helev)
  IN  /\ hpc = "poll"
      /\ htries < MaxTries
      /\ node' = [node EXCEPT ![htarget] = IF removable THEN "absent" ELSE @]
      /\ HelperAt(IF ~Exists(htarget) \/ removable THEN "check" ELSE "poll")
      /\ UNCHANGED <<reg, pending, held, images, engineVars, told, htries, hreboot, ps>>

(* for _ in 0..50: leave when the target is gone or could be removed *)
Poll ==
  LET removable == Exists(htarget) /\ Writable(htarget, helev)
  IN  /\ hpc = "poll"
      /\ htries < MaxTries
      /\ node' = [node EXCEPT ![htarget] = IF removable THEN "absent" ELSE @]
      /\ htries' = htries + 1
      /\ HelperAt(IF ~Exists(htarget) \/ removable THEN "check" ELSE "poll")
      /\ UNCHANGED <<reg, pending, held, images, engineVars, told, hreboot, ps>>

PollExpires ==
  /\ hpc = "poll"
  /\ htries = MaxTries
  /\ HelperAt("check")
  /\ UNCHANGED <<hostVars, engineVars, told, htries, hreboot, ps>>

(* Mutant: the fallback counts as a removal. *)
FallbackIsRemoval ==
  /\ hpc = "check"
  /\ RemoveFile(htarget, helev)
  /\ hreboot' = FALSE
  /\ HelperAt(IF RemoveFileOk(htarget, helev) THEN "root" ELSE "exit")
  /\ UNCHANGED <<reg, held, images, engineVars, told, htries, ps>>

(* Still there: delete it, or at the next boot, or fail. *)
Fallback ==
  /\ hpc = "check"
  /\ RemoveFile(htarget, helev)
  /\ hreboot' = (node'[htarget] # "absent")
  /\ HelperAt(IF RemoveFileOk(htarget, helev) THEN "root" ELSE "exit")
  /\ UNCHANGED <<reg, held, images, engineVars, told, htries, ps>>

RemoveRoot ==
  LET dir == Parent(htarget)
  IN  /\ hpc = "root"
      /\ RemoveDir(dir, helev)
      /\ HelperAt(IF RemoveDirOk(dir, helev) THEN "self" ELSE "exit")
      /\ UNCHANGED <<reg, pending, held, images, engineVars, told, htries, hreboot, ps>>

(* schedule_helper_self_cleanup *)
ScheduleSelfCleanup ==
  /\ hpc = "self"
  /\ ps' = "armed"
  /\ HelperAt("tell")
  /\ UNCHANGED <<hostVars, engineVars, told, htries, hreboot>>

(* PowerShell does not start: the running helper can only wait for a boot. *)
SelfCleanupFallback ==
  /\ hpc = "self"
  /\ Fault
  /\ RemoveFile(HelperExe, helev)
  /\ hreboot' = TRUE
  /\ HelperAt(IF RemoveFileOk(HelperExe, helev) THEN "tell" ELSE "exit")
  /\ UNCHANGED <<reg, held, images, doc, told, htries, ps>>

(* A window, or a question on the terminal when a reboot is needed. *)
Tell ==
  /\ hpc = "tell"
  /\ told' = IF hmode = "silent" THEN told ELSE IF hreboot THEN "reboot" ELSE "removed"
  /\ HelperAt(IF hmode = "gui" \/ (hmode = "tui" /\ hreboot) THEN "prompt" ELSE "exit")
  /\ UNCHANGED <<hostVars, engineVars, htries, hreboot, ps>>

UserAnswers ==
  /\ hpc = "prompt"
  /\ HelperAt("exit")
  /\ UNCHANGED <<hostVars, engineVars, told, htries, hreboot, ps>>

ExitHelper ==
  /\ hpc = "exit"
  /\ HelperAt("done")
  /\ images' = images \ {HelperExe}
  /\ UNCHANGED <<node, reg, pending, held, engineVars, told, htries, hreboot, ps>>

HelperFails ==
  /\ HelperRunning
  /\ hpc # "exit"
  /\ Fault
  /\ HelperAt("exit")
  /\ UNCHANGED <<hostVars, doc, told, htries, hreboot, ps>>

(***************************************************************************)
(* Start-Sleep -Seconds 2; Remove-Item, once, errors ignored.  Timing      *)
(* assumption: two seconds are enough for the helper to reach a wait for   *)
(* the user or its end.                                                    *)
(***************************************************************************)
PowershellDeletes ==
  /\ ps = "armed"
  /\ hpc \in {"prompt", "done"}
  /\ node' = [node EXCEPT ![HelperExe] = IF Writable(HelperExe, helev) THEN "absent" ELSE @]
  /\ ps' = "done"
  /\ UNCHANGED <<reg, pending, held, images, engineVars, uninstallVars, told>>
  /\ UNCHANGED <<hpc, htarget, helev, hmode, htries, hreboot>>

HelperStep ==
  \/ Poll \/ PollExpires \/ Fallback \/ RemoveRoot \/ ScheduleSelfCleanup
  \/ Tell \/ ExitHelper
=============================================================================
