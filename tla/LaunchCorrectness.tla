------------------------- MODULE LaunchCorrectness -------------------------
(***************************************************************************)
(* What starting, relaunching, packaging and reporting promise.            *)
(***************************************************************************)
EXTENDS Launch

Started(p) == proc[p].pc # "off"
Done(p) == proc[p].pc = "done"

(* The work of a request is begun by one process at most, and only by one  *)
(* that has the rights it needs; the first does nothing once it has        *)
(* started another.  (ensure_elevation_if_needed, relaunch_as_admin)       *)
WorkIsEntitled ==
  \A p \in Process : proc[p].work # "none" =>
    /\ world.required = "no" \/ (world.required = "yes" /\ Elevated(p))
    /\ \A q \in Process \ {p} : proc[q].work = "none"
    /\ p = "first" => ~Started("elevated")

(* The elevated process is started with the arguments of the first, blanks,*)
(* quotes and backslashes included.  (quote_command_line_arg)              *)
RelaunchKeepsCommand == Started("elevated") => proc["elevated"].args = proc["first"].args

(* The helper understands its command line and talks to the user as its    *)
(* uninstaller did, but on the terminal where that one had the window that *)
(* lies next to it in the install root and there is none in %TEMP%; never  *)
(* does it open a window where the uninstaller had none, or end for want   *)
(* of a mode.  (spawn_cleanup_helper, sidecar_ui_exe, select_ui)           *)
HelperSpeaksAlike ==
  \A p \in {"first", "elevated"} :
    proc[p].work = "ok" /\ proc["helper"].pc \notin {"off", "parsing", "choosing"} =>
      /\ Understood(proc["helper"].args)
      /\ proc["helper"].mode =
           IF proc[p].mode = "gui" /\ ~UiAvailable("helper") THEN "tui" ELSE proc[p].mode
      /\ Asks("helper", "--automation") = Asks(p, "--automation")

(* The exit code can be believed: 33 means nothing was touched and rights  *)
(* are missing; 0 that the work is done, was declined or is another        *)
(* process's; anything else that it is not done, but for a window broken   *)
(* after it.  (main)                                                       *)
ExitHonest ==
  \A p \in {"first", "elevated"} : Done(p) =>
    /\ proc[p].code = 33 => /\ world.required = "yes" /\ ~Elevated(p)
                            /\ \A q \in Process : proc[q].work = "none"
    /\ proc[p].code = 0 => \/ proc[p].work = "ok" \/ proc[p].declined
                           \/ proc[p].work = "none" /\ Started("elevated")
    /\ proc[p].code \notin {0, 33} => \/ proc[p].work # "ok" \/ faults > 0
    /\ world.required = "yes" /\ ~Elevated(p) /\ faults = 0 /\ ~proc[p].declined
         /\ proc[p].mode # "none" /\ world.readable =>
           proc[p].code = IF Started("elevated") THEN 0 ELSE 33

(* A run with a window tells the user of its failure once: in the progress *)
(* window, or in a message when there was none.  With input it cannot read *)
(* or a broken window a packaged installer says it up to twice, and other  *)
(* runs say nothing at all.  (FAILURE_UX_SHOWN)                            *)
ReportedOnce ==
  \A p \in {"first", "elevated"} :
    Done(p) /\ proc[p].mode = "gui" /\ proc[p].err # "none" /\ faults = 0 =>
      proc[p].reports = IF world.readable THEN 1
                        ELSE IF proc[p].bundled /\ ~Asks(p, "--automation") THEN 2 ELSE 0

(* A package that was cut off while it was written installs nothing, not   *)
(* even what the executable it was made from had in it.                    *)
(* (append_embedded_bundle writes the magic last)                          *)
CutOffPackageIsRefused ==
  ~installer.whole /\ (\A i \in DOMAIN installer.stub : installer.stub[i] # Magic)
      /\ (\A i \in DOMAIN installer.source.entries :
            Magic \notin ToSet(installer.source.entries[i].data))
    => \A p \in Process : ~proc[p].bundled

(* What a finished package unpacks is what was in the directory: every     *)
(* file under its own name, the manifest under the name it is looked for,  *)
(* but for files with a generated name, in capitals or not, and what lies  *)
(* in directories with one.  A second file with the manifest's new name is *)
(* excepted: the later of the two remains.                                 *)
UnpacksWhatWasPackaged ==
  \A p \in Process :
    proc[p].bundled /\ installer.whole /\ proc[p].pc \notin {"parsing", "unpacking"}
        /\ proc[p].unpacked # <<>>
        /\ (\A i \in DOMAIN installer.source.entries :
              installer.source.entries[i].path = ManifestName
                => installer.source.manifest = ManifestName)
      => LET entries == installer.source.entries
             NameOf(i) == IF entries[i].path = installer.source.manifest
                          THEN ManifestName ELSE entries[i].path
             kept == {i \in DOMAIN entries :
                        \A k \in DOMAIN entries[i].path : entries[i].path[k] \notin Generated}
         IN /\ DOMAIN proc[p].unpacked = {NameOf(i) : i \in kept}
            /\ \A i \in kept : proc[p].unpacked[NameOf(i)] = entries[i].data

(* With --automation or without a window every process ends, and so does   *)
(* what it starts; only the question for elevation waits for the user, and *)
(* on a terminal the helper's for a reboot, which --automation, said to    *)
(* suppress prompts of the window, leaves.                                 *)
(* (README.md:202; every prompt and wait_for_close)                        *)
Unattended == Asks("first", "--automation") \/ ~Asks("first", "--headed")

AutomationEnds ==
  (Started("first") /\ Unattended)
    ~> \/ proc["first"].pc = "consent"
       \/ proc["helper"].pc = "asking" /\ proc["helper"].mode = "tui"
       \/ \A p \in Process : ~Started(p) \/ Done(p)

-----------------------------------------------------------------------------
(* README.md:70-71: "Windows Installed Apps launches the installed         *)
(* uninstaller executable", "The engine removes payload files first".  So  *)
(* the registered command gets to the work, unless something is in its way.*)
RegisteredCommandWorks ==
  Done("first") /\ faults = 0 /\ world.readable /\ world.required # "error"
      /\ ~proc["first"].declined =>
    proc["first"].work # "none" \/ Started("elevated")
=============================================================================
