------------------------------- MODULE Launch -------------------------------
(***************************************************************************)
(* From a command line to an exit code: main, run, run_bundled_installer,  *)
(* and what of install, uninstall and cleanup decides who works, what the  *)
(* user is told and how it ends.  The process the user starts may start    *)
(* itself again with administrator rights, and an uninstaller starts the   *)
(* cleanup helper.  (what the work itself does is Lifecycle's matter, how  *)
(* a window is driven is Dialogue's)                                       *)
(***************************************************************************)
EXTENDS CommandLine, Bundle, FiniteSets

CONSTANTS
  Requests,  \* what is started: [image, args]
  Worlds,    \* what does not change: [required, token, embedded, sidecar, readable]
  Stubs,     \* the executables package may run from: sequences of cells
  MaxFaults  \* bound on windows that break, kills of package, failing calls

Process == {"first", "elevated", "helper"}

(* The executables, each in a directory of its own.                        *)
Image == {"setup", "installer", "uninstaller", "helper"}

ASSUME LaunchAssumption ==
  /\ \A r \in Requests : /\ r.image \in Image \ {"helper"}
                          /\ r.args \in Seq(Seq(STRING))
  /\ \A w \in Worlds : /\ {w.token, w.embedded, w.readable} \subseteq BOOLEAN
                        /\ w.required \in {"yes", "no", "error"}
                        /\ w.sidecar \subseteq Image
  /\ Stubs \subseteq Seq(AnyCell)
  /\ MaxFaults \in Nat

VARIABLES
  world,
  installer, \* the packaged file: [bytes, stub, source, whole]
  proc,      \* the processes
  faults

vars == <<world, installer, proc, faults>>

Idle == [pc |-> "off", image |-> "setup", args |-> <<>>, bundled |-> FALSE,
         unpacked |-> <<>>, mode |-> "none", err |-> "none", declined |-> FALSE,
         marked |-> FALSE, reports |-> 0, work |-> "none", code |-> 0]

NoSource == [entries |-> <<>>, manifest |-> ""]

Init ==
  /\ world \in Worlds
  /\ installer = [bytes |-> <<>>, stub |-> <<>>, source |-> NoSource, whole |-> FALSE]
  /\ proc = [p \in Process |-> Idle]
  /\ faults = 0

Fault == faults < MaxFaults /\ faults' = faults + 1

-----------------------------------------------------------------------------
(* What a process knows *)

Asks(p, flag) == Has(proc[p].args, flag)
Elevated(p) == IF p = "first" THEN world.token ELSE TRUE
Bytes(p) == IF proc[p].image = "setup" THEN <<Code>> ELSE installer.bytes

(* ui::is_available: a window in the executable or a sidecar next to it,   *)
(* which may have come with it or, in the install root, with the payload.  *)
UiAvailable(p) == world.embedded \/ proc[p].image \in world.sidecar

(* The windows that wait for the user are left out with --automation.      *)
Window(p) == proc[p].mode = "gui" /\ ~Asks(p, "--automation")

TypeOK ==
  /\ world \in Worlds
  /\ \A p \in Process :
       /\ proc[p].pc \in {"off", "parsing", "unpacking", "choosing", "confirming", "reading",
                          "opening", "checking", "consent", "working", "farewell", "failing",
                          "waiting", "returned", "success", "apology", "ending", "lastword",
                          "cleaning", "asking", "done"}
       /\ proc[p].mode \in {"none", "tui", "gui"}
       /\ proc[p].mode = "gui" => UiAvailable(p)
       /\ proc[p].err \in {"none", "error", "elevation", "relaunched"}
       /\ proc[p].reports \in 0..2
       /\ proc[p].work \in {"none", "begun", "ok", "failed"}
       /\ proc[p].code \in {0, 1, 2, 33}
  /\ faults \in 0..MaxFaults

-----------------------------------------------------------------------------
Becomes(p, new) == proc' = [proc EXCEPT ![p] = new]
To(p, next) == Becomes(p, [proc[p] EXCEPT !.pc = next])
Error(p, e, next) == Becomes(p, [proc[p] EXCEPT !.err = e, !.pc = next])
Quietly == UNCHANGED <<world, installer, faults>>
Broken == Fault /\ UNCHANGED <<world, installer>>

-----------------------------------------------------------------------------
(* package, whole or killed somewhere in the copy or the appended writes   *)
Package(source, stub) ==
  LET bytes == Packaged(stub, source) IN
  /\ proc["first"].pc = "off"
  /\ installer.bytes = <<>>
  /\ \/ /\ installer' = [bytes |-> bytes, stub |-> stub, source |-> source, whole |-> TRUE]
        /\ UNCHANGED faults
     \/ /\ \E n \in 1..(Len(bytes) - 1) :
             installer' = [bytes |-> SubSeq(bytes, 1, n), stub |-> stub, source |-> source,
                           whole |-> FALSE]
        /\ Fault
  /\ UNCHANGED <<world, proc>>

(* The user, a shell or Installed Apps starts something.  (the plain       *)
(* executable runs alike whatever was packaged, so nothing is before it)   *)
Start(image, args) ==
  /\ proc["first"].pc = "off"
  /\ image = "setup" <=> installer.bytes = <<>>
  /\ Becomes("first", [Idle EXCEPT !.pc = "parsing", !.image = image, !.args = args])
  /\ Quietly

(* main: clap ends the process itself; run without a command is an error.  *)
Parse(p) ==
  LET command == Command(proc[p].args) IN
  /\ proc[p].pc = "parsing"
  /\ CASE ~Understood(proc[p].args) ->
            Becomes(p, [proc[p] EXCEPT !.pc = "done", !.code = 2])
       [] Understood(proc[p].args) /\ command = "none" /\ HasBundle(Bytes(p)) ->
            Becomes(p, [proc[p] EXCEPT !.pc = "unpacking", !.bundled = TRUE])
       [] Understood(proc[p].args) /\ command = "none" /\ ~HasBundle(Bytes(p)) ->
            Error(p, "error", "ending")
       [] OTHER -> To(p, "choosing")
  /\ Quietly

(* run_bundled_installer; the directory it unpacks to is never removed. *)
Unpack(p) ==
  /\ proc[p].pc = "unpacking"
  /\ \/ /\ Becomes(p, [proc[p] EXCEPT !.unpacked = Unpacked(ReadBundle(Bytes(p)).files),
                                     !.pc = "choosing"])
        /\ Quietly
     \/ Error(p, "error", "ending") /\ Broken

Choose(p) ==
  LET mode == SelectUi(proc[p].args, UiAvailable(p)) IN
  /\ proc[p].pc = "choosing"
  /\ IF mode = "error" THEN Error(p, "error", "ending")
     ELSE Becomes(p, [proc[p] EXCEPT
            !.mode = mode,
            !.pc = CASE p = "helper" -> "cleaning"
                     [] p # "helper" /\ proc[p].bundled /\ mode = "gui"
                          /\ ~Asks(p, "--automation") -> "confirming"
                     [] OTHER -> "reading"])
  /\ Quietly

(* ui_confirm_install *)
Confirm(p) ==
  /\ proc[p].pc = "confirming"
  /\ \/ To(p, "reading") /\ Quietly
     \/ Becomes(p, [proc[p] EXCEPT !.declined = TRUE, !.pc = "ending"]) /\ Quietly
     \/ Error(p, "error", "ending") /\ Broken

(* The manifest or the journal is read before there is a window to fail in.*)
ReadInput(p) ==
  /\ proc[p].pc = "reading"
  /\ IF world.readable THEN To(p, "opening") ELSE Error(p, "error", "returned")
  /\ Quietly

(* start_gui_progress *)
OpenProgress(p) ==
  /\ proc[p].pc = "opening"
  /\ \/ To(p, "checking") /\ Quietly
     \/ proc[p].mode = "gui" /\ Error(p, "error", "returned") /\ Broken

(* manifest_requires_admin, journal_requires_admin (or an error in them)   *)
(* and ensure_elevation_if_needed; a packaged installer asks for rights    *)
CheckRights(p) ==
  /\ proc[p].pc = "checking"
  /\ \/ /\ world.required = "no" \/ (world.required = "yes" /\ Elevated(p))
        /\ Becomes(p, [proc[p] EXCEPT !.work = "begun", !.pc = "working"])
        /\ Quietly
     \/ /\ world.required = "yes" /\ ~Elevated(p)
        /\ IF proc[p].bundled \/ Asks(p, "--elevate")
           THEN To(p, "consent") ELSE Error(p, "elevation", "failing")
        /\ Quietly
     \/ world.required = "error" /\ Error(p, "error", "failing") /\ Quietly
     \/ world.required = "yes" /\ Error(p, "error", "failing") /\ Broken  \* is_elevated

(* Mutant: the caller goes on after the relaunch. *)
RelaunchAndGoOn(p) ==
  [proc EXCEPT !["elevated"] = [Idle EXCEPT !.pc = "parsing", !.image = proc[p].image,
                                            !.args = Argv(Parameters(proc[p].args))],
               ![p] = [@ EXCEPT !.work = "begun", !.pc = "working"]]

(* relaunch_as_admin: the same arguments, and an error for the caller.     *)
Relaunch(p) ==
  [proc EXCEPT !["elevated"] = [Idle EXCEPT !.pc = "parsing", !.image = proc[p].image,
                                            !.args = Argv(Parameters(proc[p].args))],
               ![p] = [@ EXCEPT !.err = "relaunched", !.pc = "failing"]]

(* The user agrees to the elevation, or ShellExecuteW returns an error.    *)
Consent(p) ==
  /\ proc[p].pc = "consent"
  /\ \/ proc["elevated"].pc = "off" /\ proc' = Relaunch(p)
     \/ Becomes(p, [proc[p] EXCEPT !.err = "error", !.declined = TRUE, !.pc = "failing"])
  /\ Quietly

-----------------------------------------------------------------------------
(* The body of install or uninstall, or an error in it *)
WorkFails(p) ==
  /\ proc[p].pc = "working"
  /\ Becomes(p, [proc[p] EXCEPT !.work = "failed", !.err = "error", !.pc = "failing"])
  /\ Quietly

WorkDone(p) ==
  /\ proc[p].pc = "working"
  /\ proc[p].bundled \/ Command(proc[p].args) = "install"
  /\ Becomes(p, [proc[p] EXCEPT !.work = "ok", !.pc = "returned"])
  /\ Quietly

(* uninstall deferred its own executable: the helper takes over.           *)
HandOver(p) ==
  /\ proc[p].pc = "working"
  /\ ~proc[p].bundled /\ Command(proc[p].args) = "uninstall"
  /\ proc[p].image = "uninstaller"
  /\ proc["helper"].pc = "off"
  /\ \/ /\ proc' = [proc EXCEPT
             ![p] = [@ EXCEPT !.work = "ok", !.pc = "returned"],
             !["helper"] = [Idle EXCEPT !.pc = "parsing", !.image = "helper",
                                        !.args = HelperArgs(proc[p].args, proc[p].mode)]]
        /\ Quietly
     \/ /\ Becomes(p, [proc[p] EXCEPT !.work = "failed", !.err = "error", !.pc = "failing"])
        /\ Broken

(* uninstall run by another executable tells the user itself. *)
UninstallDone(p) ==
  /\ proc[p].pc = "working"
  /\ ~proc[p].bundled /\ Command(proc[p].args) = "uninstall"
  /\ proc[p].image # "uninstaller"
  /\ Becomes(p, [proc[p] EXCEPT !.work = "ok",
                                !.pc = IF Window(p) THEN "farewell" ELSE "returned"])
  /\ Quietly

(* ui_report_uninstall_success; in uninstall its error is one of the run.  *)
Farewell(p) ==
  /\ proc[p].pc = "farewell"
  /\ \/ To(p, IF p = "helper" THEN "ending" ELSE "returned") /\ Quietly
     \/ Error(p, "error", IF p = "helper" THEN "ending" ELSE "failing") /\ Broken

(* Mutant: the failure window waits for the user in any case. *)
WaitsForClose(p) == TRUE
(* fail_gui_progress(.., !automation) *)
WaitForClose(p) == ~Asks(p, "--automation")

MarkNever(p) == proc[p].marked                                    \* mutant
Mark(p) == TRUE

(* The progress window shows the failure, whatever the error is, also the  *)
(* one that stands for a relaunch; or the window is broken.                *)
ShowFailure(p) ==
  /\ proc[p].pc = "failing"
  /\ \/ proc[p].mode # "gui" /\ To(p, "returned") /\ Quietly
     \/ /\ proc[p].mode = "gui"
        /\ Becomes(p, IF WaitForClose(p)
                       THEN [proc[p] EXCEPT !.reports = @ + 1, !.pc = "waiting"]
                       ELSE [proc[p] EXCEPT !.reports = @ + 1, !.marked = Mark(p),
                                            !.pc = "returned"])
        /\ Quietly
     \/ proc[p].mode = "gui" /\ To(p, "returned") /\ Broken

CloseFailure(p) ==
  /\ proc[p].pc = "waiting"
  /\ Becomes(p, [proc[p] EXCEPT !.marked = Mark(p), !.pc = "returned"])
  /\ Quietly

-----------------------------------------------------------------------------
(* install or uninstall returned; run_bundled_installer still has a word.  *)
Return(p) ==
  /\ proc[p].pc = "returned"
  /\ To(p, CASE proc[p].bundled /\ Window(p) /\ proc[p].err = "none" -> "success"
             [] proc[p].bundled /\ Window(p) /\ proc[p].err # "none" /\ ~proc[p].marked
                  -> "apology"
             [] OTHER -> "ending")
  /\ Quietly

(* ui_report_success, whose error turns the success into a failure *)
Success(p) ==
  /\ proc[p].pc = "success"
  /\ \/ To(p, "ending") /\ Quietly
     \/ Error(p, "error", "ending") /\ Broken

(* ui_report_error, whose error takes the place of the reported one *)
Apology(p) ==
  /\ proc[p].pc = "apology"
  /\ \/ Becomes(p, [proc[p] EXCEPT !.reports = @ + 1, !.pc = "ending"]) /\ Quietly
     \/ Error(p, "error", "ending") /\ Broken

ExitCodeBlunt(p) == IF proc[p].err = "none" THEN 0 ELSE 1         \* mutant
(* What main makes of an error; "elevation" cannot come from a bundle.     *)
ExitCode(p) ==
  CASE proc[p].err \in {"none", "relaunched"} -> 0
    [] proc[p].err = "elevation" -> 33
    [] OTHER -> 1

(* main reports the errors of a packaged installer once more. *)
End(p) ==
  /\ proc[p].pc = "ending"
  /\ Becomes(p, [proc[p] EXCEPT
       !.pc = IF /\ proc[p].bundled /\ proc[p].err \notin {"none", "relaunched"}
                 /\ Asks(p, "--headed") /\ ~Asks(p, "--automation") /\ ~Asks(p, "--json")
                 /\ UiAvailable(p) /\ ~proc[p].marked
              THEN "lastword" ELSE "done",
       !.code = ExitCode(p)])
  /\ Quietly

LastWord(p) ==
  /\ proc[p].pc = "lastword"
  /\ \/ Becomes(p, [proc[p] EXCEPT !.reports = @ + 1, !.pc = "done"]) /\ Quietly
     \/ To(p, "done") /\ Broken

(* cleanup, after the polling and the removals of module Cleanup, or an    *)
(* error in them, which nobody is told of.  A window tells of the success  *)
(* or asks for the reboot; the terminal asks, with --automation too.       *)
Clean(p) ==
  /\ proc[p].pc = "cleaning"
  /\ \/ To(p, IF Window(p) THEN "farewell" ELSE "ending") /\ Quietly
     \/ proc[p].mode = "tui" /\ To(p, "asking") /\ Quietly
     \/ Error(p, "error", "ending") /\ Broken

(* prompt_reboot_tui, and the error of reading or of the reboot *)
AnswerReboot(p) ==
  /\ proc[p].pc = "asking"
  /\ \/ To(p, "ending") /\ Quietly
     \/ Error(p, "error", "ending") /\ Broken

ProcessStep(p) ==
  \/ Parse(p) \/ Unpack(p) \/ Choose(p) \/ ReadInput(p) \/ OpenProgress(p) \/ CheckRights(p)
  \/ WorkFails(p) \/ WorkDone(p) \/ HandOver(p) \/ UninstallDone(p) \/ ShowFailure(p)
  \/ Return(p) \/ End(p) \/ Clean(p)

UserStep(p) ==
  \/ Confirm(p) \/ Consent(p) \/ CloseFailure(p) \/ Farewell(p) \/ Success(p)
  \/ Apology(p) \/ LastWord(p) \/ AnswerReboot(p)

Next ==
  \/ \E source \in Sources, stub \in Stubs : Package(source, stub)
  \/ \E r \in Requests : Start(r.image, r.args)
  \/ \E p \in Process : ProcessStep(p) \/ UserStep(p)

Spec == Init /\ [][Next]_vars

(* The processes run on; the user need not press anything. *)
FairSpec == Spec /\ \A p \in Process : WF_vars(ProcessStep(p))
=============================================================================
