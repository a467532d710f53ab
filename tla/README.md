# covenant-setup in TLA+

A model of covenant-setup in three parts:

- the life cycle of an application: what `install`, `uninstall` and the cleanup
  helper do to a Windows machine, step by step, with the failures, kills, boots,
  open files and overlapping runs that can come between any two steps;
- the dialogue of the engine with its window, two processes over a named pipe;
- the launch: from a command line, through a packaged installer, the choice of a
  front end and a relaunch with administrator rights, to an exit code.

TLC checks small instances of each. TLAPS proves, for every value of the
constants: of the life cycle its types and scope, that a journal is complete, that
what is removed stays removed, that the Installed Apps entry goes last, that a
reported success has erased what it should, and that the helper tells the truth; of the
dialogue its safety and that it implements an abstract display; of the launch its
types, who may work, what the exit code means and how often a failure is told.

## Inventory of the system

| Component | State | Operations | Interacts with |
|---|---|---|---|
| Win32 wrappers (`src/win.rs`) | none of its own: files, registry, boot-time rename list | create directories, copy, link, remove with delete-on-reboot fallback, remove empty directory, set value, delete tree | called by the three processes |
| Manifest, journal, runtime (`src/main.rs`) | the manifest, `journal.json` | infer install root, place journal and uninstaller, decide whether rights are needed | `install` writes the journal, `uninstall` reads it |
| `install` | tracker of actions | five loops (directories, files, registry, shortcuts, scripts), uninstaller, registration, journal | progress pipe |
| `uninstall` | deferred uninstall keys, deferred self delete | reverse loop, branch purge, path purge, registration last, hand-over to the helper | progress pipe, helper process |
| Cleanup helper | attempts, `reboot_required` | poll 50 times, fall back, remove the root, delete itself through PowerShell, tell the user | the exiting uninstaller, user, PowerShell |
| Command dispatch and elevation | command line, UI mode | choose the UI, relaunch with `runas`, run the bundled installer | all commands |
| Progress pipe, engine's side (`src/ui.rs`) | child process, pipe handle, unpacked executable | prepare, spawn, connect, send, finish, fail and wait, prompt, drop | `install`, `uninstall`, helper; the window |
| Progress window (`Program.cs`) | form, pipe loop, the closing flag, a message box | serve the pipe, post callbacks, ask, close | the engine, the user |
| Bundle format | five parts appended to an executable: index length, index, data, payload length, magic | collect, append, read, extract | `package`, `run_bundled_installer` |
| Command lines (`win.rs`, clap, registry) | none | quote, register, parse | elevation relaunch, Installed Apps |
| VM test harness, build scripts, tracing | - | - | - |

What is hard here, and what makes each component right:

- A run can fail or be killed between any two calls, and nothing is rolled back.
  What has been undone must stay undone, and a failed uninstall must be
  repeatable (`UndoneStaysUndone`, `RetryPossible`, `LeavesNoTrace`). `Removal` says
  what all of it owes the user (`IsRemoval`).
- The Installed Apps entry is how the user gets back to the uninstaller, so it
  must outlive the files (`RegistrationGoesLast`) and must not promise what
  is not there (`RegisteredMeansUninstallable`).
- A removal can be postponed to the next boot and still return `Ok`. Success has
  to mean "gone or due" (`SuccessMeansErased`), and what the user is told has to
  fit (`HelperHonest`, `PendingReported`).
- The running uninstaller cannot delete itself. A copy in `%TEMP%` waits for it,
  a bounded number of times (`HelperEnds`), and removes itself
  (`HelperCleansItself`).
- Nothing keeps two runs apart. A journal must be a complete one
  (`JournalComplete`) and still cover what is on the machine
  (`JournalCoversMachine`), and no run may reach beyond what the manifests declare
  (`PurgeStaysInside`, `OnlyDeclared`), least of all through a junction, which the
  recursion of a purge follows.
- A directory can only be removed after what lies in it, and is visited once
  (`EmptyDirectoriesGo`).
- Engine and window are two processes, the window has two threads. Either can
  die, and no one may wait for ever for the other (`SessionEnds`, `NeverTrapped`).
  A failure must have been seen before the engine counts it as shown
  (`FailureStaysVisible`), and the window must not go away in the middle of the
  work (`ClosedByRightOnly`). `Display` says what the user is owed (`IsDisplay`).
- The helper chooses its front end anew, in a directory where a window that came
  with the payload does not lie (`HelperSpeaksAlike`). A run that nobody watches
  must not wait for an answer (`AutomationEnds`).
- A relaunch splits one request over two processes, and its success travels
  through the error path. One process works, with rights (`WorkIsEntitled`), with
  the same arguments (`RelaunchKeepsCommand`), the user is told of a failure once
  (`ReportedOnce`), and the exit code is true (`ExitHonest`).
- A packaged installer reads itself from its end. A half-written one must not pass
  for a package (`CutOffPackageIsRefused`), a whole one must give back what went
  in (`UnpacksWhatWasPackaged`).

The complete list of hazards, each at its line, is in `PROJECT.json`.

## Modules

| Module | Models |
|---|---|
| `Host` | the machine: `node[p]` and `reg[v]` are "absent", "foreign" or "app"; a path is a directory, a file or a junction, which leads to a directory; `pending` is the boot-time list; `held` and `images` are the files other programs and our own processes keep open. The wrappers of `win.rs` are operators on these. |
| `Engine` | the manifest, the plan derived from it, `infer_install_root`, the journal and its place, `manifest_requires_admin`, `journal_requires_admin`, the bound on failures |
| `Install` | `install`: one action per call that changes the machine |
| `Uninstall` | `uninstall`: the reverse loop, the two purges, the deferred registration |
| `Cleanup` | `spawn_cleanup_helper`, `cleanup`, `schedule_helper_self_cleanup`, PowerShell |
| `Lifecycle` | their composition with other programs and boots; `Spec` and `FairSpec` |
| `Removal` | what an uninstallation owes, without processes, walks or helpers |
| `Correctness` | every property of the life cycle; the mapping to `Removal` |
| `MCLifecycle` | the small machines and manifests for TLC |
| `LifecycleProofs` | `TypeOK` and `TargetKnown` proved |
| `ScopeProofs` | `OnlyDeclared` proved |
| `RemovalProofs` | `UndoneStaysUndone`, `RegistrationGoesLast`, `HelperHonest` and the refinement of `Removal` proved |
| `JournalProofs` | `JournalComplete`, `RetryPossible` and `JournalCoversMachine` proved |
| `PurgeProofs` | `SuccessMeansErased`, `EmptyDirectoriesGo` and `LeavesNoTrace` proved |
| `Pipe` | the named pipe: the lines said, how many are read and carried out, the answer on its way, both ends |
| `Window` | `Program.cs`: pipe loop and form, one action per callback |
| `Session` | `ui.rs`: `CSharpUiSession` from the unpacked executable to `Drop`, `GuiProgress`, `prompt` |
| `Display` | what a window owes its user, without processes or pipe |
| `Dialogue` | session, window, user and mishaps; the properties; the mapping to `Display` |
| `MCDialogue` | the two answers for TLC |
| `DialogueProofs` | the invariants of `Dialogue` and the refinement proved |
| `CommandLine` | quoting, the C run time's rules, clap's options, `select_ui`, the helper's command line |
| `Bundle` | collecting, appending, reading back, unpacking |
| `Launch` | `main`, `run`, `run_bundled_installer`, `package`, elevation, failure windows, exit codes |
| `LaunchCorrectness` | every property of the launch |
| `MCLaunch` | the directories, command lines and machines for TLC |
| `RoundTripProofs` | what is quoted is read, what is packaged is unpacked: for any arguments and files |
| `LaunchProofs` | every invariant of `LaunchCorrectness`, and `TypeOK`, proved |

The three parts meet at named places. An error that "strikes between any two
steps" of `Lifecycle` is what a broken pipe of `Dialogue` does to the engine; the
work of `Launch` (pc "working") is a run of `Lifecycle`; a window of `Launch`
that tells, asks or shows a failure is a session of `Dialogue`. They are checked
apart because no state but the outcome crosses these places.

`Install`, `Uninstall` and `Cleanup` share the variables of `Host` and `Engine`,
as the processes share the machine; otherwise each keeps its own.

### How state and actions correspond to the code

- `ipc`/`ipos` stand for the position in `install`; `Plan(iman)` is the
  concatenation of its five loops. `tracker` is `DeclaredTracker.actions`. Every
  action is one `sys` call together with the `tracker.record` that follows it, and
  takes the path of the code's `?` when the call fails. A refusal is a
  consequence of the state: no rights (`Permitted`), open or running file
  (`InUse`), missing parent, unparsable key.
- `create_directory_recursive` is one action that creates the missing part of
  the chain and stops at the first directory the token may not create.
- `fs::write` of the journal is two actions, `OpenJournal` (truncated, "torn")
  and `CompleteJournal`, so that a kill between them is a behaviour.
- `register_uninstall_entry` writes value by value; the records are appended
  after the last one, as in the code.
- Whether the token is elevated is part of each run. A run that is refused at
  the start changes nothing and is not an action.
- `upos` is the position in `UndoPlan`: the reversed actions, then branches, then
  paths. `uwalk` is what `purge_path` may still come to: everything below the purge
  path and, because `is_dir` holds of a junction, below the directories where
  junctions there lead (`Inside`). Files go as they come, a directory after everything
  below it, a junction after everything where it leads. `read_dir` is lazy: what is not
  there when the walk comes by is passed with all it would hold (`PassOver`), what has
  been made meanwhile is visited. `uself` and `ukeys` are `deferred_self_delete` and
  `deferred_uninstall_registry`.
- A success that is not handed to a helper is told in a window, and `uninstall` returns
  when the user has closed it ("reporting", `CloseReport`); a window that breaks turns the
  success into a failure (`UninstallFails`). A failure in a window is closed by the user
  too (`ExitUninstaller`; `AwaitsUser` names both waits).
- `umode` is "silent" with `--json`, and for a window under `--automation`. A terminal
  asks under `--automation` too.
- `remove_file_with_fallback` returns `Ok` for an absent file, a deleted file,
  and a file put on the boot-time list, which only an elevated token can write.
- The helper polls (`Poll`), then `Fallback`, `RemoveRoot`,
  `ScheduleSelfCleanup`, `Tell`. The two-second PowerShell deletion runs once,
  while the helper waits for the user or after its end: it is assumed that two
  seconds are enough for the helper to get that far.
- `told` is what the user was last told, by window, terminal or error.
- A failure nobody can foresee (full disk, broken progress pipe, failing
  script) and a kill are the same action, `InstallFails`, `UninstallFails` or
  `HelperFails`, bounded by `MaxFaults`.
- `promised`, `ran`, `quiet`, `alone`, `trouble` and the counters observe; no action of
  the engine reads them but the bounds. `ran` holds the manifests installed so far. `quiet` holds "uninstall" as long as no
  installation has run beside the last uninstallation, and "helper" likewise for
  the last helper; `alone` says that no helper and no PowerShell has removed
  anything since the last uninstallation began; `trouble` counts the faults and
  boots before it.

Dialogue:

- `said` only grows; `taken` is what the pipe loop has read, `shown` what the form
  has carried out. `BeginInvoke` posts the callback of a line and goes on, so
  `shown` lags behind `taken`; a prompt is an `Invoke` and holds the loop.
- Writing to the pipe is buffered: `Sent` succeeds as long as the window's end is
  not closed, whether anybody reads or not.
- `spc` is where the engine is. `Send` is `send` with its `?`: every line either
  goes out or leads to the error path of its caller. `log` lines change nothing
  but a text box and count as progress.
- `Drop` is three actions after the session exists (`DropExited`, or `DropClose`
  with `DropReap` or `DropKill`) and none before it: the code has nothing to drop
  when spawning or connecting fails.
- `marked` is `FAILURE_UX_SHOWN`; `closable` is `_closeButton.Enabled`, which both
  the button and `FormClosing` ask for.
- The terminal prompts and the question for a reboot in the terminal open no
  window and are not sessions.

Launch:

- A process is a record: where it is, its command line, what it knows of the bundle,
  its front end, its error, what of the work it did, how often it has told the
  user of a failure, its exit code. There are three: the one the user starts, the
  elevated one it may start, the helper. `cleanup` ends at once, in a window that tells
  or asks ("farewell"), or with the terminal's question ("asking"), which
  `prompt_reboot_tui` puts with `--automation` too.
- An argument is a sequence of symbols, so that backslashes, quotes and blanks are
  themselves and every other word is one symbol. `ArgvStep` is the rule by which a
  new process takes its command line apart (external).
- A file of the bundle is a sequence of cells; numbers and index are one cell
  each. `Package` is killed after any number of cells. A path in it is the sequence of
  names from the top down, since names are excluded at any depth; `Generated` holds the
  excluded names as they may be spelt, because the code compares in lower case.
- What cannot change during a launch is in `world`: whether the work needs rights,
  whether the token has them, whether a window is embedded, next to which of the
  executables a sidecar window lies (setup, packaged installer, installed uninstaller,
  helper: each in a directory of its own), whether the manifest or journal can be read.
- Windows of the user's are actions of `UserStep`, each with the branch for a
  window that breaks; everything else is `ProcessStep`.

### Assumptions

`HostAssumption`, `EngineAssumption`, `CleanupAssumption` and
`LifecycleAssumption` say that the file tree is a tree (the directories above a
path lie one in the other), that a junction leads to a directory, that administrators' directories hold
administrators' paths, that a journal and an uninstaller lie in their install
root, that the helper's directory needs no rights, that nothing else has the
name of the helper's copy (it is made of a process and a time), and that the two
registration keys are uninstall keys of their hives. TLC evaluates all of them in
every run. Two manifests can name the same install root, journal and keys.
`UninstallAssumption` bounds the junctions: none leads to where another lies, none under
a purge path leads back under it, and no two lead to one place. Without it a walk
could come by a path twice, or, in a ring, not end: what `purge_path` does then is not
modelled.
`PipeAssumption`, `SessionAssumption` and `LaunchAssumption` only give the
constants of the other two parts their types. `BundleAssumption` adds to the types
that a directory has each of its paths once.

## Runs

The runs of the life cycle share the machine of `MCLifecycle`: `%LOCALAPPDATA%` with the install
root below it, a desktop, a directory under Program Files, a stranger's file, directory and
registry value, and a place in the install root where a script can put a junction to that
directory. `Sample` is `examples/install.toml`; `Plain` is the
same without script and purge section.

| Run | Checks | Shows |
|---|---|---|
| `lifecycle` | `TypeOK`, `UndoneStaysUndone`, `EmptyDirectoriesGo`, `SuccessMeansErased`, `RetryPossible`, `LeavesNoTrace`, `IsRemoval` | either manifest installed once and uninstalled up to twice, from setup or from its own uninstaller, elevated or not, two files open at any time, one fault and one boot anywhere, launched with the window (647,000 states) |
| `overlap` | `JournalComplete`, `JournalCoversMachine`, `HelperHonest`, `RegistrationGoesLast` | two installations of the sample, one after the other, and an uninstallation whose steps may fall between any of theirs, with a fault and a boot, the uninstaller or the helper's copy held open: a second installation meets what the first run, its helper or a boot left or still will remove (1,029,000 states) |
| `manifests` | `OnlyDeclared`, `SuccessMeansErased`, `LeavesNoTrace`, `HelperEnds`, `ElevatedUninstallSucceeds` | the sample and unusual manifests: a purge path that decides the install root, a purge path that is a file, no install root, unsupported keys behind an HKLM key, two branches, a script that puts a junction under the purge path, to a stranger's directory or to one the manifest lists and uninstall has removed before; with files held open, in a window and on a terminal, under weak fairness of every step that waits for nobody. What the manifest that is installed does not declare stays as it was, but for where the junction leads; a junction that leads nowhere stays and keeps its directory (88,000 states) |
| `dialogue` | `TypeOK`, `NothingLeftBehind`, `FailureStaysVisible`, `ClosedByRightOnly`, `IsDisplay`, `SessionEnds`, `NeverTrapped` | one window for progress or for a question, up to two progress lines, up to two mishaps anywhere (12,800 states) |
| `launch` | `TypeOK`, `WorkIsEntitled`, `RelaunchKeepsCommand`, `HelperSpeaksAlike`, `ExitHonest`, `ReportedOnce`, `CutOffPackageIsRefused`, `UnpacksWhatWasPackaged`, `AutomationEnds` | setup, packaged installer and installed uninstaller in every front end, with journal paths of every three symbols, the window embedded, next to the setup, in the install root, in `%TEMP%` or nowhere, packages of four directories made from a fresh or an already packaged executable and cut off anywhere, one fault (698,000 states) |
| `v_registered` | `RegisteredMeansUninstallable` | violated: the entry is written before the journal |
| `v_sample` | `UndisturbedUninstallWorks` | violated: the sample cannot be uninstalled by its own uninstaller without elevation, because `purge_path` meets the running executable |
| `v_pending` | `PendingReported` | violated: "removed" is shown while a locked file waits for a reboot |
| `v_reboot` | `InstalledStaysIntact` | violated: the boot-time list of an earlier uninstall deletes a file of a later installation |
| `v_junction` | `PurgeStaysInside` | violated: the purge follows a junction and deletes a stranger's file under no declared path |
| `v_helper` | `HelperCleansItself` | violated: PowerShell tries while the completion window keeps the helper running |
| `v_installedapps` | `RegisteredCommandWorks` | violated: the command in Installed Apps names no front end, and `select_ui` refuses it |

Bounds. One fault is enough for every property here, since each is violated by
one interruption in a mutated model. A second uninstall is what retries need, a second
installation what overlap and the boot-time list need. `MaxTries = 2` stands for
50: the loop treats all attempts alike, and two are enough for "none", "some" and
"all". `Boot` once per run lets the list be carried out between any two steps.
One installation, one uninstallation, one helper and its PowerShell are alive at a time
(guards of `StartInstall`, `StartUninstall`, `CopyHelper`); each of them may run beside the
others in `overlap`, and the code would let two of a kind run too. The front ends differ only
in what they tell and ask at the end, so each run takes those it needs: the window
in `lifecycle`, window and terminal in `manifests`, window and `--json` in `overlap`. `manifests` does
without a boot, which ends what runs and excuses what is left.
In `dialogue` two mishaps let the window break and the engine die of something
else; two progress lines are enough for "read but not carried out" to have a
predecessor and a successor; two answers tell the right one from a wrong one. In
`launch` three symbols are enough for backslashes before a quote, before a blank
and at the end; the directories hold an empty file in the middle, a file in a subdirectory
with a generated name in capitals, a directory with a generated name, a sibling `install.toml` before and behind the manifest, and an installer; one
fault is a broken window, a failed call or a killed `package`. The plain
executable is not multiplied with the packages, of which it reads none.
`CHECK_DEADLOCK FALSE` everywhere: the system stops when its bounds are used up
and everything has ended.

The preconditions of the properties name the disturbances they exclude: `Quiet`
(no installation since the uninstallation began), `Undisturbed` (no fault and no
boot since), `alone` (no helper has removed anything since), `held = {}`. The
other exceptions are behaviours the code does have, each named where it is
excepted:

- `LeavesNoTrace`: a file that still waits for a boot; the copy in `%TEMP%`; what
  an installation makes and no section mentions (`Lasting`: the journal, the
  directories above it and what scripts leave, unless a purge path holds them); what
  was there before under the name of something to make or remove, which install
  overwrites and uninstall deletes; what a purge can reach through a junction (`Beyond`, a
  part of `Removable`); a directory from which a helper of any run deletes an executable,
  unless it is the install root of that one alone (`Clear`, `Seat`). And a journal with a
  purge path where a junction is `Stuck`, or a purge order that is not `Orderly`.
- `OnlyDeclared`: where a junction under a purge path of an installed manifest leads. That
  the purge goes there is what `v_junction` shows.
- `JournalCoversMachine`: what another manifest makes and this one does not mention,
  and again the directories and script output that no section mentions (`Loose`).
- `ElevatedUninstallSucceeds`: a journal with a key the registry wrapper cannot
  parse. And it promises the window that tells of the success, not that the user
  closes it.
- `EmptyDirectoriesGo`: a manifest that lists a directory after what lies in it, or
  purges something inside one, directly or through a junction (`TopDown`); the loop of
  `uninstall` then comes to the directory first. And the helper of an earlier run, which empties directories that
  this run has passed.
- `RegistrationGoesLast`: a registry key of the manifest above an uninstall key
  (`Sheltered`), whose tree goes with it in the loop.
- `SuccessMeansErased`: the running uninstaller and the helper's copy, which
  remove themselves later; and, for directories under a purge path, one purge path
  after another that holds it, or a junction that leads under an earlier one (`Orderly`): a
  directory that the first visit leaves to a file that is open may be found empty by
  nobody. A junction that leads nowhere is passed by, because `exists` follows it, and one
  that the rights do not suffice for may stay; both keep the directories above (`Stuck`).
- `RetryPossible`: manifests with purge paths, which may take the journal; a manifest
  that lists a journal as one of its files, or an uninstaller as a shortcut (`Apart`);
  and a boot or a helper that carries out what an earlier uninstallation had put off.

- `NothingLeftBehind`: a window that could not be started or reached leaves its
  unpacked executable, and a late one its process; so does a killed engine. Nobody is left
  to drop anything then.
- `NeverTrapped`: such a window, or one whose engine was killed, can be closed by
  ending its process only (`Deserted`).
- `FailureStaysVisible`: `uninstall` can fail after it told the window to finish;
  the window is then gone before the failure can be read.
- `ReportedOnce`: a packaged installer that cannot read its manifest says it in
  `run_bundled_installer` and again in `main`; any other run with a window says
  nothing of input it cannot read. A relaunch shows a failure window although
  nothing failed, and that is the one report.
- `CutOffPackageIsRefused`: a package made from a packaged executable, or with one
  inside, can be cut off where the inner bundle ends, and is then read as that.
- `UnpacksWhatWasPackaged`: what has a generated name, or lies in a directory with one,
  is left out at any depth and in any case of letters; a second file called `install.toml`
  is one too many.
- `HelperSpeaksAlike`: the terminal where the uninstaller had a window and the helper
  finds none. `AutomationEnds`: the consent to an elevation and the helper's question on a
  terminal. The second is suppressed nowhere; README.md:202 of the repository speaks of the
  prompts of the window only. A helper that comes from a sidecar window under `--automation`
  asks on the terminal, where its uninstaller would have asked nothing.
- `ExitHonest`: an elevated process that was started, whose own end the first does not
  wait for.

Fairness (`FairSpec`): weak fairness for the steps of install, uninstall,
hand-over, helper and PowerShell, which are straight-line code that waits for
nobody; for those of `uninstall` only while it does not wait for the user in front
of a window (`~AwaitsUser /\ RunUninstall`). None for users, other programs, faults or
boots. `HelperEnds` allows for a helper that waits for the user for ever, and
`ElevatedUninstallSucceeds` for an uninstaller that does. In `Dialogue`, the engine, the pipe
loop and the form's callbacks are fair, each on its own, as the threads they
are; the user and the mishaps are not, so `SessionEnds` and `NeverTrapped` allow
for a window that waits for the user. In `Launch` the steps of each process are
fair and the windows of the user are not; `AutomationEnds` shows that a run with
`--automation` or without a window meets none of them but the consent dialog and, on a
terminal, the helper's question for a reboot.

Behaviours the model reaches that no run claims anything about: a directory that
was not empty because of a locked file stays after the boot that deletes the
file; without a purge of the install root `journal.json`, and with it the root,
survive a successful uninstall; the helper of an earlier uninstall can delete the
uninstaller of an installation made while it polls; installing another version replaces
the journal of the first; an install whose root is named by the purge section passes the
elevation check and fails half-way for lack of rights, which project_mvp.md:13 of the
repository would have found out before.

## Proofs

`TypeCorrect` and `TargetCorrect` (`LifecycleProofs`): `TypeOK` alone is not
inductive, because `Fallback` removes `htarget` and would put it on the boot-time
list whatever it is. `TargetKnown` says that a helper that runs, and an
uninstaller about to start one, have a target. Every component has a lemma about
its steps (`InstallTyped`, `UninstallTyped`, `HelperTyped`, `HandOverTyped`), and
`NextTyped` has one case per disjunct of `Next`.

`ScopeCorrect` (`ScopeProofs`): no path and no registry value changes but what the
manifests installed so far declare, and what a purge reaches from there through a junction.
`OnlyDeclared` says nothing about what will be removed later, so the invariant `InScope(S)`
adds that everything that leads to a later change - the tracker, the journals, the
journal being undone, the deferred keys and executable, the walk of a purge, the
boot-time list, the helper's target - holds only things in the scope of the set `S` of
manifests. `ScopeInv` has it for every `S` that contains `ran`, the manifests
installed so far: a step that begins an installation makes `ran` grow, and what holds of a
set after it held of the same set before (`RunStaysCounted`, `NextScopeInv`). The sets `ScopedFile`, `ScopedKey`, ...
make this a kind of typing: a section of a manifest is a sequence over them, so
the plan is, so the tracker, the journal and the undo plan are.

`HelperCorrect`, `UndoneCorrect`, `RegistrationCorrect` (`RemovalProofs`) rest on one
observation: as long as no installation meets a run, every step of every process,
of PowerShell and of a boot only removes, but for the helper's own copy
(`NextRemoves`). None of the three properties is inductive. `RemovalInv` adds

- `QuietAlone`: while a run is quiet nobody installs;
- `HelperThere`: a helper that runs, or is about to, has its executable, which
  nothing else is called by; so when its own removal falls back and asks for a
  reboot, there is a file to put on the boot-time list;
- `AnswerTrue`: what the helper will tell, from the moment it has dealt with its
  target. "A reboot is needed" stays true because only a boot empties the list, and
  a boot ends the helper too;
- `PassedSettled` and `SelfIsImage`: every entry of the undo plan before `upos` is
  settled - its file gone, due or the running uninstaller, its key empty or in the
  deferred list. `UndoneStaysUndone` is this for the actions, `RegistrationGoesLast`
  follows where a deferred key is taken, which is after the last action;
- `Through`: a run that hands over or reports success is at the end of its plan
  with no deferred key left.

`RemovalCorrect` (`RemovalProofs`): `Lifecycle` implements `Removal`. `Phase` is where the
last uninstallation is as long as no installation has met it; `Remaining`, `Left` and
`KeysLeft` are what its journal lists and is there, is due, or holds values. An
installation is `Disturb`, a launch `Begin`, the exit of a run that was through
`Succeed` (by `ThroughErased`, from `RemovalInv`), and each of all the other steps of all
processes `Remove`: none of them adds to what the journal lists, and a file moves from
`Remaining` to `Left` or out, never back. Since `Begin` keeps the sets when the journal is
the same one, this is also what a retry can rely on.

`JournalCorrect` (`JournalProofs`): `TrackerFollows` says what the tracker holds at
each place of `install` - the first `ipos - 1` entries of the plan, then the plan
with the uninstaller, then `Recorded` - and the journal is written whole from it.
Every other step leaves what the journals contain alone.

`RetryCorrect` (`JournalProofs`): what the failed run can still read must have been
there all along, so the invariant (`RetryInv`) follows a run from its launch. While
its registration holds values, its journal and its executable are there
(`RetryStays`); the journal of a run is what some manifest's installation recorded
(`ReadFromManifest`), which lists neither of the two if the manifests are apart; and
what a boot can take away is what an uninstallation put off: for the first one,
files of its own journal (`BeforeFirst`, `FirstPuts`), for a later one the exception.

`CoverCorrect` (`JournalProofs`): whatever is the application's was made for one of the
manifests (`PathsMade`, `ValuesSet`), which is inductive only together with `DirsTaken`:
a directory that is missing was missing at first or can be taken away by some
uninstallation, for install makes every directory that is missing above a path, and
only what is `Removable` can have gone. `TakesRemovable` carries that through the walk of a
purge and to the helper's target. With `PromiseRecorded` the rest is set theory.

`SuccessCorrect` (`PurgeProofs`): files, keys and branches follow from `RemovalInv`.
What lies under a purge path needs the walk of `purge_path`. `WalkShape` says that
the walk lies in the path that is next or where its junctions lead, and holds, with an
entry, the directories and junctions on the way there; so when a file goes, no directory
that waits for it has been passed already, and `PassedSwept` - everything passed is gone,
waits for a file on the boot-time list, is held by a junction that is `Stuck`, or is still
to be visited - survives every step. A walk through a junction is not under the purge
path: `WalkHere` shows, from `Orderly`, that it does not come under an earlier one
either. What is passed over because it is not there leaves the walk with all it could hold
(`PassedOverSwept`): either nothing below exists, by `TreeOK`, or a junction leads nowhere
and is stuck. No step makes a stuck junction free of its excuse while the run is quiet
(`StuckStays`, `LinksStay`). `TreeOK` (what
exists has its directories) and `CountOK` are needed for the steps of the others,
`WalkDone` at the end. A helper of an earlier run may take away what a directory was
left for; `PassedSwept` therefore speaks of the paths that no helper disturbs (`Sure`):
all, as long as none has removed anything; else those with no executable of ours
below them, and the directory of one, which its helper removes after it. Between the
two steps the directory has no excuse but that the helper is on its way (`Vacated`), and
that it has the rights it needs is `RightsHeld`.

`DirectoriesCorrect` (`PurgeProofs`): `PassedDirsGone` holds for every directory passed, that
it is gone, holds something or is in the walk. What removes the last thing in a
directory is the plan, which has passed nothing above it (`BottomUp`, from `TopDown`),
or the walk, which then holds the directory itself (`WalkLeavesDirs`) unless it came there
through a junction, which `TopDown` excludes (`WalkNotBeyond`), or a helper,
which `alone` excludes.

`TraceCorrect` (`PurgeProofs`): a path is the application's, a stranger's or absent. In
the first case it was made for a manifest (`PathsMade`), so the journal clears it unless
it lasts, and it is gone: by `Erased` if it is listed, by `PassedSwept` with all its excuses
refuted if it is purged (`Cleared`). In the second it was a stranger's at first
(`NothingForeign`). In the third it was absent at first, or the path is a directory
that can be taken away (`DirsTaken`), or out of scope and unchanged.

All of these rest on the five named assumptions only; in particular the sets of
paths, junctions, keys, manifests and files held open, and all bounds, are arbitrary.

`DialogueTypeCorrect`, `NothingStays`, `FailureSeen`, `ClosedRightly`
(`DialogueProofs`): one inductive invariant, checked with one lemma per group of
actions and one step per action. Beside the properties it has four parts. `Lives`
ties the engine's place to the life of the window and the pipe (a session that
reads or writes has its end open, and a form at the other). `OneQuestion`
says that at most one question is ever asked, and that an answer comes after it.
`Reasons` gives the closing flag, the failure on the form and the user's closing
each their cause among the lines shown. `Ends` says why a pipe's end can be
closed. `NothingLeftBehind` needs `Lives` because the engine's drop trusts the
process it reaps, and because what is left can be blamed on a killed engine or a session
that never was only if no other way leads there, `FailureStaysVisible` needs `Reasons` and `Ends` because the
engine sees the window's exit and nothing else.

`DialogueIsDisplay`: `Dialogue` implements `Display`. `Screen` maps the form,
`answer` and `got` the button and what the engine made of it, `faults` the
mishaps; the pipe loop and the drop are stutters or `Leave`. The step lemmas use
the invariant where a line is carried out (`Show` wants it said) and where the form
disappears (`Leave` wants a last word or a mishap).

`EntitledWork`, `HonestExit`, `ToldOnce` (`LaunchProofs`): the invariant has one
formula, `Good`, for each process that may install or uninstall; it relates where
the process is to what it has done, to its error, its code and what the user was
told. `Rights` and `Relaunched` carry the first theorem (consent is asked without
rights only, and who relaunched is past the work), `Errors`, `Successes`, `Wants` and
`Codes` the second. The third needs `Reports`, which counts from the first failure to
the end how often it has been told, and `Shown`, which says that a process with a
window was asked for one: that is why the last word of `main` cannot be missing.
`StepKeeps` reduces a step to the process that takes it, and one lemma per action
names what its record becomes in each case. Records are replaced as a whole
(`Becomes`), because tlapm 1.4.5 does not translate two `EXCEPT` paths through the
same index correctly. The requests, packages and command lines are arbitrary: nothing
is assumed here of what `Argv` makes of them. `LaunchTypeCorrect` is a proof of its own
over the same shape: `LaunchTyped` has to know where a process has told of its
failure already (`WellTyped`), or three reports could not be excluded.

`RoundTripProofs` is about data of any length, without a behaviour in sight. The
provers have no induction over data, because the library's induction theorems take
an operator. `WFMin` does not: a nonempty set of naturals has a least element, so
the set of naturals that lack a property, if it is a set, has one, and `Induction`
and `InductionUpTo` follow. That is why `CommandLine` and `Bundle` write recursion as
recursive functions and `FlattenSeq`; the first lemmas show that those functions
exist (`ReadingIs`, `QuotingIs`, `Flattening`) and where things lie in a flattened
sequence (`FlatPlaces`).

- `ReadParameters`: `Argv(Parameters(args)) = args` for any arguments of any
  symbols. `QuotingFollows` is the heart of it. While an argument is quoted, a
  reader that follows what has been written so far has read what has been quoted so
  far, except that the backslashes the quoting holds back are those it has yet to see.
  A quote then meets twice as many and one more; the closing one twice as many,
  which is what the mutant `ClosingSlashesOnce` gets wrong. `ReadBare` is the argument that
  needs no quotes, `ReadConcat` puts the arguments together.
- `HelperAnswers`: clap understands what `spawn_cleanup_helper` writes, and
  `select_ui` makes of it the interface the uninstaller had.
- `ReadPackaged`: `ReadBundle(Packaged(stub, source))` has the collected files,
  whatever the executable in front contains. `Sums` says that the lengths in the index
  add up to where the next file begins; empty files and no file at all are covered.
- `CutOffHasNone` (the magic is the last cell of a package and no other) and
  `PackageUnpacks` (paths that are distinct stay so under their new names).

`CommandKept`, `HelperAlike`, `CutOffRefused` and `PackageUnpacked` (`LaunchProofs`) carry
this through the processes. `Kept` says what must not be lost on the way: the
elevated process has the arguments of the first, which are ones that can be written
down; what was unpacked was in the bundle of its image, and the image is the package
as it was written, wholly or up to the cut; a process on its way to the work has
the interface it asked for; and the helper, at every place, has the command line of
an uninstaller that has finished its work (`Serves`). All steps of one process are
alike in this: `Fits` says what a process never changes about itself, one lemma per
action shows that it fits, and `FitsKeeps` shows once that such a step keeps `Kept`.
Only the four steps that start a process or write a package are proved apart.

Only model-checked:

- `HelperEnds`, `ElevatedUninstallSucceeds`, `SessionEnds`, `NeverTrapped`,
  `AutomationEnds`: liveness under fairness is outside the prover's reach.

## Not modelled

- Two installations, or two uninstallations, at the same time, though no lock keeps them
  apart: a bound, named at `StartInstall` and `StartUninstall`.
- Junctions in a ring, or two that lead to one place (`UninstallAssumption`).
- Tracing, terminal output, the spinner, the Restart Manager query (it only feeds a
  log line): output that nothing depends on.
- The `Sys` trait delegates call by call to what `Host`, `CommandLine` and `Launch`
  model; its mock is test code.
- Build scripts and the VM harness are no part of the running program.
- In the window: what the labels and the bar show, and the SaveErrata button, which
  copies a log to where the user likes.
- Path expansion, key parsing and JSON are abstracted to their results; the text of
  messages is left out, except that 33 depends on one (`ExitCode`).
- An upgrade: the code knows no older version, it replaces the journal.

## Plan

Done: the life cycle and the dialogue with their refinements, the launch with bundles
and command lines, and proofs of every invariant, action property and refinement the
runs check. Left is what the provers cannot reach: the five liveness properties.
