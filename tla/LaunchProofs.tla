---------------------------- MODULE LaunchProofs ----------------------------
(***************************************************************************)
(* For every set of requests, machines and packages, and any number of     *)
(* faults: who may work, what the exit code means, how often the user is   *)
(* told, what a process can be, and that nothing gets lost between one     *)
(* process and the next, or between a package and who unpacks it.          *)
(***************************************************************************)
EXTENDS LaunchCorrectness, RoundTripProofs

Worker == {"first", "elevated"}

(* before the work, and after it *)
Early == {"off", "parsing", "unpacking", "choosing", "confirming", "reading",
          "opening", "checking", "consent"}
Late == {"failing", "waiting", "returned", "success", "apology", "ending",
         "lastword", "done"}

(* Processes are records with the fields of Idle. *)
Shape ==
  /\ DOMAIN proc = Process
  /\ \A p \in Process : DOMAIN proc[p] = DOMAIN Idle

(* The helper never gets to install or uninstall. *)
HelperCleans ==
  /\ proc["helper"].work = "none"
  /\ proc["helper"].pc \in {"off", "parsing", "unpacking", "choosing", "cleaning",
                            "asking", "farewell", "ending", "lastword", "done"}

(* The process that was relaunched is through. *)
Relaunched ==
  Started("elevated") => proc["first"].work = "none" /\ proc["first"].pc \in Late

(* Whoever is asked for consent lacks rights, whoever works has them.      *)
Rights(p) ==
  /\ proc[p].pc \in Early \cup Late \cup {"working", "farewell"}
  /\ proc[p].pc \in Early => proc[p].work = "none"
  /\ proc[p].pc = "consent" => world.required = "yes" /\ ~Elevated(p)
  /\ proc[p].pc = "working" \/ proc[p].work # "none" =>
       world.required = "no" \/ (world.required = "yes" /\ Elevated(p))

(* What an error stands for *)
Errors(p) ==
  /\ proc[p].err \in {"none", "error", "elevation", "relaunched"}
  /\ proc[p].pc \in Early \cup {"working", "farewell"} => proc[p].err = "none"
  /\ proc[p].err = "elevation" => /\ world.required = "yes" /\ ~Elevated(p) /\ ~Started("elevated")
                                  /\ proc[p].work = "none"
  /\ proc[p].err = "relaunched" => Started("elevated") /\ proc[p].work = "none"
  /\ proc[p].err = "error" => proc[p].work # "ok" \/ faults # 0

(* What no error stands for *)
Successes(p) ==
  /\ proc[p].pc = "farewell" => proc[p].work = "ok"
  /\ proc[p].pc \in Late /\ proc[p].err = "none" /\ proc[p].code # 2
       => proc[p].work = "ok" \/ proc[p].declined

(* A process without rights fails for want of them, or for a reason that   *)
(* can be named. *)
Wants(p) ==
  /\ proc[p].pc \in {"off", "parsing", "unpacking", "choosing"} => proc[p].mode = "none"
  /\ world.required = "yes" /\ ~Elevated(p) /\ faults = 0 /\ ~proc[p].declined
       /\ proc[p].mode # "none" /\ world.readable => proc[p].err # "error"

Codes(p) ==
  /\ proc[p].pc \in {"lastword", "done"} =>
       \/ proc[p].code = ExitCode(p)
       \/ proc[p].code = 2 /\ proc[p].work = "none" /\ proc[p].mode = "none"
  /\ proc[p].pc \notin {"lastword", "done"} => proc[p].code = 0

(* How often the user has been told of a failure, if no window broke.      *)
Told(p) ==
  /\ proc[p].pc = "failing" => world.readable /\ proc[p].reports = 0
  /\ proc[p].pc = "waiting" => world.readable /\ proc[p].reports = 1
  /\ proc[p].pc = "returned" =>
       /\ world.readable => proc[p].reports = 1 /\ proc[p].marked = TRUE
       /\ ~world.readable => proc[p].reports = 0 /\ proc[p].marked = FALSE
  /\ proc[p].pc = "apology" =>
       /\ ~world.readable /\ proc[p].reports = 0 /\ proc[p].marked = FALSE
       /\ proc[p].bundled /\ ~Asks(p, "--automation")
  /\ proc[p].pc = "ending" =>
       /\ world.readable => proc[p].reports = 1 /\ proc[p].marked = TRUE
       /\ ~world.readable =>
            /\ proc[p].marked = FALSE
            /\ proc[p].reports = IF proc[p].bundled /\ ~Asks(p, "--automation") THEN 1 ELSE 0
  /\ proc[p].pc = "lastword" =>
       /\ ~world.readable /\ proc[p].reports = 1
       /\ proc[p].bundled /\ ~Asks(p, "--automation")
  /\ proc[p].pc = "done" =>
       proc[p].reports = IF world.readable THEN 1
                         ELSE IF proc[p].bundled /\ ~Asks(p, "--automation") THEN 2 ELSE 0

(* What a window and a failure presuppose *)
Shown(p) ==
  /\ proc[p].pc \in Early \cup {"working", "farewell"}
       => proc[p].reports = 0 /\ proc[p].marked = FALSE
  /\ proc[p].pc \in {"opening", "checking", "consent", "working", "farewell"}
       => world.readable
  /\ proc[p].err \in {"elevation", "relaunched"} => world.readable
  /\ proc[p].pc \in {"failing", "waiting", "apology"} => proc[p].err # "none"
  /\ proc[p].pc = "success" => proc[p].err = "none"
  /\ proc[p].mode = "gui" => /\ Asks(p, "--headed") /\ ~Asks(p, "--json")
                             /\ UiAvailable(p)

Reports(p) == proc[p].mode = "gui" /\ proc[p].err # "none" /\ faults = 0 => Told(p)

(* All that is said of a process that installs or uninstalls *)
Good(p) ==
  /\ Rights(p)
  /\ Errors(p)
  /\ Successes(p)
  /\ Wants(p)
  /\ Codes(p)
  /\ Shown(p)
  /\ Reports(p)

IInv ==
  /\ world \in Worlds
  /\ faults \in Nat
  /\ Shape
  /\ HelperCleans
  /\ Relaunched
  /\ \A p \in Worker : Good(p)

-----------------------------------------------------------------------------
(* Only p moves: to these values of the fields that steps change. *)
Others(p) == \A q \in Process \ {p} : proc'[q] = proc[q]

Same(p) ==
  /\ proc'[p].image = proc[p].image
  /\ proc'[p].args = proc[p].args

Runs(p, bundled, mode) ==
  /\ proc'[p].bundled = bundled
  /\ proc'[p].mode = mode

Moves(p, pc, err, work, code) ==
  /\ proc'[p].pc = pc
  /\ proc'[p].err = err
  /\ proc'[p].work = work
  /\ proc'[p].code = code

Tells(p, declined, marked, reports) ==
  /\ proc'[p].declined = declined
  /\ proc'[p].marked = marked
  /\ proc'[p].reports = reports

(* A step of a process changes its record alone. *)
LEMMA BecomesOne ==
  ASSUME Shape, NEW p \in Process, NEW new, DOMAIN new = DOMAIN Idle, Becomes(p, new)
  PROVE  Shape' /\ Others(p) /\ proc'[p] = new
BY DEF Becomes, Shape, Others

(* The fields of a process *)
LEMMA RecordFields ==
  DOMAIN Idle = {"pc", "image", "args", "bundled", "unpacked", "mode", "err", "declined",
                 "marked", "reports", "work", "code"}
BY DEF Idle

(* What is asked of a process depends on what it was started as. *)
LEMMA SameContext ==
  ASSUME NEW p \in Process, Same(p), world' = world
  PROVE  /\ Elevated(p)' = Elevated(p)
         /\ UiAvailable(p)' = UiAvailable(p)
         /\ \A flag : Asks(p, flag)' = Asks(p, flag)
BY DEF Same, Elevated, UiAvailable, Asks

(* To moves on, *)
LEMMA ToMoves ==
  ASSUME Shape, NEW p \in Process, NEW next, To(p, next)
  PROVE  /\ Shape' /\ Others(p) /\ Same(p)
         /\ Runs(p, proc[p].bundled, proc[p].mode)
         /\ Moves(p, next, proc[p].err, proc[p].work, proc[p].code)
         /\ Tells(p, proc[p].declined, proc[p].marked, proc[p].reports)
<1>1. DOMAIN proc[p] = DOMAIN Idle
  BY DEF Shape
<1>2. DOMAIN [proc[p] EXCEPT !.pc = next] = DOMAIN Idle
  BY <1>1
<1>3. Shape' /\ Others(p) /\ proc'[p] = [proc[p] EXCEPT !.pc = next]
  BY <1>2, BecomesOne DEF To
<1>4. QED
  BY <1>1, <1>3, RecordFields DEF Same, Runs, Moves, Tells

(* Error with an error. *)
LEMMA ErrorMoves ==
  ASSUME Shape, NEW p \in Process, NEW e, NEW next, Error(p, e, next)
  PROVE  /\ Shape' /\ Others(p) /\ Same(p)
         /\ Runs(p, proc[p].bundled, proc[p].mode)
         /\ Moves(p, next, e, proc[p].work, proc[p].code)
         /\ Tells(p, proc[p].declined, proc[p].marked, proc[p].reports)
<1>1. DOMAIN proc[p] = DOMAIN Idle
  BY DEF Shape
<1>2. DOMAIN [proc[p] EXCEPT !.err = e, !.pc = next] = DOMAIN Idle
  BY <1>1
<1>3. Shape' /\ Others(p) /\ proc'[p] = [proc[p] EXCEPT !.err = e, !.pc = next]
  BY <1>2, BecomesOne DEF Error
<1>4. QED
  BY <1>1, <1>3, RecordFields DEF Same, Runs, Moves, Tells

(* A step leaves what holds of the workers it does not change. *)
LEMMA WorkersKeep ==
  ASSUME IInv, world' = world, faults' = 0 => faults = 0,
         Started("elevated")' = Started("elevated"),
         NEW q \in Worker, proc'[q] = proc[q]
  PROVE  Good(q)'
<1>1. /\ Elevated(q)' = Elevated(q)
      /\ UiAvailable(q)' = UiAvailable(q)
      /\ \A flag : Asks(q, flag)' = Asks(q, flag)
  BY DEF Elevated, UiAvailable, Asks
<1>2. Good(q)
  BY DEF IInv
<1>3. Rights(q)' /\ Errors(q)' /\ Successes(q)' /\ Wants(q)'
  BY <1>1, <1>2 DEF Good, Rights, Errors, Successes, Wants
<1>4. Codes(q)'
  BY <1>2 DEF Good, Codes, ExitCode
<1>5. Shown(q)' /\ Reports(q)'
  BY <1>1, <1>2 DEF Good, Shown, Reports, Told
<1>6. QED
  BY <1>3, <1>4, <1>5 DEF Good

(* In particular what holds of the others *)
LEMMA OthersKeep ==
  ASSUME IInv, NEW p \in Process, Others(p), world' = world,
         faults' = 0 => faults = 0, Started("elevated")' = Started("elevated"),
         NEW q \in Worker \ {p}
  PROVE  Good(q)'
<1>1. proc'[q] = proc[q]
  BY DEF Others, Worker, Process
<1>2. QED
  BY <1>1, WorkersKeep

(* So it is enough to look at the process that moves. *)
LEMMA StepKeeps ==
  ASSUME IInv, NEW p \in Process, Shape', Others(p), world' = world,
         faults' \in Nat, faults' = 0 => faults = 0,
         proc[p].pc # "off", proc'[p].pc # "off",
         proc[p].pc \in Late => proc'[p].pc \in Late /\ proc'[p].work = proc[p].work,
         p \in Worker => Good(p)',
         p = "helper" => HelperCleans'
  PROVE  IInv'
<1>1. Started("elevated")' = Started("elevated")
  BY DEF Started, Others, Process
<1>2. \A q \in Worker : Good(q)'
  BY <1>1, OthersKeep
<1>3. HelperCleans'
  BY DEF IInv, HelperCleans, Others, Process
<1>4. Relaunched'
  BY <1>1 DEF IInv, Relaunched, Others, Process
<1>5. QED
  BY <1>2, <1>3, <1>4 DEF IInv

(* Processes other than the helper *)
LEMMA WorkerSteps ==
  ASSUME IInv, NEW p \in Process,
         proc[p].pc \in {"confirming", "reading", "opening", "checking", "consent", "working",
                         "failing", "waiting", "returned", "success", "apology"}
  PROVE  p \in Worker
BY DEF IInv, HelperCleans, Process, Worker

(* What a step leaves alone *)
LEMMA StepContext ==
  ASSUME NEW p \in Process, Others(p), Same(p), world' = world,
         proc[p].pc # "off", proc'[p].pc # "off"
  PROVE  /\ Elevated(p)' = Elevated(p)
         /\ UiAvailable(p)' = UiAvailable(p)
         /\ \A flag : Asks(p, flag)' = Asks(p, flag)
         /\ Started("elevated")' = Started("elevated")
<1>1. Started("elevated")' = Started("elevated")
  BY DEF Started, Others, Process
<1>2. QED
  BY <1>1, SameContext

(* Nobody is relaunched before the first process has given up. *)
LEMMA NotBefore ==
  ASSUME IInv, NEW p \in Worker, ~Elevated(p), proc[p].pc \in Early
  PROVE  p = "first" /\ ~Started("elevated")
BY DEF IInv, Relaunched, Elevated, Worker, Early, Late

(* A window is what was asked for, and it is there. *)
LEMMA GuiAsked ==
  ASSUME NEW p \in Process, SelectUi(proc[p].args, UiAvailable(p)) = "gui"
  PROVE  Asks(p, "--headed") /\ ~Asks(p, "--json") /\ UiAvailable(p)
BY DEF SelectUi, Asks

(* The user agrees to the installation, declines, or the question breaks.  *)
LEMMA ConfirmKeeps ==
  ASSUME IInv, NEW p \in Process, Confirm(p)
  PROVE  IInv'
<1>1. /\ proc[p].pc = "confirming" /\ world' = world
      /\ p \in Worker /\ Good(p) /\ Shape
  BY WorkerSteps DEF Confirm, IInv, Quietly, Broken, Fault
<1>2. CASE To(p, "reading") /\ Quietly
  <2>1. /\ Shape' /\ Others(p) /\ Same(p)
        /\ Runs(p, proc[p].bundled, proc[p].mode)
        /\ Moves(p, "reading", proc[p].err, proc[p].work, proc[p].code)
        /\ Tells(p, proc[p].declined, proc[p].marked, proc[p].reports)
    BY <1>1, <1>2, ToMoves
  <2>2. faults' = faults
    BY <1>2 DEF Quietly
  <2>3. /\ Elevated(p)' = Elevated(p) /\ UiAvailable(p)' = UiAvailable(p)
        /\ \A flag : Asks(p, flag)' = Asks(p, flag)
        /\ Started("elevated")' = Started("elevated")
    BY <1>1, <2>1, StepContext DEF Moves
  <2>4. Good(p)'
    BY <1>1, <1>2, <2>1, <2>2, <2>3
       DEF Good, Rights, Errors, Successes, Wants, Codes, Shown, Reports, Told,
           Same, Runs, Moves, Tells, Early, Late
  <2>5. QED
    BY <1>1, <2>1, <2>2, <2>4, StepKeeps DEF Moves, IInv, Late, Worker
<1>3. CASE /\ Becomes(p, [proc[p] EXCEPT !.declined = TRUE, !.pc = "ending"])
           /\ Quietly
  <2>1. /\ Shape' /\ Others(p) /\ Same(p)
        /\ Runs(p, proc[p].bundled, proc[p].mode)
        /\ Moves(p, "ending", proc[p].err, proc[p].work, proc[p].code)
        /\ Tells(p, TRUE, proc[p].marked, proc[p].reports)
    <3>1. DOMAIN [proc[p] EXCEPT !.declined = TRUE, !.pc = "ending"] = DOMAIN Idle
      BY <1>1 DEF Shape
    <3>2. /\ Shape' /\ Others(p)
          /\ proc'[p] = [proc[p] EXCEPT !.declined = TRUE, !.pc = "ending"]
      BY <1>1, <3>1, <1>3, BecomesOne
    <3>3. QED
      BY <1>1, <3>2, RecordFields DEF Shape, Same, Runs, Moves, Tells
  <2>2. faults' = faults
    BY <1>3 DEF Quietly
  <2>3. /\ Elevated(p)' = Elevated(p) /\ UiAvailable(p)' = UiAvailable(p)
        /\ \A flag : Asks(p, flag)' = Asks(p, flag)
        /\ Started("elevated")' = Started("elevated")
    BY <1>1, <2>1, StepContext DEF Moves
  <2>4. Good(p)'
    BY <1>1, <1>3, <2>1, <2>2, <2>3
       DEF Good, Rights, Errors, Successes, Wants, Codes, Shown, Reports, Told,
           Same, Runs, Moves, Tells, Early, Late
  <2>5. QED
    BY <1>1, <2>1, <2>2, <2>4, StepKeeps DEF Moves, IInv, Late, Worker
<1>4. CASE Error(p, "error", "ending") /\ Broken
  <2>1. /\ Shape' /\ Others(p) /\ Same(p)
        /\ Runs(p, proc[p].bundled, proc[p].mode)
        /\ Moves(p, "ending", "error", proc[p].work, proc[p].code)
        /\ Tells(p, proc[p].declined, proc[p].marked, proc[p].reports)
    BY <1>1, <1>4, ErrorMoves
  <2>2. faults' \in Nat /\ faults' # 0
    BY <1>4 DEF Broken, Fault, IInv
  <2>3. /\ Elevated(p)' = Elevated(p) /\ UiAvailable(p)' = UiAvailable(p)
        /\ \A flag : Asks(p, flag)' = Asks(p, flag)
        /\ Started("elevated")' = Started("elevated")
    BY <1>1, <2>1, StepContext DEF Moves
  <2>4. Good(p)'
    BY <1>1, <1>4, <2>1, <2>2, <2>3
       DEF Good, Rights, Errors, Successes, Wants, Codes, Shown, Reports, Told,
           Same, Runs, Moves, Tells, Early, Late
  <2>5. QED
    BY <1>1, <2>1, <2>2, <2>4, StepKeeps DEF Moves, IInv, Late, Worker
<1>5. QED
  BY <1>1, <1>2, <1>3, <1>4 DEF Confirm

(* Without readable input there is an error and no window. *)
LEMMA ReadInputKeeps ==
  ASSUME IInv, NEW p \in Process, ReadInput(p)
  PROVE  IInv'
<1>1. /\ proc[p].pc = "reading" /\ world' = world
      /\ p \in Worker /\ Good(p) /\ Shape
  BY WorkerSteps DEF ReadInput, IInv, Quietly, Broken, Fault
<1>2. CASE world.readable /\ To(p, "opening") /\ Quietly
  <2>1. /\ Shape' /\ Others(p) /\ Same(p)
        /\ Runs(p, proc[p].bundled, proc[p].mode)
        /\ Moves(p, "opening", proc[p].err, proc[p].work, proc[p].code)
        /\ Tells(p, proc[p].declined, proc[p].marked, proc[p].reports)
    BY <1>1, <1>2, ToMoves
  <2>2. faults' = faults
    BY <1>2 DEF Quietly
  <2>3. /\ Elevated(p)' = Elevated(p) /\ UiAvailable(p)' = UiAvailable(p)
        /\ \A flag : Asks(p, flag)' = Asks(p, flag)
        /\ Started("elevated")' = Started("elevated")
    BY <1>1, <2>1, StepContext DEF Moves
  <2>4. Good(p)'
    BY <1>1, <1>2, <2>1, <2>2, <2>3
       DEF Good, Rights, Errors, Successes, Wants, Codes, Shown, Reports, Told,
           Same, Runs, Moves, Tells, Early, Late
  <2>5. QED
    BY <1>1, <2>1, <2>2, <2>4, StepKeeps DEF Moves, IInv, Late, Worker
<1>3. CASE ~world.readable /\ Error(p, "error", "returned") /\ Quietly
  <2>1. /\ Shape' /\ Others(p) /\ Same(p)
        /\ Runs(p, proc[p].bundled, proc[p].mode)
        /\ Moves(p, "returned", "error", proc[p].work, proc[p].code)
        /\ Tells(p, proc[p].declined, proc[p].marked, proc[p].reports)
    BY <1>1, <1>3, ErrorMoves
  <2>2. faults' = faults
    BY <1>3 DEF Quietly
  <2>3. /\ Elevated(p)' = Elevated(p) /\ UiAvailable(p)' = UiAvailable(p)
        /\ \A flag : Asks(p, flag)' = Asks(p, flag)
        /\ Started("elevated")' = Started("elevated")
    BY <1>1, <2>1, StepContext DEF Moves
  <2>4. Good(p)'
    BY <1>1, <1>3, <2>1, <2>2, <2>3
       DEF Good, Rights, Errors, Successes, Wants, Codes, Shown, Reports, Told,
           Same, Runs, Moves, Tells, Early, Late
  <2>5. QED
    BY <1>1, <2>1, <2>2, <2>4, StepKeeps DEF Moves, IInv, Late, Worker
<1>4. QED
  BY <1>1, <1>2, <1>3 DEF ReadInput

(* The progress window opens, or the run fails for it. *)
LEMMA OpenProgressKeeps ==
  ASSUME IInv, NEW p \in Process, OpenProgress(p)
  PROVE  IInv'
<1>1. /\ proc[p].pc = "opening" /\ world' = world
      /\ p \in Worker /\ Good(p) /\ Shape
  BY WorkerSteps DEF OpenProgress, IInv, Quietly, Broken, Fault
<1>2. CASE To(p, "checking") /\ Quietly
  <2>1. /\ Shape' /\ Others(p) /\ Same(p)
        /\ Runs(p, proc[p].bundled, proc[p].mode)
        /\ Moves(p, "checking", proc[p].err, proc[p].work, proc[p].code)
        /\ Tells(p, proc[p].declined, proc[p].marked, proc[p].reports)
    BY <1>1, <1>2, ToMoves
  <2>2. faults' = faults
    BY <1>2 DEF Quietly
  <2>3. /\ Elevated(p)' = Elevated(p) /\ UiAvailable(p)' = UiAvailable(p)
        /\ \A flag : Asks(p, flag)' = Asks(p, flag)
        /\ Started("elevated")' = Started("elevated")
    BY <1>1, <2>1, StepContext DEF Moves
  <2>4. Good(p)'
    BY <1>1, <1>2, <2>1, <2>2, <2>3
       DEF Good, Rights, Errors, Successes, Wants, Codes, Shown, Reports, Told,
           Same, Runs, Moves, Tells, Early, Late
  <2>5. QED
    BY <1>1, <2>1, <2>2, <2>4, StepKeeps DEF Moves, IInv, Late, Worker
<1>3. CASE Error(p, "error", "returned") /\ Broken
  <2>1. /\ Shape' /\ Others(p) /\ Same(p)
        /\ Runs(p, proc[p].bundled, proc[p].mode)
        /\ Moves(p, "returned", "error", proc[p].work, proc[p].code)
        /\ Tells(p, proc[p].declined, proc[p].marked, proc[p].reports)
    BY <1>1, <1>3, ErrorMoves
  <2>2. faults' \in Nat /\ faults' # 0
    BY <1>3 DEF Broken, Fault, IInv
  <2>3. /\ Elevated(p)' = Elevated(p) /\ UiAvailable(p)' = UiAvailable(p)
        /\ \A flag : Asks(p, flag)' = Asks(p, flag)
        /\ Started("elevated")' = Started("elevated")
    BY <1>1, <2>1, StepContext DEF Moves
  <2>4. Good(p)'
    BY <1>1, <1>3, <2>1, <2>2, <2>3
       DEF Good, Rights, Errors, Successes, Wants, Codes, Shown, Reports, Told,
           Same, Runs, Moves, Tells, Early, Late
  <2>5. QED
    BY <1>1, <2>1, <2>2, <2>4, StepKeeps DEF Moves, IInv, Late, Worker
<1>4. QED
  BY <1>1, <1>2, <1>3 DEF OpenProgress

(* Only whoever has the rights starts to work; who lacks them asks or fails*)
LEMMA CheckRightsKeeps ==
  ASSUME IInv, NEW p \in Process, CheckRights(p)
  PROVE  IInv'
<1>1. /\ proc[p].pc = "checking" /\ world' = world
      /\ p \in Worker /\ Good(p) /\ Shape
  BY WorkerSteps DEF CheckRights, IInv, Quietly, Broken, Fault
<1>2. CASE /\ world.required = "no" \/ (world.required = "yes" /\ Elevated(p))
           /\ Becomes(p, [proc[p] EXCEPT !.work = "begun", !.pc = "working"])
           /\ Quietly
  <2>1. /\ Shape' /\ Others(p) /\ Same(p)
        /\ Runs(p, proc[p].bundled, proc[p].mode)
        /\ Moves(p, "working", proc[p].err, "begun", proc[p].code)
        /\ Tells(p, proc[p].declined, proc[p].marked, proc[p].reports)
    <3>1. DOMAIN [proc[p] EXCEPT !.work = "begun", !.pc = "working"] = DOMAIN Idle
      BY <1>1 DEF Shape
    <3>2. /\ Shape' /\ Others(p)
          /\ proc'[p] = [proc[p] EXCEPT !.work = "begun", !.pc = "working"]
      BY <1>1, <3>1, <1>2, BecomesOne
    <3>3. QED
      BY <1>1, <3>2, RecordFields DEF Shape, Same, Runs, Moves, Tells
  <2>2. faults' = faults
    BY <1>2 DEF Quietly
  <2>3. /\ Elevated(p)' = Elevated(p) /\ UiAvailable(p)' = UiAvailable(p)
        /\ \A flag : Asks(p, flag)' = Asks(p, flag)
        /\ Started("elevated")' = Started("elevated")
    BY <1>1, <2>1, StepContext DEF Moves
  <2>4. Good(p)'
    BY <1>1, <1>2, <2>1, <2>2, <2>3
       DEF Good, Rights, Errors, Successes, Wants, Codes, Shown, Reports, Told,
           Same, Runs, Moves, Tells, Early, Late
  <2>5. QED
    BY <1>1, <2>1, <2>2, <2>4, StepKeeps DEF Moves, IInv, Late, Worker
<1>3. CASE world.required = "yes" /\ ~Elevated(p) /\ To(p, "consent") /\ Quietly
  <2>1. /\ Shape' /\ Others(p) /\ Same(p)
        /\ Runs(p, proc[p].bundled, proc[p].mode)
        /\ Moves(p, "consent", proc[p].err, proc[p].work, proc[p].code)
        /\ Tells(p, proc[p].declined, proc[p].marked, proc[p].reports)
    BY <1>1, <1>3, ToMoves
  <2>2. faults' = faults
    BY <1>3 DEF Quietly
  <2>3. /\ Elevated(p)' = Elevated(p) /\ UiAvailable(p)' = UiAvailable(p)
        /\ \A flag : Asks(p, flag)' = Asks(p, flag)
        /\ Started("elevated")' = Started("elevated")
    BY <1>1, <2>1, StepContext DEF Moves
  <2>4. Good(p)'
    BY <1>1, <1>3, <2>1, <2>2, <2>3
       DEF Good, Rights, Errors, Successes, Wants, Codes, Shown, Reports, Told,
           Same, Runs, Moves, Tells, Early, Late
  <2>5. QED
    BY <1>1, <2>1, <2>2, <2>4, StepKeeps DEF Moves, IInv, Late, Worker
<1>4. CASE /\ world.required = "yes" /\ ~Elevated(p)
           /\ Error(p, "elevation", "failing") /\ Quietly
  <2>1. /\ Shape' /\ Others(p) /\ Same(p)
        /\ Runs(p, proc[p].bundled, proc[p].mode)
        /\ Moves(p, "failing", "elevation", proc[p].work, proc[p].code)
        /\ Tells(p, proc[p].declined, proc[p].marked, proc[p].reports)
    BY <1>1, <1>4, ErrorMoves
  <2>2. faults' = faults
    BY <1>4 DEF Quietly
  <2>3. /\ Elevated(p)' = Elevated(p) /\ UiAvailable(p)' = UiAvailable(p)
        /\ \A flag : Asks(p, flag)' = Asks(p, flag)
        /\ Started("elevated")' = Started("elevated")
    BY <1>1, <2>1, StepContext DEF Moves
  <2>4. Good(p)'
    BY <1>1, <1>4, <2>1, <2>2, <2>3, NotBefore
       DEF Good, Rights, Errors, Successes, Wants, Codes, Shown, Reports, Told,
           Same, Runs, Moves, Tells, Early, Late
  <2>5. QED
    BY <1>1, <2>1, <2>2, <2>4, StepKeeps DEF Moves, IInv, Late, Worker
<1>5. CASE Error(p, "error", "failing") /\ Broken
  <2>1. /\ Shape' /\ Others(p) /\ Same(p)
        /\ Runs(p, proc[p].bundled, proc[p].mode)
        /\ Moves(p, "failing", "error", proc[p].work, proc[p].code)
        /\ Tells(p, proc[p].declined, proc[p].marked, proc[p].reports)
    BY <1>1, <1>5, ErrorMoves
  <2>2. faults' \in Nat /\ faults' # 0
    BY <1>5 DEF Broken, Fault, IInv
  <2>3. /\ Elevated(p)' = Elevated(p) /\ UiAvailable(p)' = UiAvailable(p)
        /\ \A flag : Asks(p, flag)' = Asks(p, flag)
        /\ Started("elevated")' = Started("elevated")
    BY <1>1, <2>1, StepContext DEF Moves
  <2>4. Good(p)'
    BY <1>1, <1>5, <2>1, <2>2, <2>3
       DEF Good, Rights, Errors, Successes, Wants, Codes, Shown, Reports, Told,
           Same, Runs, Moves, Tells, Early, Late
  <2>5. QED
    BY <1>1, <2>1, <2>2, <2>4, StepKeeps DEF Moves, IInv, Late, Worker
<1>6. CASE world.required = "error" /\ Error(p, "error", "failing") /\ Quietly
  <2>1. /\ Shape' /\ Others(p) /\ Same(p)
        /\ Runs(p, proc[p].bundled, proc[p].mode)
        /\ Moves(p, "failing", "error", proc[p].work, proc[p].code)
        /\ Tells(p, proc[p].declined, proc[p].marked, proc[p].reports)
    BY <1>1, <1>6, ErrorMoves
  <2>2. faults' = faults
    BY <1>6 DEF Quietly
  <2>3. /\ Elevated(p)' = Elevated(p) /\ UiAvailable(p)' = UiAvailable(p)
        /\ \A flag : Asks(p, flag)' = Asks(p, flag)
        /\ Started("elevated")' = Started("elevated")
    BY <1>1, <2>1, StepContext DEF Moves
  <2>4. Good(p)'
    BY <1>1, <1>6, <2>1, <2>2, <2>3
       DEF Good, Rights, Errors, Successes, Wants, Codes, Shown, Reports, Told,
           Same, Runs, Moves, Tells, Early, Late
  <2>5. QED
    BY <1>1, <2>1, <2>2, <2>4, StepKeeps DEF Moves, IInv, Late, Worker
<1>7. QED
  BY <1>1, <1>2, <1>3, <1>4, <1>5, <1>6 DEF CheckRights

(* The work fails. *)
LEMMA WorkFailsKeeps ==
  ASSUME IInv, NEW p \in Process, WorkFails(p)
  PROVE  IInv'
<1>1. /\ proc[p].pc = "working" /\ world' = world
      /\ p \in Worker /\ Good(p) /\ Shape
  BY WorkerSteps DEF WorkFails, IInv, Quietly, Broken, Fault
<1>2. CASE /\ Becomes(p, [proc[p] EXCEPT !.work = "failed", !.err = "error", !.pc = "failing"])
           /\ Quietly
  <2>1. /\ Shape' /\ Others(p) /\ Same(p)
        /\ Runs(p, proc[p].bundled, proc[p].mode)
        /\ Moves(p, "failing", "error", "failed", proc[p].code)
        /\ Tells(p, proc[p].declined, proc[p].marked, proc[p].reports)
    <3>1. DOMAIN [proc[p] EXCEPT !.work = "failed", !.err = "error",
                                 !.pc = "failing"] = DOMAIN Idle
      BY <1>1 DEF Shape
    <3>2. /\ Shape' /\ Others(p)
          /\ proc'[p] = [proc[p] EXCEPT !.work = "failed", !.err = "error", !.pc = "failing"]
      BY <1>1, <3>1, <1>2, BecomesOne
    <3>3. QED
      BY <1>1, <3>2, RecordFields DEF Shape, Same, Runs, Moves, Tells
  <2>2. faults' = faults
    BY <1>2 DEF Quietly
  <2>3. /\ Elevated(p)' = Elevated(p) /\ UiAvailable(p)' = UiAvailable(p)
        /\ \A flag : Asks(p, flag)' = Asks(p, flag)
        /\ Started("elevated")' = Started("elevated")
    BY <1>1, <2>1, StepContext DEF Moves
  <2>4. Good(p)'
    BY <1>1, <1>2, <2>1, <2>2, <2>3
       DEF Good, Rights, Errors, Successes, Wants, Codes, Shown, Reports, Told,
           Same, Runs, Moves, Tells, Early, Late
  <2>5. QED
    BY <1>1, <2>1, <2>2, <2>4, StepKeeps DEF Moves, IInv, Late, Worker
<1>3. QED
  BY <1>1, <1>2 DEF WorkFails

(* The work of an installation is done. *)
LEMMA WorkDoneKeeps ==
  ASSUME IInv, NEW p \in Process, WorkDone(p)
  PROVE  IInv'
<1>1. /\ proc[p].pc = "working" /\ world' = world
      /\ p \in Worker /\ Good(p) /\ Shape
  BY WorkerSteps DEF WorkDone, IInv, Quietly, Broken, Fault
<1>2. CASE /\ Becomes(p, [proc[p] EXCEPT !.work = "ok", !.pc = "returned"])
           /\ Quietly
  <2>1. /\ Shape' /\ Others(p) /\ Same(p)
        /\ Runs(p, proc[p].bundled, proc[p].mode)
        /\ Moves(p, "returned", proc[p].err, "ok", proc[p].code)
        /\ Tells(p, proc[p].declined, proc[p].marked, proc[p].reports)
    <3>1. DOMAIN [proc[p] EXCEPT !.work = "ok", !.pc = "returned"] = DOMAIN Idle
      BY <1>1 DEF Shape
    <3>2. /\ Shape' /\ Others(p)
          /\ proc'[p] = [proc[p] EXCEPT !.work = "ok", !.pc = "returned"]
      BY <1>1, <3>1, <1>2, BecomesOne
    <3>3. QED
      BY <1>1, <3>2, RecordFields DEF Shape, Same, Runs, Moves, Tells
  <2>2. faults' = faults
    BY <1>2 DEF Quietly
  <2>3. /\ Elevated(p)' = Elevated(p) /\ UiAvailable(p)' = UiAvailable(p)
        /\ \A flag : Asks(p, flag)' = Asks(p, flag)
        /\ Started("elevated")' = Started("elevated")
    BY <1>1, <2>1, StepContext DEF Moves
  <2>4. Good(p)'
    BY <1>1, <1>2, <2>1, <2>2, <2>3
       DEF Good, Rights, Errors, Successes, Wants, Codes, Shown, Reports, Told,
           Same, Runs, Moves, Tells, Early, Late
  <2>5. QED
    BY <1>1, <2>1, <2>2, <2>4, StepKeeps DEF Moves, IInv, Late, Worker
<1>3. QED
  BY <1>1, <1>2 DEF WorkDone

(* The work of an uninstallation is done. *)
LEMMA UninstallDoneKeeps ==
  ASSUME IInv, NEW p \in Process, UninstallDone(p)
  PROVE  IInv'
<1>1. /\ proc[p].pc = "working" /\ world' = world
      /\ p \in Worker /\ Good(p) /\ Shape
  BY WorkerSteps DEF UninstallDone, IInv, Quietly, Broken, Fault
<1>2. CASE /\ Becomes(p, [proc[p] EXCEPT !.work = "ok", !.pc = "farewell"])
           /\ Quietly
  <2>1. /\ Shape' /\ Others(p) /\ Same(p)
        /\ Runs(p, proc[p].bundled, proc[p].mode)
        /\ Moves(p, "farewell", proc[p].err, "ok", proc[p].code)
        /\ Tells(p, proc[p].declined, proc[p].marked, proc[p].reports)
    <3>1. DOMAIN [proc[p] EXCEPT !.work = "ok", !.pc = "farewell"] = DOMAIN Idle
      BY <1>1 DEF Shape
    <3>2. /\ Shape' /\ Others(p)
          /\ proc'[p] = [proc[p] EXCEPT !.work = "ok", !.pc = "farewell"]
      BY <1>1, <3>1, <1>2, BecomesOne
    <3>3. QED
      BY <1>1, <3>2, RecordFields DEF Shape, Same, Runs, Moves, Tells
  <2>2. faults' = faults
    BY <1>2 DEF Quietly
  <2>3. /\ Elevated(p)' = Elevated(p) /\ UiAvailable(p)' = UiAvailable(p)
        /\ \A flag : Asks(p, flag)' = Asks(p, flag)
        /\ Started("elevated")' = Started("elevated")
    BY <1>1, <2>1, StepContext DEF Moves
  <2>4. Good(p)'
    BY <1>1, <1>2, <2>1, <2>2, <2>3
       DEF Good, Rights, Errors, Successes, Wants, Codes, Shown, Reports, Told,
           Same, Runs, Moves, Tells, Early, Late
  <2>5. QED
    BY <1>1, <2>1, <2>2, <2>4, StepKeeps DEF Moves, IInv, Late, Worker
<1>3. CASE /\ Becomes(p, [proc[p] EXCEPT !.work = "ok", !.pc = "returned"])
           /\ Quietly
  <2>1. /\ Shape' /\ Others(p) /\ Same(p)
        /\ Runs(p, proc[p].bundled, proc[p].mode)
        /\ Moves(p, "returned", proc[p].err, "ok", proc[p].code)
        /\ Tells(p, proc[p].declined, proc[p].marked, proc[p].reports)
    <3>1. DOMAIN [proc[p] EXCEPT !.work = "ok", !.pc = "returned"] = DOMAIN Idle
      BY <1>1 DEF Shape
    <3>2. /\ Shape' /\ Others(p)
          /\ proc'[p] = [proc[p] EXCEPT !.work = "ok", !.pc = "returned"]
      BY <1>1, <3>1, <1>3, BecomesOne
    <3>3. QED
      BY <1>1, <3>2, RecordFields DEF Shape, Same, Runs, Moves, Tells
  <2>2. faults' = faults
    BY <1>3 DEF Quietly
  <2>3. /\ Elevated(p)' = Elevated(p) /\ UiAvailable(p)' = UiAvailable(p)
        /\ \A flag : Asks(p, flag)' = Asks(p, flag)
        /\ Started("elevated")' = Started("elevated")
    BY <1>1, <2>1, StepContext DEF Moves
  <2>4. Good(p)'
    BY <1>1, <1>3, <2>1, <2>2, <2>3
       DEF Good, Rights, Errors, Successes, Wants, Codes, Shown, Reports, Told,
           Same, Runs, Moves, Tells, Early, Late
  <2>5. QED
    BY <1>1, <2>1, <2>2, <2>4, StepKeeps DEF Moves, IInv, Late, Worker
<1>4. QED
  BY <1>1, <1>2, <1>3 DEF UninstallDone

(* The failure is shown in the window, if there is one and it works. *)
LEMMA ShowFailureKeeps ==
  ASSUME IInv, NEW p \in Process, ShowFailure(p)
  PROVE  IInv'
<1>1. /\ proc[p].pc = "failing" /\ world' = world
      /\ p \in Worker /\ Good(p) /\ Shape
  BY WorkerSteps DEF ShowFailure, IInv, Quietly, Broken, Fault
<1>2. CASE proc[p].mode # "gui" /\ To(p, "returned") /\ Quietly
  <2>1. /\ Shape' /\ Others(p) /\ Same(p)
        /\ Runs(p, proc[p].bundled, proc[p].mode)
        /\ Moves(p, "returned", proc[p].err, proc[p].work, proc[p].code)
        /\ Tells(p, proc[p].declined, proc[p].marked, proc[p].reports)
    BY <1>1, <1>2, ToMoves
  <2>2. faults' = faults
    BY <1>2 DEF Quietly
  <2>3. /\ Elevated(p)' = Elevated(p) /\ UiAvailable(p)' = UiAvailable(p)
        /\ \A flag : Asks(p, flag)' = Asks(p, flag)
        /\ Started("elevated")' = Started("elevated")
    BY <1>1, <2>1, StepContext DEF Moves
  <2>4. Good(p)'
    BY <1>1, <1>2, <2>1, <2>2, <2>3
       DEF Good, Rights, Errors, Successes, Wants, Codes, Shown, Reports, Told,
           Same, Runs, Moves, Tells, Early, Late
  <2>5. QED
    BY <1>1, <2>1, <2>2, <2>4, StepKeeps DEF Moves, IInv, Late, Worker
<1>3. CASE /\ Becomes(p, [proc[p] EXCEPT !.reports = @ + 1, !.pc = "waiting"])
           /\ Quietly
  <2>1. /\ Shape' /\ Others(p) /\ Same(p)
        /\ Runs(p, proc[p].bundled, proc[p].mode)
        /\ Moves(p, "waiting", proc[p].err, proc[p].work, proc[p].code)
        /\ Tells(p, proc[p].declined, proc[p].marked, proc[p].reports + 1)
    <3>1. DOMAIN [proc[p] EXCEPT !.reports = @ + 1, !.pc = "waiting"] = DOMAIN Idle
      BY <1>1 DEF Shape
    <3>2. /\ Shape' /\ Others(p)
          /\ proc'[p] = [proc[p] EXCEPT !.reports = @ + 1, !.pc = "waiting"]
      BY <1>1, <3>1, <1>3, BecomesOne
    <3>3. QED
      BY <1>1, <3>2, RecordFields DEF Shape, Same, Runs, Moves, Tells
  <2>2. faults' = faults
    BY <1>3 DEF Quietly
  <2>3. /\ Elevated(p)' = Elevated(p) /\ UiAvailable(p)' = UiAvailable(p)
        /\ \A flag : Asks(p, flag)' = Asks(p, flag)
        /\ Started("elevated")' = Started("elevated")
    BY <1>1, <2>1, StepContext DEF Moves
  <2>4. Good(p)'
    BY <1>1, <1>3, <2>1, <2>2, <2>3
       DEF Good, Rights, Errors, Successes, Wants, Codes, Shown, Reports, Told,
           Same, Runs, Moves, Tells, Early, Late
  <2>5. QED
    BY <1>1, <2>1, <2>2, <2>4, StepKeeps DEF Moves, IInv, Late, Worker
<1>4. CASE /\ Becomes(p, [proc[p] EXCEPT !.reports = @ + 1, !.marked = TRUE, !.pc = "returned"])
           /\ Quietly
  <2>1. /\ Shape' /\ Others(p) /\ Same(p)
        /\ Runs(p, proc[p].bundled, proc[p].mode)
        /\ Moves(p, "returned", proc[p].err, proc[p].work, proc[p].code)
        /\ Tells(p, proc[p].declined, TRUE, proc[p].reports + 1)
    <3>1. DOMAIN [proc[p] EXCEPT !.reports = @ + 1, !.marked = TRUE,
                                 !.pc = "returned"] = DOMAIN Idle
      BY <1>1 DEF Shape
    <3>2. /\ Shape' /\ Others(p)
          /\ proc'[p] = [proc[p] EXCEPT !.reports = @ + 1, !.marked = TRUE, !.pc = "returned"]
      BY <1>1, <3>1, <1>4, BecomesOne
    <3>3. QED
      BY <1>1, <3>2, RecordFields DEF Shape, Same, Runs, Moves, Tells
  <2>2. faults' = faults
    BY <1>4 DEF Quietly
  <2>3. /\ Elevated(p)' = Elevated(p) /\ UiAvailable(p)' = UiAvailable(p)
        /\ \A flag : Asks(p, flag)' = Asks(p, flag)
        /\ Started("elevated")' = Started("elevated")
    BY <1>1, <2>1, StepContext DEF Moves
  <2>4. Good(p)'
    BY <1>1, <1>4, <2>1, <2>2, <2>3
       DEF Good, Rights, Errors, Successes, Wants, Codes, Shown, Reports, Told,
           Same, Runs, Moves, Tells, Early, Late
  <2>5. QED
    BY <1>1, <2>1, <2>2, <2>4, StepKeeps DEF Moves, IInv, Late, Worker
<1>5. CASE To(p, "returned") /\ Broken
  <2>1. /\ Shape' /\ Others(p) /\ Same(p)
        /\ Runs(p, proc[p].bundled, proc[p].mode)
        /\ Moves(p, "returned", proc[p].err, proc[p].work, proc[p].code)
        /\ Tells(p, proc[p].declined, proc[p].marked, proc[p].reports)
    BY <1>1, <1>5, ToMoves
  <2>2. faults' \in Nat /\ faults' # 0
    BY <1>5 DEF Broken, Fault, IInv
  <2>3. /\ Elevated(p)' = Elevated(p) /\ UiAvailable(p)' = UiAvailable(p)
        /\ \A flag : Asks(p, flag)' = Asks(p, flag)
        /\ Started("elevated")' = Started("elevated")
    BY <1>1, <2>1, StepContext DEF Moves
  <2>4. Good(p)'
    BY <1>1, <1>5, <2>1, <2>2, <2>3
       DEF Good, Rights, Errors, Successes, Wants, Codes, Shown, Reports, Told,
           Same, Runs, Moves, Tells, Early, Late
  <2>5. QED
    BY <1>1, <2>1, <2>2, <2>4, StepKeeps DEF Moves, IInv, Late, Worker
<1>6. QED
  BY <1>1, <1>2, <1>3, <1>4, <1>5 DEF ShowFailure, Mark

(* The user closes the failure. *)
LEMMA CloseFailureKeeps ==
  ASSUME IInv, NEW p \in Process, CloseFailure(p)
  PROVE  IInv'
<1>1. /\ proc[p].pc = "waiting" /\ world' = world
      /\ p \in Worker /\ Good(p) /\ Shape
  BY WorkerSteps DEF CloseFailure, IInv, Quietly, Broken, Fault
<1>2. CASE /\ Becomes(p, [proc[p] EXCEPT !.marked = TRUE, !.pc = "returned"])
           /\ Quietly
  <2>1. /\ Shape' /\ Others(p) /\ Same(p)
        /\ Runs(p, proc[p].bundled, proc[p].mode)
        /\ Moves(p, "returned", proc[p].err, proc[p].work, proc[p].code)
        /\ Tells(p, proc[p].declined, TRUE, proc[p].reports)
    <3>1. DOMAIN [proc[p] EXCEPT !.marked = TRUE, !.pc = "returned"] = DOMAIN Idle
      BY <1>1 DEF Shape
    <3>2. /\ Shape' /\ Others(p)
          /\ proc'[p] = [proc[p] EXCEPT !.marked = TRUE, !.pc = "returned"]
      BY <1>1, <3>1, <1>2, BecomesOne
    <3>3. QED
      BY <1>1, <3>2, RecordFields DEF Shape, Same, Runs, Moves, Tells
  <2>2. faults' = faults
    BY <1>2 DEF Quietly
  <2>3. /\ Elevated(p)' = Elevated(p) /\ UiAvailable(p)' = UiAvailable(p)
        /\ \A flag : Asks(p, flag)' = Asks(p, flag)
        /\ Started("elevated")' = Started("elevated")
    BY <1>1, <2>1, StepContext DEF Moves
  <2>4. Good(p)'
    BY <1>1, <1>2, <2>1, <2>2, <2>3
       DEF Good, Rights, Errors, Successes, Wants, Codes, Shown, Reports, Told,
           Same, Runs, Moves, Tells, Early, Late
  <2>5. QED
    BY <1>1, <2>1, <2>2, <2>4, StepKeeps DEF Moves, IInv, Late, Worker
<1>3. QED
  BY <1>1, <1>2 DEF CloseFailure, Mark

(* A packaged installer has a last word, unless the failure was shown. *)
LEMMA ReturnKeeps ==
  ASSUME IInv, NEW p \in Process, Return(p)
  PROVE  IInv'
<1>1. /\ proc[p].pc = "returned" /\ world' = world
      /\ p \in Worker /\ Good(p) /\ Shape
  BY WorkerSteps DEF Return, IInv, Quietly, Broken, Fault
<1>2. CASE To(p, "success") /\ proc[p].err = "none" /\ Quietly
  <2>1. /\ Shape' /\ Others(p) /\ Same(p)
        /\ Runs(p, proc[p].bundled, proc[p].mode)
        /\ Moves(p, "success", proc[p].err, proc[p].work, proc[p].code)
        /\ Tells(p, proc[p].declined, proc[p].marked, proc[p].reports)
    BY <1>1, <1>2, ToMoves
  <2>2. faults' = faults
    BY <1>2 DEF Quietly
  <2>3. /\ Elevated(p)' = Elevated(p) /\ UiAvailable(p)' = UiAvailable(p)
        /\ \A flag : Asks(p, flag)' = Asks(p, flag)
        /\ Started("elevated")' = Started("elevated")
    BY <1>1, <2>1, StepContext DEF Moves
  <2>4. Good(p)'
    BY <1>1, <1>2, <2>1, <2>2, <2>3
       DEF Good, Rights, Errors, Successes, Wants, Codes, Shown, Reports, Told,
           Same, Runs, Moves, Tells, Early, Late
  <2>5. QED
    BY <1>1, <2>1, <2>2, <2>4, StepKeeps DEF Moves, IInv, Late, Worker
<1>3. CASE /\ To(p, "apology") /\ Quietly
           /\ proc[p].bundled /\ proc[p].err # "none" /\ ~proc[p].marked
           /\ ~Asks(p, "--automation")
  <2>1. /\ Shape' /\ Others(p) /\ Same(p)
        /\ Runs(p, proc[p].bundled, proc[p].mode)
        /\ Moves(p, "apology", proc[p].err, proc[p].work, proc[p].code)
        /\ Tells(p, proc[p].declined, proc[p].marked, proc[p].reports)
    BY <1>1, <1>3, ToMoves
  <2>2. faults' = faults
    BY <1>3 DEF Quietly
  <2>3. /\ Elevated(p)' = Elevated(p) /\ UiAvailable(p)' = UiAvailable(p)
        /\ \A flag : Asks(p, flag)' = Asks(p, flag)
        /\ Started("elevated")' = Started("elevated")
    BY <1>1, <2>1, StepContext DEF Moves
  <2>4. Good(p)'
    BY <1>1, <1>3, <2>1, <2>2, <2>3
       DEF Good, Rights, Errors, Successes, Wants, Codes, Shown, Reports, Told,
           Same, Runs, Moves, Tells, Early, Late
  <2>5. QED
    BY <1>1, <2>1, <2>2, <2>4, StepKeeps DEF Moves, IInv, Late, Worker
<1>4. CASE /\ To(p, "ending") /\ Quietly
           /\ proc[p].bundled /\ Window(p) /\ proc[p].err # "none" => proc[p].marked
  <2>1. /\ Shape' /\ Others(p) /\ Same(p)
        /\ Runs(p, proc[p].bundled, proc[p].mode)
        /\ Moves(p, "ending", proc[p].err, proc[p].work, proc[p].code)
        /\ Tells(p, proc[p].declined, proc[p].marked, proc[p].reports)
    BY <1>1, <1>4, ToMoves
  <2>2. faults' = faults
    BY <1>4 DEF Quietly
  <2>3. /\ Elevated(p)' = Elevated(p) /\ UiAvailable(p)' = UiAvailable(p)
        /\ \A flag : Asks(p, flag)' = Asks(p, flag)
        /\ Started("elevated")' = Started("elevated")
    BY <1>1, <2>1, StepContext DEF Moves
  <2>4. Good(p)'
    BY <1>1, <1>4, <2>1, <2>2, <2>3
       DEF Good, Rights, Errors, Successes, Wants, Codes, Shown, Reports, Told,
           Same, Runs, Moves, Tells, Early, Late, Window
  <2>5. QED
    BY <1>1, <2>1, <2>2, <2>4, StepKeeps DEF Moves, IInv, Late, Worker
<1>5. QED
  BY <1>1, <1>2, <1>3, <1>4 DEF Return, Window

(* The success is reported, or a broken window makes it a failure. *)
LEMMA SuccessKeeps ==
  ASSUME IInv, NEW p \in Process, Success(p)
  PROVE  IInv'
<1>1. /\ proc[p].pc = "success" /\ world' = world
      /\ p \in Worker /\ Good(p) /\ Shape
  BY WorkerSteps DEF Success, IInv, Quietly, Broken, Fault
<1>2. CASE To(p, "ending") /\ Quietly
  <2>1. /\ Shape' /\ Others(p) /\ Same(p)
        /\ Runs(p, proc[p].bundled, proc[p].mode)
        /\ Moves(p, "ending", proc[p].err, proc[p].work, proc[p].code)
        /\ Tells(p, proc[p].declined, proc[p].marked, proc[p].reports)
    BY <1>1, <1>2, ToMoves
  <2>2. faults' = faults
    BY <1>2 DEF Quietly
  <2>3. /\ Elevated(p)' = Elevated(p) /\ UiAvailable(p)' = UiAvailable(p)
        /\ \A flag : Asks(p, flag)' = Asks(p, flag)
        /\ Started("elevated")' = Started("elevated")
    BY <1>1, <2>1, StepContext DEF Moves
  <2>4. Good(p)'
    BY <1>1, <1>2, <2>1, <2>2, <2>3
       DEF Good, Rights, Errors, Successes, Wants, Codes, Shown, Reports, Told,
           Same, Runs, Moves, Tells, Early, Late
  <2>5. QED
    BY <1>1, <2>1, <2>2, <2>4, StepKeeps DEF Moves, IInv, Late, Worker
<1>3. CASE Error(p, "error", "ending") /\ Broken
  <2>1. /\ Shape' /\ Others(p) /\ Same(p)
        /\ Runs(p, proc[p].bundled, proc[p].mode)
        /\ Moves(p, "ending", "error", proc[p].work, proc[p].code)
        /\ Tells(p, proc[p].declined, proc[p].marked, proc[p].reports)
    BY <1>1, <1>3, ErrorMoves
  <2>2. faults' \in Nat /\ faults' # 0
    BY <1>3 DEF Broken, Fault, IInv
  <2>3. /\ Elevated(p)' = Elevated(p) /\ UiAvailable(p)' = UiAvailable(p)
        /\ \A flag : Asks(p, flag)' = Asks(p, flag)
        /\ Started("elevated")' = Started("elevated")
    BY <1>1, <2>1, StepContext DEF Moves
  <2>4. Good(p)'
    BY <1>1, <1>3, <2>1, <2>2, <2>3
       DEF Good, Rights, Errors, Successes, Wants, Codes, Shown, Reports, Told,
           Same, Runs, Moves, Tells, Early, Late
  <2>5. QED
    BY <1>1, <2>1, <2>2, <2>4, StepKeeps DEF Moves, IInv, Late, Worker
<1>4. QED
  BY <1>1, <1>2, <1>3 DEF Success

(* The failure is reported where no progress window did. *)
LEMMA ApologyKeeps ==
  ASSUME IInv, NEW p \in Process, Apology(p)
  PROVE  IInv'
<1>1. /\ proc[p].pc = "apology" /\ world' = world
      /\ p \in Worker /\ Good(p) /\ Shape
  BY WorkerSteps DEF Apology, IInv, Quietly, Broken, Fault
<1>2. CASE /\ Becomes(p, [proc[p] EXCEPT !.reports = @ + 1, !.pc = "ending"])
           /\ Quietly
  <2>1. /\ Shape' /\ Others(p) /\ Same(p)
        /\ Runs(p, proc[p].bundled, proc[p].mode)
        /\ Moves(p, "ending", proc[p].err, proc[p].work, proc[p].code)
        /\ Tells(p, proc[p].declined, proc[p].marked, proc[p].reports + 1)
    <3>1. DOMAIN [proc[p] EXCEPT !.reports = @ + 1, !.pc = "ending"] = DOMAIN Idle
      BY <1>1 DEF Shape
    <3>2. /\ Shape' /\ Others(p)
          /\ proc'[p] = [proc[p] EXCEPT !.reports = @ + 1, !.pc = "ending"]
      BY <1>1, <3>1, <1>2, BecomesOne
    <3>3. QED
      BY <1>1, <3>2, RecordFields DEF Shape, Same, Runs, Moves, Tells
  <2>2. faults' = faults
    BY <1>2 DEF Quietly
  <2>3. /\ Elevated(p)' = Elevated(p) /\ UiAvailable(p)' = UiAvailable(p)
        /\ \A flag : Asks(p, flag)' = Asks(p, flag)
        /\ Started("elevated")' = Started("elevated")
    BY <1>1, <2>1, StepContext DEF Moves
  <2>4. Good(p)'
    BY <1>1, <1>2, <2>1, <2>2, <2>3
       DEF Good, Rights, Errors, Successes, Wants, Codes, Shown, Reports, Told,
           Same, Runs, Moves, Tells, Early, Late
  <2>5. QED
    BY <1>1, <2>1, <2>2, <2>4, StepKeeps DEF Moves, IInv, Late, Worker
<1>3. CASE Error(p, "error", "ending") /\ Broken
  <2>1. /\ Shape' /\ Others(p) /\ Same(p)
        /\ Runs(p, proc[p].bundled, proc[p].mode)
        /\ Moves(p, "ending", "error", proc[p].work, proc[p].code)
        /\ Tells(p, proc[p].declined, proc[p].marked, proc[p].reports)
    BY <1>1, <1>3, ErrorMoves
  <2>2. faults' \in Nat /\ faults' # 0
    BY <1>3 DEF Broken, Fault, IInv
  <2>3. /\ Elevated(p)' = Elevated(p) /\ UiAvailable(p)' = UiAvailable(p)
        /\ \A flag : Asks(p, flag)' = Asks(p, flag)
        /\ Started("elevated")' = Started("elevated")
    BY <1>1, <2>1, StepContext DEF Moves
  <2>4. Good(p)'
    BY <1>1, <1>3, <2>1, <2>2, <2>3
       DEF Good, Rights, Errors, Successes, Wants, Codes, Shown, Reports, Told,
           Same, Runs, Moves, Tells, Early, Late
  <2>5. QED
    BY <1>1, <2>1, <2>2, <2>4, StepKeeps DEF Moves, IInv, Late, Worker
<1>4. QED
  BY <1>1, <1>2, <1>3 DEF Apology

(* The command line decides on a command, a bundle, or the end. *)
LEMMA ParseKeeps ==
  ASSUME IInv, NEW p \in Process, Parse(p)
  PROVE  IInv'
<1>1. proc[p].pc = "parsing" /\ world' = world /\ Shape
  BY DEF Parse, IInv, Quietly, Broken, Fault
<1>2. CASE /\ Becomes(p, [proc[p] EXCEPT !.pc = "done", !.code = 2])
           /\ Quietly
  <2>1. /\ Shape' /\ Others(p) /\ Same(p)
        /\ Runs(p, proc[p].bundled, proc[p].mode)
        /\ Moves(p, "done", proc[p].err, proc[p].work, 2)
        /\ Tells(p, proc[p].declined, proc[p].marked, proc[p].reports)
    <3>1. DOMAIN [proc[p] EXCEPT !.pc = "done", !.code = 2] = DOMAIN Idle
      BY <1>1 DEF Shape
    <3>2. /\ Shape' /\ Others(p)
          /\ proc'[p] = [proc[p] EXCEPT !.pc = "done", !.code = 2]
      BY <1>1, <3>1, <1>2, BecomesOne
    <3>3. QED
      BY <1>1, <3>2, RecordFields DEF Shape, Same, Runs, Moves, Tells
  <2>2. faults' = faults
    BY <1>2 DEF Quietly
  <2>3. /\ Elevated(p)' = Elevated(p) /\ UiAvailable(p)' = UiAvailable(p)
        /\ \A flag : Asks(p, flag)' = Asks(p, flag)
        /\ Started("elevated")' = Started("elevated")
    BY <1>1, <2>1, StepContext DEF Moves
  <2>4. ASSUME p \in Worker PROVE Good(p)'
    BY <1>1, <1>2, <2>1, <2>2, <2>3, <2>4
       DEF IInv, Good, Rights, Errors, Successes, Wants, Codes, Shown, Reports, Told,
           Same, Runs, Moves, Tells, Early, Late
  <2>5. ASSUME p = "helper" PROVE HelperCleans'
    BY <1>1, <1>2, <2>1, <2>5 DEF IInv, HelperCleans, Moves
  <2>6. QED
    BY <1>1, <1>2, <2>1, <2>2, <2>4, <2>5, StepKeeps DEF Moves, IInv, Late
<1>3. CASE /\ Becomes(p, [proc[p] EXCEPT !.pc = "unpacking", !.bundled = TRUE])
           /\ Quietly
  <2>1. /\ Shape' /\ Others(p) /\ Same(p)
        /\ Runs(p, TRUE, proc[p].mode)
        /\ Moves(p, "unpacking", proc[p].err, proc[p].work, proc[p].code)
        /\ Tells(p, proc[p].declined, proc[p].marked, proc[p].reports)
    <3>1. DOMAIN [proc[p] EXCEPT !.pc = "unpacking", !.bundled = TRUE] = DOMAIN Idle
      BY <1>1 DEF Shape
    <3>2. /\ Shape' /\ Others(p)
          /\ proc'[p] = [proc[p] EXCEPT !.pc = "unpacking", !.bundled = TRUE]
      BY <1>1, <3>1, <1>3, BecomesOne
    <3>3. QED
      BY <1>1, <3>2, RecordFields DEF Shape, Same, Runs, Moves, Tells
  <2>2. faults' = faults
    BY <1>3 DEF Quietly
  <2>3. /\ Elevated(p)' = Elevated(p) /\ UiAvailable(p)' = UiAvailable(p)
        /\ \A flag : Asks(p, flag)' = Asks(p, flag)
        /\ Started("elevated")' = Started("elevated")
    BY <1>1, <2>1, StepContext DEF Moves
  <2>4. ASSUME p \in Worker PROVE Good(p)'
    BY <1>1, <1>3, <2>1, <2>2, <2>3, <2>4
       DEF IInv, Good, Rights, Errors, Successes, Wants, Codes, Shown, Reports, Told,
           Same, Runs, Moves, Tells, Early, Late
  <2>5. ASSUME p = "helper" PROVE HelperCleans'
    BY <1>1, <1>3, <2>1, <2>5 DEF IInv, HelperCleans, Moves
  <2>6. QED
    BY <1>1, <1>3, <2>1, <2>2, <2>4, <2>5, StepKeeps DEF Moves, IInv, Late
<1>4. CASE Error(p, "error", "ending") /\ Quietly
  <2>1. /\ Shape' /\ Others(p) /\ Same(p)
        /\ Runs(p, proc[p].bundled, proc[p].mode)
        /\ Moves(p, "ending", "error", proc[p].work, proc[p].code)
        /\ Tells(p, proc[p].declined, proc[p].marked, proc[p].reports)
    BY <1>1, <1>4, ErrorMoves
  <2>2. faults' = faults
    BY <1>4 DEF Quietly
  <2>3. /\ Elevated(p)' = Elevated(p) /\ UiAvailable(p)' = UiAvailable(p)
        /\ \A flag : Asks(p, flag)' = Asks(p, flag)
        /\ Started("elevated")' = Started("elevated")
    BY <1>1, <2>1, StepContext DEF Moves
  <2>4. ASSUME p \in Worker PROVE Good(p)'
    BY <1>1, <1>4, <2>1, <2>2, <2>3, <2>4
       DEF IInv, Good, Rights, Errors, Successes, Wants, Codes, Shown, Reports, Told,
           Same, Runs, Moves, Tells, Early, Late
  <2>5. ASSUME p = "helper" PROVE HelperCleans'
    BY <1>1, <1>4, <2>1, <2>5 DEF IInv, HelperCleans, Moves
  <2>6. QED
    BY <1>1, <1>4, <2>1, <2>2, <2>4, <2>5, StepKeeps DEF Moves, IInv, Late
<1>5. CASE To(p, "choosing") /\ Quietly
  <2>1. /\ Shape' /\ Others(p) /\ Same(p)
        /\ Runs(p, proc[p].bundled, proc[p].mode)
        /\ Moves(p, "choosing", proc[p].err, proc[p].work, proc[p].code)
        /\ Tells(p, proc[p].declined, proc[p].marked, proc[p].reports)
    BY <1>1, <1>5, ToMoves
  <2>2. faults' = faults
    BY <1>5 DEF Quietly
  <2>3. /\ Elevated(p)' = Elevated(p) /\ UiAvailable(p)' = UiAvailable(p)
        /\ \A flag : Asks(p, flag)' = Asks(p, flag)
        /\ Started("elevated")' = Started("elevated")
    BY <1>1, <2>1, StepContext DEF Moves
  <2>4. ASSUME p \in Worker PROVE Good(p)'
    BY <1>1, <1>5, <2>1, <2>2, <2>3, <2>4
       DEF IInv, Good, Rights, Errors, Successes, Wants, Codes, Shown, Reports, Told,
           Same, Runs, Moves, Tells, Early, Late
  <2>5. ASSUME p = "helper" PROVE HelperCleans'
    BY <1>1, <1>5, <2>1, <2>5 DEF IInv, HelperCleans, Moves
  <2>6. QED
    BY <1>1, <1>5, <2>1, <2>2, <2>4, <2>5, StepKeeps DEF Moves, IInv, Late
<1>6. QED
  BY <1>1, <1>2, <1>3, <1>4, <1>5 DEF Parse

(* The bundle is unpacked or not. *)
LEMMA UnpackKeeps ==
  ASSUME IInv, NEW p \in Process, Unpack(p)
  PROVE  IInv'
<1>1. proc[p].pc = "unpacking" /\ world' = world /\ Shape
  BY DEF Unpack, IInv, Quietly, Broken, Fault
<1>2. CASE /\ Becomes(p, [proc[p] EXCEPT !.unpacked = Unpacked(ReadBundle(Bytes(p)).files),
                                         !.pc = "choosing"])
           /\ Quietly
  <2>1. /\ Shape' /\ Others(p) /\ Same(p)
        /\ Runs(p, proc[p].bundled, proc[p].mode)
        /\ Moves(p, "choosing", proc[p].err, proc[p].work, proc[p].code)
        /\ Tells(p, proc[p].declined, proc[p].marked, proc[p].reports)
    <3>1. DOMAIN [proc[p] EXCEPT !.unpacked = Unpacked(ReadBundle(Bytes(p)).files),
                                 !.pc = "choosing"] = DOMAIN Idle
      BY <1>1 DEF Shape
    <3>2. /\ Shape' /\ Others(p)
          /\ proc'[p] = [proc[p] EXCEPT !.unpacked = Unpacked(ReadBundle(Bytes(p)).files),
                                        !.pc = "choosing"]
      BY <1>1, <3>1, <1>2, BecomesOne
    <3>3. QED
      BY <1>1, <3>2, RecordFields DEF Shape, Same, Runs, Moves, Tells
  <2>2. faults' = faults
    BY <1>2 DEF Quietly
  <2>3. /\ Elevated(p)' = Elevated(p) /\ UiAvailable(p)' = UiAvailable(p)
        /\ \A flag : Asks(p, flag)' = Asks(p, flag)
        /\ Started("elevated")' = Started("elevated")
    BY <1>1, <2>1, StepContext DEF Moves
  <2>4. ASSUME p \in Worker PROVE Good(p)'
    BY <1>1, <1>2, <2>1, <2>2, <2>3, <2>4
       DEF IInv, Good, Rights, Errors, Successes, Wants, Codes, Shown, Reports, Told,
           Same, Runs, Moves, Tells, Early, Late
  <2>5. ASSUME p = "helper" PROVE HelperCleans'
    BY <1>1, <1>2, <2>1, <2>5 DEF IInv, HelperCleans, Moves
  <2>6. QED
    BY <1>1, <1>2, <2>1, <2>2, <2>4, <2>5, StepKeeps DEF Moves, IInv, Late
<1>3. CASE Error(p, "error", "ending") /\ Broken
  <2>1. /\ Shape' /\ Others(p) /\ Same(p)
        /\ Runs(p, proc[p].bundled, proc[p].mode)
        /\ Moves(p, "ending", "error", proc[p].work, proc[p].code)
        /\ Tells(p, proc[p].declined, proc[p].marked, proc[p].reports)
    BY <1>1, <1>3, ErrorMoves
  <2>2. faults' \in Nat /\ faults' # 0
    BY <1>3 DEF Broken, Fault, IInv
  <2>3. /\ Elevated(p)' = Elevated(p) /\ UiAvailable(p)' = UiAvailable(p)
        /\ \A flag : Asks(p, flag)' = Asks(p, flag)
        /\ Started("elevated")' = Started("elevated")
    BY <1>1, <2>1, StepContext DEF Moves
  <2>4. ASSUME p \in Worker PROVE Good(p)'
    BY <1>1, <1>3, <2>1, <2>2, <2>3, <2>4
       DEF IInv, Good, Rights, Errors, Successes, Wants, Codes, Shown, Reports, Told,
           Same, Runs, Moves, Tells, Early, Late
  <2>5. ASSUME p = "helper" PROVE HelperCleans'
    BY <1>1, <1>3, <2>1, <2>5 DEF IInv, HelperCleans, Moves
  <2>6. QED
    BY <1>1, <1>3, <2>1, <2>2, <2>4, <2>5, StepKeeps DEF Moves, IInv, Late
<1>4. QED
  BY <1>1, <1>2, <1>3 DEF Unpack

(* A worker goes on to its end, the helper to its own. *)
LEMMA FarewellKeeps ==
  ASSUME IInv, NEW p \in Process, Farewell(p)
  PROVE  IInv'
<1>1. proc[p].pc = "farewell" /\ world' = world /\ Shape
  BY DEF Farewell, IInv, Quietly, Broken, Fault
<1>2. CASE p \in Worker /\ To(p, "returned") /\ Quietly
  <2>1. /\ Shape' /\ Others(p) /\ Same(p)
        /\ Runs(p, proc[p].bundled, proc[p].mode)
        /\ Moves(p, "returned", proc[p].err, proc[p].work, proc[p].code)
        /\ Tells(p, proc[p].declined, proc[p].marked, proc[p].reports)
    BY <1>1, <1>2, ToMoves
  <2>2. faults' = faults
    BY <1>2 DEF Quietly
  <2>3. /\ Elevated(p)' = Elevated(p) /\ UiAvailable(p)' = UiAvailable(p)
        /\ \A flag : Asks(p, flag)' = Asks(p, flag)
        /\ Started("elevated")' = Started("elevated")
    BY <1>1, <2>1, StepContext DEF Moves
  <2>4. Good(p)'
    BY <1>1, <1>2, <2>1, <2>2, <2>3
       DEF IInv, Good, Rights, Errors, Successes, Wants, Codes, Shown, Reports, Told,
           Same, Runs, Moves, Tells, Early, Late
  <2>5. QED
    BY <1>1, <1>2, <2>1, <2>2, <2>4, StepKeeps DEF Moves, IInv, Late, Worker
<1>3. CASE p = "helper" /\ To(p, "ending") /\ Quietly
  <2>1. /\ Shape' /\ Others(p) /\ Same(p)
        /\ Runs(p, proc[p].bundled, proc[p].mode)
        /\ Moves(p, "ending", proc[p].err, proc[p].work, proc[p].code)
        /\ Tells(p, proc[p].declined, proc[p].marked, proc[p].reports)
    BY <1>1, <1>3, ToMoves
  <2>2. faults' = faults
    BY <1>3 DEF Quietly
  <2>3. /\ Elevated(p)' = Elevated(p) /\ UiAvailable(p)' = UiAvailable(p)
        /\ \A flag : Asks(p, flag)' = Asks(p, flag)
        /\ Started("elevated")' = Started("elevated")
    BY <1>1, <2>1, StepContext DEF Moves
  <2>4. HelperCleans'
    BY <1>1, <1>3, <2>1 DEF IInv, HelperCleans, Moves
  <2>5. QED
    BY <1>1, <1>3, <2>1, <2>2, <2>4, StepKeeps DEF Moves, IInv, Late, Worker
<1>4. CASE p \in Worker /\ Error(p, "error", "failing") /\ Broken
  <2>1. /\ Shape' /\ Others(p) /\ Same(p)
        /\ Runs(p, proc[p].bundled, proc[p].mode)
        /\ Moves(p, "failing", "error", proc[p].work, proc[p].code)
        /\ Tells(p, proc[p].declined, proc[p].marked, proc[p].reports)
    BY <1>1, <1>4, ErrorMoves
  <2>2. faults' \in Nat /\ faults' # 0
    BY <1>4 DEF Broken, Fault, IInv
  <2>3. /\ Elevated(p)' = Elevated(p) /\ UiAvailable(p)' = UiAvailable(p)
        /\ \A flag : Asks(p, flag)' = Asks(p, flag)
        /\ Started("elevated")' = Started("elevated")
    BY <1>1, <2>1, StepContext DEF Moves
  <2>4. Good(p)'
    BY <1>1, <1>4, <2>1, <2>2, <2>3
       DEF IInv, Good, Rights, Errors, Successes, Wants, Codes, Shown, Reports, Told,
           Same, Runs, Moves, Tells, Early, Late
  <2>5. QED
    BY <1>1, <1>4, <2>1, <2>2, <2>4, StepKeeps DEF Moves, IInv, Late, Worker
<1>5. CASE p = "helper" /\ Error(p, "error", "ending") /\ Broken
  <2>1. /\ Shape' /\ Others(p) /\ Same(p)
        /\ Runs(p, proc[p].bundled, proc[p].mode)
        /\ Moves(p, "ending", "error", proc[p].work, proc[p].code)
        /\ Tells(p, proc[p].declined, proc[p].marked, proc[p].reports)
    BY <1>1, <1>5, ErrorMoves
  <2>2. faults' \in Nat /\ faults' # 0
    BY <1>5 DEF Broken, Fault, IInv
  <2>3. /\ Elevated(p)' = Elevated(p) /\ UiAvailable(p)' = UiAvailable(p)
        /\ \A flag : Asks(p, flag)' = Asks(p, flag)
        /\ Started("elevated")' = Started("elevated")
    BY <1>1, <2>1, StepContext DEF Moves
  <2>4. HelperCleans'
    BY <1>1, <1>5, <2>1 DEF IInv, HelperCleans, Moves
  <2>5. QED
    BY <1>1, <1>5, <2>1, <2>2, <2>4, StepKeeps DEF Moves, IInv, Late, Worker
<1>6. QED
  BY <1>1, <1>2, <1>3, <1>4, <1>5 DEF Farewell, Worker, Process

(* The code says what the error was; a bundle may still report it. *)
LEMMA EndKeeps ==
  ASSUME IInv, NEW p \in Process, End(p)
  PROVE  IInv'
<1>1. proc[p].pc = "ending" /\ world' = world /\ Shape
  BY DEF End, IInv, Quietly, Broken, Fault
<1>2. CASE /\ Becomes(p, [proc[p] EXCEPT !.pc = "lastword", !.code = ExitCode(p)])
           /\ Quietly
           /\ proc[p].bundled /\ ~Asks(p, "--automation") /\ ~proc[p].marked
  <2>1. /\ Shape' /\ Others(p) /\ Same(p)
        /\ Runs(p, proc[p].bundled, proc[p].mode)
        /\ Moves(p, "lastword", proc[p].err, proc[p].work, ExitCode(p))
        /\ Tells(p, proc[p].declined, proc[p].marked, proc[p].reports)
    <3>1. DOMAIN [proc[p] EXCEPT !.pc = "lastword", !.code = ExitCode(p)] = DOMAIN Idle
      BY <1>1 DEF Shape
    <3>2. /\ Shape' /\ Others(p)
          /\ proc'[p] = [proc[p] EXCEPT !.pc = "lastword", !.code = ExitCode(p)]
      BY <1>1, <3>1, <1>2, BecomesOne
    <3>3. QED
      BY <1>1, <3>2, RecordFields DEF Shape, Same, Runs, Moves, Tells
  <2>2. faults' = faults
    BY <1>2 DEF Quietly
  <2>3. /\ Elevated(p)' = Elevated(p) /\ UiAvailable(p)' = UiAvailable(p)
        /\ \A flag : Asks(p, flag)' = Asks(p, flag)
        /\ Started("elevated")' = Started("elevated")
    BY <1>1, <2>1, StepContext DEF Moves
  <2>4. ExitCode(p)' = ExitCode(p)
    BY <2>1 DEF ExitCode, Moves
  <2>5. ASSUME p \in Worker PROVE Good(p)'
    BY <1>1, <1>2, <2>1, <2>2, <2>3, <2>4, <2>5
       DEF IInv, Good, Rights, Errors, Successes, Wants, Codes, Shown, Reports, Told,
           Same, Runs, Moves, Tells, Early, Late
  <2>6. ASSUME p = "helper" PROVE HelperCleans'
    BY <1>1, <1>2, <2>1, <2>6 DEF IInv, HelperCleans, Moves
  <2>7. QED
    BY <1>1, <1>2, <2>1, <2>2, <2>5, <2>6, StepKeeps DEF Moves, IInv, Late
<1>3. CASE /\ Becomes(p, [proc[p] EXCEPT !.pc = "done", !.code = ExitCode(p)])
           /\ Quietly
           /\ ~(/\ proc[p].bundled /\ proc[p].err \notin {"none", "relaunched"}
                /\ Asks(p, "--headed") /\ ~Asks(p, "--automation") /\ ~Asks(p, "--json")
                /\ UiAvailable(p) /\ ~proc[p].marked)
  <2>1. /\ Shape' /\ Others(p) /\ Same(p)
        /\ Runs(p, proc[p].bundled, proc[p].mode)
        /\ Moves(p, "done", proc[p].err, proc[p].work, ExitCode(p))
        /\ Tells(p, proc[p].declined, proc[p].marked, proc[p].reports)
    <3>1. DOMAIN [proc[p] EXCEPT !.pc = "done", !.code = ExitCode(p)] = DOMAIN Idle
      BY <1>1 DEF Shape
    <3>2. /\ Shape' /\ Others(p)
          /\ proc'[p] = [proc[p] EXCEPT !.pc = "done", !.code = ExitCode(p)]
      BY <1>1, <3>1, <1>3, BecomesOne
    <3>3. QED
      BY <1>1, <3>2, RecordFields DEF Shape, Same, Runs, Moves, Tells
  <2>2. faults' = faults
    BY <1>3 DEF Quietly
  <2>3. /\ Elevated(p)' = Elevated(p) /\ UiAvailable(p)' = UiAvailable(p)
        /\ \A flag : Asks(p, flag)' = Asks(p, flag)
        /\ Started("elevated")' = Started("elevated")
    BY <1>1, <2>1, StepContext DEF Moves
  <2>4. ExitCode(p)' = ExitCode(p)
    BY <2>1 DEF ExitCode, Moves
  <2>5. ASSUME p \in Worker PROVE Good(p)'
    BY <1>1, <1>3, <2>1, <2>2, <2>3, <2>4, <2>5
       DEF IInv, Good, Rights, Errors, Successes, Wants, Codes, Shown, Reports, Told,
           Same, Runs, Moves, Tells, Early, Late
  <2>6. ASSUME p = "helper" PROVE HelperCleans'
    BY <1>1, <1>3, <2>1, <2>6 DEF IInv, HelperCleans, Moves
  <2>7. QED
    BY <1>1, <1>3, <2>1, <2>2, <2>5, <2>6, StepKeeps DEF Moves, IInv, Late
<1>4. QED
  BY <1>1, <1>2, <1>3 DEF End

(* main reports the failure once more. *)
LEMMA LastWordKeeps ==
  ASSUME IInv, NEW p \in Process, LastWord(p)
  PROVE  IInv'
<1>1. proc[p].pc = "lastword" /\ world' = world /\ Shape
  BY DEF LastWord, IInv, Quietly, Broken, Fault
<1>2. CASE /\ Becomes(p, [proc[p] EXCEPT !.reports = @ + 1, !.pc = "done"])
           /\ Quietly
  <2>1. /\ Shape' /\ Others(p) /\ Same(p)
        /\ Runs(p, proc[p].bundled, proc[p].mode)
        /\ Moves(p, "done", proc[p].err, proc[p].work, proc[p].code)
        /\ Tells(p, proc[p].declined, proc[p].marked, proc[p].reports + 1)
    <3>1. DOMAIN [proc[p] EXCEPT !.reports = @ + 1, !.pc = "done"] = DOMAIN Idle
      BY <1>1 DEF Shape
    <3>2. /\ Shape' /\ Others(p)
          /\ proc'[p] = [proc[p] EXCEPT !.reports = @ + 1, !.pc = "done"]
      BY <1>1, <3>1, <1>2, BecomesOne
    <3>3. QED
      BY <1>1, <3>2, RecordFields DEF Shape, Same, Runs, Moves, Tells
  <2>2. faults' = faults
    BY <1>2 DEF Quietly
  <2>3. /\ Elevated(p)' = Elevated(p) /\ UiAvailable(p)' = UiAvailable(p)
        /\ \A flag : Asks(p, flag)' = Asks(p, flag)
        /\ Started("elevated")' = Started("elevated")
    BY <1>1, <2>1, StepContext DEF Moves
  <2>4. ExitCode(p)' = ExitCode(p)
    BY <2>1 DEF ExitCode, Moves
  <2>5. ASSUME p \in Worker PROVE Good(p)'
    BY <1>1, <1>2, <2>1, <2>2, <2>3, <2>4, <2>5
       DEF IInv, Good, Rights, Errors, Successes, Wants, Codes, Shown, Reports, Told,
           Same, Runs, Moves, Tells, Early, Late
  <2>6. ASSUME p = "helper" PROVE HelperCleans'
    BY <1>1, <1>2, <2>1, <2>6 DEF IInv, HelperCleans, Moves
  <2>7. QED
    BY <1>1, <1>2, <2>1, <2>2, <2>5, <2>6, StepKeeps DEF Moves, IInv, Late
<1>3. CASE To(p, "done") /\ Broken
  <2>1. /\ Shape' /\ Others(p) /\ Same(p)
        /\ Runs(p, proc[p].bundled, proc[p].mode)
        /\ Moves(p, "done", proc[p].err, proc[p].work, proc[p].code)
        /\ Tells(p, proc[p].declined, proc[p].marked, proc[p].reports)
    BY <1>1, <1>3, ToMoves
  <2>2. faults' \in Nat /\ faults' # 0
    BY <1>3 DEF Broken, Fault, IInv
  <2>3. /\ Elevated(p)' = Elevated(p) /\ UiAvailable(p)' = UiAvailable(p)
        /\ \A flag : Asks(p, flag)' = Asks(p, flag)
        /\ Started("elevated")' = Started("elevated")
    BY <1>1, <2>1, StepContext DEF Moves
  <2>4. ExitCode(p)' = ExitCode(p)
    BY <2>1 DEF ExitCode, Moves
  <2>5. ASSUME p \in Worker PROVE Good(p)'
    BY <1>1, <1>3, <2>1, <2>2, <2>3, <2>4, <2>5
       DEF IInv, Good, Rights, Errors, Successes, Wants, Codes, Shown, Reports, Told,
           Same, Runs, Moves, Tells, Early, Late
  <2>6. ASSUME p = "helper" PROVE HelperCleans'
    BY <1>1, <1>3, <2>1, <2>6 DEF IInv, HelperCleans, Moves
  <2>7. QED
    BY <1>1, <1>3, <2>1, <2>2, <2>5, <2>6, StepKeeps DEF Moves, IInv, Late
<1>4. QED
  BY <1>1, <1>2, <1>3 DEF LastWord

(* Only the helper cleans. *)
LEMMA CleanKeeps ==
  ASSUME IInv, NEW p \in Process, Clean(p)
  PROVE  IInv'
<1>1. proc[p].pc = "cleaning" /\ world' = world /\ Shape
  BY DEF Clean, IInv, Quietly, Broken, Fault
<1>2. CASE p = "helper" /\ To(p, "farewell") /\ Quietly
  <2>1. /\ Shape' /\ Others(p) /\ Same(p)
        /\ Runs(p, proc[p].bundled, proc[p].mode)
        /\ Moves(p, "farewell", proc[p].err, proc[p].work, proc[p].code)
        /\ Tells(p, proc[p].declined, proc[p].marked, proc[p].reports)
    BY <1>1, <1>2, ToMoves
  <2>2. faults' = faults
    BY <1>2 DEF Quietly
  <2>3. /\ Elevated(p)' = Elevated(p) /\ UiAvailable(p)' = UiAvailable(p)
        /\ \A flag : Asks(p, flag)' = Asks(p, flag)
        /\ Started("elevated")' = Started("elevated")
    BY <1>1, <2>1, StepContext DEF Moves
  <2>4. HelperCleans'
    BY <1>1, <1>2, <2>1 DEF IInv, HelperCleans, Moves
  <2>5. QED
    BY <1>1, <1>2, <2>1, <2>2, <2>4, StepKeeps DEF Moves, IInv, Late, Worker
<1>3. CASE p = "helper" /\ To(p, "ending") /\ Quietly
  <2>1. /\ Shape' /\ Others(p) /\ Same(p)
        /\ Runs(p, proc[p].bundled, proc[p].mode)
        /\ Moves(p, "ending", proc[p].err, proc[p].work, proc[p].code)
        /\ Tells(p, proc[p].declined, proc[p].marked, proc[p].reports)
    BY <1>1, <1>3, ToMoves
  <2>2. faults' = faults
    BY <1>3 DEF Quietly
  <2>3. /\ Elevated(p)' = Elevated(p) /\ UiAvailable(p)' = UiAvailable(p)
        /\ \A flag : Asks(p, flag)' = Asks(p, flag)
        /\ Started("elevated")' = Started("elevated")
    BY <1>1, <2>1, StepContext DEF Moves
  <2>4. HelperCleans'
    BY <1>1, <1>3, <2>1 DEF IInv, HelperCleans, Moves
  <2>5. QED
    BY <1>1, <1>3, <2>1, <2>2, <2>4, StepKeeps DEF Moves, IInv, Late, Worker
<1>4. CASE p = "helper" /\ Error(p, "error", "ending") /\ Broken
  <2>1. /\ Shape' /\ Others(p) /\ Same(p)
        /\ Runs(p, proc[p].bundled, proc[p].mode)
        /\ Moves(p, "ending", "error", proc[p].work, proc[p].code)
        /\ Tells(p, proc[p].declined, proc[p].marked, proc[p].reports)
    BY <1>1, <1>4, ErrorMoves
  <2>2. faults' \in Nat /\ faults' # 0
    BY <1>4 DEF Broken, Fault, IInv
  <2>3. /\ Elevated(p)' = Elevated(p) /\ UiAvailable(p)' = UiAvailable(p)
        /\ \A flag : Asks(p, flag)' = Asks(p, flag)
        /\ Started("elevated")' = Started("elevated")
    BY <1>1, <2>1, StepContext DEF Moves
  <2>4. HelperCleans'
    BY <1>1, <1>4, <2>1 DEF IInv, HelperCleans, Moves
  <2>5. QED
    BY <1>1, <1>4, <2>1, <2>2, <2>4, StepKeeps DEF Moves, IInv, Late, Worker
<1>5. CASE p = "helper" /\ To(p, "asking") /\ Quietly
  <2>1. /\ Shape' /\ Others(p) /\ Same(p)
        /\ Runs(p, proc[p].bundled, proc[p].mode)
        /\ Moves(p, "asking", proc[p].err, proc[p].work, proc[p].code)
        /\ Tells(p, proc[p].declined, proc[p].marked, proc[p].reports)
    BY <1>1, <1>5, ToMoves
  <2>2. faults' = faults
    BY <1>5 DEF Quietly
  <2>3. /\ Elevated(p)' = Elevated(p) /\ UiAvailable(p)' = UiAvailable(p)
        /\ \A flag : Asks(p, flag)' = Asks(p, flag)
        /\ Started("elevated")' = Started("elevated")
    BY <1>1, <2>1, StepContext DEF Moves
  <2>4. HelperCleans'
    BY <1>1, <1>5, <2>1 DEF IInv, HelperCleans, Moves
  <2>5. QED
    BY <1>1, <1>5, <2>1, <2>2, <2>4, StepKeeps DEF Moves, IInv, Late, Worker
<1>6. QED
  BY <1>1, <1>2, <1>3, <1>4, <1>5
     DEF Clean, IInv, Good, Rights, Early, Late, Worker, Process

(* Only the helper asks for the reboot. *)
LEMMA AnswerRebootKeeps ==
  ASSUME IInv, NEW p \in Process, AnswerReboot(p)
  PROVE  IInv'
<1>1. proc[p].pc = "asking" /\ world' = world /\ Shape /\ p = "helper"
  BY DEF AnswerReboot, IInv, Quietly, Broken, Fault, Good, Rights, Early, Late, Worker, Process
<1>2. CASE To(p, "ending") /\ Quietly
  <2>1. /\ Shape' /\ Others(p) /\ Same(p)
        /\ Runs(p, proc[p].bundled, proc[p].mode)
        /\ Moves(p, "ending", proc[p].err, proc[p].work, proc[p].code)
        /\ Tells(p, proc[p].declined, proc[p].marked, proc[p].reports)
    BY <1>1, <1>2, ToMoves
  <2>2. faults' = faults
    BY <1>2 DEF Quietly
  <2>3. /\ Elevated(p)' = Elevated(p) /\ UiAvailable(p)' = UiAvailable(p)
        /\ \A flag : Asks(p, flag)' = Asks(p, flag)
        /\ Started("elevated")' = Started("elevated")
    BY <1>1, <2>1, StepContext DEF Moves
  <2>4. HelperCleans'
    BY <1>1, <1>2, <2>1 DEF IInv, HelperCleans, Moves
  <2>5. QED
    BY <1>1, <1>2, <2>1, <2>2, <2>4, StepKeeps DEF Moves, IInv, Late, Worker
<1>3. CASE Error(p, "error", "ending") /\ Broken
  <2>1. /\ Shape' /\ Others(p) /\ Same(p)
        /\ Runs(p, proc[p].bundled, proc[p].mode)
        /\ Moves(p, "ending", "error", proc[p].work, proc[p].code)
        /\ Tells(p, proc[p].declined, proc[p].marked, proc[p].reports)
    BY <1>1, <1>3, ErrorMoves
  <2>2. faults' \in Nat /\ faults' # 0
    BY <1>3 DEF Broken, Fault, IInv
  <2>3. /\ Elevated(p)' = Elevated(p) /\ UiAvailable(p)' = UiAvailable(p)
        /\ \A flag : Asks(p, flag)' = Asks(p, flag)
        /\ Started("elevated")' = Started("elevated")
    BY <1>1, <2>1, StepContext DEF Moves
  <2>4. HelperCleans'
    BY <1>1, <1>3, <2>1 DEF IInv, HelperCleans, Moves
  <2>5. QED
    BY <1>1, <1>3, <2>1, <2>2, <2>4, StepKeeps DEF Moves, IInv, Late, Worker
<1>4. QED
  BY <1>2, <1>3 DEF AnswerReboot

(* The user interface is what was asked for and is there. *)
LEMMA ChooseKeeps ==
  ASSUME IInv, NEW p \in Process, Choose(p)
  PROVE  IInv'
<1>1. proc[p].pc = "choosing" /\ world' = world /\ Shape
  BY DEF Choose, IInv, Quietly, Broken, Fault
<1>2. CASE Error(p, "error", "ending") /\ Quietly
  <2>1. /\ Shape' /\ Others(p) /\ Same(p)
        /\ Runs(p, proc[p].bundled, proc[p].mode)
        /\ Moves(p, "ending", "error", proc[p].work, proc[p].code)
        /\ Tells(p, proc[p].declined, proc[p].marked, proc[p].reports)
    BY <1>1, <1>2, ErrorMoves
  <2>2. faults' = faults
    BY <1>2 DEF Quietly
  <2>3. /\ Elevated(p)' = Elevated(p) /\ UiAvailable(p)' = UiAvailable(p)
        /\ \A flag : Asks(p, flag)' = Asks(p, flag)
        /\ Started("elevated")' = Started("elevated")
    BY <1>1, <2>1, StepContext DEF Moves
  <2>4. ASSUME p \in Worker PROVE Good(p)'
    BY <1>1, <1>2, <2>1, <2>2, <2>3, <2>4
       DEF IInv, Good, Rights, Errors, Successes, Wants, Codes, Shown, Reports, Told,
           Same, Runs, Moves, Tells, Early, Late
  <2>5. ASSUME p = "helper" PROVE HelperCleans'
    BY <1>1, <1>2, <2>1, <2>5 DEF IInv, HelperCleans, Moves
  <2>6. QED
    BY <1>1, <1>2, <2>1, <2>2, <2>4, <2>5, StepKeeps DEF Moves, IInv, Late
<1>3. CASE /\ p = "helper" /\ SelectUi(proc[p].args, UiAvailable(p)) # "error"
           /\ Becomes(p, [proc[p] EXCEPT !.mode = SelectUi(proc[p].args, UiAvailable(p)),
                                         !.pc = "cleaning"])
           /\ Quietly
  <2>1. /\ Shape' /\ Others(p) /\ Same(p)
        /\ Runs(p, proc[p].bundled, SelectUi(proc[p].args, UiAvailable(p)))
        /\ Moves(p, "cleaning", proc[p].err, proc[p].work, proc[p].code)
        /\ Tells(p, proc[p].declined, proc[p].marked, proc[p].reports)
    <3>1. DOMAIN [proc[p] EXCEPT !.mode = SelectUi(proc[p].args, UiAvailable(p)),
                                 !.pc = "cleaning"] = DOMAIN Idle
      BY <1>1 DEF Shape
    <3>2. /\ Shape' /\ Others(p)
          /\ proc'[p] = [proc[p] EXCEPT !.mode = SelectUi(proc[p].args, UiAvailable(p)),
                                        !.pc = "cleaning"]
      BY <1>1, <3>1, <1>3, BecomesOne
    <3>3. QED
      BY <1>1, <3>2, RecordFields DEF Shape, Same, Runs, Moves, Tells
  <2>2. faults' = faults
    BY <1>3 DEF Quietly
  <2>3. /\ Elevated(p)' = Elevated(p) /\ UiAvailable(p)' = UiAvailable(p)
        /\ \A flag : Asks(p, flag)' = Asks(p, flag)
        /\ Started("elevated")' = Started("elevated")
    BY <1>1, <2>1, StepContext DEF Moves
  <2>4. HelperCleans'
    BY <1>1, <1>3, <2>1 DEF IInv, HelperCleans, Moves
  <2>5. QED
    BY <1>1, <1>3, <2>1, <2>2, <2>4, StepKeeps DEF Moves, IInv, Late, Worker
<1>4. CASE /\ p \in Worker /\ SelectUi(proc[p].args, UiAvailable(p)) # "error"
           /\ Becomes(p, [proc[p] EXCEPT !.mode = SelectUi(proc[p].args, UiAvailable(p)),
                                         !.pc = "confirming"])
           /\ Quietly
  <2>1. /\ Shape' /\ Others(p) /\ Same(p)
        /\ Runs(p, proc[p].bundled, SelectUi(proc[p].args, UiAvailable(p)))
        /\ Moves(p, "confirming", proc[p].err, proc[p].work, proc[p].code)
        /\ Tells(p, proc[p].declined, proc[p].marked, proc[p].reports)
    <3>1. DOMAIN [proc[p] EXCEPT !.mode = SelectUi(proc[p].args, UiAvailable(p)),
                                 !.pc = "confirming"] = DOMAIN Idle
      BY <1>1 DEF Shape
    <3>2. /\ Shape' /\ Others(p)
          /\ proc'[p] = [proc[p] EXCEPT !.mode = SelectUi(proc[p].args, UiAvailable(p)),
                                        !.pc = "confirming"]
      BY <1>1, <3>1, <1>4, BecomesOne
    <3>3. QED
      BY <1>1, <3>2, RecordFields DEF Shape, Same, Runs, Moves, Tells
  <2>2. faults' = faults
    BY <1>4 DEF Quietly
  <2>3. /\ Elevated(p)' = Elevated(p) /\ UiAvailable(p)' = UiAvailable(p)
        /\ \A flag : Asks(p, flag)' = Asks(p, flag)
        /\ Started("elevated")' = Started("elevated")
    BY <1>1, <2>1, StepContext DEF Moves
  <2>4. proc'[p].mode = "gui" =>
          Asks(p, "--headed") /\ ~Asks(p, "--json") /\ UiAvailable(p)
    BY <2>1, GuiAsked, Zenon DEF Runs
  <2>5. /\ p \in Worker /\ Runs(p, proc[p].bundled, proc'[p].mode)
        /\ Moves(p, "confirming", proc[p].err, proc[p].work, proc[p].code)
        /\ Tells(p, proc[p].declined, proc[p].marked, proc[p].reports)
    BY <1>4, <2>1 DEF Runs
  <2>6. Good(p)'
    BY <1>1, <2>5, <2>2, <2>3, <2>4
       DEF IInv, Good, Rights, Errors, Successes, Wants, Codes, Shown, Reports, Told,
           Same, Runs, Moves, Tells, Early, Late
  <2>7. QED
    BY <1>1, <1>4, <2>1, <2>2, <2>6, StepKeeps DEF Moves, IInv, Late, Worker
<1>5. CASE /\ p \in Worker /\ SelectUi(proc[p].args, UiAvailable(p)) # "error"
           /\ Becomes(p, [proc[p] EXCEPT !.mode = SelectUi(proc[p].args, UiAvailable(p)),
                                         !.pc = "reading"])
           /\ Quietly
  <2>1. /\ Shape' /\ Others(p) /\ Same(p)
        /\ Runs(p, proc[p].bundled, SelectUi(proc[p].args, UiAvailable(p)))
        /\ Moves(p, "reading", proc[p].err, proc[p].work, proc[p].code)
        /\ Tells(p, proc[p].declined, proc[p].marked, proc[p].reports)
    <3>1. DOMAIN [proc[p] EXCEPT !.mode = SelectUi(proc[p].args, UiAvailable(p)),
                                 !.pc = "reading"] = DOMAIN Idle
      BY <1>1 DEF Shape
    <3>2. /\ Shape' /\ Others(p)
          /\ proc'[p] = [proc[p] EXCEPT !.mode = SelectUi(proc[p].args, UiAvailable(p)),
                                        !.pc = "reading"]
      BY <1>1, <3>1, <1>5, BecomesOne
    <3>3. QED
      BY <1>1, <3>2, RecordFields DEF Shape, Same, Runs, Moves, Tells
  <2>2. faults' = faults
    BY <1>5 DEF Quietly
  <2>3. /\ Elevated(p)' = Elevated(p) /\ UiAvailable(p)' = UiAvailable(p)
        /\ \A flag : Asks(p, flag)' = Asks(p, flag)
        /\ Started("elevated")' = Started("elevated")
    BY <1>1, <2>1, StepContext DEF Moves
  <2>4. proc'[p].mode = "gui" =>
          Asks(p, "--headed") /\ ~Asks(p, "--json") /\ UiAvailable(p)
    BY <2>1, GuiAsked, Zenon DEF Runs
  <2>5. /\ p \in Worker /\ Runs(p, proc[p].bundled, proc'[p].mode)
        /\ Moves(p, "reading", proc[p].err, proc[p].work, proc[p].code)
        /\ Tells(p, proc[p].declined, proc[p].marked, proc[p].reports)
    BY <1>5, <2>1 DEF Runs
  <2>6. Good(p)'
    BY <1>1, <2>5, <2>2, <2>3, <2>4
       DEF IInv, Good, Rights, Errors, Successes, Wants, Codes, Shown, Reports, Told,
           Same, Runs, Moves, Tells, Early, Late
  <2>7. QED
    BY <1>1, <1>5, <2>1, <2>2, <2>6, StepKeeps DEF Moves, IInv, Late, Worker
<1>6. QED
  BY <1>1, <1>2, <1>3, <1>4, <1>5 DEF Choose, Worker, Process

(* Only the first process is elevated, and it is through with that. *)
LEMMA ConsentKeeps ==
  ASSUME IInv, NEW p \in Process, Consent(p)
  PROVE  IInv'
<1>1. /\ proc[p].pc = "consent" /\ world' = world /\ faults' = faults
      /\ p \in Worker /\ Good(p) /\ Shape
  BY WorkerSteps DEF Consent, IInv, Quietly
<1>2. p = "first" /\ ~Started("elevated")
  BY <1>1, NotBefore DEF Good, Rights, Early
<1>3. CASE proc' = Relaunch(p)
  <2>1. /\ Shape'
        /\ proc'["helper"] = proc["helper"]
        /\ proc'["elevated"] = [Idle EXCEPT !.pc = "parsing", !.image = proc[p].image,
                                            !.args = Argv(Parameters(proc[p].args))]
        /\ proc'["first"] = [proc["first"] EXCEPT !.err = "relaunched", !.pc = "failing"]
    BY <1>1, <1>2, <1>3 DEF Relaunch, Shape, Process
  <2>2. /\ Same("first") /\ Runs("first", proc["first"].bundled, proc["first"].mode)
        /\ Moves("first", "failing", "relaunched", proc["first"].work, proc["first"].code)
        /\ Tells("first", proc["first"].declined, proc["first"].marked, proc["first"].reports)
    BY <1>1, <1>2, <2>1, RecordFields DEF Shape, Same, Runs, Moves, Tells
  <2>3. /\ Runs("elevated", FALSE, "none")
        /\ Moves("elevated", "parsing", "none", "none", 0)
        /\ Tells("elevated", FALSE, FALSE, 0)
    BY <2>1 DEF Idle, Runs, Moves, Tells
  <2>4. Started("elevated")' /\ Elevated("elevated")' /\ Elevated("first")' = Elevated("first")
    BY <1>1, <2>3 DEF Started, Moves, Elevated
  <2>5. UiAvailable("first")' = UiAvailable("first")
        /\ \A flag : Asks("first", flag)' = Asks("first", flag)
    BY <1>1, <2>2, SameContext DEF Process
  <2>6. Good("first")'
    BY <1>1, <1>2, <2>2, <2>4, <2>5
       DEF Good, Rights, Errors, Successes, Wants, Codes, Shown, Reports, Told,
           Same, Runs, Moves, Tells, Early, Late
  <2>7. Good("elevated")'
    BY <2>3, <2>4
       DEF Good, Rights, Errors, Successes, Wants, Codes, Shown, Reports, Told,
           Same, Runs, Moves, Tells, Early, Late
  <2>8. HelperCleans'
    BY <2>1 DEF IInv, HelperCleans
  <2>9. Relaunched'
    BY <1>1, <1>2, <2>2 DEF Good, Rights, Relaunched, Moves, Early, Late
  <2>10. QED
    BY <1>1, <2>1, <2>6, <2>7, <2>8, <2>9 DEF IInv, Worker
<1>4. CASE /\ Becomes(p, [proc[p] EXCEPT !.err = "error", !.declined = TRUE, !.pc = "failing"])
           /\ Quietly
  <2>1. /\ Shape' /\ Others(p) /\ Same(p)
        /\ Runs(p, proc[p].bundled, proc[p].mode)
        /\ Moves(p, "failing", "error", proc[p].work, proc[p].code)
        /\ Tells(p, TRUE, proc[p].marked, proc[p].reports)
    <3>1. DOMAIN [proc[p] EXCEPT !.err = "error", !.declined = TRUE,
                                 !.pc = "failing"] = DOMAIN Idle
      BY <1>1 DEF Shape
    <3>2. /\ Shape' /\ Others(p)
          /\ proc'[p] = [proc[p] EXCEPT !.err = "error", !.declined = TRUE, !.pc = "failing"]
      BY <1>1, <3>1, <1>4, BecomesOne
    <3>3. QED
      BY <1>1, <3>2, RecordFields DEF Shape, Same, Runs, Moves, Tells
  <2>2. faults' = faults
    BY <1>4 DEF Quietly
  <2>3. /\ Elevated(p)' = Elevated(p) /\ UiAvailable(p)' = UiAvailable(p)
        /\ \A flag : Asks(p, flag)' = Asks(p, flag)
        /\ Started("elevated")' = Started("elevated")
    BY <1>1, <2>1, StepContext DEF Moves
  <2>4. Good(p)'
    BY <1>1, <1>4, <2>1, <2>2, <2>3
       DEF Good, Rights, Errors, Successes, Wants, Codes, Shown, Reports, Told,
           Same, Runs, Moves, Tells, Early, Late
  <2>5. QED
    BY <1>1, <2>1, <2>2, <2>4, StepKeeps DEF Moves, IInv, Late, Worker
<1>5. QED
  BY <1>1, <1>3, <1>4 DEF Consent, Quietly

(* The helper is started while the uninstaller is on its way to the end.   *)
LEMMA HandOverKeeps ==
  ASSUME IInv, NEW p \in Process, HandOver(p)
  PROVE  IInv'
<1>1. /\ proc[p].pc = "working" /\ world' = world
      /\ p \in Worker /\ Good(p) /\ Shape
  BY WorkerSteps DEF HandOver, IInv, Quietly, Broken
<1>2. p # "helper"
  BY <1>1 DEF Worker
<1>3. ASSUME NEW given,
             proc' = [proc EXCEPT ![p] = [@ EXCEPT !.work = "ok", !.pc = "returned"],
                                  !["helper"] = [Idle EXCEPT !.pc = "parsing",
                                                   !.image = "helper", !.args = given]],
             Quietly
      PROVE  IInv'
  <2>1. /\ Shape'
        /\ \A q \in Worker \ {p} : proc'[q] = proc[q]
        /\ proc'["helper"] = [Idle EXCEPT !.pc = "parsing", !.image = "helper",
                                          !.args = given]
        /\ proc'[p] = [proc[p] EXCEPT !.work = "ok", !.pc = "returned"]
    BY <1>1, <1>2, <1>3 DEF Shape, Process, Worker
  <2>2. /\ Same(p) /\ Runs(p, proc[p].bundled, proc[p].mode)
        /\ Moves(p, "returned", proc[p].err, "ok", proc[p].code)
        /\ Tells(p, proc[p].declined, proc[p].marked, proc[p].reports)
    BY <1>1, <2>1, RecordFields DEF Shape, Same, Runs, Moves, Tells
  <2>3. proc'["helper"].pc = "parsing" /\ proc'["helper"].work = "none"
    BY <2>1 DEF Idle
  <2>4. /\ Elevated(p)' = Elevated(p) /\ UiAvailable(p)' = UiAvailable(p)
        /\ \A flag : Asks(p, flag)' = Asks(p, flag)
    BY <1>1, <2>2, SameContext
  <2>5. Started("elevated")' = Started("elevated") /\ faults' = faults
    BY <1>1, <1>3, <2>1, <2>2 DEF Started, Moves, Worker, Quietly
  <2>6. Good(p)'
    BY <1>1, <2>2, <2>4, <2>5
       DEF Good, Rights, Errors, Successes, Wants, Codes, Shown, Reports, Told,
           Same, Runs, Moves, Tells, Early, Late
  <2>7. \A q \in Worker \ {p} : Good(q)'
    BY <1>1, <2>1, <2>5, WorkersKeep
  <2>8. HelperCleans'
    BY <2>3 DEF HelperCleans
  <2>9. Relaunched'
    BY <1>1, <2>1, <2>2, <2>5 DEF IInv, Relaunched, Moves, Worker, Late
  <2>10. QED
    BY <1>1, <2>1, <2>5, <2>6, <2>7, <2>8, <2>9 DEF IInv
<1>4. CASE /\ Becomes(p, [proc[p] EXCEPT !.work = "failed", !.err = "error", !.pc = "failing"])
           /\ Broken
  <2>1. /\ Shape' /\ Others(p) /\ Same(p)
        /\ Runs(p, proc[p].bundled, proc[p].mode)
        /\ Moves(p, "failing", "error", "failed", proc[p].code)
        /\ Tells(p, proc[p].declined, proc[p].marked, proc[p].reports)
    <3>1. DOMAIN [proc[p] EXCEPT !.work = "failed", !.err = "error",
                                 !.pc = "failing"] = DOMAIN Idle
      BY <1>1 DEF Shape
    <3>2. /\ Shape' /\ Others(p)
          /\ proc'[p] = [proc[p] EXCEPT !.work = "failed", !.err = "error", !.pc = "failing"]
      BY <1>1, <3>1, <1>4, BecomesOne
    <3>3. QED
      BY <1>1, <3>2, RecordFields DEF Shape, Same, Runs, Moves, Tells
  <2>2. faults' \in Nat /\ faults' # 0
    BY <1>4 DEF Broken, Fault, IInv
  <2>3. /\ Elevated(p)' = Elevated(p) /\ UiAvailable(p)' = UiAvailable(p)
        /\ \A flag : Asks(p, flag)' = Asks(p, flag)
        /\ Started("elevated")' = Started("elevated")
    BY <1>1, <2>1, StepContext DEF Moves
  <2>4. Good(p)'
    BY <1>1, <1>4, <2>1, <2>2, <2>3
       DEF Good, Rights, Errors, Successes, Wants, Codes, Shown, Reports, Told,
           Same, Runs, Moves, Tells, Early, Late
  <2>5. QED
    BY <1>1, <2>1, <2>2, <2>4, StepKeeps DEF Moves, IInv, Late, Worker
<1>5. QED
  BY <1>3, <1>4 DEF HandOver

(* A process starts with nothing done and nothing decided. *)
LEMMA StartKeeps ==
  ASSUME IInv, NEW image, NEW args, Start(image, args)
  PROVE  IInv'
<1>1. /\ proc["first"].pc = "off" /\ world' = world /\ faults' = faults
      /\ Becomes("first", [Idle EXCEPT !.pc = "parsing", !.image = image, !.args = args])
      /\ Shape /\ "first" \in Process
  BY DEF Start, Quietly, IInv, Process
<1>2. DOMAIN [Idle EXCEPT !.pc = "parsing", !.image = image, !.args = args] = DOMAIN Idle
  BY DEF Idle
<1>3. /\ Shape' /\ Others("first")
      /\ proc'["first"] = [Idle EXCEPT !.pc = "parsing", !.image = image, !.args = args]
  BY <1>1, <1>2, BecomesOne
<1>4. /\ Runs("first", FALSE, "none")
      /\ Moves("first", "parsing", "none", "none", 0)
      /\ Tells("first", FALSE, FALSE, 0)
  BY <1>3 DEF Idle, Runs, Moves, Tells
<1>5. proc'["elevated"] = proc["elevated"] /\ proc'["helper"] = proc["helper"]
  BY <1>3 DEF Others, Process
<1>6. ~Started("elevated") /\ ~Started("elevated")'
  BY <1>1, <1>5 DEF IInv, Relaunched, Started, Late
<1>7. Good("first")'
  BY <1>4, <1>6
       DEF Good, Rights, Errors, Successes, Wants, Codes, Shown, Reports, Told,
           Same, Runs, Moves, Tells, Early, Late
<1>8. Good("elevated")'
  <2>1. Started("elevated")' = Started("elevated")
    BY <1>5 DEF Started
  <2>2. QED
    BY <1>1, <1>5, <2>1, WorkersKeep DEF Worker
<1>9. HelperCleans' /\ Relaunched'
  BY <1>5, <1>6 DEF IInv, HelperCleans, Relaunched
<1>10. QED
  BY <1>1, <1>3, <1>7, <1>8, <1>9 DEF IInv, Worker

(* Packaging touches no process. *)
LEMMA PackageKeeps ==
  ASSUME IInv, NEW source, NEW stub, Package(source, stub)
  PROVE  IInv'
<1>1. proc' = proc /\ world' = world
  BY DEF Package
<1>2. faults' \in Nat /\ (faults' = 0 => faults = 0)
  BY DEF Package, Fault, IInv
<1>3. Shape' /\ HelperCleans' /\ Relaunched'
  BY <1>1 DEF IInv, Shape, HelperCleans, Relaunched, Started
<1>4. Started("elevated")' = Started("elevated") /\ \A q \in Worker : proc'[q] = proc[q]
  BY <1>1 DEF Started
<1>5. \A q \in Worker : Good(q)'
  BY <1>1, <1>2, <1>4, WorkersKeep
<1>6. QED
  BY <1>1, <1>2, <1>3, <1>5 DEF IInv

(* Nothing has been started. *)
LEMMA InitHolds == Init => IInv
<1>1. SUFFICES ASSUME Init PROVE IInv
  OBVIOUS
<1>2. world \in Worlds /\ faults = 0 /\ \A p \in Process : proc[p] = Idle
  BY <1>1 DEF Init
<1>3. Shape
  BY <1>1 DEF Init, Shape
<1>4. \A p \in Process :
        /\ proc[p].pc = "off" /\ proc[p].mode = "none" /\ proc[p].err = "none"
        /\ proc[p].work = "none" /\ proc[p].code = 0 /\ proc[p].reports = 0
        /\ proc[p].marked = FALSE
  BY <1>2 DEF Idle
<1>5. HelperCleans /\ Relaunched
  BY <1>4 DEF HelperCleans, Relaunched, Started, Process
<1>6. ASSUME NEW p \in Worker PROVE Good(p)
  <2>1. p \in Process
    BY DEF Worker, Process
  <2>2. QED
    BY <1>4, <2>1
       DEF Good, Rights, Errors, Successes, Wants, Codes, Shown, Reports, Told,
           Same, Runs, Moves, Tells, Early, Late
<1>7. QED
  BY <1>2, <1>3, <1>5, <1>6 DEF IInv

(* Nothing changes. *)
LEMMA StutterKeeps ==
  ASSUME IInv, UNCHANGED vars
  PROVE  IInv'
<1>1. proc' = proc /\ world' = world /\ faults' = faults
  BY DEF vars
<1>2. Shape' /\ HelperCleans' /\ Relaunched'
  BY <1>1 DEF IInv, Shape, HelperCleans, Relaunched, Started
<1>3. Started("elevated")' = Started("elevated") /\ \A q \in Worker : proc'[q] = proc[q]
  BY <1>1 DEF Started
<1>4. \A q \in Worker : Good(q)'
  BY <1>1, <1>3, WorkersKeep
<1>5. QED
  BY <1>1, <1>2, <1>4 DEF IInv

(* Every step keeps the invariant. *)
LEMMA NextKeeps ==
  ASSUME IInv, [Next]_vars
  PROVE  IInv'
<1>1. ASSUME NEW source \in Sources, NEW stub \in Stubs, Package(source, stub) PROVE IInv'
  BY <1>1, PackageKeeps
<1>2. ASSUME NEW r \in Requests, Start(r.image, r.args) PROVE IInv'
  BY <1>2, StartKeeps
<1>3. ASSUME NEW p \in Process, ProcessStep(p) PROVE IInv'
  BY <1>3, ParseKeeps, UnpackKeeps, ChooseKeeps, ReadInputKeeps, OpenProgressKeeps,
     CheckRightsKeeps, WorkFailsKeeps, WorkDoneKeeps, HandOverKeeps, UninstallDoneKeeps,
     ShowFailureKeeps, ReturnKeeps, EndKeeps, CleanKeeps DEF ProcessStep
<1>4. ASSUME NEW p \in Process, UserStep(p) PROVE IInv'
  BY <1>4, ConfirmKeeps, ConsentKeeps, CloseFailureKeeps, FarewellKeeps, SuccessKeeps,
     ApologyKeeps, LastWordKeeps, AnswerRebootKeeps DEF UserStep
<1>5. QED
  BY <1>1, <1>2, <1>3, <1>4, StutterKeeps DEF Next

(* So it always holds. *)
LEMMA Inductive == Spec => []IInv
BY InitHolds, NextKeeps, PTL DEF Spec

-----------------------------------------------------------------------------
(* Work is begun by one process at most, and only with the rights it needs,*)
(* for every command line, machine and package.                            *)
LEMMA IInvEntitles == IInv => WorkIsEntitled
<1>1. SUFFICES ASSUME IInv, NEW p \in Process, proc[p].work # "none"
               PROVE  /\ world.required = "no" \/ (world.required = "yes" /\ Elevated(p))
                      /\ \A q \in Process \ {p} : proc[q].work = "none"
                      /\ p = "first" => ~Started("elevated")
  BY DEF WorkIsEntitled
<1>2. p \in Worker /\ Good(p) /\ proc["helper"].work = "none"
  BY <1>1 DEF IInv, HelperCleans, Process, Worker
<1>3. world.required = "no" \/ (world.required = "yes" /\ Elevated(p))
  BY <1>1, <1>2 DEF Good, Rights
<1>4. p = "first" => ~Started("elevated")
  BY <1>1 DEF IInv, Relaunched
<1>5. ~Started("elevated") => proc["elevated"].work = "none"
  BY <1>1 DEF IInv, Good, Rights, Started, Worker, Early
<1>6. Started("elevated") => proc["first"].work = "none"
  BY <1>1 DEF IInv, Relaunched
<1>7. \A q \in Process \ {p} : proc[q].work = "none"
  BY <1>1, <1>2, <1>4, <1>5, <1>6 DEF Process, Worker
<1>8. QED
  BY <1>3, <1>4, <1>7

THEOREM EntitledWork == Spec => []WorkIsEntitled
BY Inductive, IInvEntitles, PTL

(* The exit code can be believed, for every command line, machine and      *)
(* package and any number of broken windows.                               *)
LEMMA IInvHonest == IInv => ExitHonest
<1>1. SUFFICES ASSUME IInv, NEW p \in Worker, Done(p)
      PROVE  /\ proc[p].code = 33 => /\ world.required = "yes" /\ ~Elevated(p)
                                     /\ \A q \in Process : proc[q].work = "none"
             /\ proc[p].code = 0 => \/ proc[p].work = "ok" \/ proc[p].declined
                                    \/ proc[p].work = "none" /\ Started("elevated")
             /\ proc[p].code \notin {0, 33} => \/ proc[p].work # "ok" \/ faults > 0
             /\ world.required = "yes" /\ ~Elevated(p) /\ faults = 0 /\ ~proc[p].declined
                  /\ proc[p].mode # "none" /\ world.readable =>
                    proc[p].code = IF Started("elevated") THEN 0 ELSE 33
  BY DEF ExitHonest, Worker
<1>2. /\ Good(p) /\ proc[p].pc = "done" /\ faults \in Nat
      /\ proc["helper"].work = "none"
  BY <1>1 DEF IInv, Done, HelperCleans
<1>3. /\ proc[p].err \in {"none", "error", "elevation", "relaunched"}
      /\ proc[p].err = "elevation" => /\ world.required = "yes" /\ ~Elevated(p)
                                      /\ ~Started("elevated") /\ proc[p].work = "none"
      /\ proc[p].err = "relaunched" => Started("elevated") /\ proc[p].work = "none"
      /\ proc[p].err = "error" => proc[p].work # "ok" \/ faults # 0
  BY <1>2 DEF Good, Errors
<1>4. /\ proc[p].err \in {"none", "relaunched"} => ExitCode(p) = 0
      /\ proc[p].err = "elevation" => ExitCode(p) = 33
      /\ proc[p].err = "error" => ExitCode(p) = 1
  BY DEF ExitCode
<1>5. \/ proc[p].code = ExitCode(p)
      \/ proc[p].code = 2 /\ proc[p].work = "none" /\ proc[p].mode = "none"
  BY <1>2 DEF Good, Codes
<1>6. proc[p].err = "none" /\ proc[p].code # 2 => proc[p].work = "ok" \/ proc[p].declined
  BY <1>2 DEF Good, Successes, Late
<1>7. world.required = "yes" /\ ~Elevated(p) => p = "first" /\ proc[p].work = "none"
  BY <1>2 DEF Good, Rights, Elevated, Worker
<1>8. world.required = "yes" /\ ~Elevated(p) /\ faults = 0 /\ ~proc[p].declined
        /\ proc[p].mode # "none" /\ world.readable => proc[p].err # "error"
  BY <1>2 DEF Good, Wants
<1>9. ~Started("elevated") => proc["elevated"].work = "none"
  BY <1>1 DEF IInv, Good, Rights, Started, Worker, Early
<1>10. proc[p].code = 33 => proc[p].err = "elevation"
  BY <1>3, <1>4, <1>5
<1>11. ASSUME proc[p].err = "elevation", NEW q \in Process PROVE proc[q].work = "none"
  <2>1. p = "first" /\ proc[p].work = "none" /\ proc["elevated"].work = "none"
    BY <1>3, <1>7, <1>9, <1>11, Zenon
  <2>2. QED
    BY <1>2, <2>1 DEF Process
<1>12. ASSUME proc[p].code = 0
       PROVE  \/ proc[p].work = "ok" \/ proc[p].declined
              \/ proc[p].work = "none" /\ Started("elevated")
  <2>1. proc[p].code # 2 /\ (proc[p].err = "none" \/ proc[p].err = "relaunched")
    BY <1>3, <1>4, <1>5, <1>12
  <2>2. CASE proc[p].err = "none"
    BY <1>6, <2>1, <2>2
  <2>3. CASE proc[p].err = "relaunched"
    BY <1>3, <2>3
  <2>4. QED
    BY <2>1, <2>2, <2>3
<1>13. proc[p].code \notin {0, 33} => proc[p].work # "ok" \/ faults > 0
  BY <1>2, <1>3, <1>4, <1>5
<1>14. world.required = "yes" /\ ~Elevated(p) /\ faults = 0 /\ ~proc[p].declined
         /\ proc[p].mode # "none" /\ world.readable =>
           proc[p].code = IF Started("elevated") THEN 0 ELSE 33
  BY <1>3, <1>4, <1>5, <1>6, <1>7, <1>8
<1>15. QED
  BY <1>3, <1>10, <1>11, <1>12, <1>13, <1>14

THEOREM HonestExit == Spec => []ExitHonest
BY Inductive, IInvHonest, PTL

(* If no window breaks, a run with a window tells of its failure as often  *)
(* as it should, whatever was asked for and wherever it failed.            *)
LEMMA IInvTells == IInv => ReportedOnce
BY DEF IInv, Good, Reports, Told, ReportedOnce, Done, Worker

THEOREM ToldOnce == Spec => []ReportedOnce
BY Inductive, IInvTells, PTL

-----------------------------------------------------------------------------
(* Types.  How often a process has told of its failure depends on where it *)
(* stands, whatever breaks meanwhile.                                      *)
WellTyped(r) ==
  /\ r.pc \in {"off", "parsing", "unpacking", "choosing", "confirming", "reading", "opening",
              "checking", "consent", "working", "farewell", "failing", "waiting", "returned",
              "success", "apology", "ending", "lastword", "cleaning", "asking", "done"}
  /\ r.mode \in {"none", "tui", "gui"}
  /\ r.err \in {"none", "error", "elevation", "relaunched"}
  /\ r.reports \in 0..2
  /\ r.work \in {"none", "begun", "ok", "failed"}
  /\ r.code \in {0, 1, 2, 33}
  /\ r.pc \in {"waiting", "ending", "lastword"} => r.reports \in {0, 1}
  /\ r.pc \in {"returned", "success"} => r.reports = 0 \/ (r.reports = 1 /\ r.marked = TRUE)
  /\ r.pc \notin {"waiting", "ending", "lastword", "returned", "success", "done"}
       => r.reports = 0

LaunchTyped ==
  /\ \A p \in Process : WellTyped(proc[p]) /\ (proc[p].mode = "gui" => UiAvailable(p))
  /\ faults \in 0..MaxFaults

(* It is enough to look at the process that moves. *)
LEMMA BecomesTyped ==
  ASSUME Shape, LaunchTyped, NEW p \in Process, NEW new, DOMAIN new = DOMAIN Idle,
         Becomes(p, new), Quietly \/ Broken, WellTyped(new), new.image = proc[p].image,
         new.mode = "gui" => UiAvailable(p)
  PROVE  LaunchTyped'
<1>1. world' = world /\ faults' \in 0..MaxFaults
  BY LaunchAssumption DEF Quietly, Broken, Fault, LaunchTyped
<1>2. Others(p) /\ proc'[p] = new
  BY BecomesOne
<1>3. WellTyped(proc[p])' /\ (proc'[p].mode = "gui" => UiAvailable(p)')
  <2>1. UiAvailable(p)' = UiAvailable(p)
    BY <1>1, <1>2 DEF UiAvailable
  <2> QED
    BY <1>2, <2>1 DEF WellTyped
<1>4. ASSUME NEW q \in Process \ {p}
      PROVE  WellTyped(proc[q])' /\ (proc'[q].mode = "gui" => UiAvailable(q)')
  <2>1. proc'[q] = proc[q] /\ UiAvailable(q)' = UiAvailable(q)
    BY <1>1, <1>2, <1>4 DEF Others, UiAvailable
  <2>2. WellTyped(proc[q]) /\ (proc[q].mode = "gui" => UiAvailable(q))
    BY DEF LaunchTyped
  <2> QED
    BY <2>1, <2>2 DEF WellTyped
<1> QED
  BY <1>1, <1>3, <1>4 DEF LaunchTyped

(* A step that only goes on, with an error or without *)
LEMMA MoveTyped ==
  ASSUME Shape, LaunchTyped, NEW p \in Process, Quietly \/ Broken,
         NEW next \in {"choosing", "reading", "opening", "checking", "consent", "farewell",
                       "failing", "returned", "success", "apology", "ending", "cleaning",
                       "asking", "done"},
         \/ To(p, next)
         \/ Error(p, "error", next)
         \/ Error(p, "elevation", next),
         \/ proc[p].reports = 0
         \/ proc[p].reports = 1 /\ next \in {"ending", "done"}
         \/ proc[p].reports = 1 /\ proc[p].marked = TRUE /\ next = "success"
  PROVE  LaunchTyped'
<1>0. DOMAIN proc[p] = DOMAIN Idle /\ WellTyped(proc[p]) /\ (proc[p].mode = "gui" => UiAvailable(p))
  BY DEF Shape, LaunchTyped
<1>1. PICK e \in {proc[p].err, "error", "elevation"} :
        Becomes(p, [proc[p] EXCEPT !.err = e, !.pc = next])
  <2>1. CASE To(p, next)
    <3>1. [proc[p] EXCEPT !.pc = next] = [proc[p] EXCEPT !.err = proc[p].err, !.pc = next]
      BY <1>0, RecordFields
    <3> QED
      BY <2>1, <3>1 DEF To
  <2>2. CASE Error(p, "error", next) \/ Error(p, "elevation", next)
    BY <2>2 DEF Error
  <2> QED
    BY <2>1, <2>2
<1> DEFINE new == [proc[p] EXCEPT !.err = e, !.pc = next]
<1>2. DOMAIN new = DOMAIN Idle /\ new.image = proc[p].image /\ new.mode = proc[p].mode
        /\ WellTyped(new)
  BY <1>0, <1>1, RecordFields DEF WellTyped
<1> HIDE DEF new
<1>3. Becomes(p, new)
  BY <1>1 DEF new
<1> QED
  BY <1>0, <1>2, <1>3, BecomesTyped

(* clap ends a process, finds a bundle or a command.                       *)
LEMMA ParseTyped ==
  ASSUME Shape, LaunchTyped, NEW p \in Process, Parse(p)
  PROVE  LaunchTyped'
<1>0. /\ DOMAIN proc[p] = DOMAIN Idle /\ WellTyped(proc[p])
      /\ proc[p].mode = "gui" => UiAvailable(p)
      /\ proc[p].pc = "parsing"
  BY DEF Shape, LaunchTyped, Parse
<1>1. CASE Becomes(p, [proc[p] EXCEPT !.pc = "done", !.code = 2]) /\ Quietly
  <2> DEFINE new == [proc[p] EXCEPT !.pc = "done", !.code = 2]
  <2>1. /\ DOMAIN new = DOMAIN Idle /\ new.image = proc[p].image
        /\ WellTyped(new) /\ (new.mode = "gui" => UiAvailable(p))
    BY <1>0, <1>1, RecordFields DEF WellTyped
  <2> HIDE DEF new
  <2>2. Becomes(p, new)
    BY <1>1 DEF new
  <2> QED
    BY <1>1, <2>1, <2>2, BecomesTyped
<1>2. CASE Becomes(p, [proc[p] EXCEPT !.pc = "unpacking", !.bundled = TRUE]) /\ Quietly
  <2> DEFINE new == [proc[p] EXCEPT !.pc = "unpacking", !.bundled = TRUE]
  <2>1. /\ DOMAIN new = DOMAIN Idle /\ new.image = proc[p].image
        /\ WellTyped(new) /\ (new.mode = "gui" => UiAvailable(p))
    BY <1>0, <1>2, RecordFields DEF WellTyped
  <2> HIDE DEF new
  <2>2. Becomes(p, new)
    BY <1>2 DEF new
  <2> QED
    BY <1>2, <2>1, <2>2, BecomesTyped
<1>3. CASE Error(p, "error", "ending") /\ Quietly
  BY <1>0, <1>3, MoveTyped DEF WellTyped
<1>4. CASE To(p, "choosing") /\ Quietly
  BY <1>0, <1>4, MoveTyped DEF WellTyped
<1> QED
  BY <1>1, <1>2, <1>3, <1>4 DEF Parse

(* A bundle is unpacked, or cannot be.                                     *)
LEMMA UnpackTyped ==
  ASSUME Shape, LaunchTyped, NEW p \in Process, Unpack(p)
  PROVE  LaunchTyped'
<1>0. /\ DOMAIN proc[p] = DOMAIN Idle /\ WellTyped(proc[p])
      /\ proc[p].mode = "gui" => UiAvailable(p)
      /\ proc[p].pc = "unpacking"
  BY DEF Shape, LaunchTyped, Unpack
<1>1. CASE Becomes(p, [proc[p] EXCEPT !.unpacked = Unpacked(ReadBundle(Bytes(p)).files),
                                     !.pc = "choosing"]) /\ Quietly
  <2> DEFINE new == [proc[p] EXCEPT !.unpacked = Unpacked(ReadBundle(Bytes(p)).files),
                                     !.pc = "choosing"]
  <2>1. /\ DOMAIN new = DOMAIN Idle /\ new.image = proc[p].image
        /\ WellTyped(new) /\ (new.mode = "gui" => UiAvailable(p))
    BY <1>0, <1>1, RecordFields DEF WellTyped
  <2> HIDE DEF new
  <2>2. Becomes(p, new)
    BY <1>1 DEF new
  <2> QED
    BY <1>1, <2>1, <2>2, BecomesTyped
<1>2. CASE Error(p, "error", "ending") /\ Broken
  BY <1>0, <1>2, MoveTyped DEF WellTyped
<1> QED
  BY <1>1, <1>2 DEF Unpack

(* The user agrees, declines, or the question breaks.                      *)
LEMMA ConfirmTyped ==
  ASSUME Shape, LaunchTyped, NEW p \in Process, Confirm(p)
  PROVE  LaunchTyped'
<1>0. /\ DOMAIN proc[p] = DOMAIN Idle /\ WellTyped(proc[p])
      /\ proc[p].mode = "gui" => UiAvailable(p)
      /\ proc[p].pc = "confirming"
  BY DEF Shape, LaunchTyped, Confirm
<1>1. CASE To(p, "reading") /\ Quietly
  BY <1>0, <1>1, MoveTyped DEF WellTyped
<1>2. CASE Becomes(p, [proc[p] EXCEPT !.declined = TRUE, !.pc = "ending"]) /\ Quietly
  <2> DEFINE new == [proc[p] EXCEPT !.declined = TRUE, !.pc = "ending"]
  <2>1. /\ DOMAIN new = DOMAIN Idle /\ new.image = proc[p].image
        /\ WellTyped(new) /\ (new.mode = "gui" => UiAvailable(p))
    BY <1>0, <1>2, RecordFields DEF WellTyped
  <2> HIDE DEF new
  <2>2. Becomes(p, new)
    BY <1>2 DEF new
  <2> QED
    BY <1>2, <2>1, <2>2, BecomesTyped
<1>3. CASE Error(p, "error", "ending") /\ Broken
  BY <1>0, <1>3, MoveTyped DEF WellTyped
<1> QED
  BY <1>1, <1>2, <1>3 DEF Confirm

(* The input is read.                                                      *)
LEMMA ReadInputTyped ==
  ASSUME Shape, LaunchTyped, NEW p \in Process, ReadInput(p)
  PROVE  LaunchTyped'
<1>0. /\ DOMAIN proc[p] = DOMAIN Idle /\ WellTyped(proc[p])
      /\ proc[p].mode = "gui" => UiAvailable(p)
      /\ proc[p].pc = "reading"
  BY DEF Shape, LaunchTyped, ReadInput
<1>1. CASE To(p, "opening") /\ Quietly
  BY <1>0, <1>1, MoveTyped DEF WellTyped
<1>2. CASE Error(p, "error", "returned") /\ Quietly
  BY <1>0, <1>2, MoveTyped DEF WellTyped
<1> QED
  BY <1>1, <1>2 DEF ReadInput

(* The progress window opens.                                              *)
LEMMA OpenProgressTyped ==
  ASSUME Shape, LaunchTyped, NEW p \in Process, OpenProgress(p)
  PROVE  LaunchTyped'
<1>0. /\ DOMAIN proc[p] = DOMAIN Idle /\ WellTyped(proc[p])
      /\ proc[p].mode = "gui" => UiAvailable(p)
      /\ proc[p].pc = "opening"
  BY DEF Shape, LaunchTyped, OpenProgress
<1>1. CASE To(p, "checking") /\ Quietly
  BY <1>0, <1>1, MoveTyped DEF WellTyped
<1>2. CASE Error(p, "error", "returned") /\ Broken
  BY <1>0, <1>2, MoveTyped DEF WellTyped
<1> QED
  BY <1>1, <1>2 DEF OpenProgress

(* Rights are there, asked for or missing.                                 *)
LEMMA CheckRightsTyped ==
  ASSUME Shape, LaunchTyped, NEW p \in Process, CheckRights(p)
  PROVE  LaunchTyped'
<1>0. /\ DOMAIN proc[p] = DOMAIN Idle /\ WellTyped(proc[p])
      /\ proc[p].mode = "gui" => UiAvailable(p)
      /\ proc[p].pc = "checking"
  BY DEF Shape, LaunchTyped, CheckRights
<1>1. CASE Becomes(p, [proc[p] EXCEPT !.work = "begun", !.pc = "working"]) /\ Quietly
  <2> DEFINE new == [proc[p] EXCEPT !.work = "begun", !.pc = "working"]
  <2>1. /\ DOMAIN new = DOMAIN Idle /\ new.image = proc[p].image
        /\ WellTyped(new) /\ (new.mode = "gui" => UiAvailable(p))
    BY <1>0, <1>1, RecordFields DEF WellTyped
  <2> HIDE DEF new
  <2>2. Becomes(p, new)
    BY <1>1 DEF new
  <2> QED
    BY <1>1, <2>1, <2>2, BecomesTyped
<1>2. CASE To(p, "consent") /\ Quietly
  BY <1>0, <1>2, MoveTyped DEF WellTyped
<1>3. CASE Error(p, "elevation", "failing") /\ Quietly
  BY <1>0, <1>3, MoveTyped DEF WellTyped
<1>4. CASE Error(p, "error", "failing") /\ Broken
  BY <1>0, <1>4, MoveTyped DEF WellTyped
<1>5. CASE Error(p, "error", "failing") /\ Quietly
  BY <1>0, <1>5, MoveTyped DEF WellTyped
<1> QED
  BY <1>1, <1>2, <1>3, <1>4, <1>5 DEF CheckRights

(* The work fails.                                                         *)
LEMMA WorkFailsTyped ==
  ASSUME Shape, LaunchTyped, NEW p \in Process, WorkFails(p)
  PROVE  LaunchTyped'
<1>0. /\ DOMAIN proc[p] = DOMAIN Idle /\ WellTyped(proc[p])
      /\ proc[p].mode = "gui" => UiAvailable(p)
      /\ proc[p].pc = "working"
  BY DEF Shape, LaunchTyped, WorkFails
<1>1. CASE Becomes(p, [proc[p] EXCEPT !.work = "failed", !.err = "error", !.pc = "failing"]) /\ Quietly
  <2> DEFINE new == [proc[p] EXCEPT !.work = "failed", !.err = "error", !.pc = "failing"]
  <2>1. /\ DOMAIN new = DOMAIN Idle /\ new.image = proc[p].image
        /\ WellTyped(new) /\ (new.mode = "gui" => UiAvailable(p))
    BY <1>0, <1>1, RecordFields DEF WellTyped
  <2> HIDE DEF new
  <2>2. Becomes(p, new)
    BY <1>1 DEF new
  <2> QED
    BY <1>1, <2>1, <2>2, BecomesTyped
<1> QED
  BY <1>1 DEF WorkFails

(* The work is done.                                                       *)
LEMMA WorkDoneTyped ==
  ASSUME Shape, LaunchTyped, NEW p \in Process, WorkDone(p)
  PROVE  LaunchTyped'
<1>0. /\ DOMAIN proc[p] = DOMAIN Idle /\ WellTyped(proc[p])
      /\ proc[p].mode = "gui" => UiAvailable(p)
      /\ proc[p].pc = "working"
  BY DEF Shape, LaunchTyped, WorkDone
<1>1. CASE Becomes(p, [proc[p] EXCEPT !.work = "ok", !.pc = "returned"]) /\ Quietly
  <2> DEFINE new == [proc[p] EXCEPT !.work = "ok", !.pc = "returned"]
  <2>1. /\ DOMAIN new = DOMAIN Idle /\ new.image = proc[p].image
        /\ WellTyped(new) /\ (new.mode = "gui" => UiAvailable(p))
    BY <1>0, <1>1, RecordFields DEF WellTyped
  <2> HIDE DEF new
  <2>2. Becomes(p, new)
    BY <1>1 DEF new
  <2> QED
    BY <1>1, <2>1, <2>2, BecomesTyped
<1> QED
  BY <1>1 DEF WorkDone

(* So is an uninstallation without a helper.                               *)
LEMMA UninstallDoneTyped ==
  ASSUME Shape, LaunchTyped, NEW p \in Process, UninstallDone(p)
  PROVE  LaunchTyped'
<1>0. /\ DOMAIN proc[p] = DOMAIN Idle /\ WellTyped(proc[p])
      /\ proc[p].mode = "gui" => UiAvailable(p)
      /\ proc[p].pc = "working"
  BY DEF Shape, LaunchTyped, UninstallDone
<1>1. CASE Becomes(p, [proc[p] EXCEPT !.work = "ok",
                                !.pc = IF Window(p) THEN "farewell" ELSE "returned"]) /\ Quietly
  <2> DEFINE new == [proc[p] EXCEPT !.work = "ok",
                                !.pc = IF Window(p) THEN "farewell" ELSE "returned"]
  <2>1. /\ DOMAIN new = DOMAIN Idle /\ new.image = proc[p].image
        /\ WellTyped(new) /\ (new.mode = "gui" => UiAvailable(p))
    BY <1>0, <1>1, RecordFields DEF WellTyped
  <2> HIDE DEF new
  <2>2. Becomes(p, new)
    BY <1>1 DEF new
  <2> QED
    BY <1>1, <2>1, <2>2, BecomesTyped
<1> QED
  BY <1>1 DEF UninstallDone

(* The user is told of the success.                                        *)
LEMMA FarewellTyped ==
  ASSUME Shape, LaunchTyped, NEW p \in Process, Farewell(p)
  PROVE  LaunchTyped'
<1>0. /\ DOMAIN proc[p] = DOMAIN Idle /\ WellTyped(proc[p])
      /\ proc[p].mode = "gui" => UiAvailable(p)
      /\ proc[p].pc = "farewell"
  BY DEF Shape, LaunchTyped, Farewell
<1>1. CASE To(p, IF p = "helper" THEN "ending" ELSE "returned") /\ Quietly
  BY <1>0, <1>1, MoveTyped DEF WellTyped
<1>2. CASE Error(p, "error", IF p = "helper" THEN "ending" ELSE "failing") /\ Broken
  BY <1>0, <1>2, MoveTyped DEF WellTyped
<1> QED
  BY <1>1, <1>2 DEF Farewell

(* A failure is shown once.                                                *)
LEMMA ShowFailureTyped ==
  ASSUME Shape, LaunchTyped, NEW p \in Process, ShowFailure(p)
  PROVE  LaunchTyped'
<1>0. /\ DOMAIN proc[p] = DOMAIN Idle /\ WellTyped(proc[p])
      /\ proc[p].mode = "gui" => UiAvailable(p)
      /\ proc[p].pc = "failing"
  BY DEF Shape, LaunchTyped, ShowFailure
<1>1. CASE To(p, "returned") /\ Quietly
  BY <1>0, <1>1, MoveTyped DEF WellTyped
<1>2. CASE Becomes(p, [proc[p] EXCEPT !.reports = @ + 1, !.pc = "waiting"]) /\ Quietly
  <2> DEFINE new == [proc[p] EXCEPT !.reports = @ + 1, !.pc = "waiting"]
  <2>1. /\ DOMAIN new = DOMAIN Idle /\ new.image = proc[p].image
        /\ WellTyped(new) /\ (new.mode = "gui" => UiAvailable(p))
    BY <1>0, <1>2, RecordFields DEF WellTyped, Mark
  <2> HIDE DEF new
  <2>2. Becomes(p, new)
    BY <1>2 DEF new
  <2> QED
    BY <1>2, <2>1, <2>2, BecomesTyped
<1>3. CASE Becomes(p, [proc[p] EXCEPT !.reports = @ + 1, !.marked = Mark(p),
                                            !.pc = "returned"]) /\ Quietly
  <2> DEFINE new == [proc[p] EXCEPT !.reports = @ + 1, !.marked = Mark(p),
                                            !.pc = "returned"]
  <2>1. /\ DOMAIN new = DOMAIN Idle /\ new.image = proc[p].image
        /\ WellTyped(new) /\ (new.mode = "gui" => UiAvailable(p))
    BY <1>0, <1>3, RecordFields DEF WellTyped, Mark
  <2> HIDE DEF new
  <2>2. Becomes(p, new)
    BY <1>3 DEF new
  <2> QED
    BY <1>3, <2>1, <2>2, BecomesTyped
<1>4. CASE To(p, "returned") /\ Broken
  BY <1>0, <1>4, MoveTyped DEF WellTyped
<1> QED
  BY <1>1, <1>2, <1>3, <1>4 DEF ShowFailure

(* The user has seen it.                                                   *)
LEMMA CloseFailureTyped ==
  ASSUME Shape, LaunchTyped, NEW p \in Process, CloseFailure(p)
  PROVE  LaunchTyped'
<1>0. /\ DOMAIN proc[p] = DOMAIN Idle /\ WellTyped(proc[p])
      /\ proc[p].mode = "gui" => UiAvailable(p)
      /\ proc[p].pc = "waiting"
  BY DEF Shape, LaunchTyped, CloseFailure
<1>1. CASE Becomes(p, [proc[p] EXCEPT !.marked = Mark(p), !.pc = "returned"]) /\ Quietly
  <2> DEFINE new == [proc[p] EXCEPT !.marked = Mark(p), !.pc = "returned"]
  <2>1. /\ DOMAIN new = DOMAIN Idle /\ new.image = proc[p].image
        /\ WellTyped(new) /\ (new.mode = "gui" => UiAvailable(p))
    BY <1>0, <1>1, RecordFields DEF WellTyped, Mark
  <2> HIDE DEF new
  <2>2. Becomes(p, new)
    BY <1>1 DEF new
  <2> QED
    BY <1>1, <2>1, <2>2, BecomesTyped
<1> QED
  BY <1>1 DEF CloseFailure

(* A packaged installer has a last window.                                 *)
LEMMA ReturnTyped ==
  ASSUME Shape, LaunchTyped, NEW p \in Process, Return(p)
  PROVE  LaunchTyped'
<1>0. /\ DOMAIN proc[p] = DOMAIN Idle /\ WellTyped(proc[p])
      /\ proc[p].mode = "gui" => UiAvailable(p)
      /\ proc[p].pc = "returned"
  BY DEF Shape, LaunchTyped, Return
<1>1. CASE To(p, "success") /\ Quietly
  BY <1>0, <1>1, MoveTyped DEF WellTyped
<1>2. CASE ~proc[p].marked /\ To(p, "apology") /\ Quietly
  BY <1>0, <1>2, MoveTyped DEF WellTyped
<1>3. CASE To(p, "ending") /\ Quietly
  BY <1>0, <1>3, MoveTyped DEF WellTyped
<1> QED
  BY <1>1, <1>2, <1>3 DEF Return

(* It tells of the success,                                                *)
LEMMA SuccessTyped ==
  ASSUME Shape, LaunchTyped, NEW p \in Process, Success(p)
  PROVE  LaunchTyped'
<1>0. /\ DOMAIN proc[p] = DOMAIN Idle /\ WellTyped(proc[p])
      /\ proc[p].mode = "gui" => UiAvailable(p)
      /\ proc[p].pc = "success"
  BY DEF Shape, LaunchTyped, Success
<1>1. CASE To(p, "ending") /\ Quietly
  BY <1>0, <1>1, MoveTyped DEF WellTyped
<1>2. CASE Error(p, "error", "ending") /\ Broken
  BY <1>0, <1>2, MoveTyped DEF WellTyped
<1> QED
  BY <1>1, <1>2 DEF Success

(* or of a failure nobody was told of.                                     *)
LEMMA ApologyTyped ==
  ASSUME Shape, LaunchTyped, NEW p \in Process, Apology(p)
  PROVE  LaunchTyped'
<1>0. /\ DOMAIN proc[p] = DOMAIN Idle /\ WellTyped(proc[p])
      /\ proc[p].mode = "gui" => UiAvailable(p)
      /\ proc[p].pc = "apology"
  BY DEF Shape, LaunchTyped, Apology
<1>1. CASE Becomes(p, [proc[p] EXCEPT !.reports = @ + 1, !.pc = "ending"]) /\ Quietly
  <2> DEFINE new == [proc[p] EXCEPT !.reports = @ + 1, !.pc = "ending"]
  <2>1. /\ DOMAIN new = DOMAIN Idle /\ new.image = proc[p].image
        /\ WellTyped(new) /\ (new.mode = "gui" => UiAvailable(p))
    BY <1>0, <1>1, RecordFields DEF WellTyped
  <2> HIDE DEF new
  <2>2. Becomes(p, new)
    BY <1>1 DEF new
  <2> QED
    BY <1>1, <2>1, <2>2, BecomesTyped
<1>2. CASE Error(p, "error", "ending") /\ Broken
  BY <1>0, <1>2, MoveTyped DEF WellTyped
<1> QED
  BY <1>1, <1>2 DEF Apology

(* main tells of it once more.                                             *)
LEMMA LastWordTyped ==
  ASSUME Shape, LaunchTyped, NEW p \in Process, LastWord(p)
  PROVE  LaunchTyped'
<1>0. /\ DOMAIN proc[p] = DOMAIN Idle /\ WellTyped(proc[p])
      /\ proc[p].mode = "gui" => UiAvailable(p)
      /\ proc[p].pc = "lastword"
  BY DEF Shape, LaunchTyped, LastWord
<1>1. CASE Becomes(p, [proc[p] EXCEPT !.reports = @ + 1, !.pc = "done"]) /\ Quietly
  <2> DEFINE new == [proc[p] EXCEPT !.reports = @ + 1, !.pc = "done"]
  <2>1. /\ DOMAIN new = DOMAIN Idle /\ new.image = proc[p].image
        /\ WellTyped(new) /\ (new.mode = "gui" => UiAvailable(p))
    BY <1>0, <1>1, RecordFields DEF WellTyped
  <2> HIDE DEF new
  <2>2. Becomes(p, new)
    BY <1>1 DEF new
  <2> QED
    BY <1>1, <2>1, <2>2, BecomesTyped
<1>2. CASE To(p, "done") /\ Broken
  BY <1>0, <1>2, MoveTyped DEF WellTyped
<1> QED
  BY <1>1, <1>2 DEF LastWord

(* The helper has cleaned.                                                 *)
LEMMA CleanTyped ==
  ASSUME Shape, LaunchTyped, NEW p \in Process, Clean(p)
  PROVE  LaunchTyped'
<1>0. /\ DOMAIN proc[p] = DOMAIN Idle /\ WellTyped(proc[p])
      /\ proc[p].mode = "gui" => UiAvailable(p)
      /\ proc[p].pc = "cleaning"
  BY DEF Shape, LaunchTyped, Clean
<1>1. CASE To(p, IF Window(p) THEN "farewell" ELSE "ending") /\ Quietly
  BY <1>0, <1>1, MoveTyped DEF WellTyped
<1>2. CASE Error(p, "error", "ending") /\ Broken
  BY <1>0, <1>2, MoveTyped DEF WellTyped
<1>3. CASE To(p, "asking") /\ Quietly
  BY <1>0, <1>3, MoveTyped DEF WellTyped
<1> QED
  BY <1>1, <1>2, <1>3 DEF Clean

(* The helper has its answer.                                              *)
LEMMA AnswerRebootTyped ==
  ASSUME Shape, LaunchTyped, NEW p \in Process, AnswerReboot(p)
  PROVE  LaunchTyped'
<1>1. WellTyped(proc[p]) /\ proc[p].pc = "asking"
  BY DEF LaunchTyped, AnswerReboot
<1>2. CASE To(p, "ending") /\ Quietly
  BY <1>1, <1>2, MoveTyped DEF WellTyped
<1>3. CASE Error(p, "error", "ending") /\ Broken
  BY <1>1, <1>3, MoveTyped DEF WellTyped
<1> QED
  BY <1>2, <1>3 DEF AnswerReboot

(* A window is chosen where there is one.                                  *)
LEMMA ChooseTyped ==
  ASSUME Shape, LaunchTyped, NEW p \in Process, Choose(p)
  PROVE  LaunchTyped'
<1>0. /\ DOMAIN proc[p] = DOMAIN Idle /\ WellTyped(proc[p])
      /\ proc[p].pc = "choosing"
  BY DEF Shape, LaunchTyped, Choose
<1> DEFINE mode == SelectUi(proc[p].args, UiAvailable(p))
<1>1. /\ mode \in {"none", "tui", "gui", "error"}
      /\ mode = "gui" => UiAvailable(p)
  BY GuiAsked DEF SelectUi
<1> HIDE DEF mode
<1>2. CASE Error(p, "error", "ending") /\ Quietly
  BY <1>0, <1>2, MoveTyped DEF WellTyped, LaunchTyped
<1>3. CASE mode # "error"
  <2>1. PICK next \in {"cleaning", "confirming", "reading"} :
          Becomes(p, [proc[p] EXCEPT !.mode = mode, !.pc = next]) /\ Quietly
    <3> DEFINE next == CASE p = "helper" -> "cleaning"
                         [] p # "helper" /\ proc[p].bundled /\ mode = "gui"
                              /\ ~Asks(p, "--automation") -> "confirming"
                         [] OTHER -> "reading"
    <3>1. next \in {"cleaning", "confirming", "reading"}
      OBVIOUS
    <3>2. Becomes(p, [proc[p] EXCEPT !.mode = mode, !.pc = next]) /\ Quietly
      BY <1>3 DEF Choose, mode
    <3> QED
      BY <3>1, <3>2
  <2> DEFINE new == [proc[p] EXCEPT !.mode = mode, !.pc = next]
  <2>2. /\ DOMAIN new = DOMAIN Idle /\ new.image = proc[p].image
        /\ WellTyped(new) /\ (new.mode = "gui" => UiAvailable(p))
    BY <1>0, <1>1, <1>3, <2>1, RecordFields DEF WellTyped
  <2> HIDE DEF new
  <2>3. Becomes(p, new)
    BY <2>1 DEF new
  <2> QED
    BY <2>1, <2>2, <2>3, BecomesTyped
<1> QED
  BY <1>2, <1>3 DEF Choose, mode

(* A process ends, with a last word of main or without.                    *)
LEMMA EndTyped ==
  ASSUME Shape, LaunchTyped, NEW p \in Process, End(p)
  PROVE  LaunchTyped'
<1>0. /\ DOMAIN proc[p] = DOMAIN Idle /\ WellTyped(proc[p])
      /\ proc[p].mode = "gui" => UiAvailable(p)
      /\ proc[p].pc = "ending"
  BY DEF Shape, LaunchTyped, End
<1>1. PICK next \in {"lastword", "done"}, code \in {0, 1, 33} :
        Becomes(p, [proc[p] EXCEPT !.pc = next, !.code = code]) /\ Quietly
  <2> DEFINE next == IF /\ proc[p].bundled /\ proc[p].err \notin {"none", "relaunched"}
                        /\ Asks(p, "--headed") /\ ~Asks(p, "--automation")
                        /\ ~Asks(p, "--json") /\ UiAvailable(p) /\ ~proc[p].marked
                     THEN "lastword" ELSE "done"
  <2>1. next \in {"lastword", "done"}
    OBVIOUS
  <2>2. ExitCode(p) \in {0, 1, 33}
    BY DEF ExitCode
  <2>3. Becomes(p, [proc[p] EXCEPT !.pc = next, !.code = ExitCode(p)]) /\ Quietly
    BY DEF End
  <2> QED
    BY <2>1, <2>2, <2>3
<1> DEFINE new == [proc[p] EXCEPT !.pc = next, !.code = code]
<1>2. /\ DOMAIN new = DOMAIN Idle /\ new.image = proc[p].image
      /\ WellTyped(new) /\ (new.mode = "gui" => UiAvailable(p))
  BY <1>0, <1>1, RecordFields DEF WellTyped
<1> HIDE DEF new
<1>3. Becomes(p, new)
  BY <1>1 DEF new
<1> QED
  BY <1>1, <1>2, <1>3, BecomesTyped

(* When two processes move, each either has no interface yet or keeps it.  *)
LEMMA BothTyped ==
  ASSUME LaunchTyped, Quietly,
         \A p \in Process :
           /\ WellTyped(proc'[p])
           /\ \/ proc'[p].mode = "none"
              \/ proc'[p].mode = proc[p].mode /\ proc'[p].image = proc[p].image
  PROVE  LaunchTyped'
<1>1. world' = world /\ faults' = faults
  BY DEF Quietly
<1>2. ASSUME NEW p \in Process PROVE proc'[p].mode = "gui" => UiAvailable(p)'
  BY <1>1 DEF LaunchTyped, UiAvailable
<1> QED
  BY <1>1, <1>2 DEF LaunchTyped, WellTyped

(* The elevated process starts, or the user declines.                      *)
LEMMA ConsentTyped ==
  ASSUME Shape, LaunchTyped, NEW p \in Process, Consent(p)
  PROVE  LaunchTyped'
<1>0. /\ DOMAIN proc[p] = DOMAIN Idle /\ WellTyped(proc[p])
      /\ proc[p].mode = "gui" => UiAvailable(p)
      /\ proc[p].pc = "consent" /\ DOMAIN proc = Process
  BY DEF Shape, LaunchTyped, Consent
<1>1. CASE proc["elevated"].pc = "off" /\ proc' = Relaunch(p) /\ Quietly
  <2>1. p # "elevated"
    BY <1>0, <1>1
  <2>2. /\ proc'["elevated"] = [Idle EXCEPT !.pc = "parsing", !.image = proc[p].image,
                                            !.args = Argv(Parameters(proc[p].args))]
        /\ proc'[p] = [proc[p] EXCEPT !.err = "relaunched", !.pc = "failing"]
        /\ \A q \in Process \ {p, "elevated"} : proc'[q] = proc[q]
    BY <1>0, <1>1, <2>1 DEF Relaunch, Process
  <2>3. WellTyped(proc'["elevated"]) /\ proc'["elevated"].mode = "none"
    BY <2>2 DEF WellTyped, Idle
  <2>4. /\ WellTyped(proc'[p])
        /\ proc'[p].mode = proc[p].mode /\ proc'[p].image = proc[p].image
    BY <1>0, <2>2, RecordFields DEF WellTyped
  <2> QED
    BY <1>1, <2>2, <2>3, <2>4, BothTyped DEF LaunchTyped
<1>2. CASE /\ Becomes(p, [proc[p] EXCEPT !.err = "error", !.declined = TRUE,
                                         !.pc = "failing"])
           /\ Quietly
  <2> DEFINE new == [proc[p] EXCEPT !.err = "error", !.declined = TRUE, !.pc = "failing"]
  <2>1. /\ DOMAIN new = DOMAIN Idle /\ new.image = proc[p].image
        /\ WellTyped(new) /\ (new.mode = "gui" => UiAvailable(p))
    BY <1>0, <1>2, RecordFields DEF WellTyped
  <2> HIDE DEF new
  <2>2. Becomes(p, new)
    BY <1>2 DEF new
  <2> QED
    BY <1>2, <2>1, <2>2, BecomesTyped
<1> QED
  BY <1>1, <1>2 DEF Consent

(* The helper starts, or cannot.                                           *)
LEMMA HandOverTyped ==
  ASSUME Shape, LaunchTyped, NEW p \in Process, HandOver(p)
  PROVE  LaunchTyped'
<1>0. /\ DOMAIN proc[p] = DOMAIN Idle /\ WellTyped(proc[p])
      /\ proc[p].mode = "gui" => UiAvailable(p)
      /\ proc[p].pc = "working" /\ proc["helper"].pc = "off" /\ DOMAIN proc = Process
  BY DEF Shape, LaunchTyped, HandOver
<1>1. ASSUME NEW given,
             proc' = [proc EXCEPT ![p] = [@ EXCEPT !.work = "ok", !.pc = "returned"],
                                  !["helper"] = [Idle EXCEPT !.pc = "parsing",
                                                   !.image = "helper", !.args = given]],
             Quietly
      PROVE  LaunchTyped'
  <2>1. p # "helper"
    BY <1>0
  <2>2. /\ proc'["helper"] = [Idle EXCEPT !.pc = "parsing", !.image = "helper",
                                          !.args = given]
        /\ proc'[p] = [proc[p] EXCEPT !.work = "ok", !.pc = "returned"]
        /\ \A q \in Process \ {p, "helper"} : proc'[q] = proc[q]
    BY <1>0, <1>1, <2>1 DEF Process
  <2>3. WellTyped(proc'["helper"]) /\ proc'["helper"].mode = "none"
    BY <2>2 DEF WellTyped, Idle
  <2>4. /\ WellTyped(proc'[p])
        /\ proc'[p].mode = proc[p].mode /\ proc'[p].image = proc[p].image
    BY <1>0, <2>2, RecordFields DEF WellTyped
  <2> QED
    BY <1>1, <2>2, <2>3, <2>4, BothTyped DEF LaunchTyped
<1>2. CASE /\ Becomes(p, [proc[p] EXCEPT !.work = "failed", !.err = "error",
                                         !.pc = "failing"])
           /\ Broken
  <2> DEFINE new == [proc[p] EXCEPT !.work = "failed", !.err = "error", !.pc = "failing"]
  <2>1. /\ DOMAIN new = DOMAIN Idle /\ new.image = proc[p].image
        /\ WellTyped(new) /\ (new.mode = "gui" => UiAvailable(p))
    BY <1>0, <1>2, RecordFields DEF WellTyped
  <2> HIDE DEF new
  <2>2. Becomes(p, new)
    BY <1>2 DEF new
  <2> QED
    BY <1>2, <2>1, <2>2, BecomesTyped
<1> QED
  BY <1>1, <1>2 DEF HandOver

(* The first process starts.                                               *)
LEMMA StartTyped ==
  ASSUME Shape, LaunchTyped, NEW image, NEW args, Start(image, args)
  PROVE  LaunchTyped'
<1>1. /\ proc' = [proc EXCEPT !["first"] = [Idle EXCEPT !.pc = "parsing", !.image = image,
                                                        !.args = args]]
      /\ Quietly /\ DOMAIN proc = Process
  BY DEF Start, Becomes, Shape
<1>2. /\ proc'["first"] = [Idle EXCEPT !.pc = "parsing", !.image = image, !.args = args]
      /\ \A q \in Process \ {"first"} : proc'[q] = proc[q]
  BY <1>1 DEF Process
<1>3. WellTyped(proc'["first"]) /\ proc'["first"].mode = "none"
  BY <1>2 DEF WellTyped, Idle
<1> QED
  BY <1>1, <1>2, <1>3, BothTyped DEF LaunchTyped

(* Packaging starts nothing.                                               *)
LEMMA PackageTyped ==
  ASSUME LaunchTyped, NEW source, NEW stub, Package(source, stub)
  PROVE  LaunchTyped'
<1>1. proc' = proc /\ world' = world
  BY DEF Package
<1>2. faults' \in 0..MaxFaults
  BY LaunchAssumption DEF Package, Fault, LaunchTyped
<1> QED
  BY <1>1, <1>2 DEF LaunchTyped, WellTyped, UiAvailable

(* Every step keeps the types.                                             *)
LEMMA NextTyped ==
  ASSUME Shape, LaunchTyped, [Next]_vars
  PROVE  LaunchTyped'
<1>1. ASSUME NEW p \in Process, ProcessStep(p) PROVE LaunchTyped'
  BY <1>1, ParseTyped, UnpackTyped, ChooseTyped, ReadInputTyped, OpenProgressTyped,
     CheckRightsTyped, WorkFailsTyped, WorkDoneTyped, HandOverTyped, UninstallDoneTyped,
     ShowFailureTyped, ReturnTyped, EndTyped, CleanTyped DEF ProcessStep
<1>2. ASSUME NEW p \in Process, UserStep(p) PROVE LaunchTyped'
  BY <1>2, ConfirmTyped, ConsentTyped, CloseFailureTyped, FarewellTyped, SuccessTyped,
     ApologyTyped, LastWordTyped, AnswerRebootTyped DEF UserStep
<1>3. CASE UNCHANGED vars
  BY <1>3 DEF vars, LaunchTyped, WellTyped, UiAvailable
<1> QED
  BY <1>1, <1>2, <1>3, StartTyped, PackageTyped DEF Next

LEMMA InitTyped == Init => LaunchTyped
<1>1. WellTyped(Idle) /\ Idle.mode = "none"
  BY DEF WellTyped, Idle
<1> QED
  BY <1>1, LaunchAssumption DEF Init, LaunchTyped

(* What a process is, does and returns stays within its types: nobody      *)
(* has a window without the window's executable, nobody is told of a       *)
(* failure three times, for every command line, machine and package and    *)
(* any number of faults.                                                   *)
THEOREM LaunchTypeCorrect == Spec => []TypeOK
<1>1. IInv => Shape /\ world \in Worlds
  BY DEF IInv
<1>2. Spec => []LaunchTyped
  BY <1>1, Inductive, InitTyped, NextTyped, PTL DEF Spec
<1>3. LaunchTyped /\ world \in Worlds => TypeOK
  BY DEF LaunchTyped, WellTyped, TypeOK
<1> QED
  BY <1>1, <1>2, <1>3, Inductive, PTL

-----------------------------------------------------------------------------
(* What is handed on from process to process, and from a package to the    *)
(* process that runs it                                                    *)

(* on the way to the work, and in it *)
Busy == {"confirming", "reading", "opening", "checking", "consent", "working"}
Young == {"parsing", "unpacking", "choosing"}
(* past the work *)
Past == Late \cup {"farewell"}

(* what a process finds in itself *)
Found(p) == ReadBundle(Bytes(p)).files
Interface(p) == SelectUi(proc[p].args, UiAvailable(p))

(* Such a record follows that of p: arguments and image stay, a bundle is *)
(* one that was found, the interface is chosen once.                      *)
Fits(p, new) ==
  /\ DOMAIN new = DOMAIN Idle
  /\ new.pc \notin {"off", "parsing"}
  /\ new.image = proc[p].image /\ new.args = proc[p].args
  /\ new.bundled = proc[p].bundled \/ HasBundle(Bytes(p))
  /\ new.unpacked = proc[p].unpacked \/ new.unpacked = Unpacked(Found(p))
  /\ proc[p].pc = "parsing" /\ Understood(proc[p].args) /\ Command(proc[p].args) # "none"
       => new.pc = "choosing"
  /\ proc[p].pc # "choosing" => new.mode = proc[p].mode
  /\ proc[p].pc = "choosing" /\ Interface(p) # "error" => new.mode = Interface(p)
  /\ proc[p].pc \notin Young => new.pc \notin Young
  /\ new.pc = "unpacking" => proc[p].pc = "parsing"
  /\ new.pc \in Busy => \/ proc[p].pc \in Busy
                        \/ proc[p].pc = "choosing" /\ new.mode = Interface(p)
  /\ new.work = proc[p].work \/ proc[p].pc \in {"checking", "working"}
  /\ proc[p].pc \in Past => new.pc \in Past

(* p makes such a step. *)
GoesOn(p) ==
  /\ proc[p].pc # "off"
  /\ world' = world /\ installer' = installer
  /\ \E new : Becomes(p, new) /\ Fits(p, new)

(* A step that only moves on keeps arguments, image and interface. *)
LEMMA ToFits ==
  ASSUME Shape, NEW p \in Process, NEW next, To(p, next), Quietly \/ Broken,
         proc[p].pc # "off", next \notin {"off", "parsing", "unpacking"},
         proc[p].pc = "parsing" /\ Understood(proc[p].args) /\ Command(proc[p].args) # "none"
           => next = "choosing",
         proc[p].pc \notin Young => next \notin Young,
         proc[p].pc # "choosing",
         next \in Busy => proc[p].pc \in Busy,
         proc[p].pc \in Past => next \in Past
  PROVE  GoesOn(p)
<1> DEFINE new == [proc[p] EXCEPT !.pc = next]
<1>1. Fits(p, new)
  BY RecordFields DEF Shape, Fits
<1>2. Becomes(p, new)
  BY DEF To
<1> HIDE DEF new
<1> QED
  BY <1>1, <1>2 DEF GoesOn, Quietly, Broken

(* So does one that gives up. *)
LEMMA ErrorFits ==
  ASSUME Shape, NEW p \in Process, NEW e, NEW next, Error(p, e, next), Quietly \/ Broken,
         proc[p].pc # "off", next \in Past,
         proc[p].pc = "parsing" => Command(proc[p].args) = "none",
         proc[p].pc = "choosing" => Interface(p) = "error"
  PROVE  GoesOn(p)
<1> DEFINE new == [proc[p] EXCEPT !.err = e, !.pc = next]
<1>1. Fits(p, new)
  BY RecordFields DEF Shape, Fits, Past, Late, Busy, Young
<1>2. Becomes(p, new)
  BY DEF Error
<1> HIDE DEF new
<1> QED
  BY <1>1, <1>2 DEF GoesOn, Quietly, Broken

(* So does any step of one process to a record that follows its own. *)
LEMMA BecomesFits ==
  ASSUME NEW p \in Process, NEW new, Becomes(p, new), Fits(p, new), Quietly \/ Broken,
         proc[p].pc # "off"
  PROVE  GoesOn(p)
BY DEF GoesOn, Quietly, Broken

(* Parsing the command line keeps arguments, image and interface. *)
LEMMA ParseFits ==
  ASSUME Shape, NEW p \in Process, Parse(p)
  PROVE  GoesOn(p)
<1>1. proc[p].pc = "parsing" /\ Quietly /\ DOMAIN proc[p] = DOMAIN Idle
  BY DEF Parse, Shape
<1>2. CASE ~Understood(proc[p].args)
  <2> DEFINE new == [proc[p] EXCEPT !.pc = "done", !.code = 2]
  <2>1. Becomes(p, new)
    BY <1>2 DEF Parse
  <2>2. Fits(p, new)
    BY <1>1, <1>2, RecordFields DEF Fits, Past, Late, Busy, Young
  <2> HIDE DEF new
  <2> QED
    BY <1>1, <2>1, <2>2, BecomesFits
<1>3. CASE Understood(proc[p].args) /\ Command(proc[p].args) = "none" /\ HasBundle(Bytes(p))
  <2> DEFINE new == [proc[p] EXCEPT !.pc = "unpacking", !.bundled = TRUE]
  <2>1. Becomes(p, new)
    BY <1>3 DEF Parse
  <2>2. Fits(p, new)
    BY <1>1, <1>3, RecordFields DEF Fits, Past, Late, Busy, Young
  <2> HIDE DEF new
  <2> QED
    BY <1>1, <2>1, <2>2, BecomesFits
<1>4. CASE Understood(proc[p].args) /\ Command(proc[p].args) = "none" /\ ~HasBundle(Bytes(p))
  <2>1. Error(p, "error", "ending")
    BY <1>4 DEF Parse
  <2> QED
    BY <1>1, <1>4, <2>1, ErrorFits DEF Past, Late
<1>5. CASE Understood(proc[p].args) /\ Command(proc[p].args) # "none"
  <2>1. To(p, "choosing")
    BY <1>5 DEF Parse
  <2> QED
    BY <1>1, <2>1, ToFits DEF Past, Late, Busy, Young
<1> QED
  BY <1>2, <1>3, <1>4, <1>5

(* Unpacking the bundle keeps arguments, image and interface. *)
LEMMA UnpackFits ==
  ASSUME Shape, NEW p \in Process, Unpack(p)
  PROVE  GoesOn(p)
<1>1. proc[p].pc = "unpacking" /\ DOMAIN proc[p] = DOMAIN Idle
  BY DEF Unpack, Shape
<1> DEFINE found == Unpacked(Found(p))
           new == [proc[p] EXCEPT !.unpacked = found, !.pc = "choosing"]
<1> HIDE DEF found
<1>2. CASE Becomes(p, new) /\ Quietly
  <2>1. Fits(p, new)
    BY <1>1, RecordFields DEF Fits, Past, Late, Busy, Young, found
  <2> HIDE DEF new
  <2> QED
    BY <1>1, <1>2, <2>1, BecomesFits
<1>3. CASE Error(p, "error", "ending") /\ Broken
  BY <1>1, <1>3, ErrorFits DEF Past, Late
<1> QED
  BY <1>2, <1>3 DEF Unpack, found, Found

(* Choosing the interface keeps arguments, image and interface. *)
LEMMA ChooseFits ==
  ASSUME Shape, NEW p \in Process, Choose(p)
  PROVE  GoesOn(p)
<1>1. proc[p].pc = "choosing" /\ DOMAIN proc[p] = DOMAIN Idle /\ Quietly
  BY DEF Choose, Shape
<1> DEFINE mode == Interface(p)
           next == CASE p = "helper" -> "cleaning"
                     [] p # "helper" /\ proc[p].bundled /\ mode = "gui"
                          /\ ~Asks(p, "--automation") -> "confirming"
                     [] OTHER -> "reading"
           new == [proc[p] EXCEPT !.mode = mode, !.pc = next]
<1>2. next \in {"cleaning", "confirming", "reading"}
  OBVIOUS
<1>3. IF mode = "error" THEN Error(p, "error", "ending") ELSE Becomes(p, new)
  BY DEF Choose, Interface
<1> HIDE DEF mode, next
<1>4. CASE mode = "error"
  BY <1>1, <1>3, <1>4, ErrorFits DEF Past, Late, mode
<1>5. CASE mode # "error"
  <2>1. Fits(p, new)
    BY <1>1, <1>2, RecordFields DEF Fits, Past, Late, Busy, Young, mode
  <2> HIDE DEF new
  <2> QED
    BY <1>1, <1>3, <1>5, <2>1, BecomesFits
<1> QED
  BY <1>4, <1>5

(* Asking for confirmation keeps arguments, image and interface. *)
LEMMA ConfirmFits ==
  ASSUME Shape, NEW p \in Process, Confirm(p)
  PROVE  GoesOn(p)
<1>1. proc[p].pc = "confirming" /\ DOMAIN proc[p] = DOMAIN Idle
  BY DEF Confirm, Shape
<1>2. CASE To(p, "reading") /\ Quietly
  BY <1>1, <1>2, ToFits DEF Past, Late, Busy, Young
<1>3. CASE Becomes(p, [proc[p] EXCEPT !.declined = TRUE, !.pc = "ending"]) /\ Quietly
  <2> DEFINE new == [proc[p] EXCEPT !.declined = TRUE, !.pc = "ending"]
  <2>1. Fits(p, new)
    BY <1>1, <1>3, RecordFields DEF Fits, Past, Late, Busy, Young
  <2>2. Becomes(p, new)
    BY <1>3
  <2> HIDE DEF new
  <2> QED
    BY <1>1, <1>3, <2>1, <2>2, BecomesFits
<1>4. CASE Error(p, "error", "ending") /\ Broken
  BY <1>1, <1>4, ErrorFits DEF Past, Late
<1> QED
  BY <1>1, <1>2, <1>3, <1>4 DEF Confirm

(* Reading the answer keeps arguments, image and interface. *)
LEMMA ReadInputFits ==
  ASSUME Shape, NEW p \in Process, ReadInput(p)
  PROVE  GoesOn(p)
<1>1. proc[p].pc = "reading" /\ DOMAIN proc[p] = DOMAIN Idle
  BY DEF ReadInput, Shape
<1>2. CASE To(p, "opening") /\ Quietly
  BY <1>1, <1>2, ToFits DEF Past, Late, Busy, Young
<1>3. CASE Error(p, "error", "returned") /\ Quietly
  BY <1>1, <1>3, ErrorFits DEF Past, Late
<1> QED
  BY <1>1, <1>2, <1>3 DEF ReadInput

(* Opening the progress window keeps arguments, image and interface. *)
LEMMA OpenProgressFits ==
  ASSUME Shape, NEW p \in Process, OpenProgress(p)
  PROVE  GoesOn(p)
<1>1. proc[p].pc = "opening" /\ DOMAIN proc[p] = DOMAIN Idle
  BY DEF OpenProgress, Shape
<1>2. CASE To(p, "checking") /\ Quietly
  BY <1>1, <1>2, ToFits DEF Past, Late, Busy, Young
<1>3. CASE Error(p, "error", "returned") /\ Broken
  BY <1>1, <1>3, ErrorFits DEF Past, Late
<1> QED
  BY <1>1, <1>2, <1>3 DEF OpenProgress

(* Checking for administrator rights keeps arguments, image and           *)
(* interface.                                                             *)
LEMMA CheckRightsFits ==
  ASSUME Shape, NEW p \in Process, CheckRights(p)
  PROVE  GoesOn(p)
<1>1. proc[p].pc = "checking" /\ DOMAIN proc[p] = DOMAIN Idle
  BY DEF CheckRights, Shape
<1>2. CASE Becomes(p, [proc[p] EXCEPT !.work = "begun", !.pc = "working"]) /\ Quietly
  <2> DEFINE new == [proc[p] EXCEPT !.work = "begun", !.pc = "working"]
  <2>1. Fits(p, new)
    BY <1>1, <1>2, RecordFields DEF Fits, Past, Late, Busy, Young
  <2>2. Becomes(p, new)
    BY <1>2
  <2> HIDE DEF new
  <2> QED
    BY <1>1, <1>2, <2>1, <2>2, BecomesFits
<1>3. CASE To(p, "consent") /\ Quietly
  BY <1>1, <1>3, ToFits DEF Past, Late, Busy, Young
<1>4. CASE Error(p, "elevation", "failing") /\ Quietly
  BY <1>1, <1>4, ErrorFits DEF Past, Late
<1>5. CASE Error(p, "error", "failing") /\ (Quietly \/ Broken)
  BY <1>1, <1>5, ErrorFits DEF Past, Late
<1> QED
  BY <1>1, <1>2, <1>3, <1>4, <1>5 DEF CheckRights

(* Work that fails keeps arguments, image and interface. *)
LEMMA WorkFailsFits ==
  ASSUME Shape, NEW p \in Process, WorkFails(p)
  PROVE  GoesOn(p)
<1>1. proc[p].pc = "working" /\ DOMAIN proc[p] = DOMAIN Idle
  BY DEF WorkFails, Shape
<1>2. CASE Becomes(p, [proc[p] EXCEPT !.work = "failed", !.err = "error", !.pc = "failing"]) /\ Quietly
  <2> DEFINE new == [proc[p] EXCEPT !.work = "failed", !.err = "error", !.pc = "failing"]
  <2>1. Fits(p, new)
    BY <1>1, <1>2, RecordFields DEF Fits, Past, Late, Busy, Young
  <2>2. Becomes(p, new)
    BY <1>2
  <2> HIDE DEF new
  <2> QED
    BY <1>1, <1>2, <2>1, <2>2, BecomesFits
<1> QED
  BY <1>1, <1>2 DEF WorkFails

(* An installation that succeeds keeps arguments, image and interface. *)
LEMMA WorkDoneFits ==
  ASSUME Shape, NEW p \in Process, WorkDone(p)
  PROVE  GoesOn(p)
<1>1. proc[p].pc = "working" /\ DOMAIN proc[p] = DOMAIN Idle
  BY DEF WorkDone, Shape
<1>2. CASE Becomes(p, [proc[p] EXCEPT !.work = "ok", !.pc = "returned"]) /\ Quietly
  <2> DEFINE new == [proc[p] EXCEPT !.work = "ok", !.pc = "returned"]
  <2>1. Fits(p, new)
    BY <1>1, <1>2, RecordFields DEF Fits, Past, Late, Busy, Young
  <2>2. Becomes(p, new)
    BY <1>2
  <2> HIDE DEF new
  <2> QED
    BY <1>1, <1>2, <2>1, <2>2, BecomesFits
<1> QED
  BY <1>1, <1>2 DEF WorkDone

(* An uninstallation that succeeds keeps arguments, image and interface. *)
LEMMA UninstallDoneFits ==
  ASSUME Shape, NEW p \in Process, UninstallDone(p)
  PROVE  GoesOn(p)
<1>1. proc[p].pc = "working" /\ DOMAIN proc[p] = DOMAIN Idle
  BY DEF UninstallDone, Shape
<1>2. CASE Becomes(p, [proc[p] EXCEPT !.work = "ok", !.pc = IF Window(p) THEN "farewell" ELSE "returned"]) /\ Quietly
  <2> DEFINE new == [proc[p] EXCEPT !.work = "ok", !.pc = IF Window(p) THEN "farewell" ELSE "returned"]
  <2>1. Fits(p, new)
    BY <1>1, <1>2, RecordFields DEF Fits, Past, Late, Busy, Young
  <2>2. Becomes(p, new)
    BY <1>2
  <2> HIDE DEF new
  <2> QED
    BY <1>1, <1>2, <2>1, <2>2, BecomesFits
<1> QED
  BY <1>1, <1>2 DEF UninstallDone

(* Reporting an uninstallation that succeeded keeps arguments, image and  *)
(* interface.                                                             *)
LEMMA FarewellFits ==
  ASSUME Shape, NEW p \in Process, Farewell(p)
  PROVE  GoesOn(p)
<1>1. proc[p].pc = "farewell" /\ DOMAIN proc[p] = DOMAIN Idle
  BY DEF Farewell, Shape
<1>2. CASE To(p, IF p = "helper" THEN "ending" ELSE "returned") /\ Quietly
  BY <1>1, <1>2, ToFits DEF Past, Late, Busy, Young
<1>3. CASE Error(p, "error", IF p = "helper" THEN "ending" ELSE "failing") /\ Broken
  BY <1>1, <1>3, ErrorFits DEF Past, Late
<1> QED
  BY <1>1, <1>2, <1>3 DEF Farewell

(* Showing a failure keeps arguments, image and interface. *)
LEMMA ShowFailureFits ==
  ASSUME Shape, NEW p \in Process, ShowFailure(p)
  PROVE  GoesOn(p)
<1>1. proc[p].pc = "failing" /\ DOMAIN proc[p] = DOMAIN Idle
  BY DEF ShowFailure, Shape
<1>2. CASE To(p, "returned") /\ Quietly
  BY <1>1, <1>2, ToFits DEF Past, Late, Busy, Young
<1>3. CASE Becomes(p, [proc[p] EXCEPT !.reports = @ + 1, !.pc = "waiting"]) /\ Quietly
  <2> DEFINE new == [proc[p] EXCEPT !.reports = @ + 1, !.pc = "waiting"]
  <2>1. Fits(p, new)
    BY <1>1, <1>3, RecordFields DEF Fits, Past, Late, Busy, Young
  <2>2. Becomes(p, new)
    BY <1>3
  <2> HIDE DEF new
  <2> QED
    BY <1>1, <1>3, <2>1, <2>2, BecomesFits
<1>4. CASE Becomes(p, [proc[p] EXCEPT !.reports = @ + 1, !.marked = Mark(p), !.pc = "returned"]) /\ Quietly
  <2> DEFINE new == [proc[p] EXCEPT !.reports = @ + 1, !.marked = Mark(p), !.pc = "returned"]
  <2>1. Fits(p, new)
    BY <1>1, <1>4, RecordFields DEF Fits, Past, Late, Busy, Young
  <2>2. Becomes(p, new)
    BY <1>4
  <2> HIDE DEF new
  <2> QED
    BY <1>1, <1>4, <2>1, <2>2, BecomesFits
<1>5. CASE To(p, "returned") /\ Broken
  BY <1>1, <1>5, ToFits DEF Past, Late, Busy, Young
<1> QED
  BY <1>1, <1>2, <1>3, <1>4, <1>5 DEF ShowFailure

(* Closing the window of a failure keeps arguments, image and interface. *)
LEMMA CloseFailureFits ==
  ASSUME Shape, NEW p \in Process, CloseFailure(p)
  PROVE  GoesOn(p)
<1>1. proc[p].pc = "waiting" /\ DOMAIN proc[p] = DOMAIN Idle
  BY DEF CloseFailure, Shape
<1>2. CASE Becomes(p, [proc[p] EXCEPT !.marked = Mark(p), !.pc = "returned"]) /\ Quietly
  <2> DEFINE new == [proc[p] EXCEPT !.marked = Mark(p), !.pc = "returned"]
  <2>1. Fits(p, new)
    BY <1>1, <1>2, RecordFields DEF Fits, Past, Late, Busy, Young
  <2>2. Becomes(p, new)
    BY <1>2
  <2> HIDE DEF new
  <2> QED
    BY <1>1, <1>2, <2>1, <2>2, BecomesFits
<1> QED
  BY <1>1, <1>2 DEF CloseFailure

(* Returning to the caller keeps arguments, image and interface. *)
LEMMA ReturnFits ==
  ASSUME Shape, NEW p \in Process, Return(p)
  PROVE  GoesOn(p)
<1>1. proc[p].pc = "returned" /\ DOMAIN proc[p] = DOMAIN Idle
  BY DEF Return, Shape
<1>2. CASE To(p, "success") /\ Quietly
  BY <1>1, <1>2, ToFits DEF Past, Late, Busy, Young
<1>3. CASE To(p, "apology") /\ Quietly
  BY <1>1, <1>3, ToFits DEF Past, Late, Busy, Young
<1>4. CASE To(p, "ending") /\ Quietly
  BY <1>1, <1>4, ToFits DEF Past, Late, Busy, Young
<1> QED
  BY <1>1, <1>2, <1>3, <1>4 DEF Return

(* The report of success keeps arguments, image and interface. *)
LEMMA SuccessFits ==
  ASSUME Shape, NEW p \in Process, Success(p)
  PROVE  GoesOn(p)
<1>1. proc[p].pc = "success" /\ DOMAIN proc[p] = DOMAIN Idle
  BY DEF Success, Shape
<1>2. CASE To(p, "ending") /\ Quietly
  BY <1>1, <1>2, ToFits DEF Past, Late, Busy, Young
<1>3. CASE Error(p, "error", "ending") /\ Broken
  BY <1>1, <1>3, ErrorFits DEF Past, Late
<1> QED
  BY <1>1, <1>2, <1>3 DEF Success

(* Reporting the error of a packaged installer keeps arguments, image and *)
(* interface.                                                             *)
LEMMA ApologyFits ==
  ASSUME Shape, NEW p \in Process, Apology(p)
  PROVE  GoesOn(p)
<1>1. proc[p].pc = "apology" /\ DOMAIN proc[p] = DOMAIN Idle
  BY DEF Apology, Shape
<1>2. CASE Becomes(p, [proc[p] EXCEPT !.reports = @ + 1, !.pc = "ending"]) /\ Quietly
  <2> DEFINE new == [proc[p] EXCEPT !.reports = @ + 1, !.pc = "ending"]
  <2>1. Fits(p, new)
    BY <1>1, <1>2, RecordFields DEF Fits, Past, Late, Busy, Young
  <2>2. Becomes(p, new)
    BY <1>2
  <2> HIDE DEF new
  <2> QED
    BY <1>1, <1>2, <2>1, <2>2, BecomesFits
<1>3. CASE Error(p, "error", "ending") /\ Broken
  BY <1>1, <1>3, ErrorFits DEF Past, Late
<1> QED
  BY <1>1, <1>2, <1>3 DEF Apology

(* The report main makes of such an error keeps arguments, image and      *)
(* interface.                                                             *)
LEMMA LastWordFits ==
  ASSUME Shape, NEW p \in Process, LastWord(p)
  PROVE  GoesOn(p)
<1>1. proc[p].pc = "lastword" /\ DOMAIN proc[p] = DOMAIN Idle
  BY DEF LastWord, Shape
<1>2. CASE Becomes(p, [proc[p] EXCEPT !.reports = @ + 1, !.pc = "done"]) /\ Quietly
  <2> DEFINE new == [proc[p] EXCEPT !.reports = @ + 1, !.pc = "done"]
  <2>1. Fits(p, new)
    BY <1>1, <1>2, RecordFields DEF Fits, Past, Late, Busy, Young
  <2>2. Becomes(p, new)
    BY <1>2
  <2> HIDE DEF new
  <2> QED
    BY <1>1, <1>2, <2>1, <2>2, BecomesFits
<1>3. CASE To(p, "done") /\ Broken
  BY <1>1, <1>3, ToFits DEF Past, Late, Busy, Young
<1> QED
  BY <1>1, <1>2, <1>3 DEF LastWord

(* The work of the helper keeps arguments, image and interface. *)
LEMMA CleanFits ==
  ASSUME Shape, NEW p \in Process, Clean(p)
  PROVE  GoesOn(p)
<1>1. proc[p].pc = "cleaning" /\ DOMAIN proc[p] = DOMAIN Idle
  BY DEF Clean, Shape
<1>2. CASE To(p, IF Window(p) THEN "farewell" ELSE "ending") /\ Quietly
  BY <1>1, <1>2, ToFits DEF Past, Late, Busy, Young
<1>3. CASE Error(p, "error", "ending") /\ Broken
  BY <1>1, <1>3, ErrorFits DEF Past, Late
<1>4. CASE To(p, "asking") /\ Quietly
  BY <1>1, <1>4, ToFits DEF Past, Late, Busy, Young
<1> QED
  BY <1>1, <1>2, <1>3, <1>4 DEF Clean

(* So does the answer it waits for. *)
LEMMA AnswerRebootFits ==
  ASSUME Shape, NEW p \in Process, AnswerReboot(p)
  PROVE  GoesOn(p)
<1>1. proc[p].pc = "asking"
  BY DEF AnswerReboot
<1>2. CASE To(p, "ending") /\ Quietly
  BY <1>1, <1>2, ToFits DEF Past, Late, Busy, Young
<1>3. CASE Error(p, "error", "ending") /\ Broken
  BY <1>1, <1>3, ErrorFits DEF Past, Late
<1> QED
  BY <1>2, <1>3 DEF AnswerReboot

(* Ending the process keeps arguments, image and interface. *)
LEMMA EndFits ==
  ASSUME Shape, NEW p \in Process, End(p)
  PROVE  GoesOn(p)
<1>1. proc[p].pc = "ending" /\ DOMAIN proc[p] = DOMAIN Idle /\ Quietly
  BY DEF End, Shape
<1>2. PICK next \in {"lastword", "done"} :
        Becomes(p, [proc[p] EXCEPT !.pc = next, !.code = ExitCode(p)])
  <2> DEFINE next == IF /\ proc[p].bundled /\ proc[p].err \notin {"none", "relaunched"}
                        /\ Asks(p, "--headed") /\ ~Asks(p, "--automation")
                        /\ ~Asks(p, "--json") /\ UiAvailable(p) /\ ~proc[p].marked
                     THEN "lastword" ELSE "done"
  <2>1. next \in {"lastword", "done"}
    OBVIOUS
  <2>2. Becomes(p, [proc[p] EXCEPT !.pc = next, !.code = ExitCode(p)])
    BY DEF End
  <2> QED
    BY <2>1, <2>2
<1> DEFINE new == [proc[p] EXCEPT !.pc = next, !.code = ExitCode(p)]
<1>3. Fits(p, new)
  BY <1>1, <1>2, RecordFields DEF Fits, Past, Late, Busy, Young
<1>4. Becomes(p, new)
  BY <1>2
<1> HIDE DEF new
<1> QED
  BY <1>1, <1>3, <1>4, BecomesFits

(* Whoever is on its way to the work has the interface it was asked for. *)
Chosen(p) == proc[p].pc \in Busy \/ proc[p].work # "none" => proc[p].mode = Interface(p)

(* how the helper of such a process answers *)
Answering(mode) == IF mode = "gui" /\ ~UiAvailable("helper") THEN "tui" ELSE mode

(* the helper is w's *)
Serves(w) ==
  /\ proc[w].work = "ok" /\ proc[w].pc \in Past /\ proc[w].image = "uninstaller"
  /\ proc["helper"].image = "helper"
  /\ proc["helper"].args = HelperArgs(proc[w].args, proc[w].mode)
  /\ proc["helper"].pc # "unpacking"
  /\ proc["helper"].pc \notin Young => proc["helper"].mode = Answering(proc[w].mode)

(* no package yet *)
Blank == [bytes |-> <<>>, stub |-> <<>>, source |-> NoSource, whole |-> FALSE]

(* The package was written from this directory, wholly or in part. *)
WrittenFrom(stub, source) ==
  /\ installer.stub = stub /\ installer.source = source
  /\ \/ installer.whole /\ installer.bytes = Packaged(stub, source)
     \/ /\ ~installer.whole
        /\ \E n \in 1..(Len(Packaged(stub, source)) - 1) :
             installer.bytes = SubSeq(Packaged(stub, source), 1, n)

Written == installer = Blank \/ \E source \in Sources, stub \in Stubs : WrittenFrom(stub, source)

(* The first process is started first, *)
Begun == \A p \in Process : Started(p) => Started("first")
(* with arguments that can be written down. *)
Asked == Started("first") => proc["first"].args \in Seq(Seq(STRING))
(* A bundle that is installed was found, *)
Bundled == \A p \in Process : proc[p].bundled => Started(p) /\ HasBundle(Bytes(p))
(* and what was unpacked was in it. *)
Taken == \A p \in Process : proc[p].unpacked # <<>> =>
           Started(p) /\ proc[p].unpacked = Unpacked(Found(p))
(* A helper has done nothing its uninstaller did not ask for. *)
Served == Started("helper") => \E w \in Worker : Serves(w)

(* What is never lost on the way *)
Kept ==
  /\ Begun /\ Asked /\ RelaunchKeepsCommand
  /\ Bundled /\ Taken /\ Written
  /\ \A p \in Worker : Chosen(p)
  /\ Served

(* Such a step keeps all that processes were started with, whoever makes  *)
(* it.                                                                    *)
LEMMA FitsKeeps ==
  ASSUME IInv, LaunchTyped, Kept, NEW p \in Process, GoesOn(p)
  PROVE  Kept'
<1>1. PICK new : Becomes(p, new) /\ Fits(p, new)
  BY DEF GoesOn
<1>2. /\ Shape' /\ Others(p) /\ proc'[p] = new /\ proc[p].pc # "off"
      /\ world' = world /\ installer' = installer
  BY <1>1, BecomesOne DEF GoesOn, Fits, IInv
<1>3. /\ new.pc # "off" /\ new.image = proc[p].image /\ new.args = proc[p].args
  BY <1>1 DEF Fits
<1>4. \A q \in Process : /\ Started(q)' = Started(q)
                         /\ proc'[q].image = proc[q].image /\ proc'[q].args = proc[q].args
                         /\ q # p => proc'[q] = proc[q]
  BY <1>2, <1>3 DEF Started, Others
<1>5. \A q \in Process : Bytes(q)' = Bytes(q) /\ Found(q)' = Found(q) /\ HasBundle(Bytes(q))' = HasBundle(Bytes(q))
  BY <1>2, <1>4 DEF Bytes, Found
<1>6. \A q \in Process : Interface(q)' = Interface(q)
  BY <1>2, <1>4 DEF Interface, UiAvailable
<1>0. \A mode : Answering(mode)' = Answering(mode)
  BY <1>2, <1>4 DEF Answering, UiAvailable, Process
<1>7. Begun' /\ Asked' /\ RelaunchKeepsCommand'
  BY <1>4 DEF Kept, Begun, Asked, RelaunchKeepsCommand, Process
<1>8. Bundled'
  BY <1>1, <1>2, <1>4, <1>5 DEF Kept, Bundled, Fits, Started
<1>9. Taken'
  BY <1>1, <1>2, <1>4, <1>5 DEF Kept, Taken, Fits, Started
<1>10. Written'
  BY <1>2 DEF Kept, Written, WrittenFrom
<1>11. ASSUME NEW w \in Worker PROVE Chosen(w)'
  <2>1. Chosen(w) /\ w \in Process /\ (proc[w].pc \in Early => proc[w].work = "none")
    BY DEF Kept, IInv, Good, Rights, Worker, Process
  <2>2. CASE w # p
    BY <1>4, <1>6, <2>1, <2>2 DEF Chosen
  <2>3. CASE w = p
    BY <1>1, <1>2, <1>6, <2>1, <2>3 DEF Chosen, Fits, Busy, Early
  <2> QED
    BY <2>2, <2>3
<1>12. Served'
  <2> SUFFICES ASSUME Started("helper") PROVE \E w \in Worker : Serves(w)'
    BY <1>4 DEF Served, Process
  <2>1. PICK w \in Worker : Serves(w)
    BY DEF Kept, Served
  <2>2. w \in Process /\ w # "helper"
    BY DEF Worker, Process
  <2>3. CASE p = w
    <3>1. new.mode = proc[w].mode /\ new.work = "ok" /\ new.pc \in Past
      BY <1>1, <2>1, <2>3 DEF Serves, Fits, Past, Late
    <3>2. proc'["helper"] = proc["helper"]
      BY <1>4, <2>2, <2>3 DEF Process
    <3> QED
      BY <1>0, <1>2, <1>3, <2>1, <2>3, <3>1, <3>2 DEF Serves
  <2>4. CASE p = "helper"
    <3>1. proc'[w] = proc[w]
      BY <1>4, <2>2, <2>4
    <3>2. /\ Understood(proc[p].args) /\ Command(proc[p].args) = "cleanup"
          /\ Interface(p) = Answering(proc[w].mode) /\ Interface(p) # "error"
      <4>1. proc[w].mode = Interface(w) /\ proc[w].mode # "error"
        BY <2>1, <2>2 DEF Kept, Serves, Chosen, LaunchTyped, WellTyped
      <4>2. UiAvailable(p) \in BOOLEAN
        BY LaunchAssumption DEF UiAvailable, IInv
      <4>3. proc[p].args = HelperArgs(proc[w].args, proc[w].mode)
        BY <2>1, <2>4 DEF Serves
      <4> DEFINE given == proc[p].args
                 args == proc[w].args
                 mode == proc[w].mode
                 available == UiAvailable(w)
                 own == UiAvailable(p)
      <4>4. mode = SelectUi(args, available) /\ mode # "error" /\ given = HelperArgs(args, mode)
        BY <4>1, <4>3 DEF Interface
      <4>5. Interface(p) = SelectUi(given, own)
        BY DEF Interface
      <4>11. Answering(mode) = IF mode = "gui" /\ ~own THEN "tui" ELSE mode
        BY <2>4 DEF Answering
      <4> HIDE DEF given, args, mode, available, own
      <4>6. /\ Understood(given) /\ Command(given) = "cleanup"
            /\ SelectUi(given, own) = IF mode = "gui" /\ ~own THEN "tui" ELSE mode
        BY <4>2, <4>4, HelperAnswers DEF own
      <4>7. Interface(p) = Answering(mode) /\ Interface(p) # "error"
        BY <4>4, <4>5, <4>6, <4>11
      <4>8. Understood(proc[p].args)
        BY <4>6 DEF given
      <4>9. Command(proc[p].args) = "cleanup"
        BY <4>6 DEF given
      <4>10. Interface(p) = Answering(proc[w].mode) /\ Interface(p) # "error"
        BY <4>7 DEF mode
      <4> QED
        BY <4>8, <4>9, <4>10
    <3>3. new.pc # "unpacking" /\ (new.pc \notin Young => new.mode = Answering(proc[w].mode))
      BY <1>1, <2>1, <2>4, <3>2 DEF Serves, Fits, Young
    <3> QED
      BY <1>0, <1>2, <1>3, <2>1, <2>4, <3>1, <3>3 DEF Serves
  <2>5. CASE p # w /\ p # "helper"
    <3>1. proc'[w] = proc[w] /\ proc'["helper"] = proc["helper"]
      BY <1>4, <2>2, <2>5 DEF Process
    <3> QED
      BY <1>0, <2>1, <3>1 DEF Serves
  <2> QED
    BY <2>3, <2>4, <2>5
<1> QED
  BY <1>7, <1>8, <1>9, <1>10, <1>11, <1>12 DEF Kept

(* What is written down as a string can be quoted and read.                *)
LEMMA Words == Seq(Seq(STRING)) \subseteq Seq(Seq(Symbol))
<1>1. STRING \subseteq Symbol
  BY DEF Symbol
<1>2. Seq(STRING) \subseteq Seq(Symbol)
  BY <1>1, SeqMonotonic
<1> QED
  BY <1>2, SeqMonotonic

(* The user declines the elevation. *)
LEMMA DeclineFits ==
  ASSUME Shape, NEW p \in Process, proc[p].pc = "consent", Quietly,
         Becomes(p, [proc[p] EXCEPT !.err = "error", !.declined = TRUE, !.pc = "failing"])
  PROVE  GoesOn(p)
<1> DEFINE new == [proc[p] EXCEPT !.err = "error", !.declined = TRUE, !.pc = "failing"]
<1>1. DOMAIN proc[p] = DOMAIN Idle
  BY DEF Shape
<1>2. Fits(p, new)
  BY <1>1, RecordFields DEF Fits, Past, Late, Busy, Young
<1> HIDE DEF new
<1> QED
  BY <1>2, BecomesFits DEF new

(* The elevated process is started with the arguments of the first, or    *)
(* not at all.                                                            *)
LEMMA ConsentKept ==
  ASSUME IInv, LaunchTyped, Kept, NEW p \in Process, Consent(p)
  PROVE  Kept'
<1>1. proc[p].pc = "consent" /\ Quietly /\ Shape /\ p \in Worker
  BY WorkerSteps DEF Consent, IInv
<1>2. CASE proc["elevated"].pc = "off" /\ proc' = Relaunch(p)
  <2>1. Rights(p) /\ proc[p].work = "none"
    BY <1>1 DEF IInv, Good, Rights, Early
  <2>2. p = "first"
    <3>1. ~Elevated(p) /\ proc[p].pc \in Early
      BY <1>1, <2>1 DEF Rights, Early
    <3> QED
      BY <1>1, <3>1, NotBefore
  <2> DEFINE args == proc["first"].args
             other == [Idle EXCEPT !.pc = "parsing", !.image = proc["first"].image,
                                   !.args = Argv(Parameters(args))]
  <2>3. /\ DOMAIN proc = Process /\ DOMAIN proc["first"] = DOMAIN Idle
        /\ proc["first"].pc = "consent" /\ proc["first"].work = "none"
    BY <1>1, <2>1, <2>2 DEF Shape, Process
  <2>4. /\ proc'["elevated"] = other
        /\ proc'["first"] = [proc["first"] EXCEPT !.err = "relaunched", !.pc = "failing"]
        /\ proc'["helper"] = proc["helper"]
    BY <1>2, <2>2, <2>3 DEF Relaunch, Process
  <2>5. Argv(Parameters(args)) = args
    <3>1. args \in Seq(Seq(STRING))
      BY <2>3 DEF Kept, Asked, Started
    <3>2. args \in Seq(Seq(Symbol))
      BY <3>1, Words
    <3> HIDE DEF args
    <3> QED
      BY <3>2, ReadParameters
  <2> HIDE DEF args
  <2>6. /\ other.pc = "parsing" /\ other.args = args /\ other.bundled = FALSE
        /\ other.unpacked = <<>> /\ other.work = "none"
    BY <2>5 DEF Idle
  <2> HIDE DEF other
  <2>7. /\ proc'["first"].pc = "failing" /\ proc'["first"].args = args
        /\ proc'["first"].work = "none" /\ proc'["first"].image = proc["first"].image
        /\ proc'["first"].bundled = proc["first"].bundled
        /\ proc'["first"].unpacked = proc["first"].unpacked
    BY <2>3, <2>4, RecordFields DEF args
  <2>8. world' = world /\ installer' = installer
    BY <1>1 DEF Quietly
  <2>9. Begun' /\ Asked' /\ RelaunchKeepsCommand'
    BY <2>3, <2>4, <2>6, <2>7
       DEF Kept, Begun, Asked, RelaunchKeepsCommand, Started, Process, args
  <2>10. /\ Bytes("first")' = Bytes("first") /\ Found("first")' = Found("first")
         /\ Bytes("helper")' = Bytes("helper") /\ Found("helper")' = Found("helper")
    BY <2>4, <2>7, <2>8 DEF Bytes, Found
  <2>11. Bundled'
    <3>1. proc'["first"].bundled => Started("first")' /\ HasBundle(Bytes("first"))'
      BY <2>7, <2>10 DEF Kept, Bundled, Process, Started
    <3>2. proc'["helper"].bundled => Started("helper")' /\ HasBundle(Bytes("helper"))'
      BY <2>4, <2>10 DEF Kept, Bundled, Process, Started
    <3> QED
      BY <2>4, <2>6, <3>1, <3>2 DEF Bundled, Process
  <2>12. Taken'
    <3>1. proc'["first"].unpacked # <<>> =>
            Started("first")' /\ proc'["first"].unpacked = Unpacked(Found("first")')
      BY <2>7, <2>10 DEF Kept, Taken, Process, Started
    <3>2. proc'["helper"].unpacked # <<>> =>
            Started("helper")' /\ proc'["helper"].unpacked = Unpacked(Found("helper")')
      BY <2>4, <2>10 DEF Kept, Taken, Process, Started
    <3> QED
      BY <2>4, <2>6, <3>1, <3>2 DEF Taken, Process
  <2>13. Written'
    BY <2>8 DEF Kept, Written, WrittenFrom
  <2>14. Chosen("first")' /\ Chosen("elevated")'
    BY <2>4, <2>6, <2>7 DEF Chosen, Busy
  <2>15. Served'
    <3>1. ~Serves("first") /\ ~Serves("elevated")
      BY <1>2, <2>3 DEF Serves, Past, Late
    <3> QED
      BY <2>4, <3>1 DEF Kept, Served, Started, Worker
  <2> QED
    BY <2>9, <2>11, <2>12, <2>13, <2>14, <2>15 DEF Kept, Worker
<1>3. CASE Becomes(p, [proc[p] EXCEPT !.err = "error", !.declined = TRUE, !.pc = "failing"])
  BY <1>1, <1>3, DeclineFits, FitsKeeps
<1> QED
  BY <1>2, <1>3 DEF Consent

(* The helper cannot be started. *)
LEMMA HandOverFails ==
  ASSUME Shape, NEW p \in Process, proc[p].pc = "working", Broken,
         Becomes(p, [proc[p] EXCEPT !.work = "failed", !.err = "error", !.pc = "failing"])
  PROVE  GoesOn(p)
<1> DEFINE new == [proc[p] EXCEPT !.work = "failed", !.err = "error", !.pc = "failing"]
<1>1. DOMAIN proc[p] = DOMAIN Idle
  BY DEF Shape
<1>2. Fits(p, new)
  BY <1>1, RecordFields DEF Fits, Past, Late, Busy, Young
<1> HIDE DEF new
<1> QED
  BY <1>2, BecomesFits DEF new

(* The helper is started by the process that has done the work. *)
LEMMA HandOverKept ==
  ASSUME IInv, LaunchTyped, Kept, NEW p \in Process, HandOver(p)
  PROVE  Kept'
<1>1. /\ proc[p].pc = "working" /\ Shape /\ p \in Worker
      /\ proc[p].image = "uninstaller" /\ proc["helper"].pc = "off"
  BY WorkerSteps DEF HandOver, IInv
<1> DEFINE given == HelperArgs(proc[p].args, proc[p].mode)
           other == [Idle EXCEPT !.pc = "parsing", !.image = "helper", !.args = given]
<1>2. CASE /\ proc' = [proc EXCEPT ![p] = [@ EXCEPT !.work = "ok", !.pc = "returned"],
                                   !["helper"] = other]
           /\ Quietly
  <2>1. p # "helper" /\ DOMAIN proc = Process /\ DOMAIN proc[p] = DOMAIN Idle /\ p # "off"
    BY <1>1 DEF Shape, Worker
  <2>2. /\ proc'["helper"] = other
        /\ proc'[p] = [proc[p] EXCEPT !.work = "ok", !.pc = "returned"]
        /\ \A q \in Process \ {p, "helper"} : proc'[q] = proc[q]
    BY <1>2, <2>1 DEF Process
  <2> HIDE DEF given
  <2>3. /\ other.pc = "parsing" /\ other.args = given /\ other.image = "helper"
        /\ other.bundled = FALSE /\ other.unpacked = <<>> /\ other.work = "none"
    BY DEF Idle
  <2> HIDE DEF other
  <2>4. /\ proc'[p].pc = "returned" /\ proc'[p].args = proc[p].args
        /\ proc'[p].work = "ok" /\ proc'[p].image = proc[p].image
        /\ proc'[p].mode = proc[p].mode
        /\ proc'[p].bundled = proc[p].bundled /\ proc'[p].unpacked = proc[p].unpacked
    BY <2>1, <2>2, RecordFields
  <2>5. world' = world /\ installer' = installer
    BY <1>2 DEF Quietly
  <2>6. \A q \in Process \ {"helper"} :
          /\ Started(q)' = Started(q) /\ Bytes(q)' = Bytes(q) /\ Found(q)' = Found(q)
          /\ HasBundle(Bytes(q))' = HasBundle(Bytes(q))
          /\ Interface(q)' = Interface(q)
          /\ proc'[q].args = proc[q].args /\ proc'[q].bundled = proc[q].bundled
          /\ proc'[q].unpacked = proc[q].unpacked
    <3> SUFFICES ASSUME NEW q \in Process \ {"helper"}
                 PROVE  /\ Started(q)' = Started(q) /\ Bytes(q)' = Bytes(q)
                        /\ Found(q)' = Found(q)
                        /\ HasBundle(Bytes(q))' = HasBundle(Bytes(q))
                        /\ Interface(q)' = Interface(q)
                        /\ proc'[q].args = proc[q].args /\ proc'[q].bundled = proc[q].bundled
                        /\ proc'[q].unpacked = proc[q].unpacked
      OBVIOUS
    <3>1. /\ proc'[q].args = proc[q].args /\ proc'[q].bundled = proc[q].bundled
          /\ proc'[q].unpacked = proc[q].unpacked /\ proc'[q].image = proc[q].image
      BY <2>2, <2>4
    <3>2. Started(q)' = Started(q)
      BY <1>1, <2>2, <2>4 DEF Started
    <3>3. Bytes(q)' = Bytes(q) /\ Found(q)' = Found(q)
      BY <2>5, <3>1 DEF Bytes, Found
    <3>4. Interface(q)' = Interface(q)
      BY <2>5, <3>1 DEF Interface, UiAvailable
    <3> QED
      BY <3>1, <3>2, <3>3, <3>4
  <2>7. Started("first")
    BY <1>1 DEF Kept, Begun, Started
  <2>8. Begun' /\ Asked' /\ RelaunchKeepsCommand'
    BY <2>6, <2>7 DEF Kept, Begun, Asked, RelaunchKeepsCommand, Process
  <2>9. Bundled'
    BY <2>2, <2>3, <2>6 DEF Kept, Bundled
  <2>10. Taken'
    BY <2>2, <2>3, <2>6 DEF Kept, Taken
  <2>11. Written'
    BY <2>5 DEF Kept, Written, WrittenFrom
  <2>12. \A w \in Worker : Chosen(w)'
    <3> SUFFICES ASSUME NEW w \in Worker PROVE Chosen(w)'
      OBVIOUS
    <3>1. w \in Process \ {"helper"} /\ Chosen(w)
      BY DEF Worker, Process, Kept
    <3>2. CASE w = p
      BY <1>1, <2>4, <2>6, <3>1, <3>2 DEF Chosen, Busy
    <3>3. CASE w # p
      BY <2>2, <2>6, <3>1, <3>3 DEF Chosen
    <3> QED
      BY <3>2, <3>3
  <2>13. Served'
    <3>1. Serves(p)'
      BY <1>1, <2>2, <2>3, <2>4 DEF Serves, Past, Late, Young, given
    <3> QED
      BY <1>1, <3>1 DEF Served
  <2> QED
    BY <2>8, <2>9, <2>10, <2>11, <2>12, <2>13 DEF Kept
<1>3. CASE /\ Becomes(p, [proc[p] EXCEPT !.work = "failed", !.err = "error", !.pc = "failing"])
           /\ Broken
  BY <1>1, <1>3, HandOverFails, FitsKeeps
<1> QED
  BY <1>2, <1>3 DEF HandOver

(* The first process has what it was started with. *)
LEMMA StartKept ==
  ASSUME IInv, Kept, NEW image, NEW args \in Seq(Seq(STRING)), Start(image, args)
  PROVE  Kept'
<1> DEFINE other == [Idle EXCEPT !.pc = "parsing", !.image = image, !.args = args]
<1>1. /\ Shape /\ Quietly /\ proc["first"].pc = "off" /\ Becomes("first", other)
      /\ "first" \in Process /\ DOMAIN other = DOMAIN Idle
  BY DEF Start, IInv, Process, Idle
<1>2. Others("first") /\ proc'["first"] = other
  BY <1>1, BecomesOne
<1>3. \A p \in Process : ~Started(p) /\ ~proc[p].bundled /\ proc[p].unpacked = <<>>
  BY <1>1 DEF Kept, Begun, Bundled, Taken, Started
<1>4. /\ other.pc = "parsing" /\ other.args = args /\ other.work = "none"
      /\ other.bundled = FALSE /\ other.unpacked = <<>>
  BY DEF Idle
<1> HIDE DEF other
<1>5. /\ proc'["elevated"] = proc["elevated"] /\ proc'["helper"] = proc["helper"]
      /\ world' = world /\ installer' = installer
  BY <1>1, <1>2 DEF Others, Process, Quietly
<1>6. Begun' /\ Asked' /\ RelaunchKeepsCommand' /\ Served'
  BY <1>2, <1>3, <1>4, <1>5
     DEF Begun, Asked, RelaunchKeepsCommand, Served, Started, Process
<1>7. Bundled' /\ Taken'
  BY <1>2, <1>3, <1>4, <1>5 DEF Bundled, Taken, Process
<1>8. Written'
  BY <1>5 DEF Kept, Written, WrittenFrom
<1>9. \A w \in Worker : Chosen(w)'
  BY <1>2, <1>4, <1>5 DEF Kept, Worker, Chosen, Busy, Interface, UiAvailable
<1> QED
  BY <1>6, <1>7, <1>8, <1>9 DEF Kept

(* Nobody runs while a package is written. *)
LEMMA PackageKept ==
  ASSUME Kept, NEW source \in Sources, NEW stub \in Stubs, Package(source, stub)
  PROVE  Kept'
<1>1. proc' = proc /\ world' = world /\ proc["first"].pc = "off"
  BY DEF Package
<1>2. \A p \in Process : ~Started(p) /\ ~proc[p].bundled /\ proc[p].unpacked = <<>>
  BY <1>1 DEF Kept, Begun, Bundled, Taken, Started
<1>3. Written'
  <2> DEFINE bytes == Packaged(stub, source)
  <2>1. \/ installer' = [bytes |-> bytes, stub |-> stub, source |-> source, whole |-> TRUE]
        \/ \E n \in 1..(Len(bytes) - 1) :
             installer' = [bytes |-> SubSeq(bytes, 1, n), stub |-> stub, source |-> source,
                           whole |-> FALSE]
    BY DEF Package
  <2> HIDE DEF bytes
  <2>2. WrittenFrom(stub, source)'
    BY <2>1 DEF WrittenFrom, bytes
  <2> QED
    BY <2>2 DEF Written
<1>4. Begun' /\ Asked' /\ RelaunchKeepsCommand' /\ Served' /\ Bundled' /\ Taken'
  BY <1>1, <1>2
     DEF Kept, Begun, Asked, RelaunchKeepsCommand, Served, Bundled, Taken, Started, Process
<1>5. \A w \in Worker : Chosen(w)'
  BY <1>1 DEF Kept, Chosen, Interface, UiAvailable
<1> QED
  BY <1>3, <1>4, <1>5 DEF Kept

(* Every step of the program keeps all of Kept. *)
LEMMA NextKept ==
  ASSUME IInv, LaunchTyped, Kept, [Next]_vars
  PROVE  Kept'
<1>1. ASSUME NEW p \in Process, ProcessStep(p) PROVE Kept'
  <2>1. Shape
    BY DEF IInv
  <2>2. CASE HandOver(p)
    BY <2>2, HandOverKept
  <2>3. CASE ~HandOver(p)
    <3>1. GoesOn(p)
      BY <1>1, <2>1, <2>3, ParseFits, UnpackFits, ChooseFits, ReadInputFits, OpenProgressFits,
         CheckRightsFits, WorkFailsFits, WorkDoneFits, UninstallDoneFits, ShowFailureFits,
         ReturnFits, EndFits, CleanFits DEF ProcessStep
    <3> QED
      BY <3>1, FitsKeeps
  <2> QED
    BY <2>2, <2>3
<1>2. ASSUME NEW p \in Process, UserStep(p) PROVE Kept'
  <2>1. Shape
    BY DEF IInv
  <2>2. CASE Consent(p)
    BY <2>2, ConsentKept
  <2>3. CASE ~Consent(p)
    <3>1. GoesOn(p)
      BY <1>2, <2>1, <2>3, ConfirmFits, CloseFailureFits, FarewellFits, SuccessFits,
         ApologyFits, LastWordFits, AnswerRebootFits DEF UserStep
    <3> QED
      BY <3>1, FitsKeeps
  <2> QED
    BY <2>2, <2>3
<1>3. ASSUME NEW r \in Requests, Start(r.image, r.args) PROVE Kept'
  BY <1>3, StartKept, LaunchAssumption
<1>4. CASE UNCHANGED vars
  BY <1>4 DEF vars, Kept, Begun, Asked, RelaunchKeepsCommand, Bundled, Taken, Written,
              WrittenFrom, Served, Serves, Answering, Chosen, Interface, UiAvailable, Started,
              Bytes, Found
<1> QED
  BY <1>1, <1>2, <1>3, <1>4, PackageKept DEF Next

(* At first nothing is started and nothing is packaged. *)
LEMMA InitKept == Init => Kept
<1> SUFFICES ASSUME Init PROVE Kept
  OBVIOUS
<1>1. \A p \in Process : /\ proc[p].pc = "off" /\ proc[p].work = "none"
                         /\ proc[p].bundled = FALSE /\ proc[p].unpacked = <<>>
  BY DEF Init, Idle
<1>2. installer = Blank
  BY DEF Init, Blank
<1> QED
  BY <1>1, <1>2 DEF Kept, Begun, Asked, RelaunchKeepsCommand, Bundled, Taken, Written, Served,
                    Chosen, Started, Busy, Process, Worker

(* Kept holds in every state. *)
LEMMA AlwaysKept == Spec => []Kept
<1>1. Spec => []LaunchTyped
  <2>1. IInv => Shape
    BY DEF IInv
  <2> QED
    BY <2>1, Inductive, InitTyped, NextTyped, PTL DEF Spec
<1> QED
  BY <1>1, Inductive, InitKept, NextKept, PTL DEF Spec

(* The elevated process does what the first was asked: whatever the       *)
(* command line of the first process, the elevated one has the same       *)
(* arguments, for every machine and request.                              *)
THEOREM CommandKept == Spec => []RelaunchKeepsCommand
<1>1. Kept => RelaunchKeepsCommand
  BY DEF Kept
<1> QED
  BY <1>1, AlwaysKept, PTL

(* A process that has done the work is the one whose helper it is. *)
LEMMA KeptSpeaks == IInv /\ LaunchTyped /\ Kept => HelperSpeaksAlike
<1> SUFFICES ASSUME IInv, LaunchTyped, Kept, NEW p \in Worker, proc[p].work = "ok",
                    proc["helper"].pc \notin {"off", "parsing", "choosing"}
             PROVE  /\ Understood(proc["helper"].args)
                    /\ proc["helper"].mode = Answering(proc[p].mode)
                    /\ Asks("helper", "--automation") = Asks(p, "--automation")
  BY DEF HelperSpeaksAlike, Answering, Worker
<1>1. PICK w \in Worker : Serves(w)
  BY DEF Kept, Served, Started
<1>2. w = p
  <2>1. proc[w].work = "ok" /\ w \in Process /\ p \in Process
    BY <1>1 DEF Serves, Worker, Process
  <2> QED
    BY <2>1, IInvEntitles DEF WorkIsEntitled
<1>3. proc["helper"].mode = Answering(proc[p].mode)
  BY <1>1, <1>2 DEF Serves, Young
<1> DEFINE given == proc["helper"].args
           args == proc[p].args
           mode == proc[p].mode
           available == UiAvailable(p)
<1>4. mode = SelectUi(args, available) /\ mode # "error" /\ given = HelperArgs(args, mode)
  BY <1>1, <1>2 DEF Serves, Kept, Chosen, Interface, LaunchTyped, WellTyped, Process, Worker
<1> HIDE DEF given, args, mode, available
<1>5. Understood(given) /\ Has(given, "--automation") = Has(args, "--automation")
  BY <1>4, HelperAnswers
<1>6. Understood(proc["helper"].args)
  BY <1>5 DEF given
<1>7. Asks("helper", "--automation") = Asks(p, "--automation")
  BY <1>5 DEF given, args, Asks
<1> QED
  BY <1>3, <1>6, <1>7

(* The helper never fails for its command line, and uses the interface of *)
(* the uninstaller that started it, but the terminal where that one had a *)
(* window and the helper, in a directory of its own, finds none: for every*)
(* command line, wherever windows lie, and any number of faults.          *)
THEOREM HelperAlike == Spec => []HelperSpeaksAlike
<1>1. Spec => []LaunchTyped
  <2>1. IInv => Shape
    BY DEF IInv
  <2> QED
    BY <2>1, Inductive, InitTyped, NextTyped, PTL DEF Spec
<1> QED
  BY <1>1, Inductive, AlwaysKept, KeptSpeaks, PTL

(* Whoever unpacks a bundle has read the magic. *)
LEMMA KeptRefuses == Kept => CutOffPackageIsRefused
<1> SUFFICES ASSUME Kept, ~installer.whole,
                    \A i \in DOMAIN installer.stub : installer.stub[i] # Magic,
                    \A i \in DOMAIN installer.source.entries :
                      Magic \notin ToSet(installer.source.entries[i].data),
                    NEW p \in Process, proc[p].bundled
             PROVE  FALSE
  BY DEF CutOffPackageIsRefused
<1>1. HasBundle(Bytes(p))
  BY DEF Kept, Bundled
<1>2. Bytes(p) = installer.bytes
  BY <1>1, NotPackaged DEF Bytes
<1>3. installer # Blank
  BY <1>1, <1>2, NotPackaged DEF Blank
<1>4. PICK source \in Sources, stub \in Stubs : WrittenFrom(stub, source)
  BY <1>3 DEF Kept, Written
<1>5. /\ installer.stub = stub /\ installer.source = source
      /\ \E n \in 1..(Len(Packaged(stub, source)) - 1) :
           installer.bytes = SubSeq(Packaged(stub, source), 1, n)
  BY <1>4 DEF WrittenFrom
<1>6. stub \in Seq(AnyCell)
  BY LaunchAssumption
<1> QED
  BY <1>1, <1>2, <1>5, <1>6, CutOffHasNone

(* A package that was cut off installs nothing, wherever it was cut off,  *)
(* for every directory and every executable without a magic in it.        *)
THEOREM CutOffRefused == Spec => []CutOffPackageIsRefused
BY AlwaysKept, KeptRefuses, PTL

(* What a process unpacked is what the package has. *)
LEMMA KeptUnpacks == Kept => UnpacksWhatWasPackaged
<1> DEFINE entries == installer.source.entries
           NameOf(i) == IF entries[i].path = installer.source.manifest
                        THEN ManifestName ELSE entries[i].path
           kept == {i \in DOMAIN entries :
                      \A k \in DOMAIN entries[i].path : entries[i].path[k] \notin Generated}
<1> SUFFICES ASSUME Kept, NEW p \in Process, proc[p].bundled, installer.whole,
                    proc[p].unpacked # <<>>,
                    \A i \in DOMAIN entries :
                      entries[i].path = ManifestName => installer.source.manifest = ManifestName
             PROVE  /\ DOMAIN proc[p].unpacked = {NameOf(i) : i \in kept}
                    /\ \A i \in kept : proc[p].unpacked[NameOf(i)] = entries[i].data
  BY DEF UnpacksWhatWasPackaged
<1>1. HasBundle(Bytes(p)) /\ proc[p].unpacked = Unpacked(Found(p))
  BY DEF Kept, Bundled, Taken
<1>2. Bytes(p) = installer.bytes
  BY <1>1, NotPackaged DEF Bytes
<1>3. installer # Blank
  BY <1>1, <1>2, NotPackaged DEF Blank
<1>4. PICK source \in Sources, stub \in Stubs : WrittenFrom(stub, source)
  BY <1>3 DEF Kept, Written
<1>5. installer.source = source /\ installer.bytes = Packaged(stub, source)
  BY <1>4 DEF WrittenFrom
<1>6. Found(p) = Collect(source)
  <2>1. stub \in Seq(AnyCell)
    BY LaunchAssumption
  <2>2. ReadBundle(Packaged(stub, source)) = [kind |-> "bundle", files |-> Collect(source)]
    BY <2>1, ReadPackaged
  <2> QED
    BY <1>2, <1>5, <2>2 DEF Found
<1>7. entries = source.entries /\ kept = KeptEntries(source)
  BY <1>5 DEF KeptEntries, Excluded
<1>8. \A i \in kept : NameOf(i) = Renamed(source, source.entries[i]).path
  <2>1. \A i \in kept : source.entries[i] \in File
    BY <1>7, BundleAssumption
  <2> QED
    BY <1>5, <2>1, RenamedIs
<1> DEFINE u == Unpacked(Collect(source))
           Name(i) == Renamed(source, source.entries[i]).path
<1>9. /\ DOMAIN u = {Name(i) : i \in KeptEntries(source)}
      /\ \A i \in KeptEntries(source) : u[Name(i)] = source.entries[i].data
  BY <1>5, PackageUnpacks
<1>10. proc[p].unpacked = u
  BY <1>1, <1>6
<1>11. \A i \in kept : NameOf(i) = Name(i)
  BY <1>8
<1> HIDE DEF u, Name, NameOf, kept, entries
<1> QED
  BY <1>7, <1>9, <1>10, <1>11

(* An installer unpacks what the directory had, for every directory whose *)
(* paths are distinct and every executable.                               *)
THEOREM PackageUnpacked == Spec => []UnpacksWhatWasPackaged
BY AlwaysKept, KeptUnpacks, PTL
=============================================================================
