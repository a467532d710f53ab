---------------------------- MODULE CommandLine ----------------------------
(***************************************************************************)
(* Command lines: how relaunch_as_admin and register_uninstall_entry put   *)
(* them together, how a new process takes them apart, what clap and        *)
(* select_ui make of the arguments.  An argument is a sequence of symbols: *)
(* "bs" a backslash, "qt" a double quote, "sp" a blank or tab, and whole   *)
(* words such as "--headed", none of whose letters matters to anybody.     *)
(***************************************************************************)
EXTENDS Naturals, Sequences, SequencesExt

Slashes(n) == [i \in 1..n |-> "bs"]

(* quote_command_line_arg, win.rs: backslashes are held back until it is   *)
(* known what follows them.                                                *)
QuoteStep(s, c) ==
  CASE c = "bs" -> [s EXCEPT !.slashes = @ + 1]
    [] c = "qt" -> [out |-> s.out \o Slashes(2 * s.slashes + 1) \o <<"qt">>, slashes |-> 0]
    [] OTHER -> [out |-> s.out \o Slashes(s.slashes) \o <<c>>, slashes |-> 0]

ClosingSlashesOnce(s) == s.out \o Slashes(s.slashes) \o <<"qt">>  \* mutant
ClosingSlashes(s) == s.out \o Slashes(2 * s.slashes) \o <<"qt">>

(* how far the quoting is after each symbol of arg *)
Quoting(arg) ==
  LET at[n \in 0..Len(arg)] ==
        IF n = 0 THEN [out |-> <<"qt">>, slashes |-> 0] ELSE QuoteStep(at[n - 1], arg[n])
  IN  at

Quote(arg) ==
  IF arg # <<>> /\ ToSet(arg) \cap {"sp", "qt"} = {} THEN arg
  ELSE ClosingSlashes(Quoting(arg)[Len(arg)])

(* The parameters relaunch_as_admin hands to ShellExecuteW. *)
Parameters(args) ==
  FlattenSeq([i \in DOMAIN args |-> (IF i = 1 THEN <<>> ELSE <<"sp">>) \o Quote(args[i])])

(* UninstallString of register_uninstall_entry, without the executable. *)
RegisteredLine(journal) ==
  <<"uninstall", "sp", "qt">> \o journal \o <<"qt", "sp", "--elevate">>

-----------------------------------------------------------------------------
(* std::env::args of the new process, by the rules of the C run time: 2n   *)
(* backslashes before a quote are n, one more makes the quote literal, and *)
(* a quote right behind a closing one is literal.                          *)
ArgvStep(s, c) ==
  LET held == Slashes(s.slashes) IN
  CASE c = "bs" -> [s EXCEPT !.slashes = @ + 1, !.some = TRUE, !.closed = FALSE]
    [] c = "qt" /\ s.slashes % 2 = 1 ->
         [s EXCEPT !.arg = @ \o Slashes(s.slashes \div 2) \o <<"qt">>, !.slashes = 0]
    [] c = "qt" /\ s.slashes % 2 = 0 /\ s.closed ->
         [s EXCEPT !.arg = Append(@, "qt"), !.quoted = TRUE, !.closed = FALSE]
    [] c = "qt" /\ s.slashes % 2 = 0 /\ ~s.closed ->
         [s EXCEPT !.arg = @ \o Slashes(s.slashes \div 2), !.slashes = 0, !.some = TRUE,
                   !.quoted = ~s.quoted, !.closed = s.quoted]
    [] c = "sp" /\ ~s.quoted ->
         [s EXCEPT !.args = IF s.some THEN Append(@, s.arg \o held) ELSE @,
                   !.arg = <<>>, !.slashes = 0, !.some = FALSE, !.closed = FALSE]
    [] OTHER ->
         [s EXCEPT !.arg = @ \o held \o <<c>>, !.slashes = 0, !.some = TRUE, !.closed = FALSE]

(* between two arguments: args are complete *)
Between(args) ==
  [args |-> args, arg |-> <<>>, some |-> FALSE, slashes |-> 0, quoted |-> FALSE, closed |-> FALSE]

(* how far the reading is after each symbol of line, begun at s *)
Reading(s, line) ==
  LET at[n \in 0..Len(line)] == IF n = 0 THEN s ELSE ArgvStep(at[n - 1], line[n])
  IN  at

ReadFrom(s, line) == Reading(s, line)[Len(line)]

Argv(line) == ReadFrom(Between(<<>>), line \o <<"sp">>).args

-----------------------------------------------------------------------------
Flag == {"--json", "--headless", "--headed", "--automation", "--elevate"}

Has(args, flag) == <<flag>> \in ToSet(args)

(* The command and its operands: flags may stand anywhere. *)
Operands(args) ==
  FlattenSeq([i \in DOMAIN args |-> IF args[i] \in {<<f>> : f \in Flag} THEN <<>> ELSE <<args[i]>>])

(* Cli::parse: "headed" conflicts with "headless", operands are required   *)
(* and not empty.  (the options of install and cleanup count as operands)  *)
Understood(args) ==
  LET ops == Operands(args) IN
  /\ ~(Has(args, "--headed") /\ Has(args, "--headless"))
  /\ \/ ops = <<>>
     \/ ops[1] = <<"install">> /\ Len(ops) \in {2, 3}
     \/ ops[1] = <<"uninstall">> /\ Len(ops) = 2
     \/ ops[1] = <<"cleanup">> /\ Len(ops) = 3
  /\ \A i \in DOMAIN ops : ops[i] # <<>>

Command(args) == IF Operands(args) = <<>> THEN "none" ELSE Operands(args)[1][1]

(* Mutant: whether there is a window is not asked. *)
SelectUiBlindly(args, available) == IF Has(args, "--headed") THEN "gui" ELSE "tui"

(* select_ui *)
SelectUi(args, available) ==
  CASE Has(args, "--json") -> "none"
    [] ~Has(args, "--json") /\ Has(args, "--headless") -> "tui"
    [] ~Has(args, "--json") /\ Has(args, "--headed") ->
         IF available THEN "gui" ELSE "tui"
    [] OTHER -> "error"

HelperArgsPlain(args, mode) == <<<<"cleanup">>, <<"uninstaller">>, <<"root">>>>  \* mutant
(* The command line spawn_cleanup_helper gives the helper. *)
HelperArgs(args, mode) ==
  (IF Has(args, "--json") THEN <<<<"--json">>>> ELSE <<>>)
    \o (CASE mode = "tui" -> <<<<"--headless">>>>
          [] mode = "gui" -> <<<<"--headed">>>>
          [] OTHER -> <<>>)
    \o (IF Has(args, "--automation") THEN <<<<"--automation">>>> ELSE <<>>)
    \o <<<<"cleanup">>, <<"uninstaller">>, <<"root">>>>
=============================================================================
