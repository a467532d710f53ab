---------------------------- MODULE MCLifecycle ----------------------------
(***************************************************************************)
(* Small machines and manifests for TLC.                                   *)
(*   local                     %LOCALAPPDATA%, there from the start        *)
(*     root                    the application, the install root           *)
(*       bin, bin\exe, log, uninstaller, journal                           *)
(*       portal                a junction to store                         *)
(*     note                    a file of somebody else                     *)
(*     store, store\letter     a directory of somebody else                *)
(*   desktop, desktop\link                                                 *)
(*   progfiles, progfiles\pf   administrators only                         *)
(*   helper                    the cleanup helper in %TEMP%                *)
(***************************************************************************)
EXTENDS Correctness

CONSTANTS
  local, root, bin, desktop, progfiles, pf, store, \* directories
  exe, log, uninstaller, journal, pfuninst, pfjournal, link, note, helper, letter,
  portal, writelog, mklink, None

(* what the sample needs; with Program Files; with all of it *)
HomeDirs == {local, root, bin, desktop}
HomeFiles == {exe, log, uninstaller, journal, link, note, helper}
PfDirs == HomeDirs \cup {progfiles, pf}
PfFiles == HomeFiles \cup {pfuninst, pfjournal}
AllDirs == PfDirs \cup {store}
AllFiles == PfFiles \cup {letter}

MCLeads == [l \in Link |-> store]

MCAncestors == [p \in Path |->
  CASE p \in {bin, log, uninstaller, journal, portal} -> {local, root}
    [] p = exe -> {local, root, bin}
    [] p \in {root, note, store} -> {local}
    [] p = letter -> {local, store}
    [] p = link -> {desktop}
    [] p = pf -> {progfiles}
    [] p \in {pfuninst, pfjournal} -> {progfiles, pf}
    [] OTHER -> {}]

MCAdminPath == Path \cap {progfiles, pf, pfuninst, pfjournal}

MCNode0 == [p \in Path |->
  IF p \in {local, desktop, progfiles, note, store, letter} THEN "foreign" ELSE "absent"]

MCKeys == {"software", "appkey", "machinekey", "arpuser", "arpmachine"}
MCTree == [k \in MCKeys |-> IF k = "software" THEN {"software", "appkey"} ELSE {k}]
MCNames == {"DisplayName", "UninstallString", "InstallRoot"}
MCReg0 == [v \in MCKeys \X MCNames |->
  IF v = <<"software", "InstallRoot">> THEN "foreign" ELSE "absent"]

MCLeaves == [s \in Script |-> IF s = writelog THEN {log} ELSE {portal}]

MCRoots == DirPath \cap {root, pf}
MCUninstallerIn == [r \in MCRoots |-> IF r = root THEN uninstaller ELSE pfuninst]
MCJournalIn == [r \in MCRoots |-> IF r = root THEN journal ELSE pfjournal]
MCJournalPaths == FilePath \cap {journal, pfjournal}
MCArpNames == <<"DisplayName", "UninstallString">>

(* examples/install.toml *)
Sample == [dirs |-> <<root, bin>>, files |-> <<exe>>,
           registry |-> <<<<"appkey", "InstallRoot">>>>, shortcuts |-> <<link>>,
           scripts |-> <<writelog>>, branches |-> <<"appkey">>, purges |-> <<root>>,
           journal |-> None]

(* the sample without its script and its purge section *)
Plain == [Sample EXCEPT !.scripts = <<>>, !.branches = <<>>, !.purges = <<>>]

(* the script puts a junction into the install root, which is purged *)
Linked == [Sample EXCEPT !.scripts = <<mklink>>]

(* ... that leads to a directory the manifest lists *)
Dangling == [Linked EXCEPT !.dirs = <<root, store>>, !.files = <<letter>>]

(* the install root named by the purge section needs administrator rights *)
Elsewhere == [Plain EXCEPT !.purges = <<pf>>]

(* a file alone, its directories implied; a purge path that is a file *)
Bare == [Plain EXCEPT !.files = <<log>>, !.dirs = <<>>, !.registry = <<>>, !.shortcuts = <<>>]
PurgesFile == [Bare EXCEPT !.purges = <<root, link>>, !.shortcuts = <<link>>]

(* nothing to infer an install root from *)
Rootless == [Bare EXCEPT !.files = <<>>, !.registry = <<<<"appkey", "InstallRoot">>>>]

(* HKLM is met before a key with an unsupported root, which goes unnoticed *)
LateBadKey == [Plain EXCEPT !.registry = <<<<"machinekey", "InstallRoot">>,
                                           <<BadKey, "InstallRoot">>>>]
LateBadBranch == [Plain EXCEPT !.registry = <<<<"machinekey", "InstallRoot">>>>,
                               !.branches = <<BadKey>>]

(* two branches, the second below the first *)
TwoBranches == [Bare EXCEPT !.branches = <<"appkey", "machinekey">>]

JustSample == {Sample}
JustPlain == {Plain}
SampleAndPlain == {Sample, Plain}
JustLinked == {Linked}
SampleAndOdd == {Sample, Elsewhere, PurgesFile, Rootless, LateBadKey, LateBadBranch, TwoBranches,
                 Linked, Dangling}
=============================================================================
