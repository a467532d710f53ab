------------------------------ MODULE MCLaunch ------------------------------
(***************************************************************************)
(* Small directories to package, the command lines to start and the        *)
(* machines to start them on.                                              *)
(***************************************************************************)
EXTENDS LaunchCorrectness

Entry(name, data) == [path |-> <<name>>, data |-> data]
Within(directory, entry) == [entry EXCEPT !.path = <<directory>> \o @]

MCManifestName == <<"install.toml">>

(* a file below named like a journal, in capitals; a directory named like  *)
(* an installer; an empty file; files in any order                         *)
AppToml == [manifest |-> <<"app.toml">>,
            entries |-> <<Within("data", Entry("JOURNAL.JSON", <<Data(1)>>)),
                          Entry("app.toml", <<Data(2)>>),
                          Within("covenant-setup-installer.exe", Entry("old.exe", <<Data(6)>>)),
                          Entry("empty", <<>>),
                          Within("data", Entry("app.toml", <<Data(3), Data(4)>>))>>]

(* a sibling with the name the manifest will get, before or behind it *)
SiblingLast == [manifest |-> <<"app.toml">>,
                entries |-> <<Entry("app.toml", <<Data(2)>>), Entry("install.toml", <<Data(5)>>)>>]
SiblingFirst == [SiblingLast EXCEPT !.entries = <<@[2], @[1]>>]

(* the application is itself a packaged installer *)
Nested == [manifest |-> <<"install.toml">>,
           entries |-> <<Entry("setup.exe", Packaged(<<Code>>, SiblingLast)),
                         Entry("install.toml", <<Data(2)>>)>>]

MCSources == {AppToml, SiblingLast, SiblingFirst, Nested}

(* package run from setup, or from something packaged before *)
MCStubs == {<<Code>>, Packaged(<<Code>>, AppToml)}

Modes == {<<>>, <<<<"--json">>>>, <<<<"--headless">>>>, <<<<"--headed">>>>,
          <<<<"--headed">>, <<"--automation">>>>, <<<<"--headed">>, <<"--headless">>>>}

(* journal paths: every sequence of up to three symbols *)
Texts == UNION {[1..n -> {"bs", "qt", "sp", "a"}] : n \in 1..3}

MCRequests ==
  {[image |-> "installer", args |-> m] : m \in Modes}
  \cup {[image |-> "setup", args |-> m \o <<<<"install">>, <<"a">>>> \o e] :
          m \in Modes, e \in {<<>>, <<<<"--elevate">>>>}}
  \cup {[image |-> i, args |-> m \o <<<<"uninstall">>, <<"a">>, <<"--elevate">>>>] :
          m \in Modes, i \in {"setup", "uninstaller"}}
  \cup {[image |-> "setup",
         args |-> <<<<"--headless">>, <<"--elevate">>, <<"install">>, <<"a">>, t>>] :
          t \in Texts}

(* the sidecar came with the setup, with the payload, or lies in %TEMP%    *)
MCSidecars == {{}, {"setup", "installer"}, {"uninstaller"}, {"helper"}}

MCWorlds ==
  [required: {"yes", "no", "error"}, token: BOOLEAN, embedded: BOOLEAN, sidecar: MCSidecars,
   readable: BOOLEAN]

(* with an embedded window nobody looks for a sidecar; nor is it asked what *)
(* rights an input needs that cannot be read                               *)
Worlds3 == {w \in MCWorlds : /\ w.embedded => w.sidecar = {}
                             /\ ~w.readable => w.required = "no"}

(* what Installed Apps starts *)
Registered ==
  {[image |-> "uninstaller", args |-> Argv(RegisteredLine(<<"a", "sp", "a">>))]}
GoodWorlds == {w \in Worlds3 : w.readable /\ w.embedded}
=============================================================================
