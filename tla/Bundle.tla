------------------------------- MODULE Bundle -------------------------------
(***************************************************************************)
(* The packaged installer: package copies its own executable and appends   *)
(* the files of a directory; the copy reads them back from its own end and *)
(* unpacks them.  A file is a sequence of cells, each as long as matters:  *)
(* a number, an index, a piece of data, the magic at the very end.         *)
(***************************************************************************)
EXTENDS Naturals, Sequences, SequencesExt

CONSTANTS
  Sources,     \* directories to package: [entries: Seq([path, data]), manifest: path]
  ManifestName,\* "install.toml"
  Generated    \* names of journals, uninstallers and installers, in every case

(* A path below the packaged directory: the names from the top down.       *)
Path == Seq(STRING)

Cell(is, n, index) == [is |-> is, n |-> n, index |-> index]
Code == Cell("code", 0, <<>>)
Number(n) == Cell("number", n, <<>>)
Index(entries) == Cell("index", 0, entries)
Data(d) == Cell("data", d, <<>>)
Magic == Cell("magic", 0, <<>>)

AnyCell == [is: {"code", "number", "index", "data", "magic"}, n: Nat, index: Seq(Path \X Nat)]
File == [path: Path, data: Seq(AnyCell)]

(* The paths of a directory are relative to it, each is there once. *)
ASSUME BundleAssumption ==
  /\ ManifestName \in Path
  /\ \A source \in Sources :
       /\ source.entries \in Seq(File)
       /\ \A i, j \in DOMAIN source.entries :
            source.entries[i].path = source.entries[j].path => i = j

(* should_exclude_from_bundle, of a file and of every directory above it   *)
Excluded(path) == \E k \in DOMAIN path : path[k] \in Generated

(* collect_bundle_files: the manifest gets the name it is read under.  (the *)
(* package itself, excluded too, has a generated name)                     *)
Collect(source) ==
  LET entries == source.entries IN
  FlattenSeq([i \in DOMAIN entries |->
    IF Excluded(entries[i].path) THEN <<>>
    ELSE <<[entries[i] EXCEPT !.path = IF @ = source.manifest THEN ManifestName ELSE @]>>])

(* append_embedded_bundle *)
Payload(files) ==
  <<Number(1), Index([i \in DOMAIN files |-> <<files[i].path, Len(files[i].data)>>])>>
    \o FlattenSeq([i \in DOMAIN files |-> files[i].data])

Appended(files) == Payload(files) \o <<Number(Len(Payload(files))), Magic>>

(* build_packaged_installer *)
Packaged(stub, source) == stub \o Appended(Collect(source))

-----------------------------------------------------------------------------
(* read_embedded_bundle *)

NoBundle == [kind |-> "none", files |-> <<>>]
Damaged == [kind |-> "error", files |-> <<>>]

Length(index, n) ==
  LET sum[k \in 0..n] == IF k = 0 THEN 0 ELSE sum[k - 1] + index[k][2] IN sum[n]

(* Mutant: where a file begins does not move on behind an empty one. *)
StartOfOverlapping(index, i) == 3 + Length(index, i - 1) - (IF i > 1 THEN 1 ELSE 0)
StartOf(index, i) == 3 + Length(index, i - 1)

ReadPayload(payload) ==
  LET index == payload[2].index IN
  IF payload = <<>> \/ 1 + payload[1].n > Len(payload) THEN Damaged
  ELSE IF payload[1].n # 1 \/ payload[2].is # "index" THEN Damaged
  ELSE IF 2 + Length(index, Len(index)) # Len(payload) THEN Damaged
  ELSE [kind |-> "bundle",
        files |-> [i \in DOMAIN index |->
                     [path |-> index[i][1],
                      data |-> SubSeq(payload, StartOf(index, i),
                                      StartOf(index, i) + index[i][2] - 1)]]]

(* Mutant: the length is believed, with the magic behind it or without.    *)
ReadBundleByLength(bytes) ==
  LET end == IF bytes[Len(bytes)] = Magic THEN Len(bytes) - 1 ELSE Len(bytes)
      size == bytes[end].n
  IN  IF end - 1 < size THEN Damaged
      ELSE ReadPayload(SubSeq(bytes, end - size, end - 1))

ReadBundle(bytes) ==
  LET end == Len(bytes)
      size == bytes[end - 1].n
  IN  IF end < 2 \/ bytes[end] # Magic THEN NoBundle
      ELSE IF end - 2 < size THEN Damaged
      ELSE ReadPayload(SubSeq(bytes, end - 1 - size, end - 2))

HasBundle(bytes) == ReadBundle(bytes).kind = "bundle"

(* extract_embedded_bundle: of two files with one name the later remains.  *)
Unpacked(files) ==
  [path \in {files[i].path : i \in DOMAIN files} |->
     files[CHOOSE i \in DOMAIN files :
             /\ files[i].path = path
             /\ \A j \in DOMAIN files : files[j].path = path => j <= i].data]
=============================================================================
