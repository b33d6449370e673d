---------------------------- MODULE ProjectMeta -----------------------------
(***************************************************************************)
(* Files, and what the commands make of `.meta.json', as pure operators.   *)
(*                                                                         *)
(* A source file is given by the set of its top-level symbols; its digest  *)
(* is that set.                                                            *)
(***************************************************************************)
EXTENDS Naturals, Sequences, Functions

None == "none"

(***************************************************************************)
(* A file is absent, empty (created or truncated and not yet written),     *)
(* torn (cut short, or two texts mixed: not readable) or holds one value.  *)
(***************************************************************************)
Absent == [st |-> "absent", v |-> <<>>]
Empty == [st |-> "empty", v |-> <<>>]
Torn == [st |-> "torn", v |-> <<>>]
Holds(value) == [st |-> "ok", v |-> <<value>>]

\* Source files: missing, a text whose symbols cannot be extracted, or a set of
\* symbols.
Gone == [st |-> "gone", symbols |-> {}]
Unparsable == [st |-> "unparsable", symbols |-> {}]
Defines(symbols) == [st |-> "ok", symbols |-> symbols]

(***************************************************************************)
(* .meta.json: index maps symbols to paths, checksum maps paths to sums.   *)
(***************************************************************************)
NewMeta == [index |-> <<>>, checksum |-> <<>>, metamodel |-> None]

Sha256(symbols) == [algorithm |-> "SHA256", value |-> symbols]
NoSum == [algorithm |-> "NONE", value |-> {}]

\* f with every element of S mapped to v.
Put(f, S, v) ==
    [x \in DOMAIN f \cup S |-> IF x \in S THEN v ELSE f[x]]

AddChecksum(meta, path, sum) ==
    [meta EXCEPT !.checksum = Put(@, {path}, sum)]
RemoveChecksum(meta, paths) ==
    [meta EXCEPT !.checksum = Restrict(@, DOMAIN @ \ paths)]

FileIndexSymbols(meta, path) ==
    {s \in DOMAIN meta.index : meta.index[s] = path}
RemoveIndex(meta, paths) ==
    [meta EXCEPT !.index = Restrict(@, {s \in DOMAIN @ : @[s] \notin paths})]

\* The index names files with a checksum only.
IndexWithin(meta) == Range(meta.index) \subseteq DOMAIN meta.checksum

\* A symbol is in the text that was digested, the files of skip apart.
IndexAgrees(meta, skip) ==
    \A s \in DOMAIN meta.index :
        LET path == meta.index[s]
        IN  path \notin skip /\ path \in DOMAIN meta.checksum
            /\ meta.checksum[path].algorithm = "SHA256"
                => s \in meta.checksum[path].value

SourcePaths(meta) == DOMAIN meta.checksum \cup Range(meta.index)

\* set_meta and clear_meta on the metamodel.
SetMetamodel(meta, value) == [meta EXCEPT !.metamodel = value]

\* Faulty variant: symbols the file no longer defines stay in the index.
IncludeFileNoRetain(meta, path, symbols, compute, index) ==
    LET summed == AddChecksum(meta, path, IF compute THEN Sha256(symbols) ELSE NoSum)
    IN  IF index THEN [summed EXCEPT !.index = Put(@, symbols, path)] ELSE summed

\* One iteration of do_include.  A symbol indexed under another file moves.
IncludeFile(meta, path, symbols, compute, index) ==
    LET summed == AddChecksum(meta, path, IF compute THEN Sha256(symbols) ELSE NoSum)
    IN  IF index
        THEN [RemoveIndex(summed, {path}) EXCEPT !.index = Put(@, symbols, path)]
        ELSE summed

\* do_exclude fails on the first path that has neither a checksum nor symbols.
Excludable(meta, path) == path \in SourcePaths(meta)

\* Faulty variant: the symbols of the files stay in the index.
ExcludeFilesKeepIndex(meta, paths) == RemoveChecksum(meta, paths)

\* Iterations of do_exclude, one for each of the paths.
ExcludeFiles(meta, paths) == RemoveIndex(RemoveChecksum(meta, paths), paths)

=============================================================================
