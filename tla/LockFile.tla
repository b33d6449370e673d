------------------------------ MODULE LockFile -----------------------------
(***************************************************************************)
(* The lockfile: its entries, their canonical order, what is written for   *)
(* an entry and how it is read, and the checks made on reading.  Names and *)
(* IRIs are numbers, ordered as the code orders strings.                   *)
(***************************************************************************)
EXTENDS Naturals, Sequences, FiniteSets, SequencesExt

Source(kind, id, digest) == [kind |-> kind, id |-> id, digest |-> digest]

\* The fields written for each kind of source, in the order in which reading
\* tries the kinds.
SourceKinds == <<"Editable", "LocalSrc", "LocalKpar", "RemoteKpar", "IndexKpar", "RemoteSrc",
                 "RemoteGit">>
SourceFields(kind) ==
    CASE kind = "Editable" -> {"editable"}
      [] kind = "LocalSrc" -> {"src_path", "checksum"}
      [] kind = "LocalKpar" -> {"kpar_path", "kpar_size", "kpar_digest"}
      [] kind = "RemoteKpar" -> {"remote_kpar", "kpar_size", "kpar_digest"}
      [] kind = "IndexKpar" -> {"index_kpar", "kpar_size", "kpar_digest"}
      [] kind = "RemoteSrc" -> {"remote_src", "checksum"}
      [] kind = "RemoteGit" -> {"remote_git"}

SourceToToml(s) == [fields |-> SourceFields(s.kind), id |-> s.id, digest |-> s.digest]

\* The first kind all of whose fields are there.
SourceFromToml(t) ==
    LET fits == {k \in DOMAIN SourceKinds : SourceFields(SourceKinds[k]) \subseteq t.fields}
    IN  Source(SourceKinds[CHOOSE k \in fits : \A j \in fits : k <= j], t.id, t.digest)

\* Empty lists are not written.
\* Faulty variant: the list of usages is not written.
ToTomlNoUsages(e) ==
    [f \in {"name", "version"} \cup {g \in {"exports", "sources"} : e[g] # {}}
           \cup (IF e.ids # <<>> THEN {"ids"} ELSE {})
        |-> IF f = "sources" THEN {SourceToToml(s) : s \in e.sources} ELSE e[f]]
ToToml(e) ==
    [f \in {"name", "version"} \cup {g \in {"exports", "usages", "sources"} : e[g] # {}}
           \cup (IF e.ids # <<>> THEN {"ids"} ELSE {})
        |-> IF f = "sources" THEN {SourceToToml(s) : s \in e.sources} ELSE e[f]]

\* Lists that are missing are empty.
FromToml(t) ==
    LET list(f) == IF f \in DOMAIN t THEN t[f] ELSE {}
    IN  [name |-> t.name, version |-> t.version, exports |-> list("exports"),
         ids |-> IF "ids" \in DOMAIN t THEN t.ids ELSE <<>>, usages |-> list("usages"),
         sources |-> {SourceFromToml(s) : s \in list("sources")}]
-----------------------------------------------------------------------------
LexLess(a, b) ==
    \E n \in 1..Len(b) :
        /\ n > Len(a) \/ a[n] < b[n]
        /\ \A m \in 1..(n - 1) : m <= Len(a) /\ a[m] = b[m]

\* The order of entries: by name, exports, identifiers and version.
Less(p, q) ==
    LET pe == SetToSortSeq(p.exports, <) qe == SetToSortSeq(q.exports, <)
    IN  \/ p.name < q.name
        \/ p.name = q.name /\ LexLess(pe, qe)
        \/ p.name = q.name /\ pe = qe /\ LexLess(p.ids, q.ids)
        \/ p.name = q.name /\ pe = qe /\ p.ids = q.ids /\ p.version < q.version

LowerDigest(s) == [s EXCEPT !.digest = IF @ = "upper" THEN "lower" ELSE @]

\* Lists within an entry (exports and usages are sets here) and digests.
CanonicalEntry(e) ==
    [e EXCEPT !.ids = SetToSortSeq(ToSet(@), <), !.sources = {LowerDigest(s) : s \in @}]

\* Faulty variant: the entries stay in the order they were made.
CanonicalizeEntries(entries) == [k \in DOMAIN entries |-> CanonicalEntry(entries[k])]
Canonicalize(entries) == SortSeq([k \in DOMAIN entries |-> CanonicalEntry(entries[k])], Less)
-----------------------------------------------------------------------------
\* The first identifier of an entry (0: it has none).
FirstId(e) == IF e.ids = <<>> THEN 0 ELSE Head(e.ids)

CheckNameCollision(entries) ==
    \A k, j \in DOMAIN entries : k # j =>
        /\ FirstId(entries[k]) # FirstId(entries[j])
        /\ entries[k].exports \cap entries[j].exports = {}

ValidateUsages(entries) ==
    LET known == UNION {ToSet(entries[k].ids) : k \in DOMAIN entries}
    IN  \A k \in DOMAIN entries : entries[k].usages \subseteq known

\* A digest is in lower case; checkouts and editable projects have none.
ValidateSources(entries) ==
    \A k \in DOMAIN entries : \A s \in entries[k].sources :
        s.kind \in {"Editable", "RemoteGit"} \/ s.digest = "lower"

Validate(entries) ==
    CheckNameCollision(entries) /\ ValidateUsages(entries) /\ ValidateSources(entries)
=============================================================================
