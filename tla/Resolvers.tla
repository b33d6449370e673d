----------------------------- MODULE Resolvers -----------------------------
(***************************************************************************)
(* How an IRI becomes a list of candidate projects.  A resolver answers    *)
(* with an outcome (resolved, unsupported, unresolvable or an error) and,  *)
(* when it resolved, with items: storages, or errors in their place.       *)
(* A site is what the outside holds for one IRI: its scheme, the projects  *)
(* found by scheme, in the local environment, in each index, in the        *)
(* configured overrides and among the provided standard libraries.         *)
(***************************************************************************)
EXTENDS Naturals, Sequences, SequencesExt

Unsupported == [kind |-> "unsupported", items |-> <<>>]
Unresolvable == [kind |-> "unresolvable", items |-> <<>>]
Failed == [kind |-> "error", items |-> <<>>]
Resolved(items) == [kind |-> "resolved", items |-> items]

Ok(s) == [ok |-> TRUE, value |-> s]

\* A project that was not found where the resolver looks for it.
Missing == [id |-> 0, name |-> 0, info |-> "absent", meta |-> FALSE, version |-> 0,
            usages |-> {}, exports |-> {}, sum |-> 0, asks |-> FALSE,
            digest |-> "lower", kind |-> "RemoteSrc"]

-----------------------------------------------------------------------------
(* Storages.  `read` answers every question about contents, `from` the     *)
(* question where the project comes from, `via` remembers the resolver.    *)

Storage(via, p) == [via |-> via, read |-> p, from |-> p]
Err == [ok |-> FALSE, value |-> Storage(<<>>, Missing)]

\* The enums over storages pass each call to the storage they hold.
Wrap(tag, s) == [s EXCEPT !.via = <<tag>> \o @]

FileProject(kind, p) == Storage(<<kind>>, p)
HTTPProject(kind, p) == Storage(<<kind>>, p)
RemoteProject(tag, item) == [item EXCEPT !.value = Wrap(tag, @)]
PriorityProject(tag, item) == [item EXCEPT !.value = Wrap(tag, @)]

\* A local copy stands in for the project it is a copy of, except for sources.
CachedProject(local, remote) ==
    [via |-> <<"cached">> \o remote.via, read |-> local.read, from |-> remote.from]

\* Both descriptions are there and can be read.
HasInfoAndMeta(s) == s.read.info # "absent" /\ s.read.meta

\* The canonical checksum needs both descriptions.
Checksum(s) == IF HasInfoAndMeta(s) THEN s.read.sum ELSE 0
-----------------------------------------------------------------------------
\* A resolver that is not given answers like one that supports nothing.
NullResolver == Unsupported
Given(given, outcome) == IF given THEN outcome ELSE NullResolver

MemoryResolver(projects) ==
    IF projects.known THEN Resolved([k \in DOMAIN projects.list |-> Ok(projects.list[k])])
                      ELSE Unresolvable

EnvResolver(env) ==
    IF ~env.reachable THEN Failed
    ELSE IF env.list = <<>> THEN Unresolvable
    ELSE Resolved(env.list)

\* An error of any environment is the error of all; otherwise their lists follow
\* one another.
SequentialResolver(outcomes) ==
    LET Kinds == {outcomes[k].kind : k \in DOMAIN outcomes}
    IN  IF "error" \in Kinds THEN Failed
        ELSE IF "resolved" \in Kinds
             THEN Resolved(FlattenSeq([k \in DOMAIN outcomes |-> outcomes[k].items]))
        ELSE IF "unresolvable" \in Kinds THEN Unresolvable
        ELSE Unsupported

\* Where a file URL may point: relative paths need a directory to start from, and
\* a sandbox confines the rest.
ResolvePlatformPath(site, sandboxed) ==
    IF site.path = "relative" THEN Unsupported
    ELSE IF sandboxed /\ site.path = "outside" THEN Unresolvable
    ELSE Resolved(<<>>)
FileResolver(site, sandboxed) ==
    IF site.scheme # "file" THEN Unsupported
    ELSE IF site.path = "bad" THEN Failed
    ELSE IF ResolvePlatformPath(site, sandboxed).kind # "resolved"
         THEN ResolvePlatformPath(site, sandboxed)
    ELSE Resolved(<<Ok(FileProject("src", site.src)), Ok(FileProject("kpar", site.kpar))>>)

TryResolveAsSrc(site) == Ok(HTTPProject("src", site.src))
TryResolveAsKpar(site) == Ok(HTTPProject("kpar", site.kpar))
HTTPResolver(site) ==
    IF site.scheme = "http" THEN Resolved(<<TryResolveAsSrc(site), TryResolveAsKpar(site)>>)
                            ELSE Unsupported

GitResolver(site) ==
    IF site.scheme \in {"http", "file", "git"} THEN Resolved(<<Ok(Storage(<<"repo">>, site.git))>>)
                                               ELSE Unsupported

\* The HTTP candidates come first.
ResolvedRemote(http, git) ==
    [k \in DOMAIN http.items |-> RemoteProject("http", http.items[k])]
    \o [k \in DOMAIN git.items |-> RemoteProject("git", git.items[k])]

\* Resolved even when neither supports the IRI: the list is then empty.
RemoteResolver(http, git) ==
    IF "error" \in {http.kind, git.kind} THEN Failed ELSE Resolved(ResolvedRemote(http, git))

PriorityItems(tag, outcome) ==
    [outcome EXCEPT !.items = [k \in DOMAIN @ |-> PriorityProject(tag, @[k])]]

PriorityResolver(higher, lower) ==
    IF higher.kind \in {"error", "resolved"} THEN PriorityItems("higher", higher)
                                             ELSE PriorityItems("lower", lower)
-----------------------------------------------------------------------------
(* The combined resolver. *)

\* The local copies by checksum: a later copy takes the place of an earlier one
\* with the same contents, and what cannot be read is left out.
Locals(outcome) ==
    LET readable == SelectSeq(outcome.items, LAMBDA it : it.ok /\ Checksum(it.value) # 0)
        first(k) == \A j \in 1..(k - 1) : Checksum(readable[j].value) # Checksum(readable[k].value)
        last(k) == CHOOSE j \in DOMAIN readable :
                     /\ Checksum(readable[j].value) = Checksum(readable[k].value)
                     /\ \A i \in DOMAIN readable : i > j =>
                            Checksum(readable[i].value) # Checksum(readable[k].value)
        kept == SetToSortSeq({k \in DOMAIN readable : first(k)}, <)
    IN  [k \in DOMAIN kept |-> readable[last(kept[k])].value]

\* Remote candidates from the first one that is a project.
Valid(item) == item.ok /\ HasInfoAndMeta(item.value)
FromFirstValid(items) ==
    LET valid == {k \in DOMAIN items : Valid(items[k])}
    IN  IF valid = {} THEN <<>>
        ELSE SubSeq(items, CHOOSE k \in valid : \A j \in valid : k <= j, Len(items))

\* The positions of the local copies that have the contents of a candidate.
Copies(locals, item) ==
    {k \in DOMAIN locals : /\ item.ok /\ Checksum(item.value) # 0
                           /\ Checksum(locals[k]) = Checksum(item.value)}

\* One step of the iterator: a candidate takes the local copy with its checksum.
\* `seen` are the items so far, `locals` the copies nobody took.
\* Faulty variant: the copy stays in the list.
TakeLocalAgain(acc, item) ==
    LET hit == Copies(acc.locals, item)
    IN  IF hit = {} THEN [acc EXCEPT !.seen = Append(@, item)]
        ELSE LET k == CHOOSE j \in hit : TRUE
             IN  [acc EXCEPT !.seen = Append(@, Ok(CachedProject(acc.locals[k], item.value)))]
TakeLocal(acc, item) ==
    LET hit == Copies(acc.locals, item)
    IN  IF hit = {} THEN [acc EXCEPT !.seen = Append(@, item)]
        ELSE LET k == CHOOSE j \in hit : TRUE
             IN  [seen |-> Append(acc.seen, Ok(CachedProject(acc.locals[k], item.value))),
                  locals |-> RemoveAt(acc.locals, k)]

CombinedIterator(items, locals) ==
    LET done == FoldLeft(TakeLocal, [seen |-> <<>>, locals |-> locals], items)
    IN  done.seen \o [k \in DOMAIN done.locals |-> Ok(Wrap("dangling", done.locals[k]))]

CombinedResolver(file, local, remote, index) ==
    LET locals == IF local.kind = "resolved" THEN Locals(local) ELSE <<>>
        remotes == FromFirstValid(remote.items)
        supported == \E o \in {local, remote, index} : o.kind # "unsupported"
    IN  IF file.kind # "unsupported" THEN file
        ELSE IF "error" \in {local.kind, remote.kind} THEN Failed
        ELSE IF remotes # <<>> THEN Resolved(CombinedIterator(remotes, locals))
        ELSE IF index.kind = "error" THEN Failed
        ELSE IF index.kind = "resolved" THEN Resolved(CombinedIterator(index.items, locals))
        ELSE IF ~supported THEN Unsupported
        ELSE IF locals = <<>> THEN Unresolvable
        ELSE Resolved(CombinedIterator(<<>>, locals))

RemoteOf(site) == RemoteResolver(HTTPResolver(site), GitResolver(site))
IndexOf(site) == SequentialResolver([k \in DOMAIN site.indexes |-> EnvResolver(site.indexes[k])])

StandardResolver(site) ==
    CombinedResolver(FileResolver(site, FALSE), Given(site.hasEnv, EnvResolver(site.local)),
                     RemoteOf(site), Given(site.hasIndex, IndexOf(site)))

\* What `lock` asks: overrides, then the provided libraries, then the rest.
Resolver(site) ==
    PriorityResolver(PriorityResolver(MemoryResolver(site.overrides), MemoryResolver(site.std)),
                     StandardResolver(site))
=============================================================================
