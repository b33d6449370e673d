------------------------------- MODULE Solver ------------------------------
(***************************************************************************)
(* What the solver tells PubGrub: candidates and their positions, version  *)
(* sets for usages, priorities and choices.  The search itself (decisions, *)
(* conflicts, what is learned from them) is PubGrub's: a decision that     *)
(* contradicts another makes it learn a set of decisions no solution of    *)
(* the constraints seen so far contains, and return to before its last.    *)
(***************************************************************************)
EXTENDS Resolvers, VersionSets, FiniteSetsExt

\* A usage: the IRI, and the versions its constraint allows when there is one.
Usage(iri, req) == [iri |-> iri, any |-> FALSE, req |-> req]
AnyVersion(iri) == [iri |-> iri, any |-> TRUE, req |-> {}]

\* A candidate counts when its version parses and its usages are valid.
Accepted(item) == item.ok /\ item.value.read.info = "good"

\* The accepted candidates in the resolver's order; none is an error.
ResolveCandidates(site) ==
    LET outcome == Resolver(site)
        accepted == SelectSeq(outcome.items, Accepted)
    IN  IF outcome.kind # "resolved" THEN <<>>
        ELSE [k \in DOMAIN accepted |-> accepted[k].value]

\* Candidates are looked up once; later questions are answered from the cache.
\* Faulty variant: every question is put to the resolver again.
CachedAgain(cache, sites, iris) ==
    [i \in DOMAIN cache |-> IF i \in iris THEN ResolveCandidates(sites[i]) ELSE cache[i]]
Cached(cache, sites, iris) ==
    [i \in DOMAIN cache |-> IF i \in iris /\ cache[i] = <<>> THEN ResolveCandidates(sites[i])
                                                          ELSE cache[i]]

Positions(list) == 0..(Len(list) - 1)
At(list, k) == list[k + 1]
VersionAt(list, k) == At(list, k).read.version

Matching(u, list) == {k \in Positions(list) : VersionAt(list, k) \in u.req}
RangeOfUsage(u, list) == IF u.any THEN complement(empty) ELSE Finite(Matching(u, list))

\* The usages of a candidate become constraints only if each can be resolved and
\* leaves a version to choose; otherwise solving stops with an error.
ComputeDepsFails(usages, cache) ==
    \E u \in usages : cache[u.iri] = <<>> \/ (~u.any /\ Matching(u, cache[u.iri]) = {})

\* Smaller is decided first.
Prioritize(range) == IF range.kind = "finite" THEN Cardinality(range.set) ELSE 0

\* The positions choose_version may return (none, or several when versions tie).
\* Faulty variant: the last of a finite set is taken.
ChooseVersionLast(range, list) ==
    LET allowed == {k \in Positions(list) : contains(range, k)}
    IN  IF range.kind = "finite" THEN {k \in range.set : \A j \in range.set : j <= k}
        ELSE {k \in allowed : \A j \in allowed : VersionAt(list, j) <= VersionAt(list, k)}
ChooseVersion(range, list) ==
    LET allowed == {k \in Positions(list) : contains(range, k)}
    IN  IF range.kind = "finite" THEN {k \in range.set : \A j \in range.set : k <= j}
        ELSE {k \in allowed : \A j \in allowed : VersionAt(list, j) <= VersionAt(list, k)}
-----------------------------------------------------------------------------
\* The constraints a decision brings: `of` names the decision (or the request).
Requested == <<0, 0>>
ComputeDeps(of, usages, cache) ==
    {[of |-> of, iri |-> u.iri, range |-> RangeOfUsage(u, cache[u.iri])] : u \in usages}
-----------------------------------------------------------------------------
(* PubGrub (external).  Decisions are pairs <<iri, position>>; `deps` are  *)
(* the constraints it was told, `learned` what it concluded from them.     *)

Active(decisions, deps) == {c \in deps : c.of \in decisions \cup {Requested}}

\* What the decisions and the learned sets leave of a package's versions.
RangeOf(i, decisions, learned, deps, list) ==
    LET wanted == {c.range : c \in {a \in Active(decisions, deps) : a.iri = i}}
        barred == {complement(singleton(k)) : k \in
                     {j \in Positions(list) :
                        \E N \in learned : <<i, j>> \in N /\ N \ {<<i, j>>} \subseteq decisions}}
    IN  FoldSet(intersection, complement(empty), wanted \cup barred)

\* A selection gives each IRI a position or none (-1).
Selections(cache) ==
    {f \in [DOMAIN cache -> -1..(Max({Len(cache[i]) : i \in DOMAIN cache}) - 1)] :
        \A i \in DOMAIN cache : f[i] < Len(cache[i])}

\* The selections that contain some decisions and meet the constraints.
Extensions(decisions, deps, cache) ==
    {f \in Selections(cache) :
        /\ \A d \in decisions : f[d[1]] = d[2]
        /\ \A c \in deps : (c.of = Requested \/ f[c.of[1]] = c.of[2]) =>
               f[c.iri] >= 0 /\ contains(c.range, f[c.iri])}

\* The smallest sets of decisions that are to blame for a conflict.
Blamed(decisions, deps, cache) ==
    LET bad == {N \in SUBSET decisions : Extensions(N, deps, cache) = {}}
    IN  {N \in bad : \A M \in bad : M \subseteq N => M = N}
=============================================================================
