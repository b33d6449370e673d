-------------------------------- MODULE Lock -------------------------------
(***************************************************************************)
(* `sysand lock`: the usages of the current project are solved, each       *)
(* project of the solution becomes an entry, and the lockfile is put in    *)
(* its canonical form and written.  Meanwhile new versions may be          *)
(* published and a request made while writing entries may fail.            *)
(***************************************************************************)
EXTENDS Solver, LockFile

CONSTANTS
    Iris,          \* the IRIs that can be used, numbers so that they can be sorted
    Worlds,        \* what the outside may look like: a site for each IRI
    Roots,         \* the current projects considered
    NewVersion,    \* the project an index may publish for an IRI while lock runs
    MaxFaults      \* bound: requests that fail after solving

VARIABLES
    sites,         \* what the outside holds now
    root,          \* the current project
    phase,         \* "start", "solve", "extend", "done", "failed", "nosolution" or "panic"
    cache,         \* resolved_candidates: the candidates of each IRI asked for
    deps,          \* the constraints computed so far
    trail,         \* PubGrub's decisions, oldest first
    learned,       \* PubGrub's learned sets of decisions
    todo,          \* the IRIs of the solution not yet turned into entries
    lock,          \* the entries so far
    file,          \* the lockfile: entries, as they are written
    faults         \* requests that failed

vars == <<sites, root, phase, cache, deps, trail, learned, todo, lock, file, faults>>

Decided == ToSet(trail)
DecidedIris == {d[1] : d \in Decided}
Chosen(i) == At(cache[i], (CHOOSE d \in Decided : d[1] = i)[2])

\* The IRIs a workspace gives the project: only a project at the workspace's own
\* root is found, for the current project is always called ".".
AliasIris(r) == IF r.workspace /\ r.path = "." THEN r.iris ELSE <<>>

\* The entry of the current project.
InputProject(r) ==
    [name |-> r.name, version |-> r.version, exports |-> r.exports, ids |-> AliasIris(r),
     usages |-> {u.iri : u \in r.usages}, sources |-> {Source("Editable", 0, "none")}]

Init ==
    /\ sites \in Worlds /\ root \in Roots
    /\ phase = "start" /\ cache = [i \in Iris |-> <<>>]
    /\ deps = {} /\ trail = <<>> /\ learned = {} /\ todo = {} /\ lock = <<>> /\ file = <<>> /\ faults = 0

\* do_lock_projects: the current project must be complete and valid; its usages are
\* what the solver is asked for, and compute_deps looks them up first.
LockProjects ==
    /\ phase = "start"
    /\ IF root.info # "good" \/ ~root.meta
       THEN phase' = "failed" /\ UNCHANGED <<cache, deps, lock>>
       ELSE /\ cache' = Cached(cache, sites, {u.iri : u \in root.usages})
            /\ IF ComputeDepsFails(root.usages, cache')
               THEN phase' = "failed" /\ UNCHANGED <<deps, lock>>
               ELSE /\ phase' = "solve" /\ lock' = <<InputProject(root)>>
                    /\ deps' = ComputeDeps(Requested, root.usages, cache')
    /\ UNCHANGED <<sites, root, trail, learned, todo, file, faults>>
-----------------------------------------------------------------------------
Pending == {c.iri : c \in Active(Decided, deps)} \ DecidedIris

\* What the decisions leave of a package.  (PubGrub may also draw conclusions from
\* packages it has not decided; here they surface as conflicts.)
Left(i) == RangeOf(i, Decided, learned, deps, cache[i])

Contradicted == \E d \in Decided : ~contains(Left(d[1]), d[2])
Stuck == \E i \in Pending : ChooseVersion(Left(i), cache[i]) = {}

\* PubGrub decides the package of the best priority, takes the version the solver
\* chooses and asks for its usages.
Decide ==
    /\ phase = "solve" /\ ~Contradicted /\ ~Stuck /\ Pending # {}
    /\ \E i \in Pending :
         /\ \A j \in Pending : Prioritize(Left(i)) <= Prioritize(Left(j))
         /\ \E k \in ChooseVersion(Left(i), cache[i]) :
              LET usages == At(cache[i], k).read.usages
              IN  /\ cache' = Cached(cache, sites, {u.iri : u \in usages})
                  /\ IF ComputeDepsFails(usages, cache')
                     THEN phase' = "failed" /\ UNCHANGED <<trail, deps>>
                     ELSE /\ trail' = Append(trail, <<i, k>>)
                          /\ deps' = deps \cup ComputeDeps(<<i, k>>, usages, cache')
                          /\ UNCHANGED phase
    /\ UNCHANGED <<sites, root, learned, todo, lock, file, faults>>

\* PubGrub learns from a conflict and returns to before the last decision it blames.
Backtrack ==
    /\ phase = "solve" /\ (Contradicted \/ Stuck)
    /\ \E N \in Blamed(Decided, deps, cache) :
         IF N = {} THEN phase' = "nosolution" /\ UNCHANGED <<learned, trail>>
         ELSE LET last == CHOOSE n \in DOMAIN trail :
                            trail[n] \in N /\ \A m \in DOMAIN trail : trail[m] \in N => m <= n
                  keep == CHOOSE n \in 0..(last - 1) :
                            /\ N \ {trail[last]} \subseteq ToSet(SubSeq(trail, 1, n))
                            /\ \A m \in 0..(n - 1) :
                                 ~(N \ {trail[last]} \subseteq ToSet(SubSeq(trail, 1, m)))
              IN  /\ learned' = learned \cup {N} /\ trail' = SubSeq(trail, 1, keep)
                  /\ UNCHANGED phase
    /\ UNCHANGED <<sites, root, cache, deps, todo, lock, file, faults>>

\* Every used package is decided: solve extracts the chosen candidates.
Solved ==
    /\ phase = "solve" /\ ~Contradicted /\ Pending = {}
    /\ phase' = "extend" /\ todo' = DecidedIris
    /\ UNCHANGED <<sites, root, cache, deps, trail, learned, lock, file, faults>>
-----------------------------------------------------------------------------
\* IRIs answered by a provided library are locked without sources.
Provided(i) == sites[i].std.known

Sources(s) == {Source(s.from.kind, s.from.id, s.from.digest)}

Entry(i) ==
    LET s == Chosen(i)
    IN  [name |-> s.read.name, version |-> s.read.version, exports |-> s.read.exports,
         ids |-> <<i>>, usages |-> {u.iri : u \in s.read.usages},
         sources |-> IF Provided(i) THEN {} ELSE Sources(s)]

\* The current project is recognised by its first identifier only.
InLock(i) == FirstId(lock[1]) = i

Collides(e) == \E k \in DOMAIN lock : lock[k].exports \cap e.exports # {}

\* One round of the loop over the solution, in the order of a hash map.
Extend ==
    /\ phase = "extend"
    /\ \E i \in todo :
         IF ~Chosen(i).read.meta \/ (~InLock(i) /\ Collides(Entry(i)))
         THEN phase' = "failed" /\ UNCHANGED <<todo, lock>>
         ELSE /\ todo' = todo \ {i}
              /\ lock' = IF InLock(i) THEN lock ELSE Append(lock, Entry(i))
              /\ UNCHANGED phase
    /\ UNCHANGED <<sites, root, cache, deps, trail, learned, file, faults>>

\* A request made for an entry fails: get_info and get_meta may download, and
\* sources asks the remote, which the storage that pairs it with a local copy
\* takes to be infallible.
ExtendFails ==
    /\ phase = "extend" /\ faults < MaxFaults
    /\ \E i \in todo :
         /\ Chosen(i).from.asks /\ ~Provided(i)
         /\ phase' = IF Chosen(i).from # Chosen(i).read THEN "panic" ELSE "failed"
    /\ faults' = faults + 1
    /\ UNCHANGED <<sites, root, cache, deps, trail, learned, todo, lock, file>>
-----------------------------------------------------------------------------
\* canonicalize and write.
Write ==
    /\ phase = "extend" /\ todo = {}
    /\ lock' = Canonicalize(lock) /\ file' = [k \in DOMAIN lock |-> ToToml(lock'[k])]
    /\ phase' = "done"
    /\ UNCHANGED <<sites, root, cache, deps, trail, learned, todo, faults>>

\* An index publishes a version while lock runs.
Publish(i) ==
    /\ phase \in {"solve", "extend"}
    /\ NewVersion[i] # Missing /\ sites[i].indexes # <<>>
    /\ LET item == Ok(Storage(<<"index">>, NewVersion[i]))
           list == sites[i].indexes[1].list
       IN  /\ item \notin ToSet(list)
           /\ sites' = [sites EXCEPT ![i].indexes[1].list = <<item>> \o list]
    /\ UNCHANGED <<root, phase, cache, deps, trail, learned, todo, lock, file, faults>>

Over == phase \in {"done", "failed", "nosolution", "panic"}
Idle == Over /\ UNCHANGED vars

Step == LockProjects \/ Decide \/ Backtrack \/ Solved \/ Extend \/ Write

Next ==
    \/ Step \/ ExtendFails
    \/ \E i \in Iris : Publish(i)
    \/ Idle

\* The command is one thread that waits for nobody: until it is over it can take a
\* step (the deadlock check shows that), and it goes on taking steps.
Fairness == []<>Over \/ []<><<Step>>_vars

Spec == Init /\ [][Next]_vars /\ Fairness
-----------------------------------------------------------------------------
\* The decided IRI the current project is recognised by.
SelfUses == {i \in DecidedIris : FirstId(InputProject(root)) = i}

\* Every usage of every locked project names a locked project whose version its
\* constraint allows, also when new versions appear while lock runs (positions keep
\* their meaning because candidates are cached, pubgrub.rs).  The one exception is the
\* one do_lock_extend documents: a usage of the current project itself.
LockSatisfiesUsages ==
    phase = "done" =>
        \A u \in root.usages \cup UNION {Chosen(i).read.usages : i \in DecidedIris} :
            \/ u.iri \in SelfUses
            \/ \E k \in DOMAIN lock :
                  u.iri \in ToSet(lock[k].ids) /\ (u.any \/ lock[k].version \in u.req)

\* do_lock_extend recognises the current project by the first of the identifiers its
\* workspace gives it; here another one, which sorting puts first, is used and locked as
\* a project of its own.
LockedTwice ==
    LET ids == AliasIris(root)
    IN  \E i \in ToSet(ids) \cap DecidedIris : i # Head(ids) /\ \A j \in ToSet(ids) : i <= j

\* What is written is read back as the same lock (Lock::canonicalize, Project::to_toml,
\* Lock::from_str), and passes the checks made on reading (validate, asserted by debug
\* builds before writing) unless sorting has given two entries the same first identifier,
\* which happens in the one case where the current project is locked twice.
LockReadsBack ==
    phase = "done" =>
        LET read == [k \in DOMAIN file |-> FromToml(file[k])]
        IN  read = lock /\ (Validate(read) <=> ~LockedTwice)

\* The lockfile is a function of the solution: whatever the order in which the hash map
\* was traversed, the same entries are written in the same order (Lock::sort).
LockIsCanonical ==
    phase = "done" =>
        /\ \A k, j \in DOMAIN lock : k < j => Less(lock[k], lock[j])
        /\ {lock[k].name : k \in DOMAIN lock} =
             {root.name} \cup {Chosen(i).read.name : i \in DecidedIris \ SelfUses}

\* No candidate that is newer and listed earlier than the one chosen was possible
\* together with the decisions made before it (choose_version, and what PubGrub learns).
NoBetterChoice ==
    phase \in {"extend", "done"} =>
        \A n \in DOMAIN trail :
            LET i == trail[n][1] k == trail[n][2]
                before == ToSet(SubSeq(trail, 1, n - 1))
            IN  \A j \in Positions(cache[i]) :
                  j < k /\ VersionAt(cache[i], j) > VersionAt(cache[i], k) =>
                      Extensions(before \cup {<<i, j>>}, deps, cache) = {}

\* Local copies change where the candidates of the other resolvers are read from, never
\* which of them are offered or in which order; after them come, as extra candidates, the
\* copies with the contents of none of them; each copy is offered once (CombinedIterator).
LocalCopiesOnlySubstitute ==
    \A i \in Iris :
        LET full == StandardResolver(sites[i]).items
            bare == StandardResolver([sites[i] EXCEPT !.local.list = <<>>]).items
            extra == {k \in DOMAIN full : k > Len(bare)}
            copies == extra \cup {k \in DOMAIN full : full[k].ok /\ full[k].value.read # full[k].value.from}
        IN  /\ Len(full) >= Len(bare)
            /\ \A k \in DOMAIN bare : full[k].ok = bare[k].ok
                                     /\ full[k].value.from = bare[k].value.from
            /\ \A k \in extra : full[k].ok /\ \A j \in DOMAIN bare :
                 bare[j].ok => Checksum(full[k].value) # Checksum(bare[j].value)
            /\ \A k, j \in copies : k # j => Checksum(full[k].value) # Checksum(full[j].value)

\* Lock always ends, with a lockfile or an error.
LockEnds == <>Over

=============================================================================
