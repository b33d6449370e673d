---------------------------- MODULE IndexClient ----------------------------
(***************************************************************************)
(* The client of the index: IndexEnvironmentAsync with the projects it     *)
(* hands out (IndexEntryProject), used by several tasks of one process,    *)
(* against a server that keeps the rules of IndexProtocol and goes on      *)
(* changing while the client runs.                                         *)
(*                                                                         *)
(* The tasks share one thread: a step goes from one place where a task has *)
(* to wait (for a request, or for the cell of the endpoints) to the next.  *)
(* A request is answered with what the server has at that moment, or goes  *)
(* wrong (MaxFaults bounds how often).                                     *)
(***************************************************************************)
EXTENDS Naturals, Sequences, FiniteSets

CONSTANTS Projects, Versions, Builds,
    Tasks,      \* concurrent users of the one environment
    Configs,    \* discovery documents the server may have
    MaxChanges, \* bound on changes of the server while the client runs
    MaxFaults   \* bound on requests that go wrong

ASSUME VersionsAssumption ==
    /\ Versions \subseteq Nat /\ IsFiniteSet(Versions)
    /\ Versions # {} /\ Projects # {}

VARIABLES
    project, entry, served,     \* the index, as in IndexProtocol
    config,                     \* sysand-index-config.json at the discovery root
    changes, faults,            \* how many changes and failures there were
    endpoints,                  \* the cell with the resolved endpoints
    versions_cache,             \* versions_cache[p]: validated versions.json
    pc, call,                   \* per task: next step and local variables
    answer                      \* answer[t]: result of the last call of t

site == <<project, entry, served, changes>>
client == <<endpoints, versions_cache, pc, call, answer>>
vars == <<project, entry, served, config, changes, faults, endpoints, versions_cache,
          pc, call, answer>>

Server == INSTANCE IndexProtocol

\* A field of the discovery document is not set, an absolute HTTP(S) URL
\* without user information, or something else.
Fields == {"unset", "valid", "bad"}
ConfigDocs == [present: BOOLEAN, index_root: Fields, api_root: Fields]
ASSUME ConfigsAssumption == Configs \subseteq ConfigDocs

\* Everything at the discovery root, or the index where the document says.
Roots == {"flat", "moved"}

ResolvedRoot(doc) ==
    IF doc.present /\ doc.index_root = "valid" THEN "moved" ELSE "flat"
BadConfig(doc) == doc.present /\ "bad" \in {doc.index_root, doc.api_root}

NoDoc == [root |-> "none", list |-> <<>>]

Ops == {"versions", "project"}
Labels == {"idle", "waiting", "discover", "fetch", "insert", "files"}
Outcomes == {"none", "ok", "offer", "notHere", "notListed", "removed", "error", "gone"}

NoCall == [op |-> "versions", prj |-> CHOOSE p \in Projects : TRUE,
           ver |-> CHOOSE v \in Versions : TRUE, root |-> "none",
           doc |-> NoDoc, got |-> {}]
NoAnswer == [kind |-> "none", doc |-> NoDoc, root |-> "none",
             prj |-> NoCall.prj, ver |-> NoCall.ver, offer |-> {}]

\* The index has some versions, all of them available.
Init ==
    /\ \E published \in [Projects -> SUBSET Versions], b \in Builds :
          /\ project = [p \in Projects |-> "available"]
          /\ entry = [p \in Projects |-> [v \in Versions |->
                IF v \in published[p] THEN [status |-> "available", build |-> b]
                ELSE Server!Unlisted]]
          /\ served = [p \in Projects |-> [v \in Versions |->
                IF v \in published[p] THEN b ELSE "none"]]
    /\ config \in Configs
    /\ changes = 0 /\ faults = 0
    /\ endpoints = "unset"
    /\ versions_cache = [p \in Projects |-> NoDoc]
    /\ pc = [t \in Tasks |-> "idle"]
    /\ call = [t \in Tasks |-> NoCall]
    /\ answer = [t \in Tasks |-> NoAnswer]

-----------------------------------------------------------------------------
(* Control of a task *)

\* The task waits at `label' with local variables `locals'.
Goto(t, label, locals) ==
    /\ pc' = [pc EXCEPT ![t] = label]
    /\ call' = [call EXCEPT ![t] = locals]
    /\ answer' = [answer EXCEPT ![t] = NoAnswer]

Return(t, result) ==
    /\ pc' = [pc EXCEPT ![t] = "idle"]
    /\ call' = [call EXCEPT ![t] = NoCall]
    /\ answer' = [answer EXCEPT ![t] = result]

About(c, kind) == [NoAnswer EXCEPT !.kind = kind, !.prj = c.prj, !.ver = c.ver]

Fail(t, kind) == Return(t, [NoAnswer EXCEPT !.kind = kind])

\* The request of this step fails, is refused, or its answer does not parse.
RequestFails(t) ==
    /\ pc[t] \in {"discover", "fetch", "files"}
    /\ faults < MaxFaults
    /\ faults' = faults + 1
    /\ endpoints' = IF pc[t] = "discover" THEN "unset" ELSE endpoints
    /\ Fail(t, "error")
    /\ UNCHANGED <<site, config, versions_cache>>

-----------------------------------------------------------------------------
(* versions.json: what is sent, what is accepted, what is made of it *)

\* versions.json of p as a server that keeps the protocol has it.
Listing(p) == {v \in Versions : entry[p][v].status # "unlisted"}
WireVersions(p) ==
    LET n == Cardinality(Listing(p))
        nth(i) == CHOOSE v \in Listing(p) :
                    Cardinality({w \in Listing(p) : w >= v}) = i
    IN  [i \in 1..n |-> [version |-> nth(i), status |-> entry[p][nth(i)].status,
                         build |-> entry[p][nth(i)].build, ok |-> TRUE]]

\* What a server that is out of order may send instead.
Disordered(doc) ==
    {[i \in DOMAIN doc |-> doc[Len(doc) + 1 - i]],
     [i \in 1..(2 * Len(doc)) |-> doc[(i + 1) \div 2]],
     [i \in DOMAIN doc |-> [doc[i] EXCEPT !.ok = FALSE]]}

\* The version parses and carries no build metadata, and the digest has its form.
WellFormed(advertised) == advertised.ok

DuplicateVersion(doc) ==
    \E i, j \in DOMAIN doc : i # j /\ doc[i].version = doc[j].version

VersionsOutOfOrder(doc) ==
    \E i \in DOMAIN doc : i + 1 \in DOMAIN doc /\ doc[i].version <= doc[i + 1].version

\* Faulty variant: the order on the wire is not checked.
AnyOrder(doc) == (\A i \in DOMAIN doc : WellFormed(doc[i])) /\ ~DuplicateVersion(doc)

ValidVersions(doc) ==
    /\ \A i \in DOMAIN doc : WellFormed(doc[i])
    /\ ~DuplicateVersion(doc)
    /\ ~VersionsOutOfOrder(doc)

StatusIn(doc, v) ==
    IF \E i \in DOMAIN doc : doc[i].version = v
    THEN doc[CHOOSE i \in DOMAIN doc : doc[i].version = v].status
    ELSE "unlisted"

\* Faulty variant: retired versions are offered too.
CandidatesAll(doc) == {doc[i].version : i \in DOMAIN doc}

\* versions_async offers what is neither yanked nor removed.
Candidates(doc) ==
    {doc[i].version : i \in {j \in DOMAIN doc : doc[j].status = "available"}}

\* What the two callers make of the document: a list of candidates, or a
\* project whose files can be asked for.
UseVersions(t, c, doc) ==
    LET status == StatusIn(doc.list, c.ver) IN
    \/ /\ c.op = "versions"
       /\ Return(t, [NoAnswer EXCEPT !.kind = "offer", !.prj = c.prj, !.doc = doc,
                                     !.offer = Candidates(doc.list)])
    \/ /\ c.op = "project" /\ status = "unlisted"
       /\ Return(t, About(c, "notListed"))
    \/ /\ c.op = "project" /\ status = "removed"
       /\ Return(t, About(c, "removed"))
    \/ /\ c.op = "project" /\ status \in {"available", "yanked"}
       /\ Goto(t, "files", [c EXCEPT !.doc = doc])

-----------------------------------------------------------------------------
(* endpoints(): one discovery for the life of the environment *)

\* The endpoints are known.  `versions' has looked into the cache before and
\* does not look again.
Located(t, c) ==
    \/ /\ c.op = "versions" \/ versions_cache[c.prj] = NoDoc
       /\ Goto(t, "fetch", c)
    \/ /\ c.op = "project" /\ versions_cache[c.prj] # NoDoc
       /\ UseVersions(t, c, versions_cache[c.prj])

\* Faulty variant: nothing is kept, every call discovers again.
EndpointsEachTime(t, c) ==
    /\ endpoints' = ResolvedRoot(config)
    /\ Located(t, [c EXCEPT !.root = ResolvedRoot(config)])

\* get_or_try_init: use what is there, become the one who initialises, or wait
\* for the one who does.
Endpoints(t, c) ==
    \/ /\ endpoints \in Roots
       /\ Located(t, [c EXCEPT !.root = endpoints])
       /\ UNCHANGED endpoints
    \/ /\ endpoints = "unset"
       /\ endpoints' = "initializing"
       /\ Goto(t, "discover", c)
    \/ /\ endpoints = "initializing" /\ pc[t] = "idle"
       /\ Goto(t, "waiting", c)
       /\ UNCHANGED endpoints

Begin(t, c) ==
    /\ pc[t] = "idle"
    /\ Endpoints(t, c)
    /\ UNCHANGED <<site, config, faults, versions_cache>>

BeginProject(t, p, v) ==
    Begin(t, [NoCall EXCEPT !.op = "project", !.prj = p, !.ver = v])

\* versions_async looks into the cache first.
BeginVersions(t, p) ==
    LET c == [NoCall EXCEPT !.op = "versions", !.prj = p] IN
    \/ versions_cache[p] = NoDoc /\ Begin(t, c)
    \/ /\ pc[t] = "idle" /\ versions_cache[p] # NoDoc
       /\ UseVersions(t, c, versions_cache[p])
       /\ UNCHANGED <<site, config, faults, endpoints, versions_cache>>

Wake(t) ==
    /\ pc[t] = "waiting"
    /\ Endpoints(t, call[t])
    /\ UNCHANGED <<site, config, faults, versions_cache>>

\* Faulty variant: a discovery that fails leaves the cell taken.
DiscoverHoldsCell(t) ==
    /\ pc[t] = "discover"
    /\ \/ BadConfig(config) /\ Fail(t, "error") /\ UNCHANGED endpoints
       \/ /\ ~BadConfig(config)
          /\ endpoints' = ResolvedRoot(config)
          /\ Located(t, [call[t] EXCEPT !.root = ResolvedRoot(config)])
    /\ UNCHANGED <<site, config, faults, versions_cache>>

\* fetch_index_config.  Both fields are checked; an error leaves the cell empty.
Discover(t) ==
    /\ pc[t] = "discover"
    /\ \/ BadConfig(config) /\ Fail(t, "error") /\ endpoints' = "unset"
       \/ /\ ~BadConfig(config)
          /\ endpoints' = ResolvedRoot(config)
          /\ Located(t, [call[t] EXCEPT !.root = ResolvedRoot(config)])
    /\ UNCHANGED <<site, config, faults, versions_cache>>

-----------------------------------------------------------------------------
(* fetch_versions_json: fetch, validate, insert *)

\* What is received is validated before it is used.
Received(t, c, list) ==
    \/ /\ ValidVersions(list)
       /\ Goto(t, "insert", [c EXCEPT !.doc = [root |-> c.root, list |-> list]])
    \/ /\ ~ValidVersions(list)
       /\ Fail(t, "error")

\* Without a versions.json the project is not in this index, which is no error
\* and is not remembered; the file may also be there with no entry.
FetchVersions(t) ==
    LET c == call[t]
        wire == WireVersions(c.prj)
    IN
    /\ pc[t] = "fetch"
    /\ \/ Listing(c.prj) = {} /\ Fail(t, "notHere") /\ UNCHANGED faults
       \/ Received(t, c, wire) /\ UNCHANGED faults
       \/ /\ faults < MaxFaults /\ faults' = faults + 1
          /\ \E list \in Disordered(wire) : Received(t, c, list)
    /\ UNCHANGED <<site, config, endpoints, versions_cache>>

\* The entry may have been filled while this task was fetching; the document
\* that is there wins.
Insert(t) ==
    LET c == call[t]
        doc == IF versions_cache[c.prj] = NoDoc THEN c.doc ELSE versions_cache[c.prj]
    IN
    /\ pc[t] = "insert"
    /\ versions_cache' = [versions_cache EXCEPT ![c.prj] = doc]
    /\ UseVersions(t, c, doc)
    /\ UNCHANGED <<site, config, faults, endpoints>>

-----------------------------------------------------------------------------
(* IndexEntryProject: .project.json and .meta.json, requested at once *)

\* One of the two requests is answered; a missing file is an error, and the
\* first error ends the call.  With both, the project is read.
FetchFile(t, f) ==
    LET c == call[t] IN
    /\ pc[t] = "files" /\ f \in {"info", "meta"} \ c.got
    /\ \/ /\ served[c.prj][c.ver] = "none"
          /\ Return(t, About(c, "gone"))
       \/ /\ served[c.prj][c.ver] # "none"
          /\ IF c.got = {}
             THEN Goto(t, "files", [c EXCEPT !.got = {f}])
             ELSE Return(t, [About(c, "ok") EXCEPT !.doc = c.doc, !.root = c.root])
    /\ UNCHANGED <<site, config, faults, endpoints, versions_cache>>

-----------------------------------------------------------------------------
(* Specification *)

\* The server moves its index, or starts to.
ConfigChanges ==
    /\ changes < MaxChanges /\ changes' = changes + 1
    /\ config' \in Configs \ {config}
    /\ UNCHANGED <<project, entry, served, faults, client>>

\* The rules of IndexProtocol; index.json plays no part in these calls.
SiteChanges ==
    /\ changes < MaxChanges /\ changes' = changes + 1
    /\ \E p \in Projects, v \in Versions :
          \/ Server!List(p, v) \/ Server!Yank(p, v)
          \/ Server!Retire(p, v) \/ Server!Withdraw(p, v)
          \/ \E b \in Builds : Server!Upload(p, v, b)
    /\ UNCHANGED <<config, faults, client>>

Step(t) ==
    \/ Wake(t) \/ Discover(t) \/ FetchVersions(t) \/ Insert(t)
    \/ \E f \in {"info", "meta"} : FetchFile(t, f)

Next ==
    \/ SiteChanges \/ ConfigChanges
    \/ \E t \in Tasks :
          \/ \E p \in Projects : BeginVersions(t, p)
          \/ \E p \in Projects, v \in Versions : BeginProject(t, p, v)
          \/ Step(t) \/ RequestFails(t)

\* A request is answered or fails in the end, a task that is woken runs, and
\* the cell serves the tasks that wait for it in turn.
Spec ==
    /\ Init /\ [][Next]_vars
    /\ \A t \in Tasks : WF_vars(Step(t)) /\ SF_vars(Wake(t))

-----------------------------------------------------------------------------
(* Properties *)

\* A version offered as a candidate can be opened afterwards, by any task: the
\* client never says of it that it is not listed or was removed, although it may
\* have been removed upstream in between.
CandidatesCanBeOpened ==
    \A t, u \in Tasks :
        /\ answer[t].kind = "offer" /\ answer[u].kind \in {"notListed", "removed"}
        /\ answer[t].prj = answer[u].prj
        => answer[u].ver \notin answer[t].offer

\* What is cached can be relied on: newest first, each version once, and no
\* entry the server never made.
CachedIsValid ==
    \A p \in Projects :
        LET list == versions_cache[p].list IN
        \A i \in DOMAIN list :
            /\ \A j \in DOMAIN list : i < j => list[i].version > list[j].version
            /\ entry[p][list[i].version].build = list[i].build

\* Everything the environment has read comes from one index root, although the
\* discovery document may change at any time.
OneRoot ==
    /\ \A p \in Projects : versions_cache[p] # NoDoc => versions_cache[p].root = endpoints
    /\ \A t \in Tasks : answer[t].root # "none" => answer[t].root = endpoints

\* Every call returns: a task that waits for the discovery of another goes on
\* when that one is done or has failed.
CallsReturn == \A t \in Tasks : []<>(pc[t] = "idle")

=============================================================================
