------------------------- MODULE IndexClientProofs -------------------------
(***************************************************************************)
(* What the client of the index promises its callers, for any number of    *)
(* tasks, projects and versions, any changes of the server and any failed  *)
(* requests.                                                               *)
(***************************************************************************)
EXTENDS IndexClient, FiniteSetTheorems, WellFoundedInduction, TLAPS

\* Records with these fields, and nothing said of the values of most of them.
IsCall(c) ==
    c \in [op : Ops, prj : Projects, ver : {c.ver}, root : {c.root}, doc : {c.doc},
           got : {c.got}]

IsAnswer(a) ==
    a \in [kind : Outcomes, doc : {a.doc}, root : {a.root}, prj : Projects, ver : {a.ver},
           offer : {a.offer}]

ShapeInv ==
    /\ endpoints \in Roots \cup {"unset", "initializing"}
    /\ versions_cache = [p \in Projects |-> versions_cache[p]]
    /\ pc \in [Tasks -> Labels]
    /\ call = [t \in Tasks |-> call[t]] /\ \A t \in Tasks : IsCall(call[t])
    /\ answer = [t \in Tasks |-> answer[t]] /\ \A t \in Tasks : IsAnswer(answer[t])

\* The rest is said of a value e of the cell and a cache d, so that it can be
\* said of those before and of those after a step.

\* What is cached was validated, and read from the root in the cell.
CacheOK(e, d) ==
    \A p \in Projects : d[p] # NoDoc =>
        e \in Roots /\ d[p].root = e /\ ValidVersions(d[p].list)

\* A task at `label' with the locals c works on the root in the cell, and the
\* document it is about to insert is a valid one from there.
CallOK(label, c, e) ==
    /\ label \in {"fetch", "insert", "files"} => e \in Roots /\ c.root = e
    /\ label = "insert" => c.doc.root = e /\ ValidVersions(c.doc.list)
    /\ label = "discover" => e = "initializing"

\* An answer about versions is what the cached document says.
AnswerOK(a, e, d) ==
    /\ a.root # "none" => e \in Roots /\ a.root = e
    /\ a.kind \in {"offer", "notListed", "removed"} => d[a.prj] # NoDoc
    /\ a.kind = "offer" => a.offer = Candidates(d[a.prj].list)
    /\ a.kind = "notListed" => StatusIn(d[a.prj].list, a.ver) = "unlisted"
    /\ a.kind = "removed" => StatusIn(d[a.prj].list, a.ver) = "removed"

\* One task at most discovers, and holds the cell for it.
OneDiscovers == \A t, u \in Tasks : pc[t] = "discover" /\ pc[u] = "discover" => t = u

ClientInv ==
    /\ ShapeInv
    /\ OneDiscovers
    /\ CacheOK(endpoints, versions_cache)
    /\ \A t \in Tasks : CallOK(pc[t], call[t], endpoints)
    /\ \A t \in Tasks : AnswerOK(answer[t], endpoints, versions_cache)

-----------------------------------------------------------------------------
(* Documents *)

\* validate_versions refuses a list with a version in it twice, so that a
\* candidate has one status, and that is not one of the refused ones.
LEMMA CandidateStatus ==
    ASSUME NEW list, ValidVersions(list), NEW v \in Candidates(list)
    PROVE  StatusIn(list, v) = "available"
  <1>1. PICK j \in DOMAIN list : list[j].status = "available" /\ v = list[j].version
    BY Zenon DEF Candidates
  <1> DEFINE k == CHOOSE i \in DOMAIN list : list[i].version = v
  <1>2. k \in DOMAIN list /\ list[k].version = v
    BY Zenon, <1>1
  <1>3. k = j
    <2> HIDE DEF k
    <2> QED BY Zenon, <1>1, <1>2 DEF ValidVersions, DuplicateVersion
  <1>4. StatusIn(list, v) = list[k].status
    BY Zenon, <1>1 DEF StatusIn
  <1> HIDE DEF k
  <1> QED BY Zenon, <1>1, <1>3, <1>4

-----------------------------------------------------------------------------
(* How a step leaves its task *)

\* The task t is left at `label' with the locals c and the answer a.
Left(t, label, c, a) ==
    /\ pc' = [pc EXCEPT ![t] = label]
    /\ call' = [call EXCEPT ![t] = c]
    /\ answer' = [answer EXCEPT ![t] = a]

\* It is left so that the invariant holds of it with e in the cell and d cached.
LeftWell(t, e, d) ==
    \E label \in Labels \ {"discover"} : \E c, a :
        /\ Left(t, label, c, a)
        /\ IsCall(c) /\ IsAnswer(a) /\ CallOK(label, c, e) /\ AnswerOK(a, e, d)

LEMMA NoCallIsCall == IsCall(NoCall) /\ NoCall.root = "none"
  <1> DEFINE p == CHOOSE q \in Projects : TRUE
             v == CHOOSE w \in Versions : TRUE
  <1>1. p \in Projects
    BY Zenon, VersionsAssumption
  <1>2. NoCall = [op |-> "versions", prj |-> p, ver |-> v, root |-> "none",
                  doc |-> NoDoc, got |-> {}]
    BY Zenon DEF NoCall
  <1> HIDE DEF p, v
  <1>3. NoCall \in [op : Ops, prj : Projects, ver : {NoCall.ver}, root : {NoCall.root},
                    doc : {NoCall.doc}, got : {NoCall.got}]
    BY Zenon, <1>1, <1>2 DEF Ops
  <1> QED BY Zenon, <1>2, <1>3 DEF IsCall

\* An answer that says nothing of versions and roots is well in any state.
LEMMA NoAnswerIsAnswer ==
    /\ IsAnswer(NoAnswer) /\ NoAnswer.kind = "none" /\ NoAnswer.root = "none"
    /\ \A e, d : AnswerOK(NoAnswer, e, d)
  <1>1. NoCall.prj \in Projects
    BY Zenon, NoCallIsCall DEF IsCall
  <1>2. IsAnswer(NoAnswer) /\ NoAnswer.kind = "none" /\ NoAnswer.root = "none"
    BY Zenon, <1>1 DEF IsAnswer, NoAnswer, Outcomes
  <1> QED BY Zenon, <1>2 DEF AnswerOK

LEMMA ReturnLeaves ==
    ASSUME NEW t \in Tasks, NEW e, NEW d, NEW a, IsAnswer(a), AnswerOK(a, e, d), Return(t, a)
    PROVE  LeftWell(t, e, d)
  <1>1. Left(t, "idle", NoCall, a)
    BY Zenon DEF Return, Left
  <1>2. CallOK("idle", NoCall, e)
    BY Zenon DEF CallOK
  <1> QED BY Zenon, <1>1, <1>2, NoCallIsCall DEF LeftWell, Labels

LEMMA GotoLeaves ==
    ASSUME NEW t \in Tasks, NEW e, NEW d, NEW label \in Labels \ {"discover"},
           NEW c, IsCall(c), CallOK(label, c, e), Goto(t, label, c)
    PROVE  LeftWell(t, e, d)
  <1>1. Left(t, label, c, NoAnswer)
    BY Zenon DEF Goto, Left
  <1> QED BY Zenon, <1>1, NoAnswerIsAnswer DEF LeftWell

LEMMA FailLeaves ==
    ASSUME NEW t \in Tasks, NEW e, NEW d, NEW kind \in {"error", "notHere"}, Fail(t, kind)
    PROVE  LeftWell(t, e, d)
  <1> DEFINE a == [NoAnswer EXCEPT !.kind = kind]
  <1>1. IsAnswer(a) /\ a.kind = kind /\ a.root = "none"
    BY Zenon, NoAnswerIsAnswer DEF IsAnswer, NoAnswer, Outcomes
  <1>2. Return(t, a)
    BY Zenon DEF Fail
  <1> HIDE DEF a
  <1>3. AnswerOK(a, e, d)
    BY Zenon, <1>1 DEF AnswerOK
  <1> QED BY Zenon, <1>1, <1>2, <1>3, ReturnLeaves

\* An answer about the version a call asked for.
LEMMA AboutIsAnswer ==
    ASSUME NEW c, IsCall(c), NEW kind \in Outcomes
    PROVE  /\ IsAnswer(About(c, kind)) /\ About(c, kind).kind = kind
           /\ About(c, kind).prj = c.prj /\ About(c, kind).ver = c.ver
           /\ About(c, kind).root = "none"
  <1>1. c.prj \in Projects
    BY Zenon DEF IsCall
  <1> QED BY <1>1, Zenon DEF About, IsAnswer, NoAnswer

\* What is made of a cached document is what it says.
LEMMA UseVersionsLeaves ==
    ASSUME NEW t \in Tasks, NEW c, IsCall(c), NEW e, NEW d, e \in Roots,
           d[c.prj] # NoDoc, c.op = "project" => c.root = e,
           UseVersions(t, c, d[c.prj])
    PROVE  LeftWell(t, e, d)
  <1> DEFINE doc == d[c.prj]
             status == StatusIn(doc.list, c.ver)
             offered == [NoAnswer EXCEPT !.kind = "offer", !.prj = c.prj, !.doc = doc,
                                         !.offer = Candidates(doc.list)]
             opened == [c EXCEPT !.doc = doc]
  <1>1. CASE Return(t, offered)
    <2>1. c.prj \in Projects /\ "offer" \in Outcomes
      BY Zenon DEF IsCall, Outcomes
    <2>2. /\ IsAnswer(offered) /\ offered.kind = "offer" /\ offered.prj = c.prj
          /\ offered.root = "none" /\ offered.offer = Candidates(doc.list)
      BY <2>1, Zenon DEF IsAnswer, NoAnswer
    <2> HIDE DEF offered
    <2>3. AnswerOK(offered, e, d)
      BY Zenon, <2>2 DEF AnswerOK
    <2> QED BY Zenon, <1>1, <2>2, <2>3, ReturnLeaves
  <1>2. CASE status = "unlisted" /\ Return(t, About(c, "notListed"))
    <2>1. "notListed" \in Outcomes
      BY Zenon DEF Outcomes
    <2>2. AnswerOK(About(c, "notListed"), e, d)
      BY Zenon, <1>2, <2>1, AboutIsAnswer DEF AnswerOK
    <2> QED BY Zenon, <1>2, <2>1, <2>2, AboutIsAnswer, ReturnLeaves
  <1>3. CASE status = "removed" /\ Return(t, About(c, "removed"))
    <2>1. "removed" \in Outcomes
      BY Zenon DEF Outcomes
    <2>2. AnswerOK(About(c, "removed"), e, d)
      BY Zenon, <1>3, <2>1, AboutIsAnswer DEF AnswerOK
    <2> QED BY Zenon, <1>3, <2>1, <2>2, AboutIsAnswer, ReturnLeaves
  <1>4. CASE c.op = "project" /\ Goto(t, "files", opened)
    <2>1. IsCall(opened) /\ opened.root = c.root
      BY Zenon DEF IsCall
    <2> HIDE DEF opened
    <2>2. CallOK("files", opened, e)
      BY Zenon, <1>4, <2>1 DEF CallOK
    <2> QED BY Zenon, <1>4, <2>1, <2>2, GotoLeaves DEF Labels
  <1> QED BY <1>1, <1>2, <1>3, <1>4, Zenon DEF UseVersions

\* With the endpoints known, the cache is looked at or a request is made.
LEMMA LocatedLeaves ==
    ASSUME NEW t \in Tasks, NEW c, IsCall(c), NEW e, e \in Roots, c.root = e, Located(t, c)
    PROVE  LeftWell(t, e, versions_cache)
  <1>1. CASE Goto(t, "fetch", c)
    <2>1. CallOK("fetch", c, e)
      BY Zenon DEF CallOK
    <2> QED BY Zenon, <1>1, <2>1, GotoLeaves DEF Labels
  <1>2. CASE versions_cache[c.prj] # NoDoc /\ UseVersions(t, c, versions_cache[c.prj])
    BY Zenon, <1>2, UseVersionsLeaves
  <1> QED BY Zenon, <1>1, <1>2 DEF Located

-----------------------------------------------------------------------------
(* Every step keeps the invariant *)

\* One task is left well, and what the others rely on is still there: a root in
\* the cell stays, the cell is only changed when nobody else discovers, and what
\* is cached stays cached.
LEMMA TaskKeeps ==
    ASSUME ClientInv, NEW t \in Tasks, NEW label \in Labels, NEW c, NEW a,
           Left(t, label, c, a), IsCall(c), IsAnswer(a),
           CallOK(label, c, endpoints'), AnswerOK(a, endpoints', versions_cache'),
           endpoints' \in Roots \cup {"unset", "initializing"},
           \/ endpoints' = endpoints
           \/ endpoints \notin Roots /\ \A u \in Tasks \ {t} : pc[u] # "discover",
           label = "discover" => \A u \in Tasks \ {t} : pc[u] # "discover",
           versions_cache' = [p \in Projects |-> versions_cache'[p]],
           \A p \in Projects : versions_cache[p] # NoDoc => versions_cache'[p] = versions_cache[p],
           CacheOK(endpoints', versions_cache')
    PROVE  ClientInv'
  <1>1. /\ pc' = [u \in Tasks |-> IF u = t THEN label ELSE pc[u]]
        /\ call' = [u \in Tasks |-> IF u = t THEN c ELSE call[u]]
        /\ answer' = [u \in Tasks |-> IF u = t THEN a ELSE answer[u]]
    BY Zenon DEF Left, ClientInv, ShapeInv
  <1>2. ShapeInv'
    <2>1. pc' \in [Tasks -> Labels]
      BY Zenon, <1>1 DEF ClientInv, ShapeInv
    <2>2. call' = [u \in Tasks |-> call'[u]] /\ \A u \in Tasks : IsCall(call'[u])
      BY Zenon, <1>1 DEF ClientInv, ShapeInv
    <2>3. answer' = [u \in Tasks |-> answer'[u]] /\ \A u \in Tasks : IsAnswer(answer'[u])
      BY Zenon, <1>1 DEF ClientInv, ShapeInv
    <2>4. /\ (\A u \in Tasks : IsCall(call'[u])) => (\A u \in Tasks : IsCall(call[u]))'
          /\ (\A u \in Tasks : IsAnswer(answer'[u])) => (\A u \in Tasks : IsAnswer(answer[u]))'
      BY Zenon DEF IsCall, IsAnswer
    <2> QED BY Zenon, <2>1, <2>2, <2>3, <2>4 DEF ShapeInv
  <1>3. OneDiscovers'
    BY Zenon, <1>1 DEF ClientInv, OneDiscovers
  <1>4. ASSUME NEW u \in Tasks PROVE CallOK(pc[u], call[u], endpoints)'
    <2>1. CASE u = t
      BY Zenon, <2>1, <1>1 DEF CallOK
    <2>2. CASE u # t
      <3>1. pc'[u] = pc[u] /\ call'[u] = call[u] /\ CallOK(pc[u], call[u], endpoints)
        BY Zenon, <2>2, <1>1 DEF ClientInv
      <3> QED BY Zenon, <2>2, <3>1 DEF CallOK
    <2> QED BY Zenon, <2>1, <2>2
  <1>5. ASSUME NEW u \in Tasks PROVE AnswerOK(answer[u], endpoints, versions_cache)'
    <2>1. CASE u = t
      BY Zenon, <2>1, <1>1 DEF AnswerOK
    <2>2. CASE u # t
      <3>1. answer'[u] = answer[u] /\ AnswerOK(answer[u], endpoints, versions_cache)
        BY Zenon, <2>2, <1>1 DEF ClientInv
      <3>2. answer[u].prj \in Projects
        BY Zenon DEF ClientInv, ShapeInv, IsAnswer
      <3> QED BY Zenon, <3>1, <3>2 DEF AnswerOK
    <2> QED BY Zenon, <2>1, <2>2
  <1>6. CacheOK(endpoints, versions_cache)'
    BY Zenon DEF CacheOK
  <1> QED BY Zenon, <1>2, <1>3, <1>4, <1>5, <1>6 DEF ClientInv

\* Most steps leave the cache alone and do not start a discovery.
LEMMA LeftWellKeeps ==
    ASSUME ClientInv, NEW t \in Tasks, UNCHANGED versions_cache,
           LeftWell(t, endpoints', versions_cache),
           endpoints' \in Roots \cup {"unset", "initializing"},
           endpoints' = endpoints \/ pc[t] = "discover"
    PROVE  ClientInv'
  <1>1. PICK label \in Labels \ {"discover"} : \E c, a :
           /\ Left(t, label, c, a)
           /\ IsCall(c) /\ IsAnswer(a)
           /\ CallOK(label, c, endpoints') /\ AnswerOK(a, endpoints', versions_cache)
    BY Zenon DEF LeftWell
  <1>2. PICK c, a :
           /\ Left(t, label, c, a)
           /\ IsCall(c) /\ IsAnswer(a)
           /\ CallOK(label, c, endpoints') /\ AnswerOK(a, endpoints', versions_cache)
    BY Zenon, <1>1
  <1>3. pc[t] = "discover" =>
           endpoints \notin Roots /\ \A u \in Tasks \ {t} : pc[u] # "discover"
    BY Zenon DEF ClientInv, CallOK, OneDiscovers, Roots
  <1>4. CacheOK(endpoints', versions_cache)
    BY Zenon, <1>3 DEF ClientInv, CacheOK
  <1>5. versions_cache = [p \in Projects |-> versions_cache[p]]
    BY Zenon DEF ClientInv, ShapeInv
  <1>6. AnswerOK(a, endpoints', versions_cache') /\ CacheOK(endpoints', versions_cache')
    BY Zenon, <1>2, <1>4
  <1>7. /\ versions_cache' = [p \in Projects |-> versions_cache'[p]]
        /\ \A p \in Projects : versions_cache[p] # NoDoc => versions_cache'[p] = versions_cache[p]
    BY Zenon, <1>5
  <1> QED BY Zenon, <1>2, <1>3, <1>6, <1>7, TaskKeeps

\* A root is put into the locals of a call, which stays a call.
LEMMA RootedIsCall ==
    ASSUME NEW c, IsCall(c), NEW e
    PROVE  IsCall([c EXCEPT !.root = e]) /\ [c EXCEPT !.root = e].root = e
  BY Zenon DEF IsCall

LEMMA EndpointsKeep ==
    ASSUME ClientInv, NEW t \in Tasks, pc[t] \in {"idle", "waiting"}, NEW c, IsCall(c),
           Endpoints(t, c), UNCHANGED versions_cache
    PROVE  ClientInv'
  <1>1. CASE /\ endpoints \in Roots
             /\ Located(t, [c EXCEPT !.root = endpoints])
             /\ UNCHANGED endpoints
    <2> DEFINE rooted == [c EXCEPT !.root = endpoints]
    <2>1. IsCall(rooted) /\ rooted.root = endpoints
      BY Zenon, RootedIsCall
    <2> HIDE DEF rooted
    <2>2. Located(t, rooted)
      BY Zenon, <1>1 DEF rooted
    <2>3. LeftWell(t, endpoints, versions_cache)
      BY Zenon, <1>1, <2>1, <2>2, LocatedLeaves
    <2> QED BY Zenon, <1>1, <2>3, LeftWellKeeps
  <1>2. CASE endpoints = "unset" /\ endpoints' = "initializing" /\ Goto(t, "discover", c)
    <2>1. Left(t, "discover", c, NoAnswer)
      BY Zenon, <1>2 DEF Goto, Left
    <2>2. \A u \in Tasks : pc[u] # "discover"
      BY Zenon, <1>2 DEF ClientInv, CallOK
    <2>3. endpoints \notin Roots
      BY Zenon, <1>2 DEF Roots
    <2>4. CallOK("discover", c, endpoints')
      BY Zenon, <1>2 DEF CallOK
    <2>5. CacheOK(endpoints', versions_cache')
      BY Zenon, <2>3 DEF ClientInv, CacheOK
    <2>6. /\ versions_cache' = [p \in Projects |-> versions_cache'[p]]
          /\ \A p \in Projects : versions_cache[p] # NoDoc => versions_cache'[p] = versions_cache[p]
      BY Zenon DEF ClientInv, ShapeInv
    <2>7. "discover" \in Labels /\ endpoints' \in Roots \cup {"unset", "initializing"}
      BY Zenon, <1>2 DEF Labels
    <2>8. IsAnswer(NoAnswer) /\ AnswerOK(NoAnswer, endpoints', versions_cache')
      BY Zenon, NoAnswerIsAnswer
    <2> QED BY Zenon, <2>1, <2>2, <2>3, <2>4, <2>5, <2>6, <2>7, <2>8, TaskKeeps
  <1>3. CASE Goto(t, "waiting", c) /\ UNCHANGED endpoints
    <2>1. CallOK("waiting", c, endpoints) /\ "waiting" \in Labels \ {"discover"}
      BY Zenon DEF CallOK, Labels
    <2>2. LeftWell(t, endpoints, versions_cache)
      BY Zenon, <1>3, <2>1, GotoLeaves
    <2> QED BY Zenon, <1>3, <2>2, LeftWellKeeps DEF ClientInv, ShapeInv
  <1> QED BY Zenon, <1>1, <1>2, <1>3 DEF Endpoints

LEMMA BeginProjectKeeps ==
    ASSUME ClientInv, NEW t \in Tasks, NEW p \in Projects, NEW v, BeginProject(t, p, v)
    PROVE  ClientInv'
  <1> DEFINE c == [NoCall EXCEPT !.op = "project", !.prj = p, !.ver = v]
  <1>1. "project" \in Ops
    BY Zenon DEF Ops
  <1>2. IsCall(c)
    BY <1>1, NoCallIsCall, Zenon DEF IsCall, NoCall
  <1>3. Begin(t, c)
    BY Zenon DEF BeginProject
  <1> HIDE DEF c
  <1> QED BY Zenon, <1>2, <1>3, EndpointsKeep DEF Begin

LEMMA BeginVersionsKeeps ==
    ASSUME ClientInv, NEW t \in Tasks, NEW p \in Projects, BeginVersions(t, p)
    PROVE  ClientInv'
  <1> DEFINE c == [NoCall EXCEPT !.op = "versions", !.prj = p]
  <1>1. "versions" \in Ops
    BY Zenon DEF Ops
  <1>2. IsCall(c) /\ c.op = "versions" /\ c.prj = p
    BY <1>1, NoCallIsCall, Zenon DEF IsCall, NoCall
  <1>3. \/ Begin(t, c)
        \/ /\ versions_cache[p] # NoDoc /\ UseVersions(t, c, versions_cache[p])
           /\ UNCHANGED <<endpoints, versions_cache>>
    BY Zenon DEF BeginVersions
  <1> HIDE DEF c
  <1>4. CASE Begin(t, c)
    BY Zenon, <1>2, <1>4, EndpointsKeep DEF Begin
  <1>5. CASE /\ versions_cache[p] # NoDoc /\ UseVersions(t, c, versions_cache[p])
             /\ UNCHANGED <<endpoints, versions_cache>>
    <2>1. endpoints \in Roots
      BY Zenon, <1>5 DEF ClientInv, CacheOK
    <2>2. LeftWell(t, endpoints, versions_cache)
      BY Zenon, <1>2, <1>5, <2>1, UseVersionsLeaves
    <2> QED BY Zenon, <1>5, <2>1, <2>2, LeftWellKeeps
  <1> QED BY Zenon, <1>3, <1>4, <1>5

LEMMA WakeKeeps ==
    ASSUME ClientInv, NEW t \in Tasks, Wake(t)
    PROVE  ClientInv'
  <1>1. IsCall(call[t])
    BY Zenon DEF ClientInv, ShapeInv
  <1> QED BY Zenon, <1>1, EndpointsKeep DEF Wake

LEMMA DiscoverKeeps ==
    ASSUME ClientInv, NEW t \in Tasks, Discover(t)
    PROVE  ClientInv'
  <1> DEFINE rooted == [call[t] EXCEPT !.root = ResolvedRoot(config)]
  <1>1. IsCall(call[t])
    BY Zenon DEF ClientInv, ShapeInv
  <1>2. IsCall(rooted) /\ rooted.root = ResolvedRoot(config)
    BY Zenon, <1>1, RootedIsCall
  <1>3. /\ pc[t] = "discover" /\ UNCHANGED versions_cache
        /\ \/ Fail(t, "error") /\ endpoints' = "unset"
           \/ endpoints' = ResolvedRoot(config) /\ Located(t, rooted)
    BY Zenon DEF Discover
  <1> HIDE DEF rooted
  <1>4. CASE Fail(t, "error") /\ endpoints' = "unset"
    <2>1. LeftWell(t, endpoints', versions_cache)
      BY Zenon, <1>4, FailLeaves
    <2> QED BY Zenon, <1>3, <1>4, <2>1, LeftWellKeeps
  <1>5. CASE endpoints' = ResolvedRoot(config) /\ Located(t, rooted)
    <2>1. ResolvedRoot(config) \in Roots
      BY Zenon DEF ResolvedRoot, Roots
    <2>2. LeftWell(t, endpoints', versions_cache)
      BY Zenon, <1>2, <1>5, <2>1, LocatedLeaves
    <2> QED BY Zenon, <1>3, <1>5, <2>1, <2>2, LeftWellKeeps
  <1> QED BY Zenon, <1>3, <1>4, <1>5

LEMMA FetchVersionsKeeps ==
    ASSUME ClientInv, NEW t \in Tasks, FetchVersions(t)
    PROVE  ClientInv'
  <1> DEFINE c == call[t]
  <1>1. IsCall(c) /\ pc[t] = "fetch" /\ UNCHANGED <<endpoints, versions_cache>>
    BY Zenon DEF ClientInv, ShapeInv, FetchVersions
  <1>2. endpoints \in Roots /\ c.root = endpoints
    BY Zenon, <1>1 DEF ClientInv, CallOK
  <1>3. Fail(t, "notHere") \/ \E list : Received(t, c, list)
    BY Zenon DEF FetchVersions
  <1> HIDE DEF c
  <1>4. ASSUME NEW list, Received(t, c, list)
        PROVE  LeftWell(t, endpoints, versions_cache)
    <2> DEFINE got == [c EXCEPT !.doc = [root |-> c.root, list |-> list]]
    <2>1. /\ IsCall(got) /\ got.root = c.root
          /\ got.doc = [root |-> c.root, list |-> list]
      BY <1>1, Zenon DEF IsCall
    <2>2. \/ ValidVersions(list) /\ Goto(t, "insert", got)
          \/ Fail(t, "error")
      BY <1>4, Zenon DEF Received
    <2> HIDE DEF got
    <2>3. ValidVersions(list) => CallOK("insert", got, endpoints)
      BY <1>2, <2>1 DEF CallOK
    <2> QED BY Zenon, <2>1, <2>2, <2>3, GotoLeaves, FailLeaves DEF Labels
  <1>5. LeftWell(t, endpoints, versions_cache)
    BY Zenon, <1>3, <1>4, FailLeaves
  <1> QED BY Zenon, <1>1, <1>2, <1>5, LeftWellKeeps

\* The one step that adds to the cache, and never overwrites.
LEMMA InsertKeeps ==
    ASSUME ClientInv, NEW t \in Tasks, Insert(t)
    PROVE  ClientInv'
  <1> DEFINE c == call[t]
             doc == IF versions_cache[c.prj] = NoDoc THEN c.doc ELSE versions_cache[c.prj]
  <1>1. /\ pc[t] = "insert" /\ UNCHANGED endpoints
        /\ versions_cache' = [versions_cache EXCEPT ![c.prj] = doc]
        /\ UseVersions(t, c, doc)
    BY Zenon DEF Insert
  <1>2. IsCall(c) /\ c.prj \in Projects
    BY Zenon DEF ClientInv, ShapeInv, IsCall
  <1>3. endpoints \in Roots /\ c.root = endpoints
    BY Zenon, <1>1 DEF ClientInv, CallOK
  <1>4. c.doc.root = endpoints /\ ValidVersions(c.doc.list)
    BY Zenon, <1>1 DEF ClientInv, CallOK
  <1>5. doc # NoDoc /\ doc.root = endpoints /\ ValidVersions(doc.list)
    <2>1. NoDoc.root = "none" /\ endpoints # "none"
      BY Zenon, <1>3 DEF NoDoc, Roots
    <2>2. CASE versions_cache[c.prj] = NoDoc
      <3>1. doc = c.doc
        BY Zenon, <2>2
      <3> QED BY Zenon, <3>1, <2>1, <1>4
    <2>3. CASE versions_cache[c.prj] # NoDoc
      BY Zenon, <2>3, <1>2 DEF ClientInv, CacheOK
    <2> QED BY Zenon, <2>2, <2>3
  <1>6. versions_cache[c.prj] # NoDoc => doc = versions_cache[c.prj]
    BY Zenon
  <1> HIDE DEF c, doc
  <1>7. versions_cache' = [p \in Projects |-> IF p = c.prj THEN doc ELSE versions_cache[p]]
    BY Zenon, <1>1, <1>2 DEF ClientInv, ShapeInv
  <1>8. /\ versions_cache' = [p \in Projects |-> versions_cache'[p]]
        /\ versions_cache'[c.prj] = doc
        /\ \A p \in Projects : versions_cache[p] # NoDoc => versions_cache'[p] = versions_cache[p]
    BY Zenon, <1>2, <1>6, <1>7
  <1>9. CacheOK(endpoints, versions_cache')
    BY Zenon, <1>2, <1>3, <1>5, <1>7 DEF ClientInv, CacheOK
  <1>10. LeftWell(t, endpoints, versions_cache')
    BY Zenon, <1>1, <1>2, <1>3, <1>5, <1>8, UseVersionsLeaves
  <1>11. PICK label \in Labels \ {"discover"} : \E l, a :
           /\ Left(t, label, l, a)
           /\ IsCall(l) /\ IsAnswer(a)
           /\ CallOK(label, l, endpoints) /\ AnswerOK(a, endpoints, versions_cache')
    BY Zenon, <1>10 DEF LeftWell
  <1> QED BY Zenon, <1>1, <1>3, <1>8, <1>9, <1>11, TaskKeeps

LEMMA FetchFileKeeps ==
    ASSUME ClientInv, NEW t \in Tasks, NEW f, FetchFile(t, f)
    PROVE  ClientInv'
  <1> DEFINE c == call[t]
             more == [c EXCEPT !.got = {f}]
             read == [About(c, "ok") EXCEPT !.doc = c.doc, !.root = c.root]
  <1>1. IsCall(c) /\ pc[t] = "files" /\ UNCHANGED <<endpoints, versions_cache>>
    BY Zenon DEF ClientInv, ShapeInv, FetchFile
  <1>2. endpoints \in Roots /\ c.root = endpoints
    BY Zenon, <1>1 DEF ClientInv, CallOK
  <1>3. "ok" \in Outcomes /\ "gone" \in Outcomes
    BY Zenon DEF Outcomes
  <1>4. Return(t, About(c, "gone")) \/ Goto(t, "files", more) \/ Return(t, read)
    BY Zenon DEF FetchFile
  <1>5. IsCall(more) /\ more.root = c.root
    BY <1>1, Zenon DEF IsCall
  <1>6. IsAnswer(read) /\ read.kind = "ok" /\ read.root = c.root
    <2>1. IsAnswer(About(c, "ok")) /\ About(c, "ok").kind = "ok"
      BY Zenon, <1>1, <1>3, AboutIsAnswer
    <2> QED BY <2>1, Zenon DEF IsAnswer
  <1> HIDE DEF c, more, read
  <1>7. CASE Return(t, About(c, "gone"))
    <2>1. AnswerOK(About(c, "gone"), endpoints, versions_cache)
      BY Zenon, <1>1, <1>3, AboutIsAnswer DEF AnswerOK
    <2>2. LeftWell(t, endpoints, versions_cache)
      BY Zenon, <1>1, <1>3, <1>7, <2>1, AboutIsAnswer, ReturnLeaves
    <2> QED BY Zenon, <1>1, <1>2, <2>2, LeftWellKeeps
  <1>8. CASE Goto(t, "files", more)
    <2>1. CallOK("files", more, endpoints)
      BY Zenon, <1>2, <1>5 DEF CallOK
    <2>2. LeftWell(t, endpoints, versions_cache)
      BY Zenon, <1>5, <1>8, <2>1, GotoLeaves DEF Labels
    <2> QED BY Zenon, <1>1, <1>2, <2>2, LeftWellKeeps
  <1>9. CASE Return(t, read)
    <2>1. AnswerOK(read, endpoints, versions_cache)
      BY Zenon, <1>2, <1>6 DEF AnswerOK
    <2>2. LeftWell(t, endpoints, versions_cache)
      BY Zenon, <1>6, <1>9, <2>1, ReturnLeaves
    <2> QED BY Zenon, <1>1, <1>2, <2>2, LeftWellKeeps
  <1> QED BY Zenon, <1>4, <1>7, <1>8, <1>9

LEMMA RequestFailsKeeps ==
    ASSUME ClientInv, NEW t \in Tasks, RequestFails(t)
    PROVE  ClientInv'
  <1>1. /\ Fail(t, "error") /\ UNCHANGED versions_cache
        /\ endpoints' = endpoints \/ pc[t] = "discover"
        /\ endpoints' \in {endpoints, "unset"}
    BY Zenon DEF RequestFails
  <1>2. LeftWell(t, endpoints', versions_cache)
    BY Zenon, <1>1, FailLeaves
  <1>3. endpoints' \in Roots \cup {"unset", "initializing"}
    BY Zenon, <1>1 DEF ClientInv, ShapeInv
  <1> QED BY Zenon, <1>1, <1>2, <1>3, LeftWellKeeps

\* The server changes on its own side only.
LEMMA UnchangedKeeps ==
    ASSUME ClientInv, UNCHANGED client
    PROVE  ClientInv'
  BY Zenon DEF ClientInv, client, ShapeInv, OneDiscovers, CacheOK, CallOK, AnswerOK, IsCall,
     IsAnswer

LEMMA InitIsInv == Init => ClientInv
  <1> SUFFICES ASSUME Init PROVE ClientInv
    BY Zenon
  <1>1. /\ endpoints = "unset" /\ versions_cache = [p \in Projects |-> NoDoc]
        /\ pc = [t \in Tasks |-> "idle"] /\ call = [t \in Tasks |-> NoCall]
        /\ answer = [t \in Tasks |-> NoAnswer]
    BY Zenon DEF Init
  <1>2. ShapeInv
    BY Zenon, <1>1, NoCallIsCall, NoAnswerIsAnswer DEF ShapeInv, Labels
  <1>3. OneDiscovers /\ CacheOK(endpoints, versions_cache)
    BY <1>1 DEF OneDiscovers, CacheOK
  <1>4. ASSUME NEW t \in Tasks PROVE CallOK(pc[t], call[t], endpoints)
    BY Zenon, <1>1 DEF CallOK
  <1>5. ASSUME NEW t \in Tasks PROVE AnswerOK(answer[t], endpoints, versions_cache)
    BY Zenon, <1>1, NoAnswerIsAnswer
  <1> QED BY Zenon, <1>2, <1>3, <1>4, <1>5 DEF ClientInv

LEMMA NextKeeps ==
    ASSUME ClientInv, [Next]_vars
    PROVE  ClientInv'
  <1>1. CASE UNCHANGED vars
    BY Zenon, <1>1, UnchangedKeeps DEF vars, client
  <1>2. CASE SiteChanges \/ ConfigChanges
    BY Zenon, <1>2, UnchangedKeeps DEF SiteChanges, ConfigChanges
  <1>3. ASSUME NEW t \in Tasks,
               \/ \E p \in Projects : BeginVersions(t, p)
               \/ \E p \in Projects, v \in Versions : BeginProject(t, p, v)
               \/ Step(t) \/ RequestFails(t)
        PROVE  ClientInv'
    <2>1. CASE Step(t)
      BY Zenon, <2>1, WakeKeeps, DiscoverKeeps, FetchVersionsKeeps, InsertKeeps, FetchFileKeeps
         DEF Step
    <2> QED BY Zenon, <1>3, <2>1, BeginVersionsKeeps, BeginProjectKeeps, RequestFailsKeeps
  <1> QED BY Zenon, <1>1, <1>2, <1>3 DEF Next

LEMMA ClientInvariant == Spec => []ClientInv
  BY InitIsInv, NextKeeps, PTL DEF Spec

-----------------------------------------------------------------------------
(* What the server lists *)

IsAdvertised(a) ==
    a \in [version : {a.version}, status : {a.status}, build : {a.build}, ok : {a.ok}]

\* Every entry of a list of p is one the server made, for that archive.
Backed(made, p, list) ==
    /\ \E n \in Nat : DOMAIN list = 1..n
    /\ \A i \in DOMAIN list :
          /\ IsAdvertised(list[i])
          /\ list[i].version \in Versions
          /\ made[p][list[i].version].status # "unlisted"
          /\ made[p][list[i].version].build = list[i].build

IsEntry(e) == e \in [status : {e.status}, build : {e.build}]

EntryInv ==
    /\ entry = [p \in Projects |-> entry[p]]
    /\ \A p \in Projects :
          /\ entry[p] = [v \in Versions |-> entry[p][v]]
          /\ \A v \in Versions : IsEntry(entry[p][v])

\* What is cached, and what a task is about to insert, comes from the server.
ListInv ==
    /\ EntryInv
    /\ \A p \in Projects : Backed(entry, p, versions_cache[p].list)
    /\ \A t \in Tasks : pc[t] = "insert" => Backed(entry, call[t].prj, call[t].doc.list)

\* The entries of versions.json can be counted off, newest first.
LEMMA NthExists ==
    ASSUME NEW S, S \subseteq Nat, IsFiniteSet(S), NEW i \in 1..Cardinality(S)
    PROVE  \E v \in S : Cardinality({w \in S : w >= v}) = i
  <1> DEFINE above(v) == {w \in S : w >= v}
             rank == [v \in S |-> Cardinality(above(v))]
             T == 1..Cardinality(S)
  <1>1. \A v \in S : above(v) \in SUBSET S /\ v \in above(v)
    OBVIOUS
  <1>2. ASSUME NEW u \in S, NEW v \in S, u < v
        PROVE  above(v) \in SUBSET above(u) /\ above(u) # above(v)
    <2>1. \A w \in S : w >= v => w >= u
      BY <1>2
    <2>2. u \in above(u) /\ u \notin above(v)
      BY <1>2
    <2> QED BY Zenon, <2>1, <2>2
  <1>3. Cardinality(S) \in Nat
    BY Zenon, FS_CardinalityType
  <1> HIDE DEF above
  <1>4. \A v \in S : IsFiniteSet(above(v)) /\ Cardinality(above(v)) <= Cardinality(S)
    BY Zenon, <1>1, FS_Subset
  <1>5. \A v \in S : Cardinality(above(v)) \in Nat
    BY Zenon, <1>4, FS_CardinalityType
  <1>6. \A v \in S : Cardinality(above(v)) # 0
    BY Zenon, <1>1, <1>4, FS_EmptySet
  <1>7. rank \in [S -> T]
    BY <1>3, <1>4, <1>5, <1>6
  <1>8. \A u, v \in S : u < v => Cardinality(above(u)) # Cardinality(above(v))
    BY Zenon, <1>2, <1>4, FS_Subset
  <1>9. \A u, v \in S : rank[u] = rank[v] => u = v
    BY <1>8
  <1>10. IsFiniteSet(T) /\ Cardinality(T) = Cardinality(S)
    BY <1>3, FS_Interval
  <1> HIDE DEF rank, T
  <1>11. rank \in Injection(S, T)
    BY Zenon, <1>7, <1>9 DEF Injection, IsInjective
  <1>12. rank \in Surjection(S, T)
    BY Zenon, <1>10, <1>11, FS_Injection
  <1>13. i \in T
    BY Zenon DEF T
  <1>14. PICK v \in S : rank[v] = i
    BY Zenon, <1>12, <1>13 DEF Surjection
  <1> QED BY Zenon, <1>14 DEF rank, above

LEMMA WireBacked ==
    ASSUME NEW p \in Projects
    PROVE  Backed(entry, p, WireVersions(p))
  <1> DEFINE L == Listing(p)
             n == Cardinality(L)
             nth(i) == CHOOSE v \in L : Cardinality({w \in L : w >= v}) = i
             wire == [i \in 1..n |-> [version |-> nth(i), status |-> entry[p][nth(i)].status,
                                      build |-> entry[p][nth(i)].build, ok |-> TRUE]]
  <1>1. WireVersions(p) = wire
    BY Zenon DEF WireVersions
  <1>2. L \in SUBSET Versions /\ L \subseteq Nat /\ \A v \in L : entry[p][v].status # "unlisted"
    BY Zenon, VersionsAssumption DEF Listing
  <1>3. IsFiniteSet(L)
    BY Zenon, <1>2, VersionsAssumption, FS_Subset
  <1>4. n \in Nat
    BY Zenon, <1>3, FS_CardinalityType
  <1> HIDE DEF L
  <1>5. ASSUME NEW i \in 1..n PROVE nth(i) \in L
    <2>1. \E v \in L : Cardinality({w \in L : w >= v}) = i
      BY Zenon, <1>2, <1>3, NthExists
    <2> QED BY Zenon, <2>1
  <1> HIDE DEF nth, n
  <1>6. DOMAIN wire = 1..n
    BY Zenon
  <1>7. ASSUME NEW i \in DOMAIN wire
        PROVE  /\ IsAdvertised(wire[i])
               /\ wire[i].version \in Versions
               /\ entry[p][wire[i].version].status # "unlisted"
               /\ entry[p][wire[i].version].build = wire[i].build
    <2>1. wire[i].version = nth(i) /\ wire[i].build = entry[p][nth(i)].build
      BY Zenon, <1>6
    <2>2. IsAdvertised(wire[i])
      BY Zenon, <1>6 DEF IsAdvertised
    <2> HIDE DEF wire
    <2> QED BY Zenon, <1>2, <1>5, <1>6, <1>7, <2>1, <2>2
  <1> HIDE DEF wire
  <1> QED BY Zenon, <1>1, <1>4, <1>6, <1>7 DEF Backed

\* Out of order, twice or malformed: still the entries the server made.
LEMMA DisorderedBacked ==
    ASSUME NEW p, NEW doc, Backed(entry, p, doc), NEW list \in Disordered(doc)
    PROVE  Backed(entry, p, list)
  <1>1. PICK n \in Nat : DOMAIN doc = 1..n
    BY Zenon DEF Backed
  <1>2. Len(doc) = n
    BY <1>1
  <1> DEFINE turned == [i \in 1..n |-> doc[n + 1 - i]]
             twice == [i \in 1..(2 * n) |-> doc[(i + 1) \div 2]]
             spoilt == [i \in 1..n |-> [doc[i] EXCEPT !.ok = FALSE]]
  <1>3. list = turned \/ list = twice \/ list = spoilt
    BY Zenon, <1>1, <1>2 DEF Disordered
  <1>4. \E m \in Nat : DOMAIN list = 1..m
    <2>1. 2 * n \in Nat
      OBVIOUS
    <2> QED BY Zenon, <1>3, <2>1
  <1>5. ASSUME NEW i \in DOMAIN list
        PROVE  /\ IsAdvertised(list[i])
               /\ \E j \in 1..n : list[i].version = doc[j].version /\ list[i].build = doc[j].build
    <2> \A j \in 1..n : IsAdvertised(doc[j])
      BY Zenon, <1>1 DEF Backed
    <2>1. CASE list = turned
      BY <1>5, <2>1
    <2>2. CASE list = twice
      <3>1. i \in 1..(2 * n) /\ list[i] = doc[(i + 1) \div 2]
        BY Zenon, <1>5, <2>2
      <3>2. (i + 1) \div 2 \in 1..n
        BY <3>1
      <3> QED BY Zenon, <3>1, <3>2
    <2>3. CASE list = spoilt
      <3>1. i \in 1..n /\ list[i] = [doc[i] EXCEPT !.ok = FALSE]
        BY Zenon, <1>5, <2>3
      <3>2. /\ list[i].version = doc[i].version /\ list[i].build = doc[i].build
            /\ IsAdvertised(list[i])
        BY Zenon, <3>1 DEF IsAdvertised
      <3> QED BY Zenon, <3>1, <3>2
    <2> QED BY Zenon, <1>3, <2>1, <2>2, <2>3
  <1> HIDE DEF turned, twice, spoilt
  <1> QED BY <1>1, <1>4, <1>5 DEF Backed

-----------------------------------------------------------------------------
(* Steps and lists *)

\* An entry is made once, and what it describes never changes.
LEMMA SiteKeepsEntries ==
    ASSUME EntryInv, SiteChanges
    PROVE  /\ EntryInv'
           /\ \A p \in Projects, v \in Versions : entry[p][v].status # "unlisted" =>
                 entry'[p][v].status # "unlisted" /\ entry'[p][v].build = entry[p][v].build
  <1>1. PICK p \in Projects, v \in Versions :
          \/ Server!List(p, v) \/ Server!Yank(p, v)
          \/ Server!Retire(p, v) \/ Server!Withdraw(p, v)
          \/ \E b \in Builds : Server!Upload(p, v, b)
    BY Zenon DEF SiteChanges
  <1> DEFINE e == entry[p][v]
             Put(x) == entry' = [entry EXCEPT ![p][v] = x]
  <1>2. IsEntry(e)
    BY Zenon DEF EntryInv
  <1>3. \/ UNCHANGED entry
        \/ \E x : /\ Put(x) /\ IsEntry(x) /\ x.status # "unlisted"
                  /\ e.status # "unlisted" => x.build = e.build
    <2>1. CASE Server!List(p, v)
      <3>1. e = Server!Unlisted
        BY Zenon, <2>1 DEF Server!List
      <3>2. e.status = "unlisted"
        BY <3>1 DEF Server!Unlisted
      <3> DEFINE x == [status |-> "available", build |-> served[p][v]]
      <3>3. Put(x)
        BY <2>1, Zenon DEF Server!List
      <3>4. IsEntry(x) /\ x.status # "unlisted"
        BY Zenon DEF IsEntry
      <3> QED BY Zenon, <3>2, <3>3, <3>4
    <2>2. ASSUME NEW s \in {"yanked", "removed"}, entry' = [entry EXCEPT ![p][v].status = s]
          PROVE  \E x : /\ Put(x) /\ IsEntry(x) /\ x.status # "unlisted"
                        /\ e.status # "unlisted" => x.build = e.build
      <3> DEFINE x == [e EXCEPT !.status = s]
      <3>1. Put(x)
        BY <2>2, Zenon
      <3>2. IsEntry(x) /\ x.status = s /\ x.build = e.build
        BY <1>2, Zenon DEF IsEntry
      <3>3. s # "unlisted"
        BY Zenon, <2>2
      <3> QED BY <3>1, <3>2, <3>3, Zenon
    <2>3. CASE Server!Yank(p, v)
      <3>1. entry' = [entry EXCEPT ![p][v].status = "yanked"]
        BY <2>3, Zenon DEF Server!Yank
      <3> HIDE DEF e, Put
      <3> QED BY Zenon, <2>2, <3>1
    <2>4. CASE Server!Retire(p, v)
      <3>1. entry' = [entry EXCEPT ![p][v].status = "removed"]
        BY <2>4, Zenon DEF Server!Retire
      <3> HIDE DEF e, Put
      <3> QED BY Zenon, <2>2, <3>1
    <2>5. CASE Server!Withdraw(p, v) \/ \E b \in Builds : Server!Upload(p, v, b)
      BY <2>5, Zenon DEF Server!Withdraw, Server!Upload
    <2> HIDE DEF e, Put
    <2> QED BY Zenon, <1>1, <2>1, <2>3, <2>4, <2>5
  <1>4. CASE UNCHANGED entry
    BY Zenon, <1>4 DEF EntryInv, IsEntry
  <1>5. ASSUME NEW x, Put(x), IsEntry(x), x.status # "unlisted",
               e.status # "unlisted" => x.build = e.build
        PROVE  /\ EntryInv'
               /\ \A q \in Projects, w \in Versions : entry[q][w].status # "unlisted" =>
                   entry'[q][w].status # "unlisted" /\ entry'[q][w].build = entry[q][w].build
    <2>1. entry' = [q \in Projects |-> IF q = p THEN [entry[p] EXCEPT ![v] = x] ELSE entry[q]]
      BY Zenon, <1>5 DEF EntryInv
    <2>2. [entry[p] EXCEPT ![v] = x] = [w \in Versions |-> IF w = v THEN x ELSE entry[p][w]]
      BY Zenon DEF EntryInv
    <2>3. \A q \in Projects, w \in Versions :
             entry'[q][w] = IF q = p /\ w = v THEN x ELSE entry[q][w]
      BY Zenon, <2>1, <2>2
    <2>4. \A q \in Projects : entry'[q] = [w \in Versions |-> entry'[q][w]]
      BY <2>1, <2>2, <2>3 DEF EntryInv
    <2>5. entry' = [q \in Projects |-> entry'[q]]
      BY Zenon, <2>1
    <2>6. \A q \in Projects, w \in Versions : IsEntry(entry'[q][w])
      <3> HIDE DEF e
      <3> QED BY Zenon, <1>5, <2>3 DEF EntryInv
    <2>7. EntryInv'
      BY <2>4, <2>5, <2>6, Zenon DEF EntryInv, IsEntry
    <2> QED BY <1>5, <2>3, <2>7
  <1> HIDE DEF e, Put
  <1> QED BY Zenon, <1>3, <1>4, <1>5

LEMMA BackedStays ==
    ASSUME NEW p \in Projects, NEW list, Backed(entry, p, list), 
           \A v \in Versions : entry[p][v].status # "unlisted" =>
              entry'[p][v].status # "unlisted" /\ entry'[p][v].build = entry[p][v].build
    PROVE  Backed(entry', p, list)
  BY Zenon DEF Backed

\* A step that brings its task to no insertion, or to that of a list that the
\* server made.
LeftWithList(t) ==
    \E label, c, a :
        /\ Left(t, label, c, a)
        /\ label = "insert" => Backed(entry, c.prj, c.doc.list)

LEMMA ElsewhereLeaves ==
    ASSUME NEW t,
           \/ \E a : Return(t, a)
           \/ \E kind : Fail(t, kind)
           \/ \E label \in Labels \ {"insert"} : \E c : Goto(t, label, c)
    PROVE  LeftWithList(t)
  <1>1. ASSUME NEW a, Return(t, a) PROVE LeftWithList(t)
    <2>1. Left(t, "idle", NoCall, a)
      BY <1>1, Zenon DEF Left, Return
    <2>2. "idle" # "insert"
      BY Zenon
    <2> QED BY Zenon, <2>1, <2>2 DEF LeftWithList
  <1>2. ASSUME NEW label, label # "insert", NEW c, Goto(t, label, c) PROVE LeftWithList(t)
    <2>1. Left(t, label, c, NoAnswer)
      BY <1>2, Zenon DEF Left, Goto
    <2> QED BY Zenon, <1>2, <2>1 DEF LeftWithList
  <1> QED BY Zenon, <1>1, <1>2 DEF Fail

LEMMA UseVersionsElsewhere ==
    ASSUME NEW t, NEW c, NEW doc, UseVersions(t, c, doc)
    PROVE  LeftWithList(t)
  <1>1. "files" \in Labels \ {"insert"}
    BY Zenon DEF Labels
  <1>2. \/ \E a : Return(t, a)
        \/ \E l : Goto(t, "files", l)
    BY Zenon DEF UseVersions
  <1> QED BY Zenon, <1>1, <1>2, ElsewhereLeaves

LEMMA LocatedElsewhere ==
    ASSUME NEW t, NEW c, Located(t, c)
    PROVE  LeftWithList(t)
  <1>1. "fetch" \in Labels \ {"insert"}
    BY Zenon DEF Labels
  <1>2. Goto(t, "fetch", c) \/ \E doc : UseVersions(t, c, doc)
    BY Zenon DEF Located
  <1> QED BY Zenon, <1>1, <1>2, ElsewhereLeaves, UseVersionsElsewhere

LEMMA EndpointsElsewhere ==
    ASSUME NEW t, NEW c, Endpoints(t, c)
    PROVE  LeftWithList(t)
  <1>1. "discover" \in Labels \ {"insert"} /\ "waiting" \in Labels \ {"insert"}
    BY Zenon DEF Labels
  <1>2. (\E l : Located(t, l)) \/ Goto(t, "discover", c) \/ Goto(t, "waiting", c)
    BY Zenon DEF Endpoints
  <1> QED BY Zenon, <1>1, <1>2, ElsewhereLeaves, LocatedElsewhere

\* What is sent and passes the validation is inserted as it is.
LEMMA FetchVersionsLeavesList ==
    ASSUME ClientInv, NEW t \in Tasks, FetchVersions(t)
    PROVE  LeftWithList(t)
  <1> DEFINE c == call[t]
             wire == WireVersions(c.prj)
  <1>1. IsCall(c) /\ c.prj \in Projects
    BY Zenon DEF ClientInv, ShapeInv, IsCall
  <1>2. Fail(t, "notHere") \/ \E list \in {wire} \cup Disordered(wire) : Received(t, c, list)
    BY Zenon DEF FetchVersions
  <1>3. Backed(entry, c.prj, wire)
    BY Zenon, <1>1, WireBacked
  <1> HIDE DEF c, wire
  <1>4. ASSUME NEW list \in {wire} \cup Disordered(wire), Received(t, c, list)
        PROVE  LeftWithList(t)
    <2> DEFINE got == [c EXCEPT !.doc = [root |-> c.root, list |-> list]]
    <2>1. got.prj = c.prj /\ got.doc = [root |-> c.root, list |-> list]
      BY <1>1, Zenon DEF IsCall
    <2>2. Goto(t, "insert", got) \/ Fail(t, "error")
      BY <1>4, Zenon DEF Received
    <2>3. Backed(entry, c.prj, list)
      BY Zenon, <1>3, <1>4, DisorderedBacked
    <2> HIDE DEF got
    <2>4. got.doc.list = list
      BY <2>1
    <2>5. CASE Goto(t, "insert", got)
      <3>1. Left(t, "insert", got, NoAnswer)
        BY Zenon, <2>5 DEF Goto, Left
      <3> QED BY Zenon, <2>1, <2>3, <2>4, <3>1 DEF LeftWithList
    <2> QED BY Zenon, <2>2, <2>5, ElsewhereLeaves
  <1> QED BY Zenon, <1>2, <1>4, ElsewhereLeaves

\* A task's step keeps the entries and every list that is not its own.
LEMMA TaskKeepsLists ==
    ASSUME ClientInv, ListInv, NEW t \in Tasks, LeftWithList(t), UNCHANGED entry,
           \A p \in Projects : Backed(entry, p, versions_cache'[p].list)
    PROVE  ListInv'
  <1>1. PICK label, c, a : /\ Left(t, label, c, a)
                           /\ label = "insert" => Backed(entry, c.prj, c.doc.list)
    BY Zenon DEF LeftWithList
  <1>2. EntryInv'
    BY Zenon DEF ListInv, EntryInv, IsEntry
  <1>3. ASSUME NEW u \in Tasks
        PROVE  /\ pc'[u] = IF u = t THEN label ELSE pc[u]
               /\ call'[u] = IF u = t THEN c ELSE call[u]
    BY Zenon, <1>1 DEF Left, ClientInv, ShapeInv
  <1>4. ASSUME NEW u \in Tasks, pc'[u] = "insert"
        PROVE  Backed(entry, call'[u].prj, call'[u].doc.list)
    BY Zenon, <1>1, <1>3, <1>4 DEF ListInv
  <1> QED BY Zenon, <1>2, <1>4 DEF ListInv

LEMMA NextKeepsLists ==
    ASSUME ClientInv, ListInv, [Next]_vars
    PROVE  ListInv'
  <1>1. CASE UNCHANGED <<entry, client>>
    BY Zenon, <1>1 DEF client, ListInv, EntryInv, IsEntry
  <1>2. CASE SiteChanges
    <2>1. EntryInv'
      BY Zenon, <1>2, SiteKeepsEntries DEF ListInv
    <2>2. UNCHANGED <<versions_cache, pc, call>>
      BY Zenon, <1>2 DEF SiteChanges, client
    <2>3. ASSUME NEW p \in Projects, NEW list, Backed(entry, p, list)
          PROVE  Backed(entry', p, list)
      BY Zenon, <1>2, <2>3, SiteKeepsEntries, BackedStays DEF ListInv
    <2>4. \A t \in Tasks : call[t].prj \in Projects
      BY Zenon DEF ClientInv, ShapeInv, IsCall
    <2> QED BY Zenon, <2>1, <2>2, <2>3, <2>4 DEF ListInv
  <1>3. ASSUME NEW t \in Tasks, LeftWithList(t), UNCHANGED <<entry, versions_cache>>
        PROVE  ListInv'
    BY Zenon, <1>3, TaskKeepsLists DEF ListInv
  <1>4. ASSUME NEW t \in Tasks, Insert(t)
        PROVE  ListInv'
    <2> DEFINE c == call[t]
               doc == IF versions_cache[c.prj] = NoDoc THEN c.doc ELSE versions_cache[c.prj]
    <2>1. /\ pc[t] = "insert" /\ UNCHANGED entry
          /\ versions_cache' = [versions_cache EXCEPT ![c.prj] = doc]
          /\ UseVersions(t, c, doc)
      BY <1>4, Zenon DEF Insert, site
    <2>2. c.prj \in Projects
      BY Zenon DEF ClientInv, ShapeInv, IsCall
    <2>3. Backed(entry, c.prj, doc.list)
      BY Zenon, <2>1, <2>2 DEF ListInv
    <2>4. LeftWithList(t)
      BY Zenon, <2>1, UseVersionsElsewhere
    <2> HIDE DEF c, doc
    <2>5. versions_cache' = [p \in Projects |-> IF p = c.prj THEN doc ELSE versions_cache[p]]
      BY Zenon, <2>1, <2>2 DEF ClientInv, ShapeInv
    <2>6. \A p \in Projects : Backed(entry, p, versions_cache'[p].list)
      BY Zenon, <2>3, <2>5 DEF ListInv
    <2> QED BY Zenon, <2>1, <2>4, <2>6, TaskKeepsLists
  <1>5. ASSUME NEW t \in Tasks,
               \/ \E p \in Projects : BeginVersions(t, p)
               \/ \E p \in Projects, v \in Versions : BeginProject(t, p, v)
               \/ Wake(t)
        PROVE  LeftWithList(t) /\ UNCHANGED <<entry, versions_cache>>
    <2>1. /\ (\E c : Endpoints(t, c)) \/ (\E c, doc : UseVersions(t, c, doc))
          /\ UNCHANGED <<entry, versions_cache>>
      BY <1>5, Zenon DEF BeginVersions, BeginProject, Begin, Wake, site
    <2> QED BY Zenon, <2>1, EndpointsElsewhere, UseVersionsElsewhere
  <1>6. ASSUME NEW t \in Tasks, Discover(t)
        PROVE  LeftWithList(t) /\ UNCHANGED <<entry, versions_cache>>
    <2>1. /\ Fail(t, "error") \/ \E c : Located(t, c)
          /\ UNCHANGED <<entry, versions_cache>>
      BY <1>6, Zenon DEF Discover, site
    <2> QED BY Zenon, <2>1, LocatedElsewhere, ElsewhereLeaves
  <1>7. ASSUME NEW t \in Tasks, FetchVersions(t)
        PROVE  LeftWithList(t) /\ UNCHANGED <<entry, versions_cache>>
    <2>1. UNCHANGED <<entry, versions_cache>>
      BY <1>7, Zenon DEF FetchVersions, site
    <2> QED BY Zenon, <1>7, <2>1, FetchVersionsLeavesList
  <1>8. ASSUME NEW t \in Tasks, NEW f, FetchFile(t, f)
        PROVE  LeftWithList(t) /\ UNCHANGED <<entry, versions_cache>>
    <2>1. /\ (\E a : Return(t, a)) \/ (\E c : Goto(t, "files", c))
          /\ UNCHANGED <<entry, versions_cache>>
      BY <1>8, Zenon DEF FetchFile, site
    <2>2. "files" \in Labels \ {"insert"}
      BY Zenon DEF Labels
    <2> QED BY Zenon, <2>1, <2>2, ElsewhereLeaves
  <1>9. ASSUME NEW t \in Tasks, RequestFails(t)
        PROVE  LeftWithList(t) /\ UNCHANGED <<entry, versions_cache>>
    <2>1. Fail(t, "error") /\ UNCHANGED <<entry, versions_cache>>
      BY <1>9, Zenon DEF RequestFails, site
    <2> QED BY Zenon, <2>1, ElsewhereLeaves
  <1>10. CASE ConfigChanges \/ UNCHANGED vars
    BY Zenon, <1>1, <1>10 DEF ConfigChanges, vars, client
  <1> QED BY Zenon, <1>2, <1>3, <1>4, <1>5, <1>6, <1>7, <1>8, <1>9, <1>10 DEF Next, Step

LEMMA InitHasLists == Init => ListInv
  <1> SUFFICES ASSUME Init PROVE ListInv
    BY Zenon
  <1>1. PICK published \in [Projects -> SUBSET Versions], b \in Builds :
          entry = [p \in Projects |-> [v \in Versions |->
                IF v \in published[p] THEN [status |-> "available", build |-> b]
                ELSE Server!Unlisted]]
    BY Zenon DEF Init
  <1>2. IsEntry([status |-> "available", build |-> b]) /\ IsEntry(Server!Unlisted)
    BY Zenon DEF IsEntry, Server!Unlisted
  <1>3. EntryInv
    BY Zenon, <1>1, <1>2 DEF EntryInv
  <1>4. \A p : Backed(entry, p, NoDoc.list)
    BY DEF Backed, NoDoc
  <1>5. /\ \A p \in Projects : versions_cache[p] = NoDoc
        /\ \A t \in Tasks : pc[t] # "insert"
    BY Zenon DEF Init
  <1> QED BY Zenon, <1>3, <1>4, <1>5 DEF ListInv

LEMMA ListInvariant == Spec => []ListInv
  <1>1. Init => ListInv
    BY Zenon, InitHasLists
  <1>2. ClientInv /\ ListInv /\ [Next]_vars => ListInv'
    BY Zenon, NextKeepsLists
  <1> QED BY <1>1, <1>2, ClientInvariant, PTL DEF Spec

LEMMA LeastElement ==
    ASSUME NEW T, T \subseteq Nat, T # {}
    PROVE  \E m \in T : \A k \in T : m <= k
  <1>1. IsWellFoundedOn(OpToRel(<, Nat), Nat)
    BY Zenon, NatLessThanWellFounded
  <1>2. PICK m \in T : \A y \in T : ~(<<y, m>> \in OpToRel(<, Nat))
    BY Zenon, <1>1, WFMin
  <1>3. \A y \in T : ~(y < m)
    BY Zenon, <1>2 DEF OpToRel
  <1> QED BY <1>3

\* Each entry older than the one before it, hence than all before it.
LEMMA ValidIsDescending ==
    ASSUME NEW list, NEW n \in Nat, DOMAIN list = 1..n, ValidVersions(list),
           \A i \in 1..n : list[i].version \in Nat, NEW i \in 1..n
    PROVE  \A j \in 1..n : i < j => list[i].version > list[j].version
  <1> DEFINE Bad == {j \in 1..n : i < j /\ ~(list[i].version > list[j].version)}
  <1> SUFFICES ASSUME Bad # {} PROVE FALSE
    BY Zenon
  <1>1. Bad \subseteq Nat
    OBVIOUS
  <1>2. PICK m \in Bad : \A k \in Bad : m <= k
    BY Zenon, <1>1, LeastElement
  <1>3. m \in 1..n /\ m - 1 \in 1..n /\ m - 1 >= i /\ m - 1 \notin Bad
    BY <1>2
  <1>4. list[m - 1].version > list[m].version
    <2> DEFINE k == m - 1
    <2>1. k \in DOMAIN list /\ k + 1 \in DOMAIN list /\ k + 1 = m
      BY <1>3
    <2> HIDE DEF k
    <2>2. ~(list[k].version <= list[k + 1].version)
      BY Zenon, <2>1 DEF ValidVersions, VersionsOutOfOrder
    <2>3. list[k].version \in Nat /\ list[m].version \in Nat
      BY Zenon, <2>1, <1>3
    <2>4. list[k].version > list[m].version
      BY <2>1, <2>2, <2>3
    <2> QED BY Zenon, <2>4 DEF k
  <1>5. m - 1 = i \/ list[i].version > list[m - 1].version
    BY <1>3
  <1>6. list[i].version > list[m].version
    BY <1>3, <1>4, <1>5
  <1> QED BY Zenon, <1>2, <1>6

-----------------------------------------------------------------------------
(* The properties *)

\* The endpoints are discovered once: everything an environment has cached or
\* answered comes from the one root in the cell of endpoints(), whatever the
\* discovery document says later and however often a discovery has failed.
THEOREM ReadsComeFromOneRoot == Spec => []OneRoot
  <1>1. ClientInv => OneRoot
    BY Zenon DEF ClientInv, OneRoot, CacheOK, AnswerOK
  <1> QED BY <1>1, ClientInvariant, PTL

\* versions_async and get_project_async read one cached and validated document:
\* no task is told of a version that was offered to some task that it is not
\* listed or was removed.
THEOREM OfferedVersionsCanBeOpened == Spec => []CandidatesCanBeOpened
  <1>1. ClientInv => CandidatesCanBeOpened
    <2> SUFFICES ASSUME ClientInv, NEW t \in Tasks, NEW u \in Tasks,
                        answer[t].kind = "offer",
                        answer[u].kind \in {"notListed", "removed"},
                        answer[t].prj = answer[u].prj,
                        answer[u].ver \in answer[t].offer
                 PROVE  FALSE
      BY Zenon DEF CandidatesCanBeOpened
    <2> DEFINE list == versions_cache[answer[t].prj].list
    <2>1. AnswerOK(answer[t], endpoints, versions_cache)
          /\ AnswerOK(answer[u], endpoints, versions_cache)
      BY Zenon DEF ClientInv
    <2>2. versions_cache[answer[t].prj] # NoDoc /\ answer[t].prj \in Projects
      BY Zenon, <2>1 DEF AnswerOK, ClientInv, ShapeInv, IsAnswer
    <2>3. ValidVersions(list)
      BY Zenon, <2>2 DEF ClientInv, CacheOK
    <2>4. answer[t].offer = Candidates(list)
      BY Zenon, <2>1 DEF AnswerOK
    <2>5. StatusIn(list, answer[u].ver) \in {"unlisted", "removed"}
      BY Zenon, <2>1 DEF AnswerOK
    <2> HIDE DEF list
    <2>6. StatusIn(list, answer[u].ver) = "available"
      BY Zenon, <2>3, <2>4, CandidateStatus
    <2> QED BY Zenon, <2>5, <2>6
  <1> QED BY <1>1, ClientInvariant, PTL

\* fetch_versions_json puts only a validated list into the cache, and keeps it
\* while the server goes on: the cached list is strictly descending in every
\* state, and each of its entries is one that the server made and still has.
THEOREM CachedListsAreValid == Spec => []CachedIsValid
  <1>1. ASSUME ClientInv, ListInv, NEW p \in Projects, NEW i \in DOMAIN versions_cache[p].list
        PROVE  LET list == versions_cache[p].list IN
               /\ \A j \in DOMAIN list : i < j => list[i].version > list[j].version
               /\ entry[p][list[i].version].build = list[i].build
    <2> DEFINE list == versions_cache[p].list
    <2>1. Backed(entry, p, list)
      BY Zenon, <1>1 DEF ListInv
    <2>2. versions_cache[p] # NoDoc
      BY <1>1 DEF NoDoc
    <2>3. ValidVersions(list)
      BY Zenon, <1>1, <2>2 DEF ClientInv, CacheOK
    <2>4. i \in DOMAIN list
      BY Zenon, <1>1
    <2> HIDE DEF list
    <2>5. PICK n \in Nat : DOMAIN list = 1..n
      BY Zenon, <2>1 DEF Backed
    <2>6. \A k \in 1..n : list[k].version \in Nat
      BY Zenon, <2>1, <2>5, VersionsAssumption DEF Backed
    <2>7. \A j \in 1..n : i < j => list[i].version > list[j].version
      BY Zenon, <2>3, <2>4, <2>5, <2>6, ValidIsDescending
    <2>8. entry[p][list[i].version].build = list[i].build
      BY Zenon, <2>1, <2>4 DEF Backed
    <2> QED BY Zenon, <2>5, <2>7, <2>8 DEF list
  <1>2. ClientInv /\ ListInv => CachedIsValid
    BY Zenon, <1>1 DEF CachedIsValid
  <1> QED BY <1>2, ClientInvariant, ListInvariant, PTL

=============================================================================
