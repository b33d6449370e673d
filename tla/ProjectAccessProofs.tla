------------------------ MODULE ProjectAccessProofs ------------------------
(***************************************************************************)
(* What ProjectAccess promises of downloaded archives and checkouts, for   *)
(* any number of tasks, archives, credentials, changes and failures.       *)
(***************************************************************************)
EXTENDS ProjectAccess, TLAPS

\* Records with these fields, and nothing said of the values of most of them.
IsCall(c) ==
    c \in [op : {c.op}, path : Paths, attempt : {c.attempt}, first : {c.first},
          since : {c.since}, body : Archives \cup {Nothing}, len : {c.len},
          header : {c.header}, left : {c.left}, seen : {c.seen}]

IsAnswer(a) == a \in [kind : {a.kind}, op : {a.op}, content : {a.content}]

IsCell(c) ==
    c \in [state : {c.state}, archive : Archives \cup {Nothing}, len : {c.len}, size : {c.size}]

\* The kinds of projects whose contents are had once and for all.
Shared == object.kind \in {"remoteKpar", "indexKpar", "git"}

ShapeInv ==
    /\ object \in Objects /\ remote \in Archives \cup {Nothing}
    /\ IsCell(cell)
    /\ pc \in [Tasks -> Labels]
    /\ call = [t \in Tasks |-> call[t]] /\ \A t \in Tasks : IsCall(call[t])
    /\ answer = [t \in Tasks |-> answer[t]] /\ \A t \in Tasks : IsAnswer(answer[t])
    /\ extracted = [p \in Paths |-> extracted[p]]

Transferring(t) == pc[t] \in {"request", "stream"}

\* Who transfers holds the cell, which keeps all others from starting.
TransferInv ==
    Shared =>
        /\ \A t \in Tasks : pc[t] \notin {"hash", "open"}
        /\ \A t \in Tasks : Transferring(t) => Downloaded /\ cell.state = "initializing"
        /\ \A t, u \in Tasks : Transferring(t) /\ Transferring(u) => t = u

\* The contents that answers may be from: what is in the cell, and before it is
\* filled what is expected in it.
Known ==
    IF cell.state = "set" THEN {cell.archive.id}
    ELSE IF object.expected # Nothing THEN {object.expected.id} ELSE {}

ContentInv ==
    Shared =>
        /\ cell.state = "set" /\ object.expected # Nothing => cell.archive = object.expected
        /\ cell.state = "set" /\ Downloaded => cell.len = cell.archive.size
        /\ \A p \in Paths : extracted[p] \in {"none", "part"} \cup Known
        /\ \A t \in Tasks : answer[t].content \subseteq Known

AccessInv == ShapeInv /\ TransferInv /\ ContentInv

-----------------------------------------------------------------------------
(* The ways a step ends *)

\* A call that returns changes nothing of the other tasks.
LEMMA ReturnEffect ==
    ASSUME ShapeInv, NEW t \in Tasks, NEW a, IsAnswer(a), Return(t, a)
    PROVE  /\ pc' \in [Tasks -> Labels]
           /\ call' = [u \in Tasks |-> call'[u]] /\ \A u \in Tasks : IsCall(call'[u])
           /\ answer' = [u \in Tasks |-> answer'[u]] /\ \A u \in Tasks : IsAnswer(answer'[u])
           /\ \A u \in Tasks : pc'[u] = IF u = t THEN "idle" ELSE pc[u]
           /\ \A u \in Tasks : answer'[u] = IF u = t THEN a ELSE answer[u]
  <1>1. IsCall(NoCall)
    BY ArchivesAssumption DEF IsCall, NoCall, Nothing
  <1>2. pc' = [pc EXCEPT ![t] = "idle"] /\ call' = [call EXCEPT ![t] = NoCall]
        /\ answer' = [answer EXCEPT ![t] = a]
    BY DEF Return
  <1>3. pc' \in [Tasks -> Labels] /\ \A u \in Tasks : pc'[u] = IF u = t THEN "idle" ELSE pc[u]
    BY <1>2 DEF ShapeInv, Labels
  <1>4. call' = [u \in Tasks |-> call'[u]] /\ \A u \in Tasks : IsCall(call'[u])
    <2>1. call' = [u \in Tasks |-> IF u = t THEN NoCall ELSE call[u]]
      BY <1>2 DEF ShapeInv
    <2> QED BY <2>1, <1>1 DEF ShapeInv
  <1>5. /\ answer' = [u \in Tasks |-> answer'[u]] /\ \A u \in Tasks : IsAnswer(answer'[u])
        /\ \A u \in Tasks : answer'[u] = IF u = t THEN a ELSE answer[u]
    <2>1. answer' = [u \in Tasks |-> IF u = t THEN a ELSE answer[u]]
      BY <1>2 DEF ShapeInv
    <2> QED BY <2>1 DEF ShapeInv
  <1> QED BY <1>3, <1>4, <1>5

\* Nor does one that goes on.
LEMMA GotoEffect ==
    ASSUME ShapeInv, NEW t \in Tasks, NEW c, IsCall(c), NEW label \in Labels, Goto(t, label, c)
    PROVE  /\ pc' \in [Tasks -> Labels]
           /\ call' = [u \in Tasks |-> call'[u]] /\ \A u \in Tasks : IsCall(call'[u])
           /\ answer' = [u \in Tasks |-> answer'[u]] /\ \A u \in Tasks : IsAnswer(answer'[u])
           /\ \A u \in Tasks : pc'[u] = IF u = t THEN label ELSE pc[u]
           /\ \A u \in Tasks : answer'[u] = IF u = t THEN NoAnswer ELSE answer[u]
  <1>1. IsAnswer(NoAnswer)
    BY DEF IsAnswer, NoAnswer
  <1>2. pc' = [pc EXCEPT ![t] = label] /\ call' = [call EXCEPT ![t] = c]
        /\ answer' = [answer EXCEPT ![t] = NoAnswer]
    BY DEF Goto
  <1>3. pc' \in [Tasks -> Labels] /\ \A u \in Tasks : pc'[u] = IF u = t THEN label ELSE pc[u]
    BY <1>2 DEF ShapeInv
  <1>4. call' = [u \in Tasks |-> call'[u]] /\ \A u \in Tasks : IsCall(call'[u])
    <2>1. call' = [u \in Tasks |-> IF u = t THEN c ELSE call[u]]
      BY <1>2 DEF ShapeInv
    <2> QED BY <2>1 DEF ShapeInv
  <1>5. /\ answer' = [u \in Tasks |-> answer'[u]] /\ \A u \in Tasks : IsAnswer(answer'[u])
        /\ \A u \in Tasks : answer'[u] = IF u = t THEN NoAnswer ELSE answer[u]
    <2>1. answer' = [u \in Tasks |-> IF u = t THEN NoAnswer ELSE answer[u]]
      BY <1>2 DEF ShapeInv
    <2> QED BY <2>1, <1>1 DEF ShapeInv
  <1> QED BY <1>3, <1>4, <1>5

\* An error is an answer without contents.
LEMMA FailsReturns ==
    ASSUME NEW t, NEW c, Fails(t, c)
    PROVE  \E a : IsAnswer(a) /\ a.content = {} /\ Return(t, a)
  <1> DEFINE a(kind) == [NoAnswer EXCEPT !.kind = kind, !.op = c.op]
  <1>1. ASSUME NEW kind PROVE IsAnswer(a(kind)) /\ a(kind).content = {}
    BY Zenon DEF IsAnswer, NoAnswer
  <1>2. Return(t, a("unknown")) \/ Return(t, a("error"))
    BY Zenon DEF Fails
  <1> HIDE DEF a
  <1> QED BY <1>1, <1>2

\* A call on an archive answers from it, or from what was extracted before.
LEMMA UseReturns ==
    ASSUME NEW t, NEW c, NEW archive, NEW known, UseArchive(t, c, archive, known)
    PROVE  /\ \E a : /\ IsAnswer(a) /\ Return(t, a)
                    /\ \/ a.content \subseteq {archive.id, known.id}
                       \/ a.content \subseteq {extracted[c.path]} \ {"none", "part"}
           /\ \E x \in {archive.id, "part"} :
                 extracted' \in {extracted, [extracted EXCEPT ![c.path] = x]}
  <1>1. ASSUME NEW contents
        PROVE  IsAnswer(Answer(c, contents)) /\ Answer(c, contents).content = contents
    BY Zenon DEF IsAnswer, Answer, NoAnswer
  <1>2. CASE Extract(t, c, archive)
    <2>1. CASE /\ extracted[c.path] # "none"
               /\ Return(t, Answer(c, {extracted[c.path]} \ {"part"}))
               /\ UNCHANGED <<extracted, faults>>
      BY <1>1, <2>1
    <2>2. CASE /\ extracted' = [extracted EXCEPT ![c.path] = archive.id]
               /\ Return(t, Answer(c, {archive.id}))
      BY <2>2, <1>1
    <2>3. CASE /\ extracted' = [extracted EXCEPT ![c.path] = "part"]
               /\ Fails(t, c)
      <3>1. PICK a : IsAnswer(a) /\ a.content = {} /\ Return(t, a)
        BY <2>3, FailsReturns
      <3> QED BY <2>3, <3>1
    <2> QED BY <1>2, <2>1, <2>2, <2>3, Zenon DEF Extract
  <1>3. CASE UNCHANGED <<extracted, faults>> /\ Fails(t, c)
    <2>1. PICK a : IsAnswer(a) /\ a.content = {} /\ Return(t, a)
      BY <1>3, FailsReturns
    <2> QED BY <1>3, <2>1
  <1>4. CASE UNCHANGED <<extracted, faults>> /\ Return(t, Answer(c, {archive.id}))
    BY <1>4, <1>1
  <1>5. CASE UNCHANGED <<extracted, faults>> /\ Return(t, Answer(c, {known.id}))
    BY <1>5, <1>1
  <1>6. CASE UNCHANGED <<extracted, faults>>
             /\ Return(t, [NoAnswer EXCEPT !.kind = "unknown", !.op = c.op])
    <2> DEFINE a == [NoAnswer EXCEPT !.kind = "unknown", !.op = c.op]
    <2>1. IsAnswer(a) /\ a.content = {}
      BY Zenon DEF IsAnswer, NoAnswer
    <2>2. Return(t, a)
      BY <1>6
    <2> HIDE DEF a
    <2> QED BY <1>6, <2>1, <2>2
  <1> QED BY <1>2, <1>3, <1>4, <1>5, <1>6, Zenon DEF UseArchive

\* What an action may do to the file of a source.
Extracts(known) ==
    \/ extracted' = extracted
    \/ \E p \in Paths : \E x \in {"part"} \cup known : extracted' = [extracted EXCEPT ![p] = x]

LEMMA KeepsShape ==
    ASSUME ShapeInv, NEW t \in Tasks, UNCHANGED world, IsCell(cell'),
           NEW known, Extracts(known),
           \/ \E a : IsAnswer(a) /\ Return(t, a)
           \/ \E c, label : IsCall(c) /\ label \in Labels /\ Goto(t, label, c)
    PROVE  ShapeInv'
  <1>1. object' \in Objects /\ remote' \in Archives \cup {Nothing}
    BY DEF ShapeInv, world
  <1>2. extracted' = [p \in Paths |-> extracted'[p]]
    BY DEF ShapeInv, Extracts
  <1>3. /\ pc' \in [Tasks -> Labels]
        /\ call' = [u \in Tasks |-> call'[u]] /\ \A u \in Tasks : IsCall(call'[u])
        /\ answer' = [u \in Tasks |-> answer'[u]] /\ \A u \in Tasks : IsAnswer(answer'[u])
    <2>1. CASE \E a : IsAnswer(a) /\ Return(t, a)
      BY <2>1, ReturnEffect
    <2>2. CASE \E c, label : IsCall(c) /\ label \in Labels /\ Goto(t, label, c)
      BY <2>2, GotoEffect
    <2> QED BY <2>1, <2>2
  <1> QED BY <1>1, <1>2, <1>3 DEF ShapeInv, IsCell, IsCall, IsAnswer

\* A call that returns while the cell stays as it is.
LEMMA ReturnKeeps ==
    ASSUME AccessInv, NEW t \in Tasks, UNCHANGED <<world, cell>>,
           NEW a, IsAnswer(a), Return(t, a), NEW known, Extracts(known),
           Shared => known \subseteq Known /\ a.content \subseteq Known
    PROVE  AccessInv'
  <1>1. ShapeInv'
    BY KeepsShape DEF AccessInv, ShapeInv
  <1>2. /\ \A u \in Tasks : pc'[u] = IF u = t THEN "idle" ELSE pc[u]
        /\ \A u \in Tasks : answer'[u] = IF u = t THEN a ELSE answer[u]
    BY ReturnEffect DEF AccessInv
  <1>3. TransferInv'
    BY <1>2 DEF AccessInv, TransferInv, Shared, Transferring, Downloaded, world
  <1>4. Shared => \A p \in Paths : extracted'[p] \in {"none", "part"} \cup Known
    BY DEF AccessInv, ShapeInv, ContentInv, Extracts
  <1>5. ContentInv'
    BY <1>2, <1>4 DEF AccessInv, ContentInv, Shared, Known, Downloaded, world
  <1> QED BY <1>1, <1>3, <1>5 DEF AccessInv

\* A task that goes on while the cell stays as it is.
LEMMA GotoKeeps ==
    ASSUME AccessInv, NEW t \in Tasks, UNCHANGED <<world, cell, extracted>>,
           NEW c, IsCall(c), NEW label \in Labels, Goto(t, label, c),
           Shared => \/ label \in {"idle", "waiting"}
                     \/ label \in {"request", "stream"} /\ Transferring(t)
    PROVE  AccessInv'
  <1>1. ShapeInv'
    BY KeepsShape DEF AccessInv, ShapeInv, Extracts
  <1>2. /\ \A u \in Tasks : pc'[u] = IF u = t THEN label ELSE pc[u]
        /\ \A u \in Tasks : answer'[u] = IF u = t THEN NoAnswer ELSE answer[u]
    BY GotoEffect DEF AccessInv
  <1>3. TransferInv'
    BY <1>2 DEF AccessInv, TransferInv, Shared, Transferring, Downloaded, world
  <1>4. ContentInv'
    BY <1>2 DEF AccessInv, ContentInv, Shared, Known, Downloaded, NoAnswer, world
  <1> QED BY <1>1, <1>3, <1>4 DEF AccessInv

\* A download that is given up leaves the cell empty, as it was before.
LEMMA GivingUpKeeps ==
    ASSUME AccessInv, NEW t \in Tasks, UNCHANGED <<world, extracted>>, DownloadFails(t),
           Shared => Transferring(t)
    PROVE  AccessInv'
  <1>1. PICK a : IsAnswer(a) /\ a.content = {} /\ Return(t, a)
    BY FailsReturns DEF DownloadFails
  <1>2. cell' = NoCell
    BY DEF DownloadFails
  <1>3. ShapeInv'
    <2>1. IsCell(cell')
      BY <1>2 DEF NoCell, IsCell
    <2> QED BY <1>1, <2>1, KeepsShape DEF AccessInv, Extracts
  <1>4. /\ \A u \in Tasks : pc'[u] = IF u = t THEN "idle" ELSE pc[u]
        /\ \A u \in Tasks : answer'[u] = IF u = t THEN a ELSE answer[u]
    BY <1>1, ReturnEffect DEF AccessInv
  <1>5. TransferInv'
    BY <1>4 DEF AccessInv, TransferInv, Shared, Transferring, Downloaded, world
  <1>6. Shared => Known' = Known
    BY <1>2 DEF AccessInv, TransferInv, Known, NoCell, world
  <1>7. ContentInv'
    BY <1>1, <1>2, <1>4, <1>6 DEF AccessInv, ContentInv, Shared, NoCell, world
  <1> QED BY <1>3, <1>5, <1>7 DEF AccessInv

\* The cell is filled with what was expected, if anything was.
LEMMA FillingKeeps ==
    ASSUME AccessInv, NEW t \in Tasks, UNCHANGED world, Shared,
           cell.state # "set", NEW archive \in Archives, NEW len,
           cell' = [state |-> "set", archive |-> archive, len |-> len, size |-> len],
           object.expected # Nothing => archive = object.expected,
           Downloaded => len = archive.size /\ Transferring(t),
           NEW c, IsCall(c), UseArchive(t, c, archive, archive)
    PROVE  AccessInv'
  <1>1. PICK a : /\ IsAnswer(a) /\ Return(t, a)
                 /\ \/ a.content \subseteq {archive.id}
                    \/ a.content \subseteq {extracted[c.path]} \ {"none", "part"}
    BY UseReturns
  <1>2. Extracts({archive.id})
    <2>1. \E x \in {archive.id, "part"} :
                 extracted' \in {extracted, [extracted EXCEPT ![c.path] = x]}
      BY UseReturns
    <2>2. c.path \in Paths
      BY DEF IsCall
    <2> QED BY <2>1, <2>2 DEF Extracts
  <1>3. ShapeInv'
    <2>1. IsCell(cell')
      BY DEF IsCell
    <2> QED BY <1>1, <1>2, <2>1, KeepsShape DEF AccessInv
  <1>4. /\ \A u \in Tasks : pc'[u] = IF u = t THEN "idle" ELSE pc[u]
        /\ \A u \in Tasks : answer'[u] = IF u = t THEN a ELSE answer[u]
    BY <1>1, ReturnEffect DEF AccessInv
  <1>5. TransferInv'
    BY <1>4 DEF AccessInv, TransferInv, Shared, Transferring, Downloaded, world
  <1>6. Known \subseteq {archive.id} /\ Known' = {archive.id}
    BY DEF Known, world
  <1>7. \A p \in Paths : extracted'[p] \in {"none", "part", archive.id}
    BY <1>2, <1>6 DEF AccessInv, ShapeInv, ContentInv, Extracts
  <1>8. a.content \subseteq {archive.id}
    BY <1>1, <1>6 DEF AccessInv, ContentInv, IsCall
  <1>9. ContentInv'
    BY <1>4, <1>6, <1>7, <1>8 DEF AccessInv, ContentInv, Shared, Downloaded, world
  <1> QED BY <1>3, <1>5, <1>9 DEF AccessInv

\* Nothing is claimed of the contents of other kinds.
LEMMA UnsharedKeeps ==
    ASSUME ~Shared, UNCHANGED world, ShapeInv'
    PROVE  AccessInv'
  BY DEF AccessInv, TransferInv, ContentInv, Shared, world

-----------------------------------------------------------------------------
(* The actions *)

LEMMA AccessInit == Init => AccessInv
  <1> SUFFICES ASSUME Init PROVE AccessInv
    OBVIOUS
  <1>1. IsCall(NoCall)
    BY ArchivesAssumption DEF IsCall, NoCall, Nothing
  <1>2. IsAnswer(NoAnswer) /\ NoAnswer.content = {}
    BY DEF IsAnswer, NoAnswer
  <1>3. IsCell(NoCell) /\ NoCell.state = "unset"
    BY DEF IsCell, NoCell
  <1>4. ShapeInv
    BY <1>1, <1>2, <1>3 DEF Init, ShapeInv, Labels
  <1>5. TransferInv
    BY DEF Init, TransferInv, Transferring
  <1>6. ContentInv
    BY <1>2, <1>3 DEF Init, ContentInv
  <1> QED BY <1>4, <1>5, <1>6 DEF AccessInv

\* Using what is in the cell: an archive that is shared is read from the cell.
LEMMA UsingKeeps ==
    ASSUME AccessInv, NEW t \in Tasks, UNCHANGED <<world, cell>>,
           NEW c, IsCall(c), NEW archive, UseArchive(t, c, archive, cell.archive),
           Shared => cell.state = "set" /\ archive = cell.archive
    PROVE  AccessInv'
  <1>1. PICK a : /\ IsAnswer(a) /\ Return(t, a)
                 /\ \/ a.content \subseteq {archive.id, cell.archive.id}
                    \/ a.content \subseteq {extracted[c.path]} \ {"none", "part"}
    BY UseReturns
  <1>2. c.path \in Paths
    BY DEF IsCall
  <1>3. Extracts({archive.id})
    <2>1. \E x \in {archive.id, "part"} :
                 extracted' \in {extracted, [extracted EXCEPT ![c.path] = x]}
      BY UseReturns
    <2> QED BY <1>2, <2>1 DEF Extracts
  <1>4. Shared => {archive.id} \subseteq Known /\ a.content \subseteq Known
    BY <1>1, <1>2 DEF AccessInv, ContentInv, Known
  <1> QED BY <1>1, <1>3, <1>4, ReturnKeeps

\* A call that fails while the cell stays as it is.
LEMMA FailingKeeps ==
    ASSUME AccessInv, NEW t \in Tasks, UNCHANGED <<world, cell, extracted>>,
           NEW c, Fails(t, c)
    PROVE  AccessInv'
  <1>1. PICK a : IsAnswer(a) /\ a.content = {} /\ Return(t, a)
    BY FailsReturns
  <1>2. Extracts({})
    BY DEF Extracts
  <1> QED BY <1>1, <1>2, ReturnKeeps

LEMMA CloneKeeps ==
    ASSUME AccessInv, NEW t \in Tasks, UNCHANGED world, NEW c, IsCall(c),
           cell.state = "unset", object.kind = "git", Clone(t, c)
    PROVE  AccessInv'
  <1>1. CASE /\ remote # Nothing
             /\ cell' = [state |-> "set", archive |-> remote, len |-> remote.size,
                         size |-> remote.size]
             /\ UseArchive(t, c, remote, remote)
    <2>1. remote \in Archives /\ object.expected = Nothing
      BY <1>1, ObjectsAssumption DEF AccessInv, ShapeInv
    <2> QED BY <1>1, <2>1, FillingKeeps DEF Shared, Downloaded
  <1>2. CASE Fails(t, c) /\ UNCHANGED <<cell, extracted>>
    BY <1>2, FailingKeeps
  <1> QED BY <1>1, <1>2, Zenon DEF Clone

LEMMA MeasureKeeps ==
    ASSUME AccessInv, NEW t \in Tasks, UNCHANGED <<world, extracted>>, NEW c, IsCall(c),
           object.kind = "localKpar", Measure(t, c)
    PROVE  AccessInv'
  <1>1. CASE Fails(t, c) /\ UNCHANGED cell
    BY <1>1, FailingKeeps
  <1>2. CASE /\ cell' = [NoCell EXCEPT !.state = "initializing", !.size = remote.size]
             /\ Goto(t, "hash", c)
    <2>1. IsCell(cell')
      BY <1>2, Zenon DEF IsCell, NoCell
    <2>2. ShapeInv'
      BY <1>2, <2>1, KeepsShape DEF AccessInv, Extracts, Labels
    <2> QED BY <2>2, UnsharedKeeps DEF Shared
  <1> QED BY <1>1, <1>2, Zenon DEF Measure

\* get_or_try_init: whoever finds the cell empty starts the one transfer.
LEMMA EnsureKeeps ==
    ASSUME AccessInv, NEW t \in Tasks, pc[t] \in {"idle", "waiting"}, UNCHANGED world,
           NEW c, IsCall(c), EnsureDownloaded(t, c)
    PROVE  AccessInv'
  <1>1. CASE /\ cell.state = "set"
             /\ UseArchive(t, c, IF object.kind = "localKpar" THEN remote ELSE cell.archive,
                           cell.archive)
             /\ UNCHANGED cell
    BY <1>1, UsingKeeps DEF Shared
  <1>2. CASE /\ cell.state = "unset" /\ object.kind \in {"remoteKpar", "indexKpar"}
             /\ cell' = [cell EXCEPT !.state = "initializing"]
             /\ Goto(t, "request", [c EXCEPT !.since = changes])
             /\ UNCHANGED <<extracted, faults>>
    <2> DEFINE d == [c EXCEPT !.since = changes]
    <2>1. IsCall(d)
      BY DEF IsCall
    <2>2. Goto(t, "request", d)
      BY <1>2
    <2> HIDE DEF d
    <2>3. IsCell(cell') /\ cell'.state = "initializing"
      BY <1>2 DEF IsCell, AccessInv, ShapeInv
    <2>4. ShapeInv'
      BY <1>2, <2>1, <2>2, <2>3, KeepsShape DEF AccessInv, Extracts, Labels
    <2>5. /\ \A u \in Tasks : pc'[u] = IF u = t THEN "request" ELSE pc[u]
          /\ \A u \in Tasks : answer'[u] = IF u = t THEN NoAnswer ELSE answer[u]
      BY <2>1, <2>2, GotoEffect DEF AccessInv, Labels
    <2>6. TransferInv'
      BY <1>2, <2>3, <2>5 DEF AccessInv, TransferInv, Shared, Transferring, Downloaded, world
    <2>7. Known' = Known
      BY <1>2, <2>3 DEF Known, world
    <2>8. ContentInv'
      BY <1>2, <2>3, <2>5, <2>7 DEF AccessInv, ContentInv, Shared, NoAnswer, world
    <2> QED BY <2>4, <2>6, <2>8 DEF AccessInv
  <1>3. CASE /\ object.kind = "localKpar" /\ Measure(t, c)
             /\ UNCHANGED <<extracted, faults>>
    BY <1>3, MeasureKeeps
  <1>4. CASE cell.state = "unset" /\ object.kind = "git" /\ Clone(t, c)
    BY <1>4, CloneKeeps
  <1>5. CASE Goto(t, "waiting", c) /\ UNCHANGED <<cell, extracted, faults>>
    BY <1>5, GotoKeeps DEF Labels
  <1> QED BY <1>1, <1>2, <1>3, <1>4, <1>5, Zenon DEF EnsureDownloaded

LEMMA BeginKeeps ==
    ASSUME AccessInv, NEW t \in Tasks, NEW op, NEW path \in Paths, Begin(t, op, path)
    PROVE  AccessInv'
  <1> DEFINE c == [NoCall EXCEPT !.op = op, !.path = path]
             d == [c EXCEPT !.left = RemoteFiles(op), !.since = changes]
             a == [Answer(c, {object.expected.id} \ {Nothing.id}) EXCEPT
                      !.kind = IF op = "invalid" THEN "unknown" ELSE "ok"]
  <1>1. IsCall(c)
    BY Zenon DEF IsCall, NoCall, Nothing
  <1>2. IsCall(d)
    BY Zenon DEF IsCall, NoCall, Nothing
  <1>3. IsAnswer(a) /\ a.content = {object.expected.id} \ {Nothing.id}
    BY Zenon DEF IsAnswer, Answer, NoAnswer
  <1>4. pc[t] = "idle" /\ UNCHANGED world
    BY DEF Begin
  <1>5. \/ Return(t, a) /\ UNCHANGED <<cell, extracted, faults>>
        \/ EnsureDownloaded(t, c)
        \/ /\ object.kind = "remoteSrc"
           /\ Goto(t, "request", d) /\ UNCHANGED <<cell, extracted, faults>>
    BY Zenon DEF Begin
  <1> HIDE DEF c, d, a
  <1>6. CASE Return(t, a) /\ UNCHANGED <<cell, extracted, faults>>
    <2>1. Shared => a.content \subseteq Known
      BY <1>3 DEF AccessInv, ContentInv, Known
    <2>2. Extracts({})
      BY <1>6 DEF Extracts
    <2> QED BY <1>3, <1>4, <1>6, <2>1, <2>2, ReturnKeeps
  <1>7. CASE EnsureDownloaded(t, c)
    BY <1>1, <1>4, <1>7, EnsureKeeps
  <1>8. CASE /\ object.kind = "remoteSrc"
             /\ Goto(t, "request", d) /\ UNCHANGED <<cell, extracted, faults>>
    BY <1>2, <1>4, <1>8, GotoKeeps DEF Shared, Labels
  <1> QED BY <1>5, <1>6, <1>7, <1>8

LEMMA RespondKeeps ==
    ASSUME AccessInv, NEW t \in Tasks, Respond(t)
    PROVE  AccessInv'
  <1>1. Transferring(t) /\ UNCHANGED <<world, extracted>>
    BY DEF Respond, Transferring
  <1>2. CASE DownloadFails(t)
    BY <1>1, <1>2, GivingUpKeeps
  <1>3. CASE UNCHANGED cell /\ \E header :
               Goto(t, "stream", [call[t] EXCEPT !.body = remote, !.header = header])
    <2>1. PICK header : Goto(t, "stream", [call[t] EXCEPT !.body = remote, !.header = header])
      BY <1>3, Zenon
    <2> DEFINE c == [call[t] EXCEPT !.body = remote, !.header = header]
    <2>2. IsCall(c)
      BY Zenon DEF IsCall, AccessInv, ShapeInv
    <2>3. Goto(t, "stream", c)
      BY <2>1
    <2> HIDE DEF c
    <2> QED BY <1>1, <1>3, <2>2, <2>3, GotoKeeps DEF Labels
  <1> QED BY <1>2, <1>3, Zenon DEF Respond

LEMMA ReceiveKeeps ==
    ASSUME AccessInv, NEW t \in Tasks, Receive(t)
    PROVE  AccessInv'
  <1> DEFINE c == [call[t] EXCEPT !.len = @ + 1]
  <1>1. Transferring(t) /\ UNCHANGED <<world, extracted>>
    BY DEF Receive, Transferring
  <1>2. DownloadFails(t) \/ (Goto(t, "stream", c) /\ UNCHANGED cell)
    BY Zenon DEF Receive
  <1>3. IsCall(c)
    BY DEF IsCall, AccessInv, ShapeInv
  <1> HIDE DEF c
  <1> QED BY <1>1, <1>2, <1>3, GivingUpKeeps, GotoKeeps DEF Labels

\* A body is accepted in full, and where an archive is expected it is that one.
LEMMA FinishKeeps ==
    ASSUME AccessInv, NEW t \in Tasks, Finish(t)
    PROVE  AccessInv'
  <1> DEFINE c == call[t]
  <1>1. Transferring(t) /\ UNCHANGED world
    BY DEF Finish, Transferring
  <1>2. CASE DownloadFails(t) /\ UNCHANGED extracted
    BY <1>1, <1>2, GivingUpKeeps
  <1>3. CASE /\ c.len = c.body.size /\ Accepts(c) /\ c.body.readable
             /\ cell' = [state |-> "set", archive |-> c.body, len |-> c.len, size |-> c.len]
             /\ UseArchive(t, c, c.body, c.body)
    <2>1. IsCall(c)
      BY DEF AccessInv, ShapeInv
    <2>2. c.body \in Archives
      BY <1>3, <2>1 DEF IsCall, Nothing
    <2>3. object.expected # Nothing => c.body = object.expected
      BY <1>3, <2>2, ObjectsAssumption, ArchivesAssumption DEF Accepts, AccessInv, ShapeInv
    <2>4. CASE Shared
      <3>1. cell.state # "set"
        BY <1>1, <2>4 DEF AccessInv, TransferInv
      <3> HIDE DEF c
      <3> QED BY <1>1, <1>3, <2>1, <2>2, <2>3, <2>4, <3>1, FillingKeeps
    <2>5. CASE ~Shared
      <3>1. IsCell(cell')
        BY <1>3, <2>2 DEF IsCell
      <3>2. PICK a : IsAnswer(a) /\ Return(t, a)
        BY <1>3, UseReturns
      <3>3. Extracts({c.body.id})
        <4>1. \E x \in {c.body.id, "part"} :
                 extracted' \in {extracted, [extracted EXCEPT ![c.path] = x]}
          BY <1>3, UseReturns
        <4> QED BY <2>1, <4>1 DEF Extracts, IsCall
      <3>4. ShapeInv'
        BY <1>1, <3>1, <3>2, <3>3, KeepsShape DEF AccessInv
      <3> QED BY <1>1, <2>5, <3>4, UnsharedKeeps
    <2> QED BY <2>4, <2>5
  <1> QED BY <1>2, <1>3, Zenon DEF Finish

LEMMA HashKeeps ==
    ASSUME AccessInv, NEW t \in Tasks, Hash(t)
    PROVE  AccessInv'
  <1>1. pc[t] = "hash" /\ UNCHANGED <<world, extracted>>
    BY DEF Hash
  <1>2. ~Shared
    BY <1>1 DEF AccessInv, TransferInv
  <1>3. CASE DownloadFails(t)
    BY <1>1, <1>2, <1>3, GivingUpKeeps
  <1>4. CASE /\ cell' = [cell EXCEPT !.state = "set", !.archive = remote, !.len = remote.size]
             /\ Goto(t, "open", call[t])
    <2>1. IsCell(cell')
      BY <1>4, Zenon DEF IsCell, AccessInv, ShapeInv
    <2>2. IsCall(call[t])
      BY DEF AccessInv, ShapeInv
    <2>3. ShapeInv'
      BY <1>1, <1>4, <2>1, <2>2, KeepsShape DEF AccessInv, Extracts, Labels
    <2> QED BY <1>1, <1>2, <2>3, UnsharedKeeps
  <1> QED BY <1>3, <1>4, Zenon DEF Hash

LEMMA OpenKeeps ==
    ASSUME AccessInv, NEW t \in Tasks, Open(t)
    PROVE  AccessInv'
  <1>1. pc[t] = "open" /\ UNCHANGED <<world, cell>> /\ UseArchive(t, call[t], remote, cell.archive)
    BY Zenon DEF Open
  <1>2. ~Shared /\ IsCall(call[t])
    BY <1>1 DEF AccessInv, TransferInv, ShapeInv
  <1> QED BY <1>1, <1>2, UsingKeeps

LEMMA NextAttemptKeeps ==
    ASSUME AccessInv, NEW t \in Tasks, NextAttempt(t)
    PROVE  AccessInv'
  <1> DEFINE c == [call[t] EXCEPT !.attempt = @ + 1,
            !.first = IF call[t].attempt = Remembered(object.matching) THEN StatusOf(t) ELSE @]
  <1>1. Transferring(t) /\ UNCHANGED <<world, cell, extracted>> /\ Goto(t, "request", c)
    BY Zenon DEF NextAttempt, Transferring
  <1>2. IsCall(c)
    BY Zenon DEF IsCall, AccessInv, ShapeInv
  <1> HIDE DEF c
  <1> QED BY <1>1, <1>2, GotoKeeps DEF Labels

\* A project that is read file by file is not shared.
LEMMA FetchKeeps ==
    ASSUME AccessInv, NEW t \in Tasks, FetchFile(t) \/ FetchBreaks(t)
    PROVE  AccessInv'
  <1> DEFINE c == call[t]
             d(seen) == [NoCall EXCEPT !.op = c.op, !.path = c.path,
                            !.left = c.left - 1, !.seen = seen, !.since = changes]
             got(seen, kind) == [Answer(c, seen) EXCEPT !.kind = kind]
             lost(kind) == [NoAnswer EXCEPT !.op = c.op, !.kind = kind]
  <1>1. \A seen : IsCall(d(seen))
    BY Zenon DEF IsCall, NoCall, Nothing, AccessInv, ShapeInv
  <1>2. ASSUME NEW seen, NEW kind PROVE IsAnswer(got(seen, kind)) /\ IsAnswer(lost(kind))
    BY Zenon DEF IsAnswer, Answer, NoAnswer
  <1>3. object.kind = "remoteSrc" /\ UNCHANGED <<world, cell, extracted>>
    BY DEF FetchFile, FetchBreaks
  <1>4. \E seen, kind :
            Goto(t, "request", d(seen)) \/ Return(t, got(seen, kind)) \/ Return(t, lost(kind))
    BY Zenon DEF FetchFile, FetchBreaks
  <1> HIDE DEF d, got, lost
  <1>5. \/ \E a : IsAnswer(a) /\ Return(t, a)
        \/ \E b, label : IsCall(b) /\ label \in Labels /\ Goto(t, label, b)
    BY <1>1, <1>2, <1>4 DEF Labels
  <1>6. ShapeInv'
    <2>1. IsCell(cell') /\ Extracts({})
      BY <1>3 DEF Extracts, AccessInv, ShapeInv
    <2> QED BY <1>3, <1>5, <2>1, KeepsShape DEF AccessInv
  <1> QED BY <1>3, <1>6, UnsharedKeeps DEF Shared

\* Neither a change on the server nor a stuttering step touches what is held.
LEMMA ChangesKeeps ==
    ASSUME AccessInv, Changes \/ UNCHANGED vars
    PROVE  AccessInv'
  <1>1. /\ remote' \in Archives \cup {Nothing}
        /\ UNCHANGED <<object, cell, extracted, pc, call, answer>>
    BY DEF Changes, vars, AccessInv, ShapeInv
  <1> QED BY <1>1 DEF AccessInv, ShapeInv, IsCell, IsCall, IsAnswer, TransferInv, ContentInv,
                     Shared, Known, Transferring, Downloaded

LEMMA AccessNext == AccessInv /\ [Next]_vars => AccessInv'
  <1> SUFFICES ASSUME AccessInv, [Next]_vars PROVE AccessInv'
    OBVIOUS
  <1>1. CASE Changes \/ UNCHANGED vars
    BY <1>1, ChangesKeeps
  <1>2. ASSUME NEW t \in Tasks, NEW op, NEW path \in Paths, Begin(t, op, path)
        PROVE  AccessInv'
    BY <1>2, BeginKeeps
  <1>3. ASSUME NEW t \in Tasks, Wake(t) PROVE AccessInv'
    <2>1. IsCall(call[t]) /\ pc[t] = "waiting" /\ UNCHANGED world /\ EnsureDownloaded(t, call[t])
      BY <1>3 DEF Wake, AccessInv, ShapeInv
    <2> QED BY <2>1, EnsureKeeps
  <1>4. ASSUME NEW t \in Tasks, Break(t) PROVE AccessInv'
    BY <1>4, GivingUpKeeps DEF Break, Transferring
  <1>5. ASSUME NEW t \in Tasks, Step(t) PROVE AccessInv'
    BY <1>3, <1>5, NextAttemptKeeps, RespondKeeps, ReceiveKeeps, FinishKeeps, HashKeeps,
       OpenKeeps, FetchKeeps DEF Step
  <1>6. ASSUME NEW t \in Tasks, FetchBreaks(t) PROVE AccessInv'
    BY <1>6, FetchKeeps
  <1>7. NoCall.path \in Paths
    BY ArchivesAssumption DEF NoCall
  <1> QED BY <1>1, <1>2, <1>4, <1>5, <1>6, <1>7 DEF Next

LEMMA AccessInvariant == Spec => []AccessInv
  BY AccessInit, AccessNext, PTL DEF Spec

-----------------------------------------------------------------------------
(* Attempts of a request *)

Tried == Attempts(object.matching)

\* What attempt number i is answered with as things are now.
StatusNow(i) ==
    IF object.server[Tried[i]] = "ok" /\ remote = Nothing THEN "missing"
    ELSE object.server[Tried[i]]

\* All earlier attempts were refused, and the answer to fall back on is kept,
\* unless there was a change since the request began.
RequestOK(c) ==
    /\ c.since \in Nat /\ c.since <= changes
    /\ c.attempt \in 1..Len(Tried)
    /\ c.since = changes =>
          /\ \A j \in 1..(c.attempt - 1) : Refused(StatusNow(j))
          /\ c.attempt > Remembered(object.matching) =>
                c.first = StatusNow(Remembered(object.matching))

AttemptInv ==
    /\ changes \in Nat
    /\ \A t \in Tasks : pc[t] = "waiting" => call[t].attempt = 1
    /\ \A t \in Tasks : pc[t] = "request" => RequestOK(call[t])

\* Which credentials are tried: a sequence that reaches the answer to fall
\* back on, of credentials the server knows what to do with.
LEMMA AttemptsAreKnown ==
    ASSUME AccessInv
    PROVE  /\ Len(Tried) \in Nat /\ DOMAIN Tried = 1..Len(Tried)
           /\ Remembered(object.matching) \in 1..Len(Tried)
           /\ \A i \in 1..Len(Tried) : Tried[i] \in DOMAIN object.server
  <1> DEFINE m == object.matching
  <1>1. m \in Seq(Credentials) /\ DOMAIN object.server = Credentials \cup {Anonymous}
    BY ObjectsAssumption DEF AccessInv, ShapeInv
  <1>2. Tried = Attempts(m)
    BY DEF Tried
  <1> HIDE DEF m
  <1>3. CASE m = <<>>
    <2>1. Tried = <<Anonymous>> /\ Remembered(m) = 1
      BY <1>2, <1>3 DEF Attempts, Remembered
    <2> QED BY <1>1, <2>1 DEF m
  <1>4. CASE m # <<>>
    <2> DEFINE n == Len(m)
    <2>1. n \in Nat /\ n > 0 /\ \A i \in 1..n : m[i] \in Credentials
      BY <1>1, <1>4
    <2>2. /\ Tried = [i \in 1..(2 * n) |-> IF i % 2 = 1 THEN Anonymous ELSE m[i \div 2]]
          /\ Remembered(m) = 2
      BY <1>2, <1>4 DEF Attempts, Remembered
    <2> HIDE DEF n
    <2>3. 2 * n \in Nat /\ 2 \in 1..(2 * n)
      BY <2>1
    <2>4. DOMAIN Tried = 1..(2 * n)
      BY <2>2
    <2>5. Len(Tried) = 2 * n
      BY <2>3, <2>4
    <2>6. ASSUME NEW i \in 1..(2 * n) PROVE Tried[i] \in DOMAIN object.server
      <3>1. i % 2 # 1 => i \div 2 \in 1..n
        BY <2>1
      <3>2. Tried[i] = IF i % 2 = 1 THEN Anonymous ELSE m[i \div 2]
        BY <2>2
      <3> QED BY <1>1, <2>1, <3>1, <3>2
    <2> QED BY <2>2, <2>3, <2>4, <2>5, <2>6 DEF m
  <1> QED BY <1>3, <1>4

\* The policy as documented, of attempts that were all refused but the last,
\* or with it.
LEMMA LastIsResult ==
    ASSUME AccessInv, NEW t \in Tasks, RequestOK(call[t]), call[t].since = changes,
           LastAttempt(t)
    PROVE  LET server == [c \in DOMAIN object.server |->
                IF object.server[c] = "ok" /\ remote = Nothing THEN "missing"
                ELSE object.server[c]]
           IN  Outcome(t) = Result(object.matching, server)
  <1> DEFINE server == [c \in DOMAIN object.server |->
                IF object.server[c] = "ok" /\ remote = Nothing THEN "missing"
                ELSE object.server[c]]
             answered == {i \in DOMAIN Tried : server[Tried[i]] \notin {"denied", "missing"}}
             first == CHOOSE i \in answered : \A j \in answered : i <= j
             R == Remembered(object.matching)
             k == call[t].attempt
             n == Len(Tried)
  <1>1. Result(object.matching, server) =
           IF answered = {} THEN server[Tried[R]] ELSE server[Tried[first]]
    BY Zenon DEF Result, Tried
  <1>2. \A i \in 1..n : server[Tried[i]] = StatusNow(i)
    BY AttemptsAreKnown DEF StatusNow
  <1>3. StatusOf(t) = StatusNow(k)
    BY Zenon DEF StatusOf, StatusNow, Tried
  <1>4. /\ n \in Nat /\ DOMAIN Tried = 1..n /\ R \in 1..n /\ k \in 1..n
        /\ \A j \in 1..(k - 1) : Refused(StatusNow(j))
        /\ k > R => call[t].first = StatusNow(R)
    BY AttemptsAreKnown DEF RequestOK
  <1>5. ~Refused(StatusNow(k)) \/ k = n
    BY <1>3 DEF LastAttempt, Tried
  <1>6. Outcome(t) = IF ~Refused(StatusNow(k)) \/ k <= R THEN StatusNow(k) ELSE call[t].first
    BY <1>3 DEF Outcome
  <1> HIDE DEF server
  <1>7. answered = {i \in 1..n : ~Refused(StatusNow(i))}
    BY <1>2, <1>4 DEF Refused
  <1> HIDE DEF answered, first, R, k, n
  <1>8. CASE ~Refused(StatusNow(k))
    <2>1. k \in answered /\ \A j \in answered : k <= j
      BY <1>4, <1>7, <1>8
    <2>2. first \in answered /\ \A j \in answered : first <= j
      BY <2>1 DEF first
    <2>3. first = k
      BY <1>4, <1>7, <2>1, <2>2
    <2> QED BY <1>1, <1>2, <1>4, <1>6, <1>8, <2>1, <2>3 DEF server
  <1>9. CASE Refused(StatusNow(k))
    <2>1. k = n
      BY <1>5, <1>9
    <2>2. answered = {}
      BY <1>4, <1>7, <1>9, <2>1
    <2>3. Result(object.matching, server) = StatusNow(R)
      BY <1>1, <1>2, <1>4, <2>2
    <2>4. Outcome(t) = StatusNow(R)
      <3>1. k <= R => k = R
        BY <1>4, <2>1
      <3>2. k <= R \/ k > R
        BY <1>4
      <3> QED BY <1>4, <1>6, <1>9, <3>1, <3>2
    <2> QED BY <2>3, <2>4 DEF server
  <1> QED BY <1>8, <1>9

\* A step of t that returns, or goes on as the invariant wants it.
GoesOn(t) ==
    \/ \E a : Return(t, a)
    \/ \E label, c :
          /\ Goto(t, label, c)
          /\ label = "waiting" => c.attempt = 1
          /\ label = "request" => RequestOK(c)

LEMMA GoesOnKeeps ==
    ASSUME AccessInv, AttemptInv, NEW t \in Tasks, GoesOn(t), UNCHANGED world
    PROVE  AttemptInv'
  <1>1. PICK label, c : /\ pc' = [pc EXCEPT ![t] = label]
                        /\ call' = [call EXCEPT ![t] = c]
                        /\ label = "waiting" => c.attempt = 1
                        /\ label = "request" => RequestOK(c)
    <2>1. CASE \E a : Return(t, a)
      <3>1. "idle" # "waiting" /\ "idle" # "request"
        OBVIOUS
      <3> QED BY Zenon, <2>1, <3>1 DEF Return
    <2> QED BY Zenon, <2>1 DEF GoesOn, Goto
  <1>2. ASSUME NEW u \in Tasks
        PROVE  /\ pc'[u] = IF u = t THEN label ELSE pc[u]
               /\ call'[u] = IF u = t THEN c ELSE call[u]
    BY <1>1 DEF AccessInv, ShapeInv
  <1>3. \A d : RequestOK(d) => RequestOK(d)'
    BY DEF RequestOK, world, Tried, StatusNow
  <1>4. changes' \in Nat
    BY DEF AttemptInv, world
  <1>5. ASSUME NEW u \in Tasks, pc'[u] = "waiting" PROVE call'[u].attempt = 1
    BY <1>1, <1>2, <1>5 DEF AttemptInv
  <1>6. ASSUME NEW u \in Tasks, pc'[u] = "request" PROVE RequestOK(call'[u])
    BY <1>1, <1>2, <1>6 DEF AttemptInv
  <1> QED BY <1>3, <1>4, <1>5, <1>6 DEF AttemptInv

\* A request starts with its first attempt, as things are then.
LEMMA FirstAttempt ==
    ASSUME AccessInv, AttemptInv, NEW c, c.attempt = 1, c.since = changes
    PROVE  RequestOK(c)
  <1>1. Len(Tried) \in Nat /\ Remembered(object.matching) \in 1..Len(Tried)
    BY AttemptsAreKnown
  <1> QED BY <1>1 DEF RequestOK, AttemptInv

LEMMA ReturnsGoesOn ==
    ASSUME NEW t, \/ \E c : Fails(t, c)
                  \/ \E a : Return(t, a)
                  \/ \E c, archive, known : UseArchive(t, c, archive, known)
                  \/ \E label, c : Goto(t, label, c) /\ label \notin {"waiting", "request"}
    PROVE  GoesOn(t)
  <1>1. CASE \E c : Fails(t, c)
    BY <1>1, FailsReturns, Zenon DEF GoesOn
  <1>2. CASE \E c, archive, known : UseArchive(t, c, archive, known)
    BY <1>2, UseReturns, Zenon DEF GoesOn
  <1>3. CASE \E label, c : Goto(t, label, c) /\ label \notin {"waiting", "request"}
    BY <1>3, Zenon DEF GoesOn
  <1> QED BY <1>1, <1>2, <1>3, Zenon DEF GoesOn

LEMMA StartGoesOn ==
    ASSUME AccessInv, AttemptInv, NEW t, NEW c, c.attempt = 1, c.since = changes,
           Goto(t, "request", c)
    PROVE  GoesOn(t)
  <1>1. RequestOK(c)
    BY FirstAttempt
  <1>2. "request" # "waiting"
    OBVIOUS
  <1> QED BY <1>1, <1>2, Zenon DEF GoesOn

LEMMA EnsureGoesOn ==
    ASSUME AccessInv, AttemptInv, NEW t, NEW c, IsCall(c), c.attempt = 1, EnsureDownloaded(t, c)
    PROVE  GoesOn(t)
  <1> DEFINE d == [c EXCEPT !.since = changes]
  <1>1. d.attempt = 1 /\ d.since = changes
    BY Zenon DEF IsCall
  <1>2. \/ \E archive, known : UseArchive(t, c, archive, known)
        \/ Goto(t, "request", d)
        \/ Fails(t, c) \/ Goto(t, "hash", c)
        \/ Goto(t, "waiting", c)
    BY Zenon DEF EnsureDownloaded, Measure, Clone
  <1> HIDE DEF d
  <1>3. CASE Goto(t, "waiting", c)
    <2>1. "request" # "waiting"
      OBVIOUS
    <2> QED BY <1>3, <2>1, Zenon DEF GoesOn
  <1>4. "hash" \notin {"waiting", "request"}
    OBVIOUS
  <1>5. CASE Goto(t, "request", d)
    BY <1>1, <1>5, StartGoesOn
  <1> QED BY <1>2, <1>3, <1>4, <1>5, ReturnsGoesOn, Zenon

LEMMA BeginGoesOn ==
    ASSUME AccessInv, AttemptInv, NEW t, NEW op, NEW path \in Paths, Begin(t, op, path)
    PROVE  GoesOn(t)
  <1> DEFINE c == [NoCall EXCEPT !.op = op, !.path = path]
             d == [c EXCEPT !.left = RemoteFiles(op), !.since = changes]
  <1>1. /\ IsCall(c) /\ c.attempt = 1
        /\ d.attempt = 1 /\ d.since = changes
    BY Zenon DEF IsCall, NoCall, Nothing
  <1>2. (\E a : Return(t, a)) \/ EnsureDownloaded(t, c) \/ Goto(t, "request", d)
    BY Zenon DEF Begin
  <1> HIDE DEF c, d
  <1> QED BY <1>1, <1>2, ReturnsGoesOn, EnsureGoesOn, StartGoesOn

\* The next attempt follows a refusal, which is remembered after the first option.
LEMMA NextAttemptGoesOn ==
    ASSUME AccessInv, AttemptInv, NEW t \in Tasks, NextAttempt(t)
    PROVE  GoesOn(t)
  <1> DEFINE c == call[t]
             R == Remembered(object.matching)
             d == [c EXCEPT !.attempt = @ + 1,
                            !.first = IF c.attempt = R THEN StatusOf(t) ELSE @]
  <1>1. pc[t] = "request" /\ ~LastAttempt(t) /\ Goto(t, "request", d)
    BY Zenon DEF NextAttempt
  <1>2. IsCall(c) /\ RequestOK(c)
    BY <1>1 DEF AccessInv, ShapeInv, AttemptInv
  <1>3. Refused(StatusOf(t)) /\ c.attempt # Len(Tried)
    BY <1>1 DEF LastAttempt, Tried
  <1>4. StatusOf(t) = StatusNow(c.attempt)
    BY Zenon DEF StatusOf, StatusNow, Tried
  <1>5. /\ d.attempt = c.attempt + 1 /\ d.since = c.since
        /\ d.first = IF c.attempt = R THEN StatusOf(t) ELSE c.first
    BY <1>2, Zenon DEF IsCall
  <1>6. Len(Tried) \in Nat /\ R \in 1..Len(Tried)
    BY AttemptsAreKnown
  <1> HIDE DEF c, d, R
  <1>7. d.since \in Nat /\ d.since <= changes /\ d.attempt \in 1..Len(Tried)
    BY <1>2, <1>3, <1>5, <1>6 DEF RequestOK
  <1>8. ASSUME d.since = changes
        PROVE  /\ \A j \in 1..(d.attempt - 1) : Refused(StatusNow(j))
               /\ d.attempt > R => d.first = StatusNow(R)
    <2>1. /\ c.attempt \in 1..Len(Tried)
          /\ \A j \in 1..(c.attempt - 1) : Refused(StatusNow(j))
          /\ c.attempt > R => c.first = StatusNow(R)
      BY <1>2, <1>5, <1>8 DEF RequestOK, R
    <2>2. \A j \in 1..(d.attempt - 1) : j = c.attempt \/ j \in 1..(c.attempt - 1)
      BY <1>5, <1>6, <2>1
    <2>3. d.attempt > R => c.attempt = R \/ c.attempt > R
      BY <1>5, <1>6, <2>1
    <2>4. c.attempt > R => c.attempt # R
      BY <1>6, <2>1
    <2> QED BY <1>3, <1>4, <1>5, <2>1, <2>2, <2>3, <2>4
  <1>9. RequestOK(d)
    BY <1>7, <1>8 DEF RequestOK, R
  <1>10. "request" # "waiting"
    OBVIOUS
  <1> QED BY <1>1, <1>9, <1>10, Zenon DEF GoesOn

LEMMA FetchGoesOn ==
    ASSUME AccessInv, AttemptInv, NEW t, FetchFile(t) \/ FetchBreaks(t)
    PROVE  GoesOn(t)
  <1> DEFINE c == call[t]
             d(seen) == [NoCall EXCEPT !.op = c.op, !.path = c.path,
                            !.left = c.left - 1, !.seen = seen, !.since = changes]
  <1>1. \A seen : d(seen).attempt = 1 /\ d(seen).since = changes
    BY Zenon DEF NoCall
  <1>2. (\E seen : Goto(t, "request", d(seen))) \/ \E a : Return(t, a)
    BY Zenon DEF FetchFile, FetchBreaks
  <1> HIDE DEF d
  <1> QED BY <1>1, <1>2, ReturnsGoesOn, StartGoesOn

\* A download that was answered, and a local archive, make no request.
LEMMA OthersGoOn ==
    ASSUME NEW t, Respond(t) \/ Receive(t) \/ Finish(t) \/ Break(t) \/ Hash(t) \/ Open(t)
    PROVE  GoesOn(t)
  <1>1. \/ \E c : Fails(t, c)
        \/ \E c, archive, known : UseArchive(t, c, archive, known)
        \/ \E c : Goto(t, "stream", c) \/ Goto(t, "open", c)
    BY Zenon DEF Respond, Receive, Finish, Break, Hash, Open, DownloadFails
  <1>2. "stream" \notin {"waiting", "request"} /\ "open" \notin {"waiting", "request"}
    OBVIOUS
  <1> QED BY <1>1, <1>2, ReturnsGoesOn, Zenon

LEMMA AttemptNext == AccessInv /\ AttemptInv /\ [Next]_vars => AttemptInv'
  <1> SUFFICES ASSUME AccessInv, AttemptInv, [Next]_vars PROVE AttemptInv'
    OBVIOUS
  <1>1. CASE UNCHANGED vars
    BY <1>1 DEF vars, AttemptInv, RequestOK, Tried, StatusNow
  <1>2. CASE Changes
    <2>1. changes' = changes + 1 /\ UNCHANGED <<object, pc, call>>
      BY <1>2 DEF Changes
    <2>2. \A c : RequestOK(c) => RequestOK(c)'
      BY <2>1 DEF AttemptInv, RequestOK, Tried
    <2> QED BY <2>1, <2>2 DEF AttemptInv
  <1>3. ASSUME NEW t \in Tasks, NEW op, NEW path \in Paths, Begin(t, op, path)
        PROVE  GoesOn(t) /\ UNCHANGED world
    BY <1>3, BeginGoesOn DEF Begin
  <1>4. ASSUME NEW t \in Tasks, Wake(t)
        PROVE  GoesOn(t) /\ UNCHANGED world
    <2>1. IsCall(call[t]) /\ call[t].attempt = 1 /\ EnsureDownloaded(t, call[t])
      BY <1>4 DEF Wake, AccessInv, ShapeInv, AttemptInv
    <2> QED BY <1>4, <2>1, EnsureGoesOn DEF Wake
  <1>5. ASSUME NEW t \in Tasks, Step(t) \/ Break(t) \/ FetchBreaks(t)
        PROVE  GoesOn(t) /\ UNCHANGED world
    <2>1. UNCHANGED world
      BY <1>5, <1>4, Zenon DEF Step, NextAttempt, Respond, Receive, Finish, Hash, Open,
         FetchFile, Break, FetchBreaks
    <2> QED BY <1>4, <1>5, <2>1, NextAttemptGoesOn, FetchGoesOn, OthersGoOn DEF Step
  <1>6. NoCall.path \in Paths
    BY ArchivesAssumption DEF NoCall
  <1> QED BY <1>1, <1>2, <1>3, <1>5, <1>6, GoesOnKeeps DEF Next

-----------------------------------------------------------------------------
(* Results *)

\* However many tasks want the archive of a project at once, and however often
\* a download of it fails, there is never more than one transfer of it
\* (ensure_downloaded_verified).
THEOREM TransfersAreExclusive == Spec => []OneTransfer
  <1>1. AccessInv => OneTransfer
    BY DEF AccessInv, TransferInv, OneTransfer, Shared, Transferring, Downloaded
  <1> QED BY <1>1, AccessInvariant, PTL

\* Whatever a server sends, announces or cuts short, and however it changes in
\* between, an archive that perform_download exposes is complete, and is the
\* expected one where a digest is known.
THEOREM ExposedArchivesAreVerified == Spec => []ExposedIsVerified
  <1>1. AccessInv => ExposedIsVerified
    BY DEF AccessInv, ContentInv, ExposedIsVerified, Shared, Downloaded
  <1> QED BY <1>1, AccessInvariant, PTL

\* No two answers on a downloaded archive or a checkout are from different
\* contents, in whatever order the calls, the changes and the failures come.
THEOREM AnswersNeverDisagree == Spec => []AnswersAgree
  <1>1. AccessInv => AnswersAgree
    <2> SUFFICES ASSUME AccessInv, Shared, NEW t \in Tasks, NEW u \in Tasks,
                        answer[t].content # {}, answer[u].content # {}
                 PROVE  answer[t].content = answer[u].content
      BY DEF AnswersAgree, Shared
    <2>1. answer[t].content \subseteq Known /\ answer[u].content \subseteq Known
      BY DEF AccessInv, ContentInv
    <2>2. \A x, y \in Known : x = y
      BY DEF Known
    <2> QED BY <2>1, <2>2
  <1> QED BY <1>1, AccessInvariant, PTL

\* Whatever credentials match and whatever the server makes of them, the
\* response that a request ends with is the one that the policy documents
\* (RestrictAuthentication over SequenceAuthentication), unless what is
\* requested changed while the credentials were tried.
THEOREM ResponsesAreAsDocumented == Spec => []ResponseAsDocumented
  <1>1. Init => AttemptInv
    BY DEF Init, AttemptInv
  <1>2. AccessInv /\ AttemptInv => ResponseAsDocumented
    BY LastIsResult DEF AttemptInv, ResponseAsDocumented
  <1> QED BY <1>1, <1>2, AttemptNext, AccessInvariant, PTL DEF Spec
=============================================================================
