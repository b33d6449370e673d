--------------------------- MODULE ProjectAccess ---------------------------
(***************************************************************************)
(* Access to one project of a lock or a configuration (AnyProject) by      *)
(* several tasks of one process: archives that are downloaded and verified *)
(* once (ReqwestRemoteKparDownloadedProject and its twin for the index),   *)
(* archives in the file system (LocalKParProject), git checkouts and       *)
(* projects read file by file over HTTP.  What is accessed may change, and *)
(* requests and writes may fail.                                           *)
(*                                                                         *)
(* The tasks share one thread.  A step goes from one wait to the next, and *)
(* in a local archive from one system call to the next that looks at it.   *)
(***************************************************************************)
EXTENDS Naturals, Sequences, FiniteSets, HttpAuth

CONSTANTS
    Tasks,       \* concurrent users of the project
    Archives,    \* contents the project may have: id, size, files, readable
    Paths,       \* source files that are asked for
    Credentials, \* configured credentials
    Objects,     \* the projects to look at: kind, expected, matching, server, users
    MaxChanges,  \* bound on changes of what is accessed
    MaxFaults    \* bound on failures

Http == {"remoteKpar", "indexKpar", "remoteSrc"}
Kinds == Http \cup {"localKpar", "git"}
Nothing == [id |-> "nothing", size |-> 0, files |-> {}, readable |-> FALSE]

ASSUME ObjectsAssumption ==
    \A o \in Objects :
        /\ o.kind \in Kinds /\ o.users \subseteq Tasks /\ o.expected \in Archives \cup {Nothing}
        /\ o.kind = "indexKpar" => o.expected # Nothing
        /\ o.kind = "git" => o.expected = Nothing
        /\ o.matching \in Seq(Credentials)
        /\ o.server \in [Credentials \cup {Anonymous} -> Statuses]

\* Contents with the same digest are the same.
ASSUME ArchivesAssumption ==
    /\ \A a, b \in Archives : a.id = b.id => a = b
    /\ Paths # {}

VARIABLES
    object,          \* the project looked at, one of Objects
    remote,          \* what is at its URL or path now
    changes, faults,
    cell,            \* the OnceCell: state, archive, bytes of it on disk, size measured
    extracted,       \* extracted[p]: the temporary file of source p
    pc, call, answer \* per task

world == <<object, remote, changes>>
vars == <<object, remote, changes, faults, cell, extracted, pc, call, answer>>

Ops == {"project", "read", "sources", "checksum", "invalid"}
Labels == {"idle", "waiting", "request", "stream", "hash", "open"}
NoCell == [state |-> "unset", archive |-> Nothing, len |-> 0, size |-> 0]

NoCall == [op |-> "project", path |-> CHOOSE p \in Paths : TRUE, attempt |-> 1,
           first |-> "ok", since |-> 0, body |-> Nothing, len |-> 0, header |-> "none",
           left |-> 0, seen |-> {}]
\* content: the archives the answer was read from; none, when what it was read
\* from is a file that was extracted in part.
NoAnswer == [kind |-> "none", op |-> "project", content |-> {}]

Init ==
    /\ object \in Objects
    /\ remote \in Archives \cup {Nothing}
    /\ changes = 0 /\ faults = 0
    /\ cell = NoCell
    /\ extracted = [p \in Paths |-> "none"]
    /\ pc = [t \in Tasks |-> "idle"]
    /\ call = [t \in Tasks |-> NoCall]
    /\ answer = [t \in Tasks |-> NoAnswer]

-----------------------------------------------------------------------------
(* Control of a task *)

Goto(t, label, c) ==
    /\ pc' = [pc EXCEPT ![t] = label]
    /\ call' = [call EXCEPT ![t] = c]
    /\ answer' = [answer EXCEPT ![t] = NoAnswer]

Return(t, result) ==
    /\ pc' = [pc EXCEPT ![t] = "idle"]
    /\ call' = [call EXCEPT ![t] = NoCall]
    /\ answer' = [answer EXCEPT ![t] = result]

\* An error; is_definitely_invalid swallows it and says that nothing is known.
Fails(t, c) ==
    IF c.op = "invalid" THEN Return(t, [NoAnswer EXCEPT !.kind = "unknown", !.op = c.op])
    ELSE Return(t, [NoAnswer EXCEPT !.kind = "error", !.op = c.op])

\* Faulty variant: a call looks at what the server has by now.
AnswerNow(c, contents) ==
    [NoAnswer EXCEPT !.kind = "ok", !.op = c.op,
        !.content = IF object.kind \in {"remoteKpar", "indexKpar"} THEN {remote.id} ELSE contents]

Answer(c, contents) ==
    [NoAnswer EXCEPT !.kind = "ok", !.op = c.op, !.content = contents]

Fault == faults < MaxFaults /\ faults' = faults + 1

-----------------------------------------------------------------------------
(* Reading an archive that is on disk *)

\* LocalKParProjectRaw::read_source.  The temporary file is created before the
\* archive is opened and its entry looked up; a file that is there is taken as
\* it is.
Extract(t, c, archive) ==
    LET found == archive.readable /\ c.path \in archive.files IN
    \/ /\ extracted[c.path] # "none"
       /\ Return(t, Answer(c, {extracted[c.path]} \ {"part"}))
       /\ UNCHANGED <<extracted, faults>>
    \/ /\ extracted[c.path] = "none" /\ found
       /\ extracted' = [extracted EXCEPT ![c.path] = archive.id]
       /\ Return(t, Answer(c, {archive.id}))
       /\ UNCHANGED faults
    \/ /\ extracted[c.path] = "none"
       /\ \/ ~found /\ UNCHANGED faults
          \/ found /\ Fault
       /\ extracted' = [extracted EXCEPT ![c.path] = "part"]
       /\ Fails(t, c)

\* A call on an archive, read from `archive', whose digest is that of `known'.
UseArchive(t, c, archive, known) ==
    \/ /\ c.op = "read" /\ object.kind # "git"
       /\ Extract(t, c, archive)
    \/ /\ c.op = "read" /\ object.kind = "git"
       /\ IF c.path \in archive.files THEN Return(t, Answer(c, {archive.id})) ELSE Fails(t, c)
       /\ UNCHANGED <<extracted, faults>>
    \/ /\ c.op = "project"
       /\ IF archive.readable THEN Return(t, Answer(c, {archive.id})) ELSE Fails(t, c)
       /\ UNCHANGED <<extracted, faults>>
    \/ /\ c.op \in {"sources", "checksum"}
       /\ Return(t, Answer(c, {known.id}))
       /\ UNCHANGED <<extracted, faults>>
    \/ /\ c.op = "invalid"
       /\ Return(t, [NoAnswer EXCEPT !.kind = "unknown", !.op = c.op])
       /\ UNCHANGED <<extracted, faults>>

-----------------------------------------------------------------------------
(* Requests with authentication *)

\* How many files a call on a project that is read over HTTP asks for: for the
\* checksum also the sources whose own checksum is of another kind.
RemoteFiles(op) ==
    CASE op \in {"project", "invalid"} -> 2
      [] op = "read" -> 1
      [] op \in {"sources", "checksum"} -> 3

\* Which calls answer from what is known before any access.
KnownBefore(op) ==
    \/ op = "sources" /\ object.kind \in Http /\ object.expected # Nothing
    \/ op = "sources" /\ object.kind = "git"
    \/ op = "invalid" /\ object.kind \in {"localKpar", "git"}

\* The status of this attempt: what is not there is a 404.
StatusOf(t) ==
    LET s == object.server[Attempts(object.matching)[call[t].attempt]] IN
    IF s = "ok" /\ remote = Nothing THEN "missing" ELSE s

\* Whether the response to this attempt is the last, and the one to use.
LastAttempt(t) ==
    \/ ~Refused(StatusOf(t))
    \/ call[t].attempt = Len(Attempts(object.matching))
Outcome(t) ==
    IF ~Refused(StatusOf(t)) \/ call[t].attempt <= Remembered(object.matching)
    THEN StatusOf(t) ELSE call[t].first

NextAttempt(t) ==
    /\ pc[t] = "request" /\ ~LastAttempt(t)
    /\ Goto(t, "request", [call[t] EXCEPT !.attempt = @ + 1,
            !.first = IF call[t].attempt = Remembered(object.matching) THEN StatusOf(t) ELSE @])
    /\ UNCHANGED <<world, faults, cell, extracted>>

-----------------------------------------------------------------------------
(* Downloads: perform_download, inside the cell *)

\* The cell is given up; the next task that needs it tries again.
DownloadFails(t) ==
    /\ cell' = NoCell
    /\ Fails(t, call[t])

\* The first response that counts.  A length that is announced is compared
\* with the expected one.
Respond(t) ==
    LET status == Outcome(t) IN
    /\ pc[t] = "request" /\ LastAttempt(t) /\ object.kind # "remoteSrc"
    /\ \/ /\ status # "ok"
          /\ DownloadFails(t)
       \/ /\ status = "ok"
          /\ \E header \in {"none", "length"} :
                IF /\ header = "length" /\ object.expected # Nothing
                   /\ remote.size # object.expected.size
                THEN DownloadFails(t)
                ELSE /\ Goto(t, "stream", [call[t] EXCEPT !.body = remote, !.header = header])
                     /\ UNCHANGED cell
    /\ UNCHANGED <<world, faults, extracted>>

\* A chunk arrives; one too many ends the download before it is written.
Receive(t) ==
    LET c == call[t] IN
    /\ pc[t] = "stream" /\ c.len < c.body.size
    /\ \/ /\ object.expected # Nothing /\ c.len + 1 > object.expected.size
          /\ DownloadFails(t)
       \/ /\ object.expected = Nothing \/ c.len + 1 <= object.expected.size
          /\ Goto(t, "stream", [c EXCEPT !.len = @ + 1])
          /\ UNCHANGED cell
    /\ UNCHANGED <<world, faults, extracted>>

\* Faulty variant: the size is compared, the digest is not.
AcceptsBySize(c) ==
    c.len > 0 /\ (object.expected = Nothing \/ c.len = object.expected.size)

\* Size and digest of what was written, when they are known beforehand.
Accepts(c) ==
    /\ c.len > 0
    /\ object.expected # Nothing =>
          c.len = object.expected.size /\ c.len = c.body.size /\ c.body.id = object.expected.id

\* The stream has ended, or without an announced length was cut short.  The
\* root of the project is looked up in the archive, which has to be readable;
\* then the task goes on with what it wanted.
Finish(t) ==
    LET c == call[t]
        good == Accepts(c) /\ c.len = c.body.size /\ c.body.readable
    IN
    /\ pc[t] = "stream"
    /\ \/ /\ c.len = c.body.size /\ good
          /\ cell' = [state |-> "set", archive |-> c.body, len |-> c.len, size |-> c.len]
          /\ UseArchive(t, c, c.body, c.body)
       \/ /\ c.len = c.body.size /\ ~good
          /\ DownloadFails(t)
          /\ UNCHANGED <<extracted, faults>>
       \/ /\ c.len < c.body.size /\ c.header = "none" /\ ~good
          /\ Fault /\ DownloadFails(t)
          /\ UNCHANGED extracted
    /\ UNCHANGED world

\* A request or the stream breaks, or the file cannot be written.
Break(t) ==
    /\ pc[t] \in {"request", "stream"} /\ object.kind # "remoteSrc"
    /\ Fault /\ DownloadFails(t)
    /\ UNCHANGED <<world, extracted>>

-----------------------------------------------------------------------------
(* Archives in the file system, and git *)

\* ensure_initialized, first part: the size, from the file's metadata.
Measure(t, c) ==
    IF remote.size = 0 THEN Fails(t, c) /\ UNCHANGED cell
    ELSE /\ cell' = [NoCell EXCEPT !.state = "initializing", !.size = remote.size]
         /\ Goto(t, "hash", c)

\* Second part: the digest and the root, from the file as it is by now, and
\* both compared with what is expected.
Hash(t) ==
    LET good == /\ remote.readable
                /\ object.expected # Nothing =>
                      cell.size = object.expected.size /\ remote.id = object.expected.id
    IN
    /\ pc[t] = "hash"
    /\ \/ /\ good
          /\ cell' = [cell EXCEPT !.state = "set", !.archive = remote, !.len = remote.size]
          /\ Goto(t, "open", call[t])
       \/ ~good /\ DownloadFails(t)
    /\ UNCHANGED <<world, faults, extracted>>

\* The file is opened again for the call, and for every later one.
Open(t) ==
    /\ pc[t] = "open"
    /\ UseArchive(t, call[t], remote, cell.archive)
    /\ UNCHANGED <<world, cell>>

\* GixDownloadedProject::ensure_downloaded: clone, fetch and check out, in one
\* go; gix removes what it made when it fails.
Clone(t, c) ==
    \/ /\ remote # Nothing
       /\ cell' = [state |-> "set", archive |-> remote, len |-> remote.size,
                   size |-> remote.size]
       /\ UseArchive(t, c, remote, remote)
    \/ /\ \/ remote = Nothing /\ UNCHANGED faults
          \/ remote # Nothing /\ Fault
       /\ Fails(t, c)
       /\ UNCHANGED <<cell, extracted>>

-----------------------------------------------------------------------------
(* Calls *)

\* Faulty variant: who finds no archive starts a download, also when one is on
\* its way.
EnsureDownloadedAlone(t, c) ==
    \/ /\ cell.state = "set"
       /\ UseArchive(t, c, cell.archive, cell.archive)
       /\ UNCHANGED cell
    \/ /\ cell.state # "set" /\ object.kind \in {"remoteKpar", "indexKpar"}
       /\ cell' = [cell EXCEPT !.state = "initializing"]
       /\ Goto(t, "request", [c EXCEPT !.since = changes])
       /\ UNCHANGED <<extracted, faults>>

\* ensure_downloaded_verified (get_or_try_init) and its synchronous relatives.
EnsureDownloaded(t, c) ==
    \/ /\ cell.state = "set"
       /\ UseArchive(t, c, IF object.kind = "localKpar" THEN remote ELSE cell.archive,
                     cell.archive)
       /\ UNCHANGED cell
    \/ /\ cell.state = "unset" /\ object.kind \in {"remoteKpar", "indexKpar"}
       /\ cell' = [cell EXCEPT !.state = "initializing"]
       /\ Goto(t, "request", [c EXCEPT !.since = changes])
       /\ UNCHANGED <<extracted, faults>>
    \/ /\ cell.state = "unset" /\ object.kind = "localKpar"
       /\ Measure(t, c)
       /\ UNCHANGED <<extracted, faults>>
    \/ /\ cell.state = "unset" /\ object.kind = "git"
       /\ Clone(t, c)
    \/ /\ cell.state = "initializing" /\ pc[t] = "idle" /\ object.kind \in Http
       /\ Goto(t, "waiting", c)
       /\ UNCHANGED <<cell, extracted, faults>>

\* The steps on a local archive follow each other without a wait: no other task
\* runs in between.
Begin(t, op, path) ==
    LET c == [NoCall EXCEPT !.op = op, !.path = path] IN
    /\ pc[t] = "idle" /\ t \in object.users /\ \A u \in Tasks : pc[u] \notin {"hash", "open"}
    /\ \/ /\ KnownBefore(op)
          /\ Return(t, [Answer(c, {object.expected.id} \ {Nothing.id}) EXCEPT
                            !.kind = IF op = "invalid" THEN "unknown" ELSE "ok"])
          /\ UNCHANGED <<cell, extracted, faults>>
       \/ ~KnownBefore(op) /\ object.kind # "remoteSrc" /\ EnsureDownloaded(t, c)
       \/ /\ ~KnownBefore(op) /\ object.kind = "remoteSrc"
          /\ Goto(t, "request", [c EXCEPT !.left = RemoteFiles(op), !.since = changes])
          /\ UNCHANGED <<cell, extracted, faults>>
    /\ UNCHANGED world

\* Faulty variant: the error of the initialiser is the error of all who wait.
WakeSharesError(t) ==
    /\ pc[t] = "waiting" /\ cell.state # "initializing"
    /\ \/ cell.state = "set" /\ UseArchive(t, call[t], cell.archive, cell.archive)
       \/ cell.state = "unset" /\ Fails(t, call[t]) /\ UNCHANGED <<extracted, faults>>
    /\ UNCHANGED <<world, cell>>

Wake(t) ==
    /\ pc[t] = "waiting"
    /\ EnsureDownloaded(t, call[t])
    /\ UNCHANGED world

\* ReqwestSrcProjectAsync: each file is a request of its own, .project.json and
\* .meta.json first.  One of these that cannot be had counts as absent, and that
\* cannot be parsed is an error; a source that cannot be had is an error.
FetchFile(t) ==
    LET c == call[t]
        parsed == \/ c.op = "project"
                  \/ c.op \in {"sources", "checksum"} /\ c.left > 1
        file == CASE Outcome(t) # "ok" -> "absent"
                  [] Outcome(t) = "ok" /\ parsed /\ ~remote.readable -> "malformed"
                  [] OTHER -> remote.id
        seen == c.seen \cup {file}
        useless == seen \cap {"absent", "malformed"} # {}
        last == \/ c.left = 1
                \/ c.op # "project" /\ file = "malformed"
                \/ c.op \in {"sources", "checksum"} /\ c.left = 2 /\ file = "absent"
    IN
    /\ pc[t] = "request" /\ object.kind = "remoteSrc" /\ LastAttempt(t)
    /\ \/ /\ ~last
          /\ Goto(t, "request", [NoCall EXCEPT !.op = c.op, !.path = c.path,
                                    !.left = c.left - 1, !.seen = seen, !.since = changes])
       \/ /\ last /\ ~useless
          /\ Return(t, [Answer(c, seen) EXCEPT
                            !.kind = IF c.op = "invalid" THEN "unknown" ELSE "ok"])
       \/ /\ last /\ useless
          /\ Return(t, [NoAnswer EXCEPT !.op = c.op,
                !.kind = CASE c.op = "invalid" -> "invalid"
                           [] c.op = "project" /\ "malformed" \notin seen -> "absent"
                           [] OTHER -> "error"])
    /\ UNCHANGED <<world, faults, cell, extracted>>

FetchBreaks(t) ==
    /\ pc[t] = "request" /\ object.kind = "remoteSrc"
    /\ Fault
    /\ Return(t, [NoAnswer EXCEPT !.op = call[t].op,
                     !.kind = IF call[t].op = "invalid" THEN "invalid" ELSE "error"])
    /\ UNCHANGED <<world, cell, extracted>>

Changes ==
    /\ changes < MaxChanges /\ changes' = changes + 1
    /\ remote' \in (Archives \cup {Nothing}) \ {remote}
    /\ UNCHANGED <<object, faults, cell, extracted, pc, call, answer>>

Step(t) ==
    \/ Wake(t) \/ NextAttempt(t) \/ Respond(t) \/ Receive(t) \/ Finish(t) \/ Hash(t)
    \/ Open(t) \/ FetchFile(t)

Next ==
    \/ Changes
    \/ \E t \in Tasks :
          \/ \E op \in Ops \ {"read"} : Begin(t, op, NoCall.path)
          \/ \E path \in Paths : Begin(t, "read", path)
          \/ Step(t) \/ Break(t) \/ FetchBreaks(t)

\* Requests are answered or break, tasks that are woken run, and the cell
\* serves those who wait for it in turn.
Spec ==
    /\ Init /\ [][Next]_vars
    /\ \A t \in Tasks : WF_vars(Step(t)) /\ SF_vars(Wake(t))

-----------------------------------------------------------------------------
(* Properties *)

Downloaded == object.kind \in {"remoteKpar", "indexKpar"}

\* What is exposed has been downloaded to the end, and is what was expected
\* where something is: whatever the server sends, announces or cuts short.
ExposedIsVerified ==
    Downloaded /\ cell.state = "set" =>
        /\ cell.len = cell.archive.size
        /\ object.expected # Nothing => cell.archive = object.expected

\* All calls on a downloaded project or a checkout speak of one archive: what
\* is read, what the checksum is of and what the lock will record as source,
\* although the server may replace the file at any time.
AnswersAgree ==
    object.kind \in {"remoteKpar", "indexKpar", "git"} =>
        \A t, u \in Tasks :
            answer[t].kind = "ok" /\ answer[u].kind = "ok"
                /\ answer[t].content # {} /\ answer[u].content # {}
            => answer[t].content = answer[u].content

\* Concurrent calls share one transfer.
OneTransfer ==
    Downloaded =>
        \A t, u \in Tasks :
            pc[t] \in {"request", "stream"} /\ pc[u] \in {"request", "stream"} => t = u

\* The response that is used is the one the policy documents: the first that
\* is not 4xx, and if there is none that of the first option; also where the
\* server says 404 to whom it does not know, and what is asked for is there for
\* one of the credentials (SequenceAuthentication).
ResponseAsDocumented ==
    \A t \in Tasks :
        LET server == [c \in DOMAIN object.server |->
                IF object.server[c] = "ok" /\ remote = Nothing THEN "missing"
                ELSE object.server[c]]
        IN  pc[t] = "request" /\ LastAttempt(t) /\ call[t].since = changes
            => Outcome(t) = Result(object.matching, server)

\* Errors are not kept: once nothing fails and nothing changes any more, and
\* the server has what is expected, reading the project succeeds.
Settled ==
    /\ faults = MaxFaults /\ changes = MaxChanges
    /\ remote.readable /\ object.expected \in {Nothing, remote}
    /\ object.kind \in Http => Result(object.matching, object.server) = "ok"
RetrySucceeds ==
    \A t \in Tasks :
        (Settled /\ pc[t] # "idle" /\ pc[t] \notin {"request", "stream"}
            /\ call[t].op = "project") ~> (answer[t].kind = "ok")
=============================================================================
