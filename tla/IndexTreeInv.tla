---------------------------- MODULE IndexTreeInv ----------------------------
(***************************************************************************)
(* The inductive invariants behind the theorems of IndexTreeProofs.        *)
(***************************************************************************)
EXTENDS IndexTree

\* The files have their types, and every versions.json is sorted.
DiskInv ==
    /\ index \in [kind: FileKind, val: IndexJson]
    /\ versions \in [Projects -> [kind: FileKind, val: VersionsJson]]
    /\ dirs \subseteq Projects \X Versions
    /\ files \in [Projects \X Versions \X FileNames -> FileContents]
    /\ \A p \in Projects : StrictlyDescending(versions[p].val)

\* So have the processes, and so is the list each one is about to write.
ControlInv ==
    /\ pc \in [Procs -> Labels]
    /\ job \in [Procs -> Jobs]
    /\ outcome \in [Procs -> Outcomes]
    /\ \A self \in Procs : StrictlyDescending(job[self].vers)

\* Holds for any number of processes, with failures.
BaseInv == DiskInv /\ ControlInv

Live(e) == e.status # "removed"

Present(p, e) ==
    /\ <<p, e.version>> \in dirs
    /\ \A f \in FileNames : files[<<p, e.version, f>>] = e.build

NoLive(s) == \A i \in DOMAIN s : ~Live(s[i])

Removing(j) == j.op \in {"removeVersion", "removeProject"}

\* Commands run one at a time.
Exclusive == \A a, b \in Procs : pc[a] # "idle" /\ pc[b] # "idle" => a = b

\* Which command is at which step.
StepsOfCommand(self) ==
    /\ pc[self] \in {"mkdir"} \cup FileNames => job[self].op = "add"
    /\ pc[self] \in {"scan", "rmdir"} => Removing(job[self])
    /\ pc[self] = "truncIndex" => job[self].op \in {"add", "removeProject"}
    /\ pc[self] \in {"truncVersions", "writeVersions"} => job[self].op # "init"
    /\ pc[self] \in {"openIndex", "openVersions"} => job[self].next = 1

\* The list a command is about to write describes files that are there, but
\* for the version an `add' has not finished copying.
WritableList(self) ==
    LET j == job[self] IN
    \A i \in DOMAIN j.vers : Live(j.vers[i]) =>
        IF pc[self] \in {"mkdir"} \cup FileNames /\ j.vers[i].version = j.ver
        THEN j.vers[i].build = j.build
        ELSE Present(j.prj, j.vers[i])

\* How far an `add' has come with the files of its version, which no entry on
\* disk describes as long as it is at it.
AddProgress(self) ==
    LET j == job[self] IN
    pc[self] \in FileNames =>
        /\ <<j.prj, j.ver>> \in dirs
        /\ pc[self] \in {"info", "meta"} => files[<<j.prj, j.ver, "kpar">>] = j.build
        /\ pc[self] = "meta" => files[<<j.prj, j.ver, "info">>] = j.build
        /\ \A i \in DOMAIN versions[j.prj].val :
              versions[j.prj].val[i].version = j.ver => ~Live(versions[j.prj].val[i])

\* A command that retires versions has marked the one whose files it deletes,
\* in its own list and, when it deletes them, on disk; entries it has passed
\* are removed, and every live entry on disk is one it still knows of.
RemoveProgress(self) ==
    LET j == job[self] IN
    /\ pc[self] \in {"truncVersions", "writeVersions", "rmdir"} /\ Removing(j) =>
          \A i \in DOMAIN j.vers : j.vers[i].version = j.ver => ~Live(j.vers[i])
    /\ pc[self] = "rmdir" =>
          \A i \in DOMAIN versions[j.prj].val :
              versions[j.prj].val[i].version = j.ver => ~Live(versions[j.prj].val[i])
    /\ j.op = "removeProject" =>
          \A i \in DOMAIN j.vers : i < j.next => ~Live(j.vers[i])
    /\ pc[self] \in {"scan", "rmdir"} =>
          \A i \in DOMAIN versions[j.prj].val : Live(versions[j.prj].val[i]) =>
              \E k \in DOMAIN j.vers : j.vers[k] = versions[j.prj].val[i]

\* index.json as a command will write it, and as it is, marks no project
\* removed that has a live version or is about to get one.
IndexProgress(self) ==
    LET j == job[self] IN
    /\ \A q \in Projects : j.idx[q] = "removed" =>
          \/ NoLive(versions[q].val)
          \/ q = j.prj /\ Removing(j) /\ pc[self] \notin {"idle", "truncIndex", "writeIndex"}
    /\ pc[self] \notin {"idle", "openIndex"} /\ j.op = "add" =>
          j.idx[j.prj] # "removed" /\ index.val[j.prj] # "removed"
    /\ pc[self] \in {"truncVersions", "writeVersions"} /\ j.op = "yank" =>
          index.val[j.prj] # "removed"
    /\ pc[self] # "idle" /\ Removing(j) /\ index.val[j.prj] = "removed" => NoLive(j.vers)
    /\ pc[self] = "idle" => j = NoJob

Progress(self) ==
    /\ StepsOfCommand(self)
    /\ WritableList(self)
    /\ AddProgress(self)
    /\ RemoveProgress(self)
    /\ IndexProgress(self)

SerialInv ==
    /\ Exclusive
    /\ VersionFilesPresent
    /\ RemovedProjectHasNoLiveVersion
    /\ \A self \in Procs : Progress(self)

\* What an `add' has in hand to write, and what it has written: the entry of
\* the new version, and index.json with the project, unless it had it already.
NewEntry(j) == [version |-> j.ver, status |-> "available", build |-> j.build]

Publishing(self) ==
    LET j == job[self] IN
    /\ j.op = "add" /\ pc[self] \notin {"idle", "openIndex"} =>
          /\ j.idx[j.prj] = "available"
          /\ j.isNew \/ index.val[j.prj] = "available"
    /\ j.op = "add" /\ pc[self] \in {"mkdir", "truncVersions", "writeVersions"} \cup FileNames =>
          \E i \in DOMAIN j.vers : j.vers[i] = NewEntry(j)
    /\ j.op = "add" /\ pc[self] \in {"truncIndex", "writeIndex"} =>
          /\ j.isNew
          /\ \E i \in DOMAIN versions[j.prj].val : versions[j.prj].val[i] = NewEntry(j)
    /\ pc[self] = "writeVersions" => versions[j.prj].kind = "empty"
    /\ pc[self] = "writeIndex" => index.kind = "empty"

PublishInv == \A self \in Procs : Publishing(self)

\* A JSON file without a value stands for the default one, and a directory
\* that does not exist holds no files.
PlainDisk ==
    /\ index.kind # "json" => index.val = NoProjects
    /\ \A p \in Projects : versions[p].kind # "json" => versions[p].val = <<>>
    /\ \A p \in Projects, v \in Versions : <<p, v>> \notin dirs =>
          \A f \in FileNames : files[<<p, v, f>>] = "none"

Holds(s, e) == \E i \in DOMAIN s : s[i] = e

\* As long as no step fails: what a command at step `label' with variables j
\* has in hand, compared with the list s, index.json and the files on disk.
InHand(label, j, s, idx, fs) ==
    /\ label \in FileNames => fs[<<j.prj, j.ver, "meta">>] = "none"
    /\ label = "kpar" => fs[<<j.prj, j.ver, "info">>] = "none"
    /\ j.op = "add" /\ label \in {"mkdir", "truncVersions"} \cup FileNames =>
          /\ ~Listed(s, j.ver)
          /\ \A i \in DOMAIN s : Holds(j.vers, s[i])
          /\ \A k \in DOMAIN j.vers : j.vers[k] = NewEntry(j) \/ Holds(s, j.vers[k])
    /\ label = "truncVersions" /\ j.op # "add" =>
          \E i \in DOMAIN s :
             /\ s[i].version = j.ver
             /\ \/ /\ j.op = "yank" /\ s[i].status = "available"
                   /\ j.vers = SetStatus(s, i, "yanked")
                \/ /\ Removing(j) /\ s[i].status # "removed"
                   /\ j.vers = SetStatus(s, i, "removed")
    /\ Removing(j) /\ label = "writeVersions" => Listed(j.vers, j.ver)
    /\ label \in {"scan", "rmdir"} => j.vers = s
    /\ label = "rmdir" => Listed(s, j.ver)
    /\ label \notin {"idle", "openIndex", "writeIndex"} =>
          /\ j.op = "add" =>
                /\ j.idx = [idx EXCEPT ![j.prj] = "available"]
                /\ j.isNew = (idx[j.prj] = "unlisted")
          /\ Removing(j) =>
                /\ j.idx = [idx EXCEPT ![j.prj] = "removed"]
                /\ idx[j.prj] # "unlisted"

FromDisk(self) ==
    InHand(pc[self], job[self], versions[job[self].prj].val, index.val, files)

CleanInv == PlainDisk /\ \A self \in Procs : FromDisk(self)

\* self is at the files of version v of project p.
Copying(self, p, v) ==
    pc[self] \in FileNames /\ job[self].prj = p /\ job[self].ver = v

\* A command that removes is the only one that runs.
RemovalsAlone ==
    /\ \A a, b \in Procs :
          Removing(job[a]) /\ pc[a] # "idle" /\ pc[b] # "idle" => a = b
    /\ \A a \in Procs : pc[a] \in {"scan", "rmdir"} => Removing(job[a])

\* At most one `add' is at the files of a directory, which holds nothing but
\* what that one has copied; one that does not exist holds nothing, and any
\* other has files of one archive.
OneCopier(p, v) ==
    /\ \A a, b \in Procs : Copying(a, p, v) /\ Copying(b, p, v) => a = b
    /\ \A a \in Procs : Copying(a, p, v) =>
          /\ <<p, v>> \in dirs
          /\ \A f \in FileNames : files[<<p, v, f>>] \in {"none", job[a].build}
    /\ <<p, v>> \notin dirs => \A f \in FileNames : files[<<p, v, f>>] = "none"
    /\ \A f, g \in FileNames :
          files[<<p, v, f>>] \in Builds /\ files[<<p, v, g>>] \in Builds =>
             files[<<p, v, f>>] = files[<<p, v, g>>]

SharedInv ==
    /\ RemovalsAlone
    /\ \A p \in Projects, v \in Versions : OneCopier(p, v)

=============================================================================
