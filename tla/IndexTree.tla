----------------------------- MODULE IndexTree -----------------------------
(***************************************************************************)
(* The static index tree that `sysand index init | add | yank | remove`    *)
(* maintains on disk, one action per file-system step of a command.        *)
(*                                                                         *)
(* On disk: index.json, one versions.json per project, and one directory   *)
(* per version holding project.kpar, .project.json and .meta.json.         *)
(* A command is a sequential program run by a process.  Nothing locks the  *)
(* tree, an I/O error or a kill may end a command between any two steps,   *)
(* and a JSON file is overwritten in place: truncated first, then written. *)
(***************************************************************************)
EXTENDS Naturals, Sequences

CONSTANTS
    Projects,   \* project IRIs; each maps to a directory of its own
    Versions,   \* semantic versions, ordered by precedence as numbers
    Builds,     \* the distinct archives that may be offered for a version
    Procs       \* processes that may run a command

ASSUME ProjectsAssumption == Projects # {}
ASSUME VersionsAssumption == Versions # {} /\ Versions \subseteq Nat
ASSUME BuildsAssumption == Builds # {} /\ {"none", "partial"} \cap Builds = {}

VARIABLES
    index,      \* contents of index.json
    versions,   \* versions[p]: contents of the versions.json of project p
    dirs,       \* the version directories <<p, v>> that exist
    files,      \* files[<<p, v, f>>]: contents of file f of a version directory
    pc,         \* pc[self]: the next step of the command run by self
    job,        \* job[self]: the local variables of that command
    outcome     \* outcome[self]: how the last command of self ended

disk == <<index, versions, dirs, files>>
vars == <<index, versions, dirs, files, pc, job, outcome>>

ProjectStatus == {"available", "removed"}
VersionStatus == {"available", "yanked", "removed"}

\* A versions.json entry; build stands for usage, kpar_size and kpar_digest.
VersionEntry == [version: Versions, status: VersionStatus, build: Builds]
VersionsJson == Seq(VersionEntry)
IndexJson == [Projects -> ProjectStatus \cup {"unlisted"}]

NoProjects == [p \in Projects |-> "unlisted"]

\* What a file holds: nothing at all, no bytes, bytes that do not parse, or
\* the JSON form of a value.  A file of no bytes reads as the default value.
FileKind == {"absent", "empty", "garbled", "json"}
Json(val) == [kind |-> "json", val |-> val]
Blank(kind, default) == [kind |-> kind, val |-> default]

FileNames == {"kpar", "info", "meta"}
FileContents == {"none", "partial"} \cup Builds

Commands == {"init", "add", "yank", "removeVersion", "removeProject"}
Labels == {"idle", "openIndex", "openVersions", "mkdir", "kpar", "info", "meta",
           "truncVersions", "writeVersions", "truncIndex", "writeIndex",
           "scan", "rmdir"}
Outcomes == {"none", "ok", "error", "noFilesChanged", "cleanupFailed"}

Jobs == [op: Commands, prj: Projects, ver: Versions, build: Builds,
         idx: IndexJson,        \* index.json as this command will write it
         isNew: BOOLEAN,        \* is_project_new
         vers: VersionsJson,    \* versions.json as this command will write it
         next: Nat \ {0}]       \* next entry remove_versions looks at

NoJob == [op |-> "init", prj |-> CHOOSE p \in Projects : TRUE,
          ver |-> CHOOSE v \in Versions : TRUE, build |-> CHOOSE b \in Builds : TRUE,
          idx |-> NoProjects, isNew |-> FALSE, vers |-> <<>>, next |-> 1]

\* No project has been added yet, and no command runs.
NothingAdded ==
    /\ versions = [p \in Projects |-> Blank("absent", <<>>)]
    /\ dirs = {}
    /\ files = [d \in Projects \X Versions \X FileNames |-> "none"]
    /\ pc = [self \in Procs |-> "idle"]
    /\ job = [self \in Procs |-> NoJob]
    /\ outcome = [self \in Procs |-> "none"]

Init == index = Blank("absent", NoProjects) /\ NothingAdded

-----------------------------------------------------------------------------
(* Control of a command *)

Goto(self, label) == pc' = [pc EXCEPT ![self] = label]

\* The command returns: its local variables and file handles are dropped.
Return(self, result) ==
    /\ Goto(self, "idle")
    /\ job' = [job EXCEPT ![self] = NoJob]
    /\ outcome' = [outcome EXCEPT ![self] = result]

\* The command goes on with the step `label' and local variables `locals'.
Continue(self, label, locals) ==
    /\ Goto(self, label)
    /\ job' = [job EXCEPT ![self] = locals]
    /\ UNCHANGED outcome

Begin(self, locals) ==
    /\ pc[self] = "idle"
    /\ Continue(self, "openIndex", locals)
    /\ UNCHANGED disk

-----------------------------------------------------------------------------
(* versions.json as a list: sort, duplicate check, search, insertion *)

Listed(s, v) == \E i \in DOMAIN s : s[i].version = v

StrictlyDescending(s) ==
    \A i, j \in DOMAIN s : i < j => s[i].version > s[j].version

Descending(s) == \A i, j \in DOMAIN s : i < j => s[i].version >= s[j].version

\* versions.sort_by_key(Reverse(semver)): a descending rearrangement of s.
SortedDescending(s) ==
    CHOOSE t \in {[i \in DOMAIN s |-> s[f[i]]] :
                    f \in {g \in [DOMAIN s -> DOMAIN s] :
                             \A i, j \in DOMAIN s : g[i] = g[j] => i = j}} :
        Descending(t)

HasDuplicate(s) ==
    \E i \in DOMAIN s : i + 1 \in DOMAIN s /\ s[i].version = s[i + 1].version

\* The Err(ind) of binary_search_by_key, for a version that is not listed.
InsertPosition(s, v) ==
    CHOOSE k \in 1..(Len(s) + 1) :
        /\ \A i \in 1..(k - 1) : s[i].version > v
        /\ \A i \in k..Len(s) : s[i].version < v

InsertAt(s, k, e) ==
    [i \in 1..(Len(s) + 1) |-> IF i < k THEN s[i] ELSE IF i = k THEN e ELSE s[i - 1]]

SetStatus(s, i, status) == [s EXCEPT ![i] = [@ EXCEPT !.status = status]]

-----------------------------------------------------------------------------
(* sysand index init *)

BeginInit(self) ==
    /\ pc[self] = "idle"
    /\ UNCHANGED <<versions, dirs, files>>
    /\ \/ /\ index.kind # "absent"         \* create_new: AlreadyExists
          /\ Return(self, "error")
          /\ UNCHANGED index
       \/ /\ index.kind = "absent"
          /\ index' = Blank("empty", NoProjects)
          /\ Continue(self, "writeIndex", NoJob)

-----------------------------------------------------------------------------
(* The opening steps of the other commands *)

IndexUnreadable == index.kind \in {"absent", "garbled"}

BeginAdd(self, p, v, b) ==
    Begin(self, [NoJob EXCEPT !.op = "add", !.prj = p, !.ver = v, !.build = b])

BeginYank(self, p, v) ==
    Begin(self, [NoJob EXCEPT !.op = "yank", !.prj = p, !.ver = v])

BeginRemoveVersion(self, p, v) ==
    Begin(self, [NoJob EXCEPT !.op = "removeVersion", !.prj = p, !.ver = v])

BeginRemoveProject(self, p) ==
    Begin(self, [NoJob EXCEPT !.op = "removeProject", !.prj = p])

\* Faulty variant: a version may be added to a removed project.
AddOpenIndexOfRemoved(self) ==
    LET j == job[self] IN
    /\ pc[self] = "openIndex" /\ j.op = "add"
    /\ UNCHANGED disk
    /\ \/ IndexUnreadable /\ Return(self, "error")
       \/ /\ ~IndexUnreadable
          /\ Continue(self, "openVersions",
                [j EXCEPT !.idx = [index.val EXCEPT ![j.prj] =
                                      IF @ = "unlisted" THEN "available" ELSE @],
                          !.isNew = (index.val[j.prj] = "unlisted")])

\* Reads index.json; the entry of the project, if there is none, is pushed to
\* the value in memory only.
AddOpenIndex(self) ==
    LET j == job[self] IN
    /\ pc[self] = "openIndex" /\ j.op = "add"
    /\ UNCHANGED disk
    /\ \/ /\ IndexUnreadable \/ index.val[j.prj] = "removed"
          /\ Return(self, "error")
       \/ /\ ~IndexUnreadable /\ index.val[j.prj] # "removed"
          /\ Continue(self, "openVersions",
                [j EXCEPT !.idx = [index.val EXCEPT ![j.prj] = "available"],
                          !.isNew = (index.val[j.prj] = "unlisted")])

YankOpenIndex(self) ==
    LET j == job[self] IN
    /\ pc[self] = "openIndex" /\ j.op = "yank"
    /\ UNCHANGED disk
    /\ \/ /\ IndexUnreadable \/ index.val[j.prj] = "unlisted"
          /\ Return(self, "error")
       \/ /\ ~IndexUnreadable /\ index.val[j.prj] # "unlisted"
          /\ Continue(self, "openVersions", j)

\* The project is marked removed in memory, whatever the target.
RemoveOpenIndex(self) ==
    LET j == job[self] IN
    /\ pc[self] = "openIndex" /\ j.op \in {"removeVersion", "removeProject"}
    /\ UNCHANGED disk
    /\ \/ /\ IndexUnreadable \/ index.val[j.prj] = "unlisted"
          /\ Return(self, "error")
       \/ /\ ~IndexUnreadable /\ index.val[j.prj] # "unlisted"
          /\ Continue(self, "openVersions",
                [j EXCEPT !.idx = [index.val EXCEPT ![j.prj] = "removed"]])

\* open_json_file(versions_path, create = true): a file that does not exist
\* is created, empty.
OpenedVersions(p) ==
    IF versions[p].kind = "absent" THEN Blank("empty", <<>>) ELSE versions[p]

-----------------------------------------------------------------------------
(* sysand index add *)

\* Faulty variant: the new entry is appended, listed already or not.
AddOpenVersionsAppends(self) ==
    LET j == job[self]
        f == OpenedVersions(j.prj)
        entry == [version |-> j.ver, status |-> "available", build |-> j.build]
    IN
    /\ pc[self] = "openVersions" /\ j.op = "add"
    /\ versions' = [versions EXCEPT ![j.prj] = f]
    /\ UNCHANGED <<index, dirs, files>>
    /\ Continue(self, "mkdir", [j EXCEPT !.vers = Append(f.val, entry)])

\* Reads versions.json, sorts it and finds the place of the new entry.  The
\* file created for a new project stays, whatever happens next.
AddOpenVersions(self) ==
    LET j == job[self]
        f == OpenedVersions(j.prj)
        s == SortedDescending(f.val)
        entry == [version |-> j.ver, status |-> "available", build |-> j.build]
        refused == f.kind = "garbled" \/ HasDuplicate(s) \/ Listed(s, j.ver)
    IN
    /\ pc[self] = "openVersions" /\ j.op = "add"
    /\ versions' = [versions EXCEPT ![j.prj] = f]
    /\ UNCHANGED <<index, dirs, files>>
    /\ \/ refused /\ Return(self, "error")
       \/ /\ ~refused
          /\ Continue(self, "mkdir",
                [j EXCEPT !.vers = InsertAt(s, InsertPosition(s, j.ver), entry)])

\* Faulty variant: create_dir_all, which accepts a directory that exists.
AddMkdirReuses(self) ==
    LET j == job[self] IN
    /\ pc[self] = "mkdir"
    /\ dirs' = dirs \cup {<<j.prj, j.ver>>}
    /\ Continue(self, "kpar", j)
    /\ UNCHANGED <<index, versions, files>>

\* create_dir fails when the directory is there already.
AddMkdir(self) ==
    LET j == job[self] IN
    /\ pc[self] = "mkdir"
    /\ UNCHANGED <<index, versions, files>>
    /\ \/ /\ <<j.prj, j.ver>> \in dirs
          /\ Return(self, "error")
          /\ UNCHANGED dirs
       \/ /\ <<j.prj, j.ver>> \notin dirs
          /\ dirs' = dirs \cup {<<j.prj, j.ver>>}
          /\ Continue(self, "kpar", j)

FileStep == [kpar |-> "info", info |-> "meta", meta |-> "truncVersions"]

\* Copies the archive, then writes .project.json, then .meta.json.  Without
\* the directory the write fails, and so does the cleanup.
AddWriteFile(self) ==
    LET j == job[self] IN
    /\ pc[self] \in FileNames
    /\ UNCHANGED <<index, versions, dirs>>
    /\ \/ /\ <<j.prj, j.ver>> \in dirs
          /\ files' = [files EXCEPT ![<<j.prj, j.ver, pc[self]>>] = j.build]
          /\ Continue(self, FileStep[pc[self]], j)
       \/ /\ <<j.prj, j.ver>> \notin dirs
          /\ Return(self, "cleanupFailed")
          /\ UNCHANGED files

\* A copy or write fails, with or without having created the file, and
\* attempt_cleanup runs remove_dir, which removes an empty directory only.
AddWriteFileFails(self) ==
    LET j == job[self]
        d == <<j.prj, j.ver>>
        cleaned == \A f \in FileNames : files'[<<j.prj, j.ver, f>>] = "none"
    IN
    /\ pc[self] \in FileNames
    /\ d \in dirs
    /\ \/ UNCHANGED files
       \/ files' = [files EXCEPT ![<<j.prj, j.ver, pc[self]>>] = "partial"]
    /\ dirs' = IF cleaned THEN dirs \ {d} ELSE dirs
    /\ Return(self, IF cleaned THEN "noFilesChanged" ELSE "cleanupFailed")
    /\ UNCHANGED <<index, versions>>

\* The process is killed in the middle of a copy or write.
AddKilledInWriteFile(self) ==
    LET j == job[self] IN
    /\ pc[self] \in FileNames
    /\ <<j.prj, j.ver>> \in dirs
    /\ files' = [files EXCEPT ![<<j.prj, j.ver, pc[self]>>] = "partial"]
    /\ Return(self, "error")
    /\ UNCHANGED <<index, versions, dirs>>

-----------------------------------------------------------------------------
(* sysand index yank *)

\* Faulty variant: a removed version is yanked like any other.
YankOpenVersionsRevives(self) ==
    LET j == job[self]
        f == OpenedVersions(j.prj)
        s == f.val
        refused == f.kind = "garbled" \/ ~Listed(s, j.ver)
    IN
    /\ pc[self] = "openVersions" /\ j.op = "yank"
    /\ versions' = [versions EXCEPT ![j.prj] = f]
    /\ UNCHANGED <<index, dirs, files>>
    /\ \/ refused /\ Return(self, "error")
       \/ /\ ~refused
          /\ \E i \in DOMAIN s :
                /\ s[i].version = j.ver
                /\ Continue(self, "truncVersions",
                      [j EXCEPT !.vers = SetStatus(s, i, "yanked")])

YankOpenVersions(self) ==
    LET j == job[self]
        f == OpenedVersions(j.prj)
        s == f.val
        refused == f.kind = "garbled" \/ ~Listed(s, j.ver)
    IN
    /\ pc[self] = "openVersions" /\ j.op = "yank"
    /\ versions' = [versions EXCEPT ![j.prj] = f]
    /\ UNCHANGED <<index, dirs, files>>
    /\ \/ refused /\ Return(self, "error")
       \/ /\ ~refused
          /\ \E i \in DOMAIN s :
                /\ s[i].version = j.ver
                /\ \/ s[i].status = "removed" /\ Return(self, "error")
                   \/ s[i].status = "yanked" /\ Return(self, "ok")
                   \/ /\ s[i].status = "available"
                      /\ Continue(self, "truncVersions",
                            [j EXCEPT !.vers = SetStatus(s, i, "yanked")])

-----------------------------------------------------------------------------
(* sysand index remove *)

RemoveOpenVersions(self) ==
    LET j == job[self]
        f == OpenedVersions(j.prj)
    IN
    /\ pc[self] = "openVersions" /\ j.op \in {"removeVersion", "removeProject"}
    /\ versions' = [versions EXCEPT ![j.prj] = f]
    /\ UNCHANGED <<index, dirs, files>>
    /\ \/ f.kind = "garbled" /\ Return(self, "error")
       \/ /\ f.kind # "garbled"
          /\ Continue(self, "scan", [j EXCEPT !.vers = f.val])

\* if_remove_version: the entries the command is to retire.
ToRemove(j, i) ==
    /\ j.vers[i].status # "removed"
    /\ j.op = "removeVersion" => j.vers[i].version = j.ver

\* Faulty variant: the files go before versions.json says so.
RemoveScanFilesFirst(self) ==
    LET j == job[self]
        todo == {i \in j.next..Len(j.vers) : ToRemove(j, i)}
    IN
    /\ pc[self] = "scan"
    /\ UNCHANGED disk
    /\ \/ \E i \in todo :
            Continue(self, "rmdir",
                [j EXCEPT !.vers = SetStatus(j.vers, i, "removed"),
                          !.ver = j.vers[i].version,
                          !.next = i + 1])
       \/ todo = {} /\ Continue(self, "truncVersions", j)

\* One turn of the loop of remove_versions: the first entry to retire from
\* position j.next on is marked, or the loop is over.
RemoveScan(self) ==
    LET j == job[self]
        todo == {i \in j.next..Len(j.vers) : ToRemove(j, i)}
    IN
    /\ pc[self] = "scan"
    /\ UNCHANGED disk
    /\ \/ \E i \in todo :
            /\ \A k \in todo : i <= k
            /\ Continue(self, "truncVersions",
                  [j EXCEPT !.vers = SetStatus(j.vers, i, "removed"),
                            !.ver = j.vers[i].version,
                            !.next = i + 1])
       \/ /\ todo = {} /\ j.op = "removeProject"
          /\ Continue(self, "truncIndex", j)
       \/ /\ todo = {} /\ j.op = "removeVersion"
          /\ Return(self, IF Listed(j.vers, j.ver) THEN "ok" ELSE "error")

\* remove_dir_all: the files go one by one, in no fixed order ...
RemoveFile(self) ==
    LET j == job[self] IN
    /\ pc[self] = "rmdir"
    /\ <<j.prj, j.ver>> \in dirs
    /\ \E f \in FileNames :
          /\ files[<<j.prj, j.ver, f>>] # "none"
          /\ files' = [files EXCEPT ![<<j.prj, j.ver, f>>] = "none"]
    /\ UNCHANGED <<index, versions, dirs, pc, job, outcome>>

\* ... and the directory last; a directory that is not there is an error.
RemoveDir(self) ==
    LET j == job[self] IN
    /\ pc[self] = "rmdir"
    /\ UNCHANGED <<index, versions, files>>
    /\ \/ /\ <<j.prj, j.ver>> \notin dirs
          /\ Return(self, "error")
          /\ UNCHANGED dirs
       \/ /\ <<j.prj, j.ver>> \in dirs
          /\ \A f \in FileNames : files[<<j.prj, j.ver, f>>] = "none"
          /\ dirs' = dirs \ {<<j.prj, j.ver>>}
          /\ Continue(self, "scan", j)

-----------------------------------------------------------------------------
(* overwrite_file *)

\* What write_all leaves when it writes val from offset 0 of file: over bytes
\* another process has put there meanwhile, a longer old text leaves a tail.
Overwritten(file, val, default) ==
    IF file.kind = "empty" THEN {Json(val)} ELSE {Json(val), Blank("garbled", default)}

TruncVersions(self) ==
    LET j == job[self] IN
    /\ pc[self] = "truncVersions"
    /\ versions' = [versions EXCEPT ![j.prj] = Blank("empty", <<>>)]
    /\ Continue(self, "writeVersions", j)
    /\ UNCHANGED <<index, dirs, files>>

\* Faulty variant: the files of a retired version stay.
WriteVersionsKeepsFiles(self) ==
    LET j == job[self] IN
    /\ pc[self] = "writeVersions"
    /\ versions' = [versions EXCEPT ![j.prj] = Json(j.vers)]
    /\ UNCHANGED <<index, dirs, files>>
    /\ \/ j.op = "add" /\ j.isNew /\ Continue(self, "truncIndex", j)
       \/ j.op = "add" /\ ~j.isNew /\ Return(self, "ok")
       \/ j.op = "yank" /\ Return(self, "ok")
       \/ j.op \in {"removeVersion", "removeProject"} /\ Continue(self, "scan", j)

\* Faulty variant: remove_versions writes the file again and again.
WriteVersionsAgain(self) ==
    LET j == job[self] IN
    /\ pc[self] = "writeVersions"
    /\ versions' = [versions EXCEPT ![j.prj] = Json(j.vers)]
    /\ UNCHANGED <<index, dirs, files>>
    /\ \/ j.op = "add" /\ j.isNew /\ Continue(self, "truncIndex", j)
       \/ j.op = "add" /\ ~j.isNew /\ Return(self, "ok")
       \/ j.op = "yank" /\ Return(self, "ok")
       \/ /\ j.op \in {"removeVersion", "removeProject"}
          /\ Continue(self, "truncVersions", j)

\* Faulty variant: a new project is never listed in index.json.
WriteVersionsUnlisted(self) ==
    LET j == job[self] IN
    /\ pc[self] = "writeVersions"
    /\ versions' = [versions EXCEPT ![j.prj] = Json(j.vers)]
    /\ UNCHANGED <<index, dirs, files>>
    /\ \/ j.op \in {"add", "yank"} /\ Return(self, "ok")
       \/ j.op \in {"removeVersion", "removeProject"} /\ Continue(self, "rmdir", j)

WriteVersions(self) ==
    LET j == job[self] IN
    /\ pc[self] = "writeVersions"
    /\ \E f \in Overwritten(versions[j.prj], j.vers, <<>>) :
          versions' = [versions EXCEPT ![j.prj] = f]
    /\ UNCHANGED <<index, dirs, files>>
    /\ \/ j.op = "add" /\ j.isNew /\ Continue(self, "truncIndex", j)
       \/ j.op = "add" /\ ~j.isNew /\ Return(self, "ok")
       \/ j.op = "yank" /\ Return(self, "ok")
       \/ j.op \in {"removeVersion", "removeProject"} /\ Continue(self, "rmdir", j)

TruncIndex(self) ==
    /\ pc[self] = "truncIndex"
    /\ index' = Blank("empty", NoProjects)
    /\ Continue(self, "writeIndex", job[self])
    /\ UNCHANGED <<versions, dirs, files>>

WriteIndex(self) ==
    /\ pc[self] = "writeIndex"
    /\ index' \in Overwritten(index, job[self].idx, NoProjects)
    /\ Return(self, "ok")
    /\ UNCHANGED <<versions, dirs, files>>

\* write_all fails, or the process is killed in it, after some of the bytes.
WriteJsonFails(self) ==
    LET j == job[self] IN
    /\ \/ /\ pc[self] = "writeVersions"
          /\ versions' = [versions EXCEPT ![j.prj] = Blank("garbled", <<>>)]
          /\ UNCHANGED index
       \/ /\ pc[self] = "writeIndex"
          /\ index' = Blank("garbled", NoProjects)
          /\ UNCHANGED versions
    /\ Return(self, "error")
    /\ UNCHANGED <<dirs, files>>

\* The process is killed before its next step, or that step fails without
\* having done anything and has no cleanup of its own.
Stop(self) ==
    /\ pc[self] # "idle"
    /\ Return(self, "error")
    /\ UNCHANGED disk

-----------------------------------------------------------------------------
(* Specifications *)

\* Commands that only add to the tree or mark what is in it ...
StartPublish(self) ==
    \/ BeginInit(self)
    \/ \E p \in Projects, v \in Versions, b \in Builds : BeginAdd(self, p, v, b)
    \/ \E p \in Projects, v \in Versions : BeginYank(self, p, v)

\* ... and those that delete from it.
StartRemove(self) ==
    \/ \E p \in Projects, v \in Versions : BeginRemoveVersion(self, p, v)
    \/ \E p \in Projects : BeginRemoveProject(self, p)

Start(self) == StartPublish(self) \/ StartRemove(self)

Step(self) ==
    \/ AddOpenIndex(self) \/ YankOpenIndex(self) \/ RemoveOpenIndex(self)
    \/ AddOpenVersions(self) \/ AddMkdir(self) \/ AddWriteFile(self)
    \/ YankOpenVersions(self)
    \/ RemoveOpenVersions(self) \/ RemoveScan(self)
    \/ RemoveFile(self) \/ RemoveDir(self)
    \/ TruncVersions(self) \/ WriteVersions(self)
    \/ TruncIndex(self) \/ WriteIndex(self)

Fault(self) ==
    \/ AddWriteFileFails(self) \/ AddKilledInWriteFile(self)
    \/ WriteJsonFails(self) \/ Stop(self)

\* Any number of commands at once, any of which may fail or be killed.
Next == \E self \in Procs : Start(self) \/ Step(self) \/ Fault(self)
Spec == Init /\ [][Next]_vars

\* One command at a time: a new one starts when none is running.
AllIdle == \A self \in Procs : pc[self] = "idle"
SerialStart(self) == AllIdle /\ Start(self)

\* Commands run one after the other and no step fails.
CleanNext == \E self \in Procs : SerialStart(self) \/ Step(self)
CleanSpec == Init /\ [][CleanNext]_vars /\ \A self \in Procs : WF_vars(Step(self))

\* Commands run one after the other; any of them may fail or be killed.
SerialNext == \E self \in Procs : SerialStart(self) \/ Step(self) \/ Fault(self)
SerialSpec == Init /\ [][SerialNext]_vars

\* `remove' has the tree to itself, the other commands run side by side; any
\* of them may fail or be killed.
RemovalRuns ==
    \E self \in Procs :
        pc[self] # "idle" /\ job[self].op \in {"removeVersion", "removeProject"}
SharedNext ==
    \E self \in Procs :
        \/ ~RemovalRuns /\ StartPublish(self)
        \/ AllIdle /\ StartRemove(self)
        \/ Step(self) \/ Fault(self)
SharedSpec == Init /\ [][SharedNext]_vars

-----------------------------------------------------------------------------
(* Properties *)

TypeOK ==
    /\ index \in [kind: FileKind, val: IndexJson]
    /\ versions \in [Projects -> [kind: FileKind, val: VersionsJson]]
    /\ dirs \subseteq Projects \X Versions
    /\ files \in [Projects \X Versions \X FileNames -> FileContents]
    /\ pc \in [Procs -> Labels]
    /\ job \in [Procs -> Jobs]
    /\ outcome \in [Procs -> Outcomes]

\* Every version listed with a status other than removed has its directory
\* with all three files, complete and from the archive the entry describes:
\* do_index_add lists a version after its files are written, remove_versions
\* retires the entry before the files go.
VersionFilesPresent ==
    \A p \in Projects : \A i \in DOMAIN versions[p].val :
        LET e == versions[p].val[i] IN
        e.status # "removed" =>
            /\ <<p, e.version>> \in dirs
            /\ \A f \in FileNames : files[<<p, e.version, f>>] = e.build

\* A project is marked removed in index.json only once no version of it is
\* left in versions.json with another status, and none is added after.
RemovedProjectHasNoLiveVersion ==
    \A p \in Projects : index.val[p] = "removed" =>
        \A i \in DOMAIN versions[p].val : versions[p].val[i].status = "removed"

\* versions.json lists each version once, newest first, whatever commands ran,
\* concurrent ones included: what the index client insists on when it reads it.
VersionsNewestFirst == \A p \in Projects : StrictlyDescending(versions[p].val)

\* The files of a version directory come from one archive: create_dir lets only
\* one of several concurrent `add' commands write into a version directory, and
\* what a failed or killed one leaves there keeps later ones out.  It takes a
\* `remove' that overlaps two `add' commands to break this.
OneArchivePerDirectory ==
    \A d \in dirs : \A f, g \in FileNames :
        LET x == files[<<d[1], d[2], f>>]
            y == files[<<d[1], d[2], g>>]
        IN  x \in Builds /\ y \in Builds => x = y

Ends(self, op, result) ==
    /\ pc[self] # "idle" /\ pc'[self] = "idle"
    /\ job[self].op = op /\ outcome'[self] = result

\* When `add' reports success the version can be used: the project is listed
\* and the version is in versions.json as available, with the files of the
\* archive that was given.
AddOkMeansPublished ==
    [][\A self \in Procs : Ends(self, "add", "ok") =>
          LET j == job[self] IN
          /\ index'.val[j.prj] = "available"
          /\ \E i \in DOMAIN versions'[j.prj].val :
                versions'[j.prj].val[i] =
                    [version |-> j.ver, status |-> "available", build |-> j.build]
          /\ \A f \in FileNames : files'[<<j.prj, j.ver, f>>] = j.build]_vars

\* Every command ends: no step waits for anything, and the loop of
\* remove_versions visits each entry once.
CommandsEnd == \A self \in Procs : (pc[self] # "idle") ~> (pc[self] = "idle")

=============================================================================
