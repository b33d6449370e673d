---------------------------- MODULE ProjectEdit -----------------------------
(***************************************************************************)
(* The commands that edit a project, run by several processes in one       *)
(* project directory: init, include, exclude, add, remove, lock and the    *)
(* editing forms of info.  A process reads a file or truncates and then    *)
(* writes it in steps of their own, without any locking, so the commands   *)
(* interleave; it may crash between any two of its steps; a read or a      *)
(* write may fail; and a user edits the source files at any time.          *)
(*                                                                         *)
(* Resolution is external: it may fail, and otherwise the lockfile lists   *)
(* the usages that were read and the sources the configuration gives them. *)
(***************************************************************************)
EXTENDS ProjectFiles, FiniteSets

CONSTANTS Proc,         \* processes
          Path,         \* source files
          Contents,     \* [Path -> what the user may put into the source file]
          Std,          \* IRIs of the standard libraries
          Malformed,    \* parts that make a constraint unparsable
          Disks,        \* the initial files of the directory
          Worlds,       \* the initial source files
          Requests,     \* [command -> set of arguments]
          MaxCommands, MaxEdits, MaxFaults

ASSUME BoundsAssumption ==
    MaxCommands \in Nat /\ MaxEdits \in Nat /\ MaxFaults \in Nat

\* The files that the commands find: none, one that is cut short, or one they
\* could have written.
GoodInfo(info) ==
    /\ info \in [name : {info.name}, publisher : {info.publisher}, version : {info.version},
                 license : {info.license}, maintainer : Seq(STRING), usage : Seq(Usages)]
    /\ Distinct(info.usage)

GoodMeta(meta, skip) ==
    /\ meta \in [index : {meta.index}, checksum : {meta.checksum}, metamodel : {meta.metamodel}]
    /\ IndexWithin(meta) /\ IndexAgrees(meta, skip)

InfoFile(file) ==
    file \in {Absent, Empty, Torn} \/ (file = Holds(file.v[1]) /\ GoodInfo(file.v[1]))

MetaFile(file, skip) ==
    file \in {Absent, Empty, Torn} \/ (file = Holds(file.v[1]) /\ GoodMeta(file.v[1], skip))

ConfigFile(file) ==
    file \in {Absent, Empty, Torn} \/ (file = Holds(file.v[1]) /\ file.v[1] \in Seq(Projects))

ASSUME DisksAssumption ==
    \A d \in Disks :
        /\ d \in [info : {d.info}, meta : {d.meta}, config : {d.config}, lock : {d.lock}]
        /\ InfoFile(d.info) /\ MetaFile(d.meta, {}) /\ ConfigFile(d.config)

ASSUME RequestsAssumption ==
    /\ Requests.init \subseteq [name : STRING, license : STRING]
    /\ Requests.include \subseteq [paths : Seq(Path), compute : BOOLEAN, index : BOOLEAN]
    /\ Requests.exclude \subseteq Seq(Path)
    /\ Requests.set \subseteq [field : {"name", "publisher", "version", "license"}, value : STRING]
    /\ Requests.clear \subseteq {"publisher", "license", "maintainer"}
    /\ Requests.addItem \subseteq Seq(STRING)
    /\ Requests.removeItem \subseteq Nat
    /\ Requests.metamodel \subseteq STRING
    /\ Requests.add \subseteq [iri : STRING, constraint : Seq(STRING), source : STRING,
                             lock : BOOLEAN, sync : BOOLEAN]
    /\ Requests.remove \subseteq STRING

VARIABLES disk,         \* "info", "meta", "config" and "lock": the files
          source,       \* [Path -> source file]
          proc,         \* [Proc -> state of the command it runs]
          started, edits,
          faults,       \* crashes, and reads and writes that failed
          alone,        \* the process whose command has overlapped no other, if any
          before,       \* the files when that command started
          unindexed     \* files that .meta.json has from an include that was told
                        \* not to index them

vars == <<disk, source, proc, started, edits, faults, alone, before, unindexed>>

Idle(result) ==
    [op |-> "none", req |-> <<>>, pc |-> "idle", info |-> <<>>, meta |-> <<>>,
     config |-> <<>>, backup |-> Absent, todo |-> <<>>, file |-> "info",
     out |-> Absent, restoring |-> FALSE, unindexed |-> {}, result |-> result]

Active == {p \in Proc : proc[p].pc # "idle"}

Init ==
    /\ disk \in Disks
    /\ source \in Worlds
    /\ proc = [p \in Proc |-> Idle("none")]
    /\ started = 0 /\ edits = 0 /\ faults = 0
    /\ alone = {}
    /\ before = disk
    /\ unindexed = {}

(***************************************************************************)
(* Continuations: the state of a process after a step.                     *)
(***************************************************************************)
Fail(r) == Idle("failed")
Done(r) == Idle("ok")
At(r, pc) == [r EXCEPT !.pc = pc]

\* File::create and write, or wrapfs::write, of one file.
Store(r, file, out) == [r EXCEPT !.pc = "create", !.file = file, !.out = out]

\* Faulty variant: a failed add leaves what it wrote.
GiveUpNoRestore(r) == Fail(r)

\* The error path of command_add writes back the text it read before.
GiveUp(r) ==
    IF r.op = "add" THEN [Store(r, "info", r.backup) EXCEPT !.restoring = TRUE]
    ELSE Fail(r)

\* A file could not be written.  resolve_deps returns the error of the lockfile
\* to command_add, which restores; any other error ends the command at once,
\* that of a put_info, a put_meta and of the restoring write included.
Broken(r) ==
    CASE r.file = "lock" -> GiveUp(r)
      [] r.file \in {"config", "unlinked"} -> Fail(r)
      [] r.file \in {"info", "meta"} -> Idle("broken")

\* command_add after its configuration step, and command_remove.
AfterConfig(r) ==
    CASE r.op = "remove" -> At(r, "info")
      [] r.op = "add" /\ r.req.iri \in Std -> Done(r)
      [] r.op = "add" /\ r.req.iri \notin Std /\ r.req.lock -> At(r, "backup")
      [] r.op = "add" /\ r.req.iri \notin Std /\ ~r.req.lock -> At(r, "info")

AfterWrite(r) ==
    CASE r.file \in {"config", "unlinked"} -> AfterConfig(r)
      [] r.file = "info" /\ r.op = "init" -> At(r, "newMeta")
      [] r.file = "info" /\ r.restoring -> Fail(r)
      [] r.file = "info" /\ r.op = "add" /\ ~r.restoring ->
            IF r.req.lock THEN At(r, "lock") ELSE Done(r)
      [] r.file = "info" /\ r.op \notin {"init", "add"} -> Done(r)
      [] r.file = "lock" ->
            IF r.op = "add" /\ r.req.sync THEN At(r, "sync") ELSE Done(r)
      [] r.file = "meta" -> Done(r)

(***************************************************************************)
(* What each command does with the project it has read.                    *)
(***************************************************************************)
HasInfo(r) == r.info # <<>>
HasMeta(r) == r.meta # <<>>

PutInfo(r, info) == Store(r, "info", Holds(info))
PutMeta(r, meta) == Store(r, "meta", Holds(meta))

DoInclude(r) ==
    [r EXCEPT !.pc = "source", !.todo = r.req.paths,
              !.meta = IF HasMeta(r) THEN @ ELSE <<NewMeta>>]

\* meta when do_exclude has come past its first n paths.
Excluded(meta, paths, n) == ExcludeFiles(meta, {paths[i] : i \in 1..n})

DoExclude(r) ==
    IF HasMeta(r) /\ \A i \in 1..Len(r.req) :
            Excludable(Excluded(r.meta[1], r.req, i - 1), r.req[i])
    THEN PutMeta(r, Excluded(r.meta[1], r.req, Len(r.req)))
    ELSE Fail(r)

DoAdd(r) ==
    IF ~HasInfo(r) \/ Range(r.req.constraint) \cap Malformed # {} THEN Fail(r)
    ELSE LET info == r.info[1]
             usages == AddUsage(info.usage, Usage(r.req.iri, r.req.constraint))
         IN  IF usages = info.usage THEN Done(r)
             ELSE PutInfo(r, [info EXCEPT !.usage = usages])

DoRemove(r) ==
    IF HasInfo(r) /\ UsagesOf(r.info[1].usage, r.req) # {}
    THEN PutInfo(r, [r.info[1] EXCEPT !.usage = PopUsage(@, r.req)])
    ELSE Fail(r)

ApplySet(r) ==
    IF HasInfo(r) THEN PutInfo(r, SetInfo(r.info[1], r.req.field, r.req.value)) ELSE Fail(r)

ApplySetMeta(r) ==
    IF HasMeta(r) THEN PutMeta(r, SetMetamodel(r.meta[1], r.req)) ELSE Fail(r)

ApplyClear(r) ==
    IF HasInfo(r) THEN PutInfo(r, ClearInfo(r.info[1], r.req)) ELSE Fail(r)

ApplyAdd(r) ==
    IF HasInfo(r) THEN PutInfo(r, AddInfo(r.info[1], r.req)) ELSE Fail(r)

ApplyRemove(r) ==
    IF HasInfo(r) /\ RemovableInfo(r.info[1], r.req)
    THEN PutInfo(r, RemoveInfo(r.info[1], r.req))
    ELSE Fail(r)

Decide(r) ==
    CASE r.op = "include" -> DoInclude(r)
      [] r.op = "exclude" -> DoExclude(r)
      [] r.op = "add" -> DoAdd(r)
      [] r.op = "remove" -> DoRemove(r)
      [] r.op = "set" -> ApplySet(r)
      [] r.op = "metamodel" -> ApplySetMeta(r)
      [] r.op = "clear" -> ApplyClear(r)
      [] r.op = "addItem" -> ApplyAdd(r)
      [] r.op = "removeItem" -> ApplyRemove(r)

(***************************************************************************)
(* Starting a command.  run_cli loads the configuration first.  All but    *)
(* init need a project, which discover finds by either of its files.       *)
(***************************************************************************)
Start(p, op, req, pc) ==
    /\ proc[p].pc = "idle" /\ started < MaxCommands
    /\ disk.config.st # "torn"
    /\ op = "init" \/ disk.info.st # "absent" \/ disk.meta.st # "absent"
    /\ LET r == [Idle("none") EXCEPT !.op = op, !.req = req, !.pc = pc,
                                     !.config = Tables(disk.config)]
       IN  proc' = [proc EXCEPT ![p] = IF pc = "afterConfig" THEN AfterConfig(r) ELSE r]
    /\ started' = started + 1
    /\ alone' = IF Active = {} THEN {p} ELSE alone \ Active
    /\ before' = IF Active = {} THEN disk ELSE before
    /\ UNCHANGED <<disk, source, edits, faults, unindexed>>

StartInit(p) == \E req \in Requests.init : Start(p, "init", req, "newInfo")

\* command_include first looks whether the paths are files.
StartInclude(p) ==
    \E req \in Requests.include :
        /\ \A i \in 1..Len(req.paths) : source[req.paths[i]].st # "gone"
        /\ Start(p, "include", req, "info")

StartExclude(p) == \E req \in Requests.exclude : Start(p, "exclude", req, "info")

StartInfo(p) ==
    \E op \in {"set", "clear", "addItem", "removeItem", "metamodel"} :
        \E req \in Requests[op] : Start(p, op, req, "info")

StartAdd(p) ==
    \E req \in Requests.add :
        Start(p, "add", req, IF req.source = None THEN "afterConfig" ELSE "config")

StartRemove(p) == \E req \in Requests.remove : Start(p, "remove", req, "config")

StartLock(p) == Start(p, "lock", <<>>, "lock")

(***************************************************************************)
(* Steps of a running command.                                             *)
(***************************************************************************)
Step(p, pc) == proc[p].pc = pc

Goto(p, r) == proc' = [proc EXCEPT ![p] = r]

Quiet == UNCHANGED <<source, started, edits, alone, before>>

NoFault == faults' = faults
Fault == faults < MaxFaults /\ faults' = faults + 1

\* add_project_source_to_config and remove_project_source_from_config.  An empty
\* file is a configuration without tables.
ReadConfig(p) ==
    LET r == proc[p]
        tables == Tables(disk.config)
        added == AddSource(tables, r.req.iri, r.req.source)
        removed == RemoveSource(tables, r.req)
    IN  /\ Step(p, "config")
        /\ Goto(p, CASE disk.config.st = "torn" -> Fail(r)
                     [] disk.config.st # "torn" /\ r.op = "add" ->
                            [Store(r, "config", Holds(added))
                             EXCEPT !.config = PushSource(@, r.req.iri, r.req.source)]
                     [] OTHER -> CASE removed = tables -> AfterConfig(r)
                                   [] removed = <<>> /\ tables # <<>> -> At(r, "unlink")
                                   [] OTHER -> Store(r, "config", Holds(removed)))
        /\ Quiet /\ NoFault /\ UNCHANGED <<disk, unindexed>>

\* The configuration file that became empty is removed; whoever has it open
\* writes into a file no one sees.
Unlink(p) ==
    /\ Step(p, "unlink")
    /\ disk' = [disk EXCEPT !.config = Absent]
    /\ proc' = [q \in Proc |->
                  CASE q = p -> IF disk.config.st = "absent" THEN Fail(proc[p])
                                ELSE AfterConfig(proc[p])
                    [] q # p /\ proc[q].pc = "write" /\ proc[q].file = "config" ->
                            [proc[q] EXCEPT !.file = "unlinked"]
                    [] OTHER -> proc[q]]
    /\ Quiet /\ NoFault /\ UNCHANGED unindexed

\* The text of .project.json, whatever it is.
Backup(p) ==
    /\ Step(p, "backup")
    /\ Goto(p, IF disk.info.st = "absent" THEN Fail(proc[p])
               ELSE [proc[p] EXCEPT !.pc = "info", !.backup = disk.info])
    /\ Quiet /\ NoFault /\ UNCHANGED <<disk, unindexed>>

\* get_project reads both files, even for the content of one.
ReadInfo(p) ==
    /\ Step(p, "info")
    /\ Goto(p, IF disk.info.st \in {"empty", "torn"} THEN Fail(proc[p])
               ELSE [proc[p] EXCEPT !.pc = "meta", !.info = disk.info.v])
    /\ Quiet /\ NoFault /\ UNCHANGED <<disk, unindexed>>

ReadMeta(p) ==
    /\ Step(p, "meta")
    /\ Goto(p, IF disk.meta.st \in {"empty", "torn"} THEN Fail(proc[p])
               ELSE Decide([proc[p] EXCEPT !.meta = disk.meta.v,
                                           !.unindexed = unindexed]))
    /\ Quiet /\ NoFault /\ UNCHANGED <<disk, unindexed>>

\* One iteration of do_include: the file is read once.
ReadSource(p) ==
    LET r == proc[p]
        path == Head(r.todo)
        meta == IncludeFile(r.meta[1], path, source[path].symbols,
                            r.req.compute, r.req.index)
        next == [r EXCEPT !.unindexed = IF r.req.index THEN @ \ {path} ELSE @ \cup {path}]
    IN  /\ Step(p, "source")
        /\ Goto(p, IF \/ source[path].st = "gone"
                      \/ source[path].st = "unparsable" /\ r.req.index THEN Fail(r)
                   ELSE IF Len(r.todo) = 1 THEN PutMeta(next, meta)
                   ELSE [next EXCEPT !.meta = <<meta>>, !.todo = Tail(@)])
        /\ Quiet /\ NoFault /\ UNCHANGED <<disk, unindexed>>

\* do_init_ext: neither file may exist when it is about to be created.
NewInfoFile(p) ==
    LET r == proc[p]
    IN  /\ Step(p, "newInfo")
        /\ Goto(p, IF disk.info.st # "absent" THEN Fail(r)
                   ELSE Store(r, "info", Holds(NewInfo(r.req.name, r.req.license))))
        /\ Quiet /\ NoFault /\ UNCHANGED <<disk, unindexed>>

NewMetaFile(p) ==
    /\ Step(p, "newMeta")
    /\ Goto(p, IF disk.meta.st # "absent" THEN Fail(proc[p])
               ELSE Store(proc[p], "meta", Holds(NewMeta)))
    /\ Quiet /\ NoFault /\ UNCHANGED <<disk, unindexed>>

\* File::create truncates the file, or fails and leaves it.
Create(p) ==
    /\ Step(p, "create")
    /\ \/ /\ disk' = [disk EXCEPT ![proc[p].file] = Empty]
          /\ Goto(p, At(proc[p], "write")) /\ NoFault
       \/ /\ UNCHANGED disk
          /\ Goto(p, Broken(proc[p])) /\ Fault
    /\ Quiet /\ UNCHANGED unindexed

\* If another process has written the file since it was truncated, the
\* shorter text leaves the end of the longer one behind.
Written(r) == {r.out} \cup (IF disk[r.file] # Empty THEN {Torn} ELSE {})

\* A write that does not come to its end has changed nothing, leaves a part of
\* the text, or lacks but the newline.  A configuration may be cut between two of
\* its tables.
Cut(r) ==
    {disk[r.file], Torn, r.out} \cup
        IF r.file = "config" THEN {Holds(SubSeq(r.out.v[1], 1, n)) : n \in 1..Len(r.out.v[1])}
        ELSE {}

Leave(r, texts) ==
    /\ IF r.file = "unlinked" THEN UNCHANGED disk
       ELSE \E text \in texts : disk' = [disk EXCEPT ![r.file] = text]
    /\ unindexed' = IF r.file = "meta" /\ disk'.meta = r.out THEN r.unindexed ELSE unindexed

Write(p) ==
    LET r == proc[p]
    IN  /\ Step(p, "write")
        /\ \/ Leave(r, Written(r)) /\ Goto(p, AfterWrite(r)) /\ NoFault
           \/ Leave(r, Cut(r)) /\ Goto(p, Broken(r)) /\ Fault
        /\ Quiet

\* A file that is there cannot be read, a source is not UTF-8, or sysand.toml
\* cannot be removed.
Unreached(p) ==
    /\ proc[p].pc \in {"config", "unlink", "backup", "info", "meta", "source"}
    /\ Goto(p, Fail(proc[p])) /\ Fault
    /\ Quiet /\ UNCHANGED <<disk, unindexed>>

\* do_lock reads the project again.  The sources are those of the
\* configuration in memory.
Lock(p) ==
    LET r == proc[p]
        usages == disk.info.v[1].usage
        sources == [i \in 1..Len(usages) |-> OverrideOf(r.config, usages[i].resource)]
    IN  /\ Step(p, "lock")
        /\ \/ Goto(p, GiveUp(r))
           \/ /\ disk.info.st = "ok" /\ disk.meta.st = "ok"
              /\ Goto(p, Store(r, "lock", Holds([usage |-> usages, source |-> sources])))
        /\ Quiet /\ NoFault /\ UNCHANGED <<disk, unindexed>>

Sync(p) ==
    /\ Step(p, "sync")
    /\ Goto(p, Done(proc[p])) \/ Goto(p, GiveUp(proc[p]))
    /\ Quiet /\ NoFault /\ UNCHANGED <<disk, unindexed>>

Crash(p) ==
    /\ p \in Active
    /\ IF proc[p].pc = "write" THEN Leave(proc[p], Cut(proc[p]))
       ELSE UNCHANGED <<disk, unindexed>>
    /\ Goto(p, Idle("crashed")) /\ Fault
    /\ Quiet

\* The user saves a source file.
EditSource(path) ==
    /\ edits < MaxEdits
    /\ \E content \in Contents[path] \ {source[path]} : source' = [source EXCEPT ![path] = content]
    /\ edits' = edits + 1
    /\ UNCHANGED <<disk, proc, started, faults, alone, before, unindexed>>

Work(p) ==
    \/ ReadConfig(p) \/ Unlink(p) \/ Backup(p) \/ ReadInfo(p) \/ ReadMeta(p)
    \/ ReadSource(p) \/ NewInfoFile(p) \/ NewMetaFile(p) \/ Create(p) \/ Write(p)
    \/ Lock(p) \/ Sync(p) \/ Unreached(p)

Next ==
    \/ \E p \in Proc :
        \/ StartInit(p) \/ StartInclude(p) \/ StartExclude(p) \/ StartInfo(p)
        \/ StartAdd(p) \/ StartRemove(p) \/ StartLock(p)
        \/ Work(p) \/ Crash(p)
    \/ \E path \in Path : EditSource(path)

Spec == Init /\ [][Next]_vars

(***************************************************************************)
(* Properties                                                              *)
(***************************************************************************)
\* Process p's command ends in this step.
Ends(p, result) ==
    proc[p].pc # "idle" /\ proc'[p].pc = "idle" /\ proc'[p].result = result

\* The IRI has no table, or one table that lists no other IRI.
OwnTable(tables, iri) ==
    /\ \A i, j \in TablesOf(tables, iri) : i = j
    /\ \A i \in TablesOf(tables, iri) : tables[i].identifiers = {iri}

\* Whatever commands interleave or crash, .meta.json when readable has a
\* checksum for every file its index names, as publish demands (publish.rs).
IndexWithinChecksums ==
    disk.meta.st = "ok" => IndexWithin(disk.meta.v[1])

\* The index and the checksums of .meta.json speak of the same text of a file:
\* a symbol is in the text that was digested, though the user edits the file
\* before, during and after the includes, unless the include that the file's
\* checksum comes from was told not to index it.
IndexAgreesWithDigests ==
    disk.meta.st = "ok" => IndexAgrees(disk.meta.v[1], unindexed)

\* "sysand will never add multiple usages of the same resource" (pop_usage):
\* not even when two processes add it at the same time.
NoDuplicateUsages ==
    disk.info.st = "ok" => Distinct(disk.info.v[1].usage)

\* Command r has left the files of b as they are in d, but for the .project.json
\* that an init has created.
KeepsFiles(r, b, d, files) ==
    \A file \in files :
        d[file] = b[file] \/ (file = "info" /\ r.op = "init" /\ b.info = Absent)

\* A command that fails while no other command runs leaves .project.json and
\* .meta.json as they were: include and exclude fail on a later path before
\* anything is written, and add restores what it wrote when the resolution, the
\* lockfile or the installation fails.  Only an init in a directory that has a
\* .meta.json and no .project.json creates the latter before it fails on the
\* former.  When it is the writing of one of the two files that fails, that file
\* stays as the error leaves it (put_info and put_meta truncate first, and
\* `do_add(...)?' and the restoring write return without another attempt); the
\* other file is still kept, but for the .project.json of an init.
FailureKeepsProject ==
    [][\A p \in alone :
        /\ Ends(p, "failed") =>
            /\ KeepsFiles(proc[p], before, disk', {"info", "meta"})
            /\ disk'.info # before.info => before.meta # Absent
        /\ Ends(p, "broken") =>
            KeepsFiles(proc[p], before, disk', {"info", "meta"} \ {proc[p].file})]_vars

\* When an add or a lock that no other command overlapped has written the
\* lockfile, the lockfile has the usages of .project.json, each with the
\* source that the configuration file gives it.  An add with a source gives it
\* to the first table with the IRI, and with it to every other IRI there, while
\* its own lock follows the last table: the two agree when the IRI has no table
\* or one of its own.
LockIsCurrent ==
    [][\A p \in Proc :
        /\ Ends(p, "ok") /\ p \in alone /\ disk'.lock # before.lock
        /\ \/ proc[p].op # "add" \/ proc[p].req.source = None
           \/ OwnTable(Tables(before.config), proc[p].req.iri)
        => LET usages == disk'.info.v[1].usage
               lock == disk'.lock.v[1]
           IN  /\ lock.usage = usages
               /\ \A i \in 1..Len(usages) :
                    lock.source[i] = OverrideOf(Tables(disk'.config), usages[i].resource)]_vars

=============================================================================
