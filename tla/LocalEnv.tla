------------------------------ MODULE LocalEnv ------------------------------
(***************************************************************************)
(* The local environment `.sysand`: env.toml lists the projects, lib/ holds *)
(* the directories of the installed ones.  `sysand env`, `sync`,            *)
(* `env install` and `env uninstall` read env.toml into memory, change lib/ *)
(* and the list in memory, and write the list back, in place, after each    *)
(* change.  One action per file-system step; an I/O error or a kill may end *)
(* a command at any of them.  Commands run one at a time.                   *)
(***************************************************************************)
EXTENDS Naturals, Sequences, FiniteSets

CONSTANTS
    Iris,           \* identifiers of projects
    Builds,         \* the distinct contents a project directory may have
    VersionOf,      \* VersionOf[b]: the version in the .project.json of b
    Sites,          \* places projects are fetched from, or edited at
    Served,         \* Served[a]: the build that site a serves at first
    Users,          \* users: the locks they sync, the faults and changes they meet
    Provided,       \* Provided[id]: versions that the tool provides itself
    Stem,           \* Stem[<<id, v>>]: the file name made from an IRI and version
    MaxEntries      \* bound on the length of env.toml when a sync or installation starts

Versions == {VersionOf[b] : b \in Builds}

\* File names of lib/: the stem and the disambiguation number.
LibNames == {Stem[x] : x \in DOMAIN Stem} \X (0 .. MaxEntries)

Contents == Builds \cup {"nothing", "partial"}

NoSum == [kind |-> "none", build |-> "nothing"]

Sums == {NoSum} \cup [kind : {"src", "kpar"}, build : Builds]

SrcKinds == {"localSrc", "remoteSrc"}

KparKinds == {"localKpar", "remoteKpar", "indexKpar"}

\* A source of a locked project.  `root` and `member` are about editable ones:
\* whether the path begins with lib/, whether it is a workspace project.
Sources == [kind : SrcKinds \cup KparKinds \cup {"editable", "git"}, at : Sites,
            build : Builds, root : {"lib", "elsewhere"}, member : BOOLEAN]

LockProjects == [ids : Seq(Iris), version : Versions, sources : Seq(Sources)]

ASSUME VersionsAssumption == DOMAIN VersionOf = Builds
ASSUME ServedAssumption == Served \in [Sites -> Builds]
ASSUME ContentsAssumption == {"nothing", "partial"} \cap Builds = {}
\* MaxFaults bounds I/O errors and kills, MaxChanges the changes of what the
\* sites serve.
ASSUME UsersAssumption ==
    \A u \in Users :
        /\ u.locks \subseteq Seq(LockProjects)
        /\ {u.MaxFaults, u.MaxChanges} \subseteq Nat
        /\ u.perseveres \in BOOLEAN
ASSUME ProvidedAssumption == DOMAIN Provided \subseteq Iris
ASSUME StemAssumption == DOMAIN Stem = Iris \X Versions
ASSUME BoundsAssumption == MaxEntries \in Nat

Paths == [root : {"lib", "elsewhere"}, name : LibNames \cup Sites]

Entries == [ids : Seq(Iris), version : Versions, path : Paths,
            editable : BOOLEAN, member : BOOLEAN, sum : Sums]

VARIABLES
    envDir,     \* whether the directory .sysand exists
    toml,       \* contents of env.toml
    lib,        \* lib[n]: contents of the directory lib/n
    site,       \* site[a]: the build that site a serves now
    mem,        \* the list of entries in memory
    pc,         \* the next step of the command
    job,        \* its local variables
    outcome,    \* how the last command ended
    faults,     \* I/O errors and kills so far
    changes,    \* changes of the sites so far
    user        \* who runs the commands

disk == <<envDir, toml, lib>>
world == <<site, changes, user>>
vars == <<envDir, toml, lib, site, mem, pc, job, outcome, faults, changes, user>>

Toml(entries) == [kind |-> "toml", val |-> entries]
Absent == [kind |-> "absent", val |-> <<>>]

\* Empty, or cut where it is not valid TOML: every command refuses it.
Torn == [kind |-> "torn", val |-> <<>>]

Steps == {"idle", "mkdir", "create", "createWrite", "project", "source", "put",
          "move", "record", "trunc", "write", "merge", "check", "clean", "drop"}

Outcomes == {"none", "ok", "error", "catastrophic", "panic", "killed"}

NoSource == CHOOSE s \in Sources : TRUE

NoJob == [cmd |-> "none", lock |-> <<>>, p |-> 1, s |-> 1, id |-> CHOOSE x \in Iris : TRUE,
          version |-> CHOOSE v \in Versions : TRUE, source |-> NoSource, staged |-> "nothing",
          overwrite |-> FALSE, multiple |-> FALSE, deps |-> FALSE, all |-> FALSE,
          todo |-> <<>>, after |-> "return"]

Jobs == [cmd : {"none", "env", "sync", "install", "uninstall"}, lock : Seq(LockProjects),
         p : Nat, s : Nat, id : Iris, version : Versions, source : Sources,
         staged : Builds \cup {"nothing"}, overwrite : BOOLEAN, multiple : BOOLEAN,
         deps : BOOLEAN, all : BOOLEAN, todo : Seq(Nat),
         after : {"source", "deps", "rewrite", "return"}]

Init ==
    /\ envDir = FALSE
    /\ toml = Absent
    /\ lib = [n \in LibNames |-> "nothing"]
    /\ site = Served
    /\ mem = <<>>
    /\ pc = "idle"
    /\ job = NoJob
    /\ outcome = "none"
    /\ faults = 0
    /\ changes = 0
    /\ user \in Users

-----------------------------------------------------------------------------
(* The list of entries *)

HasId(e, id) == \E k \in DOMAIN e.ids : e.ids[k] = id

\* Positions of the entries for version v of id.
Matching(entries, id, v) ==
    {k \in DOMAIN entries : entries[k].version = v /\ HasId(entries[k], id)}

Found(entries, id, v) == Matching(entries, id, v) # {}

First(S) == CHOOSE k \in S : \A j \in S : k <= j

Position(entries, id, v) == First(Matching(entries, id, v))

Find(entries, id, v) == entries[Position(entries, id, v)]

IsInstalled(e) == e.path.root = "lib"

\* Faulty variant: the same directory again for another project of that name.
ProjectPathFirst(entries, id, v) == [root |-> "lib", name |-> <<Stem[<<id, v>>], 0>>]

\* The first candidate name that no entry with a path in lib/ has.
ProjectPath(entries, id, v) ==
    LET stem == Stem[<<id, v>>]
        taken == {entries[k].path.name : k \in {j \in DOMAIN entries : IsInstalled(entries[j])}}
    IN [root |-> "lib", name |-> <<stem, First({n \in 0 .. MaxEntries : <<stem, n>> \notin taken})>>]

MergeIds(ids, more) == ids \o SelectSeq(more, LAMBDA x : \A k \in DOMAIN ids : ids[k] # x)

\* Faulty variant: a shared identifier is enough.
AddProjectAnyVersion(entries, e) ==
    LET same == {k \in DOMAIN entries : \E j \in DOMAIN e.ids : HasId(entries[k], e.ids[j])}
    IN IF same = {} THEN Append(entries, e)
       ELSE [entries EXCEPT ![First(same)].ids = MergeIds(@, e.ids)]

\* `add_project`: an entry that shares an identifier and has the version takes
\* the identifiers; otherwise the project is appended.
AddProject(entries, e) ==
    LET same == {k \in DOMAIN entries : /\ entries[k].version = e.version
                                        /\ \E j \in DOMAIN e.ids : HasId(entries[k], e.ids[j])}
    IN IF same = {} THEN Append(entries, e)
       ELSE [entries EXCEPT ![First(same)].ids = MergeIds(@, e.ids)]

SwapRemove(s, k) ==
    [j \in 1 .. Len(s) - 1 |-> IF j = k THEN s[Len(s)] ELSE s[j]]

\* Positions ks, which ascend, are removed from the largest to the smallest.
DropAll(entries, ks) ==
    LET left[n \in 0 .. Len(ks)] ==
            IF n = 0 THEN entries ELSE SwapRemove(left[n - 1], ks[Len(ks) + 1 - n])
    IN left[Len(ks)]

EditableEntry(P) ==
    [ids |-> P.ids, version |-> P.version, editable |-> TRUE, member |-> P.sources[1].member,
     path |-> [root |-> P.sources[1].root, name |-> P.sources[1].at], sum |-> NoSum]

IsEditable(P) == P.sources # <<>> /\ P.sources[1].kind = "editable"

\* Faulty variant: the editable projects of earlier locks stay.
MergeLockKeepsOld(entries, lock) ==
    LET new == SelectSeq(lock, IsEditable)
    IN entries \o [k \in DOMAIN new |-> EditableEntry(new[k])]

\* `merge_lock`: the editable projects are those of the lock.
MergeLock(entries, lock) ==
    LET new == SelectSeq(lock, IsEditable)
    IN SelectSeq(entries, IsInstalled) \o [k \in DOMAIN new |-> EditableEntry(new[k])]

-----------------------------------------------------------------------------
(* Commands begin and end *)

Return(r) ==
    /\ pc' = "idle"
    /\ outcome' = r
    /\ mem' = <<>>
    /\ job' = [NoJob EXCEPT !.lock = IF user.perseveres THEN job.lock ELSE <<>>]

Go(step, j) ==
    /\ pc' = step
    /\ job' = j
    /\ UNCHANGED <<outcome, mem>>

Fault ==
    /\ faults < user.MaxFaults
    /\ faults' = faults + 1

NoFault == UNCHANGED faults

FirstStep(cmd) ==
    CASE cmd = "sync" -> "project"
      [] cmd = "install" -> "check"
      [] cmd = "uninstall" -> "clean"

\* One who perseveres only syncs, and after the first fault the same lock again.
Wants(j) ==
    user.perseveres => j.cmd = "sync" /\ (faults > 0 => j.lock = job.lock)

\* `get_env` reads env.toml when the program starts; sync and install go on to
\* create the environment where it does not exist.
Begin(j) ==
    /\ pc = "idle" /\ Wants(j)
    /\ UNCHANGED <<disk, world, faults>>
    /\ \/ /\ toml.kind = "torn"
          /\ Return("error")
       \/ /\ toml.kind = "absent"
          /\ IF j.cmd = "uninstall" THEN Return("ok")
             ELSE pc' = "mkdir" /\ job' = j /\ mem' = <<>> /\ UNCHANGED outcome
       \/ /\ toml.kind = "toml"
          /\ j.cmd \in {"sync", "install"} => Len(toml.val) < MaxEntries
          /\ IF j.cmd = "env" THEN Return("error")
             ELSE pc' = FirstStep(j.cmd) /\ job' = j /\ mem' = toml.val /\ UNCHANGED outcome

BeginEnv == Begin([NoJob EXCEPT !.cmd = "env"])

BeginSync == \E l \in user.locks : Begin([NoJob EXCEPT !.cmd = "sync", !.lock = l])

\* `env install` of a project that some lock names; after that of a local path,
\* unless --no-deps, a sync with the lock of its dependencies.  (`env install`
\* of an IRI with its dependencies is a sync with the lock of that IRI.)
BeginInstall ==
    /\ pc = "idle"
    /\ \E l \in user.locks, deps, over, multi \in BOOLEAN :
        \E k \in DOMAIN l, lock \in IF deps THEN user.locks ELSE {<<>>} :
            /\ l[k].ids # <<>> /\ l[k].sources # <<>>
            /\ l[k].sources[1].kind \in SrcKinds \cup KparKinds
            /\ deps => l[k].sources[1].kind \in {"localSrc", "localKpar"}
            /\ Begin([NoJob EXCEPT !.cmd = "install", !.id = l[k].ids[1],
                                   !.version = l[k].version, !.source = l[k].sources[1],
                                   !.overwrite = over, !.multiple = multi, !.deps = deps,
                                   !.lock = lock])

BeginUninstall ==
    /\ pc = "idle"
    /\ \E id \in Iris, v \in Versions, a \in BOOLEAN :
        Begin([NoJob EXCEPT !.cmd = "uninstall", !.id = id, !.version = v, !.all = a])

\* Creation of the environment: refused when the directory exists.
Mkdir ==
    /\ pc = "mkdir"
    /\ UNCHANGED <<toml, lib, world>>
    /\ \/ /\ envDir /\ Return("error") /\ NoFault /\ UNCHANGED envDir
       \/ /\ ~envDir /\ envDir' = TRUE /\ Go("create", job) /\ NoFault
       \/ /\ Fault /\ Return("error") /\ UNCHANGED envDir

CreateToml ==
    /\ pc = "create"
    /\ UNCHANGED <<envDir, lib, world>>
    /\ \/ /\ toml.kind = "absent" /\ toml' = Torn /\ Go("createWrite", job) /\ NoFault
       \/ /\ Fault /\ Return("error") /\ UNCHANGED toml

CreateWrite ==
    /\ pc = "createWrite"
    /\ UNCHANGED <<envDir, lib, world>>
    /\ \/ /\ toml' = Toml(<<>>)
          /\ IF job.cmd = "env" THEN Return("ok") ELSE Go(FirstStep(job.cmd), job)
          /\ NoFault
       \/ /\ Fault /\ Return("error") /\ UNCHANGED toml

-----------------------------------------------------------------------------
(* `do_sync`: the loop over the projects of the lock *)

Locked == job.lock[job.p]

NextProject == Go("project", [job EXCEPT !.p = @ + 1, !.s = 1])

ProvidedIds(P) == {k \in DOMAIN P.ids : P.ids[k] \in DOMAIN Provided}

\* What the first provided identifier says about the version.
IsProvided(P) == P.version \in Provided[P.ids[First(ProvidedIds(P))]]

\* The checksum a source has in the lockfile; none for editable and git.
Checksum(source) ==
    CASE source.kind \in SrcKinds -> [kind |-> "src", build |-> source.build]
      [] source.kind \in KparKinds -> [kind |-> "kpar", build |-> source.build]
      [] OTHER -> NoSum

\* `has_version_verified` with some identifier and some source.
Verified(entries, P) ==
    \E i \in DOMAIN P.ids, s \in DOMAIN P.sources :
        /\ Found(entries, P.ids[i], P.version)
        /\ Checksum(P.sources[s]) # NoSum
        /\ Find(entries, P.ids[i], P.version).sum = Checksum(P.sources[s])

SyncProject ==
    /\ pc = "project"
    /\ UNCHANGED <<disk, world, faults>>
    /\ \/ /\ job.p > Len(job.lock)
          /\ Go("merge", job)
       \/ /\ job.p <= Len(job.lock)
          /\ \/ /\ ProvidedIds(Locked) # {}
                /\ IF IsProvided(Locked) THEN NextProject ELSE Return("error")
             \/ /\ ProvidedIds(Locked) = {}
                /\ Locked.sources = <<>>
                /\ Return("error")
             \/ /\ ProvidedIds(Locked) = {}
                /\ Locked.sources # <<>>
                /\ IF Verified(mem, Locked) THEN NextProject
                   ELSE Go("source", [job EXCEPT !.s = 1])

\* One source: nothing to do for an editable one, no checksum for git; for the
\* others the checksum of what the site serves is compared with the lock.
SyncSource ==
    /\ pc = "source"
    /\ UNCHANGED <<disk, world>>
    /\ LET src == Locked.sources[job.s]
           j == [job EXCEPT !.id = Locked.ids[1], !.version = Locked.version,
                            !.source = src, !.after = "source"]
       IN \/ /\ job.s > Len(Locked.sources) /\ NextProject /\ NoFault
          \/ /\ job.s <= Len(Locked.sources) /\ src.kind = "editable" /\ NextProject /\ NoFault
          \/ /\ job.s <= Len(Locked.sources) /\ src.kind # "editable" /\ NoFault
             /\ IF Locked.ids = <<>> \/ (src.kind # "git" /\ site[src.at] # src.build)
                THEN Return("error")
                ELSE Go("put", [j EXCEPT !.staged = site[src.at]])
          \/ /\ job.s <= Len(Locked.sources) /\ src.kind # "editable" /\ Fault /\ Return("error")

\* Nothing to do for what the tool provides; then `check_install` and the
\* checksum of the project given on the command line.
Check ==
    /\ pc = "check"
    /\ UNCHANGED <<disk, world>>
    /\ LET present == \E k \in DOMAIN mem : HasId(mem[k], job.id)
           versionPresent == Found(mem, job.id, job.version)
           refused == \/ ~job.overwrite /\ ~job.multiple /\ present
                      \/ ~job.overwrite /\ versionPresent
                      \/ ~job.multiple /\ present /\ ~versionPresent
           served == site[job.source.at]
       IN \/ /\ IF job.id \in DOMAIN Provided THEN Return("ok")
                ELSE IF refused \/ VersionOf[served] # job.version THEN Return("error")
                ELSE Go("put", [job EXCEPT !.source.build = served, !.staged = served,
                                           !.overwrite = FALSE, !.multiple = FALSE,
                                           !.after = "deps"])
             /\ NoFault
          \/ /\ Fault /\ Return("error")

-----------------------------------------------------------------------------
(* `put_project` *)

Existing == Found(mem, job.id, job.version)

Target == IF Existing THEN Find(mem, job.id, job.version).path
          ELSE ProjectPath(mem, job.id, job.version)

\* Faulty variant: an overwritten project is listed once more.
RecordedAppends(entries) ==
    Append(entries, [ids |-> <<job.id>>, version |-> VersionOf[job.staged],
                     path |-> Target, editable |-> FALSE, member |-> FALSE,
                     sum |-> Checksum(job.source)])

\* The entry for the project that was moved; its version is the one in the
\* project.
Recorded(entries) ==
    IF Existing
    THEN [entries EXCEPT ![Position(entries, job.id, job.version)] =
            [@ EXCEPT !.version = VersionOf[job.staged], !.sum = Checksum(job.source)]]
    ELSE AddProject(entries, [ids |-> <<job.id>>, version |-> VersionOf[job.staged],
                              path |-> Target, editable |-> FALSE, member |-> FALSE,
                              sum |-> Checksum(job.source)])

\* Faulty variant: env.toml is written before the directory is in place.
PutListsFirst ==
    /\ pc = "put"
    /\ toml' = Toml(Recorded(mem))
    /\ Go("move", job)
    /\ UNCHANGED <<envDir, lib, world, faults>>

\* The project is copied to a temporary directory.  A remote archive has been
\* downloaded once; anything else is read again here.
Put ==
    /\ pc = "put"
    /\ UNCHANGED <<disk, world>>
    /\ IF Existing /\ Find(mem, job.id, job.version).editable
       THEN Return("panic") /\ NoFault
       ELSE \/ /\ Go("move", [job EXCEPT !.staged =
                                IF job.source.kind \in {"remoteKpar", "indexKpar"} THEN @
                                ELSE site[job.source.at]])
               /\ NoFault
            \/ /\ Fault /\ Return("error")

\* `try_move_files` of the temporary directory to its place in lib/, as
\* MoveContract has it.
MoveToLib ==
    /\ pc = "move"
    /\ UNCHANGED <<envDir, toml, world>>
    /\ \/ /\ lib' = [lib EXCEPT ![Target.name] = job.staged] /\ Go("record", job) /\ NoFault
       \/ /\ Fault /\ Return("error") /\ UNCHANGED lib
       \/ /\ Fault /\ Return("catastrophic")
          /\ \E c \in {lib[Target.name], job.staged, "nothing", "partial"} :
                lib' = [lib EXCEPT ![Target.name] = c]

Record ==
    /\ pc = "record"
    /\ UNCHANGED <<disk, world>>
    /\ \/ /\ mem' = Recorded(mem) /\ pc' = "trunc" /\ UNCHANGED <<job, outcome>> /\ NoFault
       \/ /\ Fault /\ Return("error")

-----------------------------------------------------------------------------
(* `write`: env.toml is overwritten in place *)

\* What a write that is cut short leaves: the entries are tables one after the
\* other, so that the file may end after some of them, or in the middle of one
\* that then lacks its checksum, or its identifiers too.
CutShort(entries) ==
    LET cut(n, keep) == Append(SubSeq(entries, 1, n - 1),
                               [entries[n] EXCEPT !.ids = IF keep THEN @ ELSE <<>>,
                                                  !.sum = NoSum])
    IN {Torn}
       \cup {Toml(SubSeq(entries, 1, n)) : n \in 0 .. Len(entries)}
       \cup {Toml(cut(n, keep)) : n \in {k \in DOMAIN entries : ~entries[k].editable},
                                 keep \in BOOLEAN}

Trunc ==
    /\ pc = "trunc"
    /\ UNCHANGED <<envDir, lib, world>>
    /\ \/ /\ toml' = Torn /\ Go("write", job) /\ NoFault
       \/ /\ Fault /\ Return("error") /\ UNCHANGED toml

Write ==
    /\ pc = "write"
    /\ UNCHANGED <<envDir, lib, world>>
    /\ \/ /\ toml' = Toml(mem)
          /\ NoFault
          /\ CASE job.after = "source" -> Go("source", [job EXCEPT !.s = @ + 1])
               [] job.after = "deps" /\ job.deps -> Go("project", job)
               [] job.after = "rewrite" -> Go("trunc", [job EXCEPT !.after = "return"])
               [] OTHER -> Return("ok")
       \/ /\ Fault /\ Return("error") /\ toml' \in CutShort(mem)

Merge ==
    /\ pc = "merge"
    /\ mem' = MergeLock(mem, job.lock)
    /\ pc' = "trunc"
    /\ job' = [job EXCEPT !.after = "return"]
    /\ UNCHANGED <<disk, world, faults, outcome>>

-----------------------------------------------------------------------------
(* `del_project_version` and `del_uri` *)

\* The positions to remove, ascending.
Doomed ==
    LET all == {k \in DOMAIN mem : HasId(mem[k], job.id)}
        S == IF job.all THEN all
             ELSE IF Existing THEN {Position(mem, job.id, job.version)} ELSE {}
    IN CHOOSE q \in [1 .. Cardinality(S) -> S] : \A a, b \in DOMAIN q : a < b => q[a] < q[b]

\* The directory of the next doomed entry is deleted, errors ignored; a
\* workspace project is an assertion failure.
Clean ==
    /\ pc = "clean"
    /\ UNCHANGED <<envDir, toml, world>>
    /\ LET n == Len(job.todo) + 1
           e == mem[Doomed[n]]
           next == [job EXCEPT !.todo = Append(@, Doomed[n])]
       IN \/ /\ n > Len(Doomed) /\ Go("drop", job) /\ UNCHANGED lib /\ NoFault
          \/ /\ n <= Len(Doomed) /\ e.member /\ Return("panic") /\ UNCHANGED lib /\ NoFault
          \/ /\ n <= Len(Doomed) /\ ~e.member /\ e.editable /\ Go("clean", next)
             /\ UNCHANGED lib /\ NoFault
          \/ /\ n <= Len(Doomed) /\ ~e.member /\ ~e.editable /\ Go("clean", next)
             /\ \/ lib' = [lib EXCEPT ![e.path.name] = "nothing"] /\ NoFault
                \/ Fault /\ \E c \in {lib[e.path.name], "partial"} :
                                lib' = [lib EXCEPT ![e.path.name] = c]

\* The list is written by the removal and once more by the command; a version
\* that is not there is only written by the command.
Drop ==
    /\ pc = "drop"
    /\ mem' = DropAll(mem, job.todo)
    /\ pc' = "trunc"
    /\ job' = [job EXCEPT !.after = IF job.todo = <<>> /\ ~job.all THEN "return" ELSE "rewrite"]
    /\ UNCHANGED <<disk, world, faults, outcome>>

-----------------------------------------------------------------------------

\* A kill during the move or the deletion leaves the directory in any state of
\* it, a kill during the write a file cut short.
Killed ==
    /\ pc # "idle"
    /\ Fault
    /\ Return("killed")
    /\ UNCHANGED <<envDir, world>>
    /\ IF pc = "write" THEN toml' \in CutShort(mem) ELSE UNCHANGED toml
    /\ CASE pc = "move" ->
                \E c \in {lib[Target.name], job.staged, "nothing", "partial"} :
                    lib' = [lib EXCEPT ![Target.name] = c]
         [] pc = "clean" /\ Len(job.todo) < Len(Doomed) /\ ~mem[Doomed[Len(job.todo) + 1]].editable ->
                \E c \in {lib[mem[Doomed[Len(job.todo) + 1]].path.name], "partial"} :
                    lib' = [lib EXCEPT ![mem[Doomed[Len(job.todo) + 1]].path.name] = c]
         [] OTHER -> UNCHANGED lib

\* Somebody changes what a site serves.
SiteChanges ==
    /\ changes < user.MaxChanges
    /\ changes' = changes + 1
    /\ \E a \in Sites : \E c \in Builds \ {site[a]} : site' = [site EXCEPT ![a] = c]
    /\ UNCHANGED <<disk, mem, pc, job, outcome, faults, user>>

Step ==
    \/ BeginEnv \/ BeginSync \/ BeginInstall \/ BeginUninstall
    \/ Mkdir \/ CreateToml \/ CreateWrite
    \/ SyncProject \/ SyncSource \/ Check
    \/ Put \/ MoveToLib \/ Record \/ Trunc \/ Write \/ Merge
    \/ Clean \/ Drop

Next == Step \/ Killed \/ SiteChanges

Spec == Init /\ [][Next]_vars

-----------------------------------------------------------------------------
(* Properties *)

Listed == {toml.val[k] : k \in {j \in DOMAIN toml.val : ~toml.val[j].editable}}

\* As long as nothing failed, between commands lib/ is what env.toml says: every
\* directory belongs to an installed project, and the checksum recorded for a
\* project is that of its directory, as `has_version_verified` relies on.
LibAsListed ==
    pc = "idle" /\ faults = 0 =>
        /\ \A n \in LibNames : lib[n] # "nothing" => \E e \in Listed : e.path.name = n
        /\ \A e \in Listed : e.sum # NoSum => lib[e.path.name] = e.sum.build

\* Two installed projects never have the same directory, and no identifier and
\* version stand for two of them, whatever fails or is killed.
OneDirectoryEach ==
    \A j, k \in DOMAIN toml.val :
        LET e == toml.val[j]  f == toml.val[k]
        IN ~e.editable /\ ~f.editable /\ j # k =>
            /\ e.path.name # f.path.name
            /\ e.version = f.version => \A id \in Iris : ~(HasId(e, id) /\ HasId(f, id))

\* A command changes the directory of a listed project only if the project has
\* the identifier the command is about, even when it fails.
OthersUntouched ==
    [][\A e \in Listed : lib'[e.path.name] # lib[e.path.name] => HasId(e, job.id)]_vars

\* The write that ends a sync.
SyncReturnsOk == pc = "write" /\ job.lock # <<>> /\ pc' = "idle" /\ outcome' = "ok"

\* A lookup of P in the entries leads to a directory with a build that P locks.
InstalledAs(P, entries, dirs) ==
    \E k \in DOMAIN P.ids :
        /\ Found(entries, P.ids[k], P.version)
        /\ LET e == Find(entries, P.ids[k], P.version)
           IN ~e.editable /\ \E s \in DOMAIN P.sources : dirs[e.path.name] = P.sources[s].build

\* A sync that succeeds has populated the environment: whatever the lock takes
\* from an archive or a source directory is there with the locked contents.  It
\* is so when nothing failed before, and when the sync is repeated until it
\* succeeds, whatever failed and changed in between.
SyncOkMeansInstalled ==
    [][SyncReturnsOk /\ (faults = 0 \/ user.perseveres) =>
        \A k \in DOMAIN job.lock :
            LET P == job.lock[k]
            IN \/ ProvidedIds(P) # {}
               \/ \E s \in DOMAIN P.sources : P.sources[s].kind \in {"editable", "git"}
               \/ InstalledAs(P, toml'.val, lib')]_vars

\* The same for the projects the lock marks editable, as long as nothing failed:
\* outside lib/, env.toml lists each of them once and no others, whatever was
\* editable before.  A lookup leads to the directory the user edits unless an
\* entry below lib/ has the identifier and the version: `merge_lock` keeps those,
\* before the editable ones, and `find_project_version` returns the first.
SyncOkMeansEditable ==
    [][SyncReturnsOk /\ faults = 0 =>
        LET locked == SelectSeq(job.lock, LAMBDA P : IsEditable(P) /\ ~IsInstalled(EditableEntry(P)))
            kept == SelectSeq(toml'.val, IsInstalled)
        IN /\ SelectSeq(toml'.val, LAMBDA e : ~IsInstalled(e))
                = [k \in DOMAIN locked |-> EditableEntry(locked[k])]
           /\ \A k \in DOMAIN locked : \A i \in DOMAIN locked[k].ids :
                LET id == locked[k].ids[i]  v == locked[k].version
                IN /\ Found(toml'.val, id, v)
                   /\ Found(kept, id, v) \/ Find(toml'.val, id, v) = EditableEntry(locked[k])]_vars

\* `put_project` is only asked to overwrite projects that are installed: its
\* assertions hold, and so do those of the removal.
NoPanic == outcome # "panic"

=============================================================================
