# Formal models of sysand

TLA+ models, TLC runs and TLAPS proofs for [sysand](../src/README.md), the package
manager for SysML v2 and KerML. The models are translated from the Rust sources under
`src/`; `PROJECT.json` maps every definition to the lines it stands for.

## The system

A project is a directory or a `.kpar` archive with `.project.json`, `.meta.json` and
sources. Its usages are resolved to versions, recorded in `sysand-lock.toml`, and
installed into `.sysand`. Archives are published in an *index*: a tree of static files.

| Part | State | Operations that change it | What is hard |
|---|---|---|---|
| Index tree (`core/src/commands/index`) | `index.json`, `versions.json` per project, a directory per version | `index init`, `add`, `yank`, `remove` | several files per command, overwritten in place, no lock, kills and I/O errors between any two |
| File moves (`core/src/env/local_directory/utils.rs`) | paths, a temporary directory | `try_move_files` | rollback of rollback, sources that are destinations, devices |
| Local environment (`core/src/env/local_directory`, `commands/env`, `commands/sync.rs`) | `.sysand/env.toml`, `.sysand/lib/`, the list in memory | `env`, `env install`, `env uninstall`, `sync` | directory and list change in different steps; checksums are trusted later; editable and installed projects with one identifier |
| Lock (`commands/lock.rs`, `lock.rs`) | `sysand-lock.toml`, a work list | `lock`, canonicalisation | deduplication by first identifier, sorting afterwards, collisions |
| Solver (`solve/pubgrub.rs`) | candidate cache, version sets | `choose_version`, `get_dependencies` | versions are positions in a list that must be stable |
| Resolvers (`resolve/`) | iterators over candidates | combined, priority, sequential, remote, file, memory, env | order, duplicates, errors of one of several |
| Index client (`env/index.rs`, `env/discovery.rs`) | discovery cell, versions cache | fetch, validate, cache | concurrent fetches, a tree that changes between two requests |
| Downloads and archives (`project/`) | once-cells, temporary files | download, extract, clone | single flight, retry, half-made files |
| Editing commands (`commands/{init,add,remove,include,exclude}.rs`) | `.project.json`, `.meta.json`, `sysand.toml` | the commands | one step of several failing, rollback |
| Build, publish, authentication | archive file, one request | the commands | clean-up on error, re-read of a validated file |
| Discovery of projects and workspaces | current path | the walk | termination |

The parts meet in files: `index add` writes what the index client reads; `lock` writes
what `sync` reads; `sync` writes what every later command reads as the environment.

## Modules

| Module | Models |
|---|---|
| `IndexTree`, `MCIndexTree` | the four index commands, one action per file-system step, any number of processes; the symmetry of the processes for TLC |
| `IndexTreeInv` | the inductive invariants of the index tree |
| `IndexTreeProofs` | the theorems about any number of commands at once |
| `IndexTreeSerial` | the theorems about commands that run one at a time, among them that they implement `IndexProtocol` |
| `IndexTreeHistory` | a history variable for the persistence of versions |
| `IndexProtocol` | the rules of `design/index-protocol.md` as an abstract specification |
| `IndexTreeRefinement` | the mapping from the tree to the protocol |
| `MoveContract` | what `try_move_files` promises, in one step |
| `TryMove` | its six loops, one action per `move_fs_item` |
| `TryMoveProofs` | the theorems about it, among them that it implements `MoveContract` |
| `LocalEnv`, `MCLocalEnv` | the local environment and its commands, one action per file-system step; lockfiles, sites and users for TLC |
| `IndexClient`, `MCIndexClient` | the client of an index: discovery, cache of versions, files of a version, used by concurrent tasks; the server keeps the rules of `IndexProtocol` |
| `IndexClientProofs` | the theorems about it with any number of tasks |
| `HttpAuth` | which requests are tried with which credentials, and which response is used |
| `ProjectAccess`, `MCProjectAccess` | downloaded archives, local archives, git checkouts and projects read over HTTP, used by concurrent tasks; extends `HttpAuth` |
| `ProjectAccessProofs` | the theorems about it with any number of tasks |
| `VersionSets`, `VersionSetProofs` | the sets of positions the solver calculates with, and their laws |
| `Resolvers` | what each resolver, and their combination, finds for an IRI |
| `Solver` | candidates, constraints, choice of versions: what sysand tells PubGrub |
| `LockFile` | entries of the lockfile, canonical order, writing and reading |
| `Lock`, `MCLock` | the lock command, composed of the four above |
| `ProjectMeta` | files and their states; the operations on `.meta.json` |
| `ProjectFiles` | the operations on `.project.json` and `sysand.toml`; extends `ProjectMeta` |
| `ProjectEdit`, `MCProjectEdit` | the editing commands, run by several processes |
| `ProjectEditProofs` | the theorems about them with any number of processes, files and commands |
| `KparBuild` | the checks and the contents of an archive that is built; extends `ProjectMeta` |
| `Publish` | the checks before an upload, the token, the answer; extends `HttpAuth` |
| `Release`, `MCRelease` | build and publish side by side, composed of the two above |
| `ReleaseProofs` | the theorems about them with any number of projects, builds and uploads |

Definitions marked *Faulty variant* are what a plausible bug would make of the definition
that follows; each property of a passing run is violated when one of them takes its place.

### Index tree

A file is a record: a kind (absent, empty, garbled, JSON) and the value. An empty file
reads as the default value, as in `open_json_file`; `overwrite_file` is two steps,
truncation and write. `build` stands for the bytes of an archive with its size, digest and
usages. Versions are numbers, ordered as their precedence. `add` opens `index.json`, opens
or creates `versions.json`, sorts, checks and inserts, makes the directory, writes three
files, and overwrites `versions.json` and, for a new project, `index.json`. `remove` marks,
writes and deletes version by version. `Fault` is an I/O error (with the clean-up the code
attempts) or a kill at the current step. Four specifications share the actions: `Spec`
(everything), `SerialSpec` (one command at a time, with failures), `CleanSpec` (one at a
time, without failures, with weak fairness of the steps of a running command: a running
command does take its next step) and `SharedSpec` (`init`, `add` and `yank` overlap freely and may
fail, `remove` starts when nothing runs and keeps the others out).

### File moves

`fs` maps paths and the names of the temporary directory to what is there: the item that
was at path *p* at the call is called *p*; `remote` holds the paths on another device than
the temporary directory, any set of them. Across devices a move is a copy and a
deletion; `Broken` has what an error may leave of it. Renaming a directory, and copying
one, refuses a place that is taken; a file is replaced. The temporary directory is deleted
at every return. The contract is refined by hiding the paths until the call returns.

### Local environment

`toml` and `lib` are the disk, `mem` the list in memory, `job` the local variables of the
command. A *build* stands for the contents of a project, and a checksum is the build it was
computed from, with its kind. `put_project` is five steps: the copy to a temporary
directory, the move to `lib/` (as `MoveContract` has it), the new entry, the truncation of
`env.toml`, and the write; a write that is cut short leaves a file that does not parse or
one that lost its tail. Local and remote source directories and local archives are read
once for the checksum and again for the copy; downloaded archives are read once. `sync`
walks the lock, skipping what is provided or verified, and ends with `merge_lock`.
`env uninstall` deletes directories, then entries, then writes twice.

### Index client

`project`, `entry` and `served` are the index as in `IndexProtocol`, whose steps the server
takes at any time; `endpoints` and `versions_cache` are the two caches. A fetch is a request
(without the lock of the cache), the validation, and the insertion, which keeps what another
task inserted meanwhile. A task that finds the discovery under way waits; when it fails,
one that waits starts it again. Requests fail, or a server
sends a list out of order; every list is validated before it is used.

### Project access

One project object and the tasks that use it. `cell` is the once-cell of the download: a
download is one action per request and per chunk, and the tasks that need it meanwhile wait.
The expected size and digest come from the index or the lock. An *archive* is its
identity, its size, and the files it has. Every HTTP request is the sequence of attempts of
`HttpAuth`; each credential may get its own status for an object, 404 included. A project read over HTTP is
one request per file, `.project.json` and `.meta.json` first, and either may be malformed. A local archive is opened again by every call, and sources are extracted to a
file that counts as complete once it exists. A checkout is external (gix): it succeeds, or
fails and leaves nothing.

### Lock

A *site* says in which ways an IRI can be found: by scheme, in the environment, in a list of
indexes, as an override, as a standard library. `Resolvers` computes outcome and list of items
as the code does: which resolver is asked, what an error of one of several does, where local
copies take the place of remote projects. `Solver` filters the invalid items, caches the
candidates of an IRI, and turns usages into sets of positions. PubGrub is external: `Lock` lets it
decide an undecided package at a time, with the version `choose_version` returns, learn
that a partial decision cannot be extended, and jump back; `NoSolution` when nothing is left. The priority is
the code's: packages without a constraint first, then those with the fewest positions left. The walk over the solution is in any order, as that of a
hash map is. Usages are sets, identifiers numbers, so that they can be sorted.

### Editing a project

Every file is absent, empty, torn, or holds a value. Each command is the sequence of its reads and
writes; a write is the truncation and the text. A read, the truncation, the text or the removal of
`sysand.toml` may fail, and the command may crash at any step: an interrupted text leaves the file empty,
torn, whole but for the newline or, in the configuration, cut between two tables. What a command does about
the error is `Broken`: `add` restores `.project.json` when the lockfile cannot be written, and nothing is retried.
Digests are modelled by the set of symbols of the text that was digested. The resolution
inside `add` is the content of the lockfile (usages and their sources), or fails; the
modules of `Lock` have the rest.

### Build and publish

The user edits; a builder reads `.project.json`, then `.meta.json`, creates the archive, adds a file at a time, adds
metadata and texts, and may fail or be killed at any step; after an error it removes the archive, and
that may fail too. `left` names the archives whose last build was killed or could not remove them. A publisher reads the project
from the archive, checks the entries, reads the bytes again, discovers the API, gets a token and uploads.
What the server does with an upload and whether the answer arrives is free.

## Runs

| Run | Shows | Bounds |
|---|---|---|
| `index_serial` | with failures and kills, one command at a time: live entries have their files, removed projects have no live version, `add` that succeeds has published | 1 project, 2 versions, 2 builds |
| `index_clean` | refinement of the protocol, sortedness, that what is retired is withdrawn, and that commands end | 1 project, 3 versions, 2 builds |
| `index_concurrent` | three commands at once, with failures and kills, never mix two archives in a directory while removals run alone | 1 project, 1 version, 2 builds, 3 processes |
| `index_lost_versions` | counterexample, see Findings | the smallest that has it |
| `move` | nothing is lost, single errors are undone on one device, the contract is implemented | 3 paths on any devices, all calls with up to 2 pairs, 2 errors; directories |
| `env` | without failures: `lib/` is what `env.toml` says, sync lists the editable projects of the lock, and a lookup finds them unless something below `lib/` has the identifier and version; with two failures anywhere: no shared directories, others untouched; a repeated sync of archives installs the lock although sites change and things fail | 4 identifiers with one file name, 3 builds of 2 versions, fewer than 5 entries; four users: 6 locks without failures, 3 locks that make installed projects editable, 2 locks with 2 failures, 2 locks of archives with 2 failures and 1 change |
| `env_switch` | counterexample, see Findings | no failures |
| `client` | what is cached is valid and from one root; a version that was offered can be opened, by any task; every call returns | 1 project, 2 versions, 2 tasks, 3 discovery documents, 2 changes, 1 failure |
| `access` | one transfer at a time, verified before use; answers agree; the response follows the documented policy; a retry after an error succeeds | 11 objects, 3 archives, 2 tasks, 2 credentials, 1 change, 1 failure |
| `lock` | usages satisfied, best choice, canonical lockfile, refused on reading in one case only; local copies substitute or come last; lock ends | 3 identifiers found in 5, 7 and 5 ways, 6 roots, 1 new version, 1 failure |
| `edit` | consistency of `.meta.json`, no duplicate usages, failures take back, the lock has the sources of the configuration | 2 processes, 2 commands, 2 files, 1 edit, 1 crash or failure |
| `release` | archives consistent, accepted by publish's checks, torn only where a build was killed or could not clean up; uploads were checked | 2 projects, 3 ways to build, 1 edit, 1 build, 1 publish, 1 kill |

One project suffices for most index properties since a command touches one project
directory and one entry of `index.json`. Two versions and two
builds are what it takes for a list to have an order and for a directory to mix archives; three
processes are the least with which an overlapping `remove` would mix them.
Two pairs and three paths give swaps, chains and shared paths. In the environment all
identifiers get the same file name for a version, so that every installation competes for
names; two failures allow one to leave something behind and one to hit the repair.
`MaxEntries` only refuses to start a `sync` or `env install` on a longer list. Two tasks make the races
of the client and of the downloads; a third would only repeat the part of the second. Three
identifiers are the least for a conflict between the usages of two that makes the solver turn back.
Two commands in two processes overlap, or follow one another with the effects of the first.
One build beside one publish is enough to replace an archive between its check and its upload.

Deadlock is checked except in `move`, `edit` and `release`, where the calls, the commands, or
the budget of commands, end.

### Fairness

`index_clean`: a running command takes its next step. `client` and `access`: a request is
answered or breaks, and a task that can go on does (the executor polls woken tasks);
a task that waits for a once-cell gets its turn, also when others come and go, since the cell
queues its waiters first in, first out (strong fairness of `Wake`). Nothing
is assumed of the tasks that are idle or of the server's changes. `lock`: unless lock is over, its own
steps go on happening; a version published or a request that fails is never required.
`edit`, `release`, `env` and `move` claim no liveness and assume no fairness.

### Findings

`PROJECT.json` quotes for each the sentence of the repository that the code disagrees with.

* `index_lost_versions`: a kill between truncation and write of `versions.json`, and the
  next `add` writes a list with its own version only.
* `env_switch`: an editable project locked to an archive of the same version: a panic.

Met while modelling and without a run of their own; the properties of the passing runs
claim nothing of these cases (the hazards of `PROJECT.json` have the lines of most):

* Index: overlapping `index add` commands lose a project of `index.json`; a `remove` that overlaps
  two `add` commands of one version empties the directory of the first, lets the second make it again, and
  the two then write into it together (hence `SharedSpec`); `index add` says "no
  files changed" and leaves a new, empty `versions.json`; an interrupted `remove` is not
  completed by running it again, since entries already marked are skipped.
* Moves: across devices, a half-made copy of a directory is in the way of the recovery, and that
  of a file is restored over the intact original.
* Environment: `put_project` that fails after the move leaves new contents under the old
  checksum; an installed copy shadows the editable project that replaces it in the
  lock, and an editable project below `lib/` is listed once more by every sync (the conditions of `SyncOkMeansEditable`; the run has both); a git checkout that
  returns to a listed version is copied to an unlisted directory.
* Access: after a failed extraction, later readers of the source get an empty or cut file.
* Lock: `CachedProject::sources` unwraps the result of a remote that makes requests;
  one candidate with a usage that cannot be resolved, or that no version
  satisfies, ends the search also when another candidate would do; for a usage with a constraint
  the first candidate in resolver order is taken, without one the highest version; the remote
  resolver says `Resolved` for an empty result; items that become invalid later are still yielded by the combined resolver.
  A workspace project that uses, itself or through others, one of its own identifiers, not the first in the list but the first
  when sorted, is locked twice: the lockfile cannot be read back, and a build with debug assertions panics before
  writing it (the exception in `LockReadsBack`, which the run reaches).
* Editing: `add` that fails writes back the whole text it had read, and with it undoes what others
  did meanwhile; its configuration, lockfile and environment stay changed. `remove` changes the
  configuration before it may fail and does not lock. A crash or an error while `.project.json` is written, also while `add` restores it,
  makes every later command fail; `FailureKeepsProject` claims only the other file then. `init` beside a lone `.meta.json` creates `.project.json` and then
  fails (the exception in `FailureKeepsProject`). `add` with a source writes it to the first table of
  `sysand.toml` that names the IRI, and so for every IRI of that table, while its own lock follows the last
  one: the two agree when the IRI has no table or one of its own (the condition of `LockIsCurrent`).
* Release: an error before the archive is created deletes an older archive of that name; when the removal after an
  error fails, the cut archive stays and only a debug message says so; the
  name and the contents come of two reads of `.project.json`; the bytes uploaded are read again after
  the checks; an upload whose answer is lost is reported as an error though it may have been accepted.

## Proofs

`IndexTreeProofs` and `IndexTreeSerial` prove, for every set of projects, versions, builds and processes that
satisfies the assumptions of `IndexTree` (non-empty sets, versions are naturals, builds
are not the words for a missing or partial file):

* `TypeCorrect` and `AlwaysNewestFirst`: from `BaseInv`, which adds to the types that the
  list each process is about to write is itself strictly descending. Without it the write
  of a list could not be shown to keep the file sorted. `SortedList`, `InsertedList` and
  `RestatusedList` are the facts about sorting, insertion and change of status.
* `ArchivesNeverMix`, of `SharedSpec`: from `SharedInv`, that one `add` at most is at the files of a
  directory and that the directory then holds only what that one has copied (`OneCopier`), which
  `create_dir` establishes and only a removal could undo (`RemovalsAlone`).
* `SerialInvariant`, `ListedVersionsHaveFiles`, `RemovedProjectsAreEmpty`, of `SerialSpec`: from
  `SerialInv`, which adds that at most one command runs (`Exclusive`), which command is at
  which step, that the list about to be written describes files that are there except those
  `add` is still copying (`WritableList`), how far `add` and `remove` have come
  (`AddProgress`, `RemoveProgress`), and what `index.json` is about to say
  (`IndexProgress`). They hold with I/O errors and kills at every step.
* `AddOkIsPublished`, of `SerialSpec`: an action property, from `SerialInv` and `PublishInv`, that an `add` has
  its own entry in the list it is to write and its project in `index.json`, or is about to put it there.
* `CommandsKeepThePromise`, of `CleanSpec`: the refinement of `IndexProtocol`. A file that is being
  overwritten stands for what will be written, so that the truncation is the step that lists, yanks or
  retires, and the write stutters; the copy of the last of three files is the upload, the deletion of
  the first one the withdrawal. That each of these is allowed by the protocol needs `CleanInv`: what a command
  has in hand differs from the disk by its own change and nothing else (`InHand`), which is where commands that fail
  half way, or overlap, break the promise. The lemmas `Mapped...` have one action each.

`VersionSetProofs` proves, for all positions, that the operations on the solver's version
sets mean what their names say (`MembersOfOperations`), stay within the sets that can be represented
(`OperationsAreSets`), and that equality of the representations is equality of the
sets (`EqualityIsExtensional`, which needs that a finite set leaves a position out).
PubGrub relies on all three.

`TryMoveProofs` proves, for any set of paths, any number of pairs, any devices and any number
of I/O errors, of calls that move directories:

* `NothingIsLost` and `MoveImplementsContract`: from `MoveInv`, which says for each of the six
  loops, of every pair, whether its source and its target are at their own places, in the
  temporary directory, or already moved on. That is what makes the undo loops find what they put back. The
  contract follows since every return is one of its three outcomes.
* `SingleFaultsAreUndone`: from `FaultInv`, which adds, for calls on one device, that after the only
  error the places an undo loop moves to are free, so that none of its moves fails.

They assume `Directories = TRUE`: a file silently replaces what is at its new place, and the
findings have what comes of it. The names in the temporary directory are not paths
(`PathsAssumption`).

`ProjectAccessProofs` proves, for any number of tasks, archives, credentials, changes and failures,
`TransfersAreExclusive`, `ExposedArchivesAreVerified`, `AnswersNeverDisagree` and `ResponsesAreAsDocumented`, the first three from
`AccessInv`: a task that transfers holds the cell (else a second could start), a cell that is set
holds what was expected at its whole length, and every answer and every extracted file is
of the archive in the cell or, before it is set, of the one that is expected. The last needs
`AttemptInv`: every earlier attempt of a request was refused, and the answer to fall back on is kept.

`IndexClientProofs` proves, for any number of tasks, projects and versions and any changes of the
server, `ReadsComeFromOneRoot`, `OfferedVersionsCanBeOpened` and `CachedListsAreValid`, from `ClientInv`: one task at most
discovers (else the failure of a second could empty a cell that others have read), tasks with a
request under way use the root in the cell, what is about to be inserted was validated, and each answer
is what the document cached for its project says. Since that document is never replaced, and
lists a version once (`CandidateStatus`), no two answers can disagree. `CachedListsAreValid` also needs
`ListInv` (what is fetched or cached was listed by the server with that archive) and `EntryInv` (an entry of
the server keeps its archive); the validation compares neighbours, and that this orders the whole list is
proved by taking the first position at which it would fail (`LeastElement`).

`ReleaseProofs` proves, for any number of projects, files, edits, builds, uploads and kills,
`TornArchivesWereLeft`, `BuildsAreConsistent`, `BuildsPassThePublishChecks` and
`AcceptedUploadsWereChecked`, from `ReleaseInv`. It adds three things. An archive that is being written
(`InProgress`) has right digests for the files it has so far, and an entry of a kept index either agrees with
its file or names one still to be added, which is then compared. A torn archive is the one the
running build will finish or try to remove, or one that is in `left`. And publish, unless a build has replaced the archive since, holds
what it has checked (`Checked`). The proofs assume the shape of metadata and archives, that no archive is torn at
the start and that a workspace has projects (`FilesAssumption`), and that a `file:` URL is neither a `pkg:`
identifier nor a standard library (`UsagesAssumption`).

`ProjectEditProofs` proves, for any number of processes, files, commands, edits, crashes and failed reads and writes:

* `IndexWithinChecksumsHolds`, `IndexAgreesWithDigestsHolds` and `NoDuplicateUsagesHolds`: from `FilesInv`, that
  not only the files on disk but also everything a running command holds in memory, to write back later over
  whatever others have done, and every part of it that an interrupted write may leave, has the property. The rest are lemmas on the operations on
  `.project.json` and `.meta.json`.
* `FailureKeepsProjectHolds` and `LockIsCurrentHolds`, action properties: from `AloneInv`, which says for each step
  of a command that no other overlapped what it has changed since it began, file by file (`Progress`), and
  what `add` has kept for the restoration.

They assume that the files found at the start are missing, empty, torn, or such as the commands write
(`DisksAssumption`), and the shape of the requests (`RequestsAssumption`).

Only model-checked:

* `CommandsEnd`, `RetiredIsWithdrawn`, `CallsReturn`, `RetrySucceeds` and `LockEnds`: liveness under fairness,
  which the prover does not do.
* The properties of `Lock`: its modules compute lists of candidates and solutions with recursion and folds over
  data, and what those return for every input takes an induction that the prover cannot instantiate.
* The properties of `LocalEnv`: the free directory name and the position of an entry are such searches too.
* Moves of files, for which `NothingLost` is false.

## Not modelled

* Text formats, percent-encoding, version and IRI syntax, the extraction of symbols, logging,
  styling and argument parsing: string processing without state. The models start from what they compute.
* Read-only commands (`info`, `sources`, listings), the walk that finds projects and
  workspaces, the merge of configuration files: they change nothing, or only memory.
* `clone`: its directory checks and clean-up; the lock and sync it ends with are modelled.
* In-memory and null projects and environments: maps without failures, for tests and bindings.
* The bindings, which call the same functions, and the macros.
* Two commands on one environment at once: there is no lock, and nothing is promised.
* A write of `env.toml` that is cut inside an editable entry.
* The inner workings of PubGrub, of gix and of the HTTP middleware (its retries and redirects).
* Glob patterns for credentials (which ones match is a constant), and the size limit of publish.
