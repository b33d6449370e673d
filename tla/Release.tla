------------------------------ MODULE Release -------------------------------
(***************************************************************************)
(* Building and publishing, side by side: one process builds archives (of  *)
(* one project or of a whole workspace), another publishes one, the user   *)
(* edits the projects and their source files meanwhile, and the index      *)
(* server answers as it likes.  The builder may be killed.                 *)
(*                                                                         *)
(* A build reads each source file once, in an order that a hash set picks. *)
(* publish opens the archive anew for its info and meta, for its entries,  *)
(* and for the bytes it uploads.                                           *)
(***************************************************************************)
EXTENDS Publish, FiniteSets

CONSTANTS Proj,             \* projects, all in one workspace
          Infos,            \* initial [Proj -> info]
          Metas,            \* initial [Proj -> file with meta]
          Sources,          \* initial [Proj -> [path -> source file]]
          Texts,            \* initial [Proj -> README, CHANGELOG, licences there]
          Archives,         \* initial [name -> archive file]
          Contents,         \* what the user may put into a source file
          MetaEdits,        \* [Proj -> the files the user includes and excludes]
          NewVersions,      \* versions the user may set
          WorkspaceMetamodels,
          Order,            \* the projects in the order of the workspace
          BuildOptions,     \* [keepIndex, allowPath, compression]
          Urls,             \* index URLs and API roots
          Environments,     \* sets of CI variables
          Credentials,      \* credentials that match the upload URL
          Bearer,           \* those that are bearer tokens
          MaxEdits, MaxBuilds, MaxPublishes, MaxKills

ASSUME BoundsAssumption ==
    {MaxEdits, MaxBuilds, MaxPublishes, MaxKills} \subseteq Nat

\* Metadata and archives have these fields, and nothing else is said of them:
\* checksum and index are functions, and a checksum is an algorithm with a value.
IsSum(sum) == sum = [algorithm |-> sum.algorithm, value |-> sum.value]

IsMeta(m) ==
    /\ m \in [index : {m.index}, checksum : {m.checksum}, metamodel : {m.metamodel}]
    /\ \A path \in DOMAIN m.checksum : IsSum(m.checksum[path])

IsArchive(a) ==
    /\ a \in [info : {a.info}, meta : {a.meta}, files : {a.files}, texts : {a.texts},
              entries : {a.entries}]
    /\ IsMeta(a.meta)

\* No archive is torn at the start; a workspace has projects.
ASSUME FilesAssumption ==
    /\ \A m \in Metas : /\ m = [p \in Proj |-> m[p]]
                       /\ \A p \in Proj : m[p].st = "ok" => IsMeta(m[p].v[1])
    /\ \A a \in Archives : \A name \in DOMAIN a :
            /\ a[name].st # "torn"
            /\ a[name].st = "ok" => a[name].v = <<a[name].v[1]>> /\ IsArchive(a[name].v[1])
    /\ Order \in Seq(Proj) /\ Order # <<>>

\* A file: URL is neither a pkg: identifier nor a standard library.
ASSUME UsagesAssumption == LocalUsage \cap (Purl \cup DOMAIN StdLibs) = {}

VARIABLES info, meta, source, texts,    \* the projects
          archive,                      \* [name -> archive file]
          build,                        \* the building process
          pub,                          \* the publishing process
          uploads,                      \* what the server has accepted
          edits, builds, publishes, kills,
          replaced,                     \* the archive being published was written
          left                          \* the archives a build could not finish and
                                        \* could not remove either

vars == <<info, meta, source, texts, edits, archive, build, pub, uploads,
          builds, publishes, kills, replaced, left>>

NoBuild(result) ==
    [pc |-> "idle", queue |-> <<>>, options |-> <<>>, metamodel |-> None, name |-> <<>>,
     info |-> <<>>, todo |-> {}, out |-> <<>>, result |-> result]

NoPublish(result) ==
    [pc |-> "idle", name |-> <<>>, info |-> <<>>, meta |-> <<>>, bytes |-> <<>>,
     token |-> None, result |-> result]

Init ==
    /\ info \in Infos /\ meta \in Metas /\ source \in Sources /\ texts \in Texts
    /\ archive \in Archives
    /\ build = NoBuild("none") /\ pub = NoPublish("none")
    /\ uploads = {}
    /\ edits = 0 /\ builds = 0 /\ publishes = 0 /\ kills = 0
    /\ replaced = FALSE /\ left = {}

(***************************************************************************)
(* The user: saves a source file, sets the version, or runs include or     *)
(* exclude.                                                                *)
(***************************************************************************)
EditInfo ==
    /\ edits < MaxEdits
    /\ \E p \in Proj, version \in NewVersions :
        /\ info[p].version # version
        /\ info' = [info EXCEPT ![p].version = version]
    /\ edits' = edits + 1
    /\ UNCHANGED <<meta, source, texts, archive, build, pub, uploads, builds,
                   publishes, kills, replaced, left>>

EditSource ==
    /\ edits < MaxEdits
    /\ \E p \in Proj : \E path \in DOMAIN source[p], content \in Contents :
        /\ content # source[p][path]
        /\ source' = [source EXCEPT ![p][path] = content]
    /\ edits' = edits + 1
    /\ UNCHANGED <<info, meta, texts, archive, build, pub, uploads, builds,
                   publishes, kills, replaced, left>>

EditMeta ==
    /\ edits < MaxEdits
    /\ \E p \in Proj : \E path \in MetaEdits[p] :
        /\ meta[p].st = "ok"
        /\ \/ /\ source[p][path].st = "ok"
              /\ \E compute, index \in BOOLEAN :
                    meta' = [meta EXCEPT ![p] = Holds(IncludeFile(
                        @.v[1], path, source[p][path].symbols, compute, index))]
           \/ /\ Excludable(meta[p].v[1], path)
              /\ meta' = [meta EXCEPT ![p] = Holds(ExcludeFiles(@.v[1], {path}))]
    /\ edits' = edits + 1
    /\ UNCHANGED <<info, source, texts, archive, build, pub, uploads, builds,
                   publishes, kills, replaced, left>>

(***************************************************************************)
(* build                                                                   *)
(***************************************************************************)
BuildRest == UNCHANGED <<info, meta, source, texts, edits, pub, uploads, publishes>>

Project == Head(build.queue)

\* `sysand build' in a project, or in a workspace.
StartBuild ==
    /\ build.pc = "idle" /\ builds < MaxBuilds
    /\ \E options \in BuildOptions :
        \E queue \in {<<p>> : p \in Proj} \cup {Order} :
        \E metamodel \in IF Len(queue) = 1 THEN {None} ELSE WorkspaceMetamodels :
            build' = [NoBuild("none") EXCEPT
                        !.pc = "read", !.queue = queue, !.options = options,
                        !.metamodel = metamodel,
                        !.name = KparName(info[Head(queue)])]
    /\ builds' = builds + 1
    /\ BuildRest /\ UNCHANGED <<archive, kills, replaced, left>>

\* get_project reads .project.json and then .meta.json.
ReadInfo ==
    /\ build.pc = "read"
    /\ build' = [build EXCEPT !.pc = "meta", !.info = <<info[Project]>>]
    /\ BuildRest /\ UNCHANGED <<archive, builds, kills, replaced, left>>

\* The rest of what comes before File::create.
ReadMeta ==
    LET read == meta[Project]
        usable == WithMetamodel(read.v[1], build.metamodel)
    IN  /\ build.pc = "meta"
        /\ build' =
            IF \/ read.st # "ok"
               \/ PathUsage(build.info[1]) /\ ~build.options.allowPath
               \/ MetamodelConflict(read.v[1], build.metamodel)
            THEN [build EXCEPT !.pc = "cleanup"]
            ELSE [build EXCEPT !.pc = "create", !.todo = SourcePaths(usable),
                    !.out = <<NewArchive(build.info[1], usable, build.options)>>]
        /\ BuildRest /\ UNCHANGED <<archive, builds, kills, replaced, left>>

CreateArchive ==
    /\ build.pc = "create"
    /\ archive' = [archive EXCEPT ![build.name] = Torn]
    /\ replaced' = (replaced \/ (pub.pc # "idle" /\ pub.name = build.name))
    /\ build' = [build EXCEPT !.pc = "files"]
    /\ BuildRest /\ UNCHANGED <<builds, kills, left>>

\* One source file; a build with --keep-index compares the symbols.
ArchiveFile ==
    /\ build.pc = "files" /\ build.todo # {}
    /\ \E path \in build.todo :
        LET file == source[Project][path]
        IN  build' =
            IF file.st # "ok" \/
               (build.options.keepIndex /\ MissingIndexSymbol(build.out[1], path, file.symbols))
            THEN [build EXCEPT !.pc = "cleanup"]
            ELSE [build EXCEPT !.todo = @ \ {path},
                    !.out = <<AddFile(@[1], path, file.symbols, build.options)>>]
    /\ BuildRest /\ UNCHANGED <<archive, builds, kills, replaced, left>>

\* The texts, .project.json and .meta.json, and the end of the archive; a
\* workspace goes on with its next project.
FinishArchive ==
    LET rest == Tail(build.queue)
    IN  /\ build.pc = "files" /\ build.todo = {}
        /\ archive' = [archive EXCEPT ![build.name] =
                            Holds(AddTexts(build.out[1], texts[Project]))]
        /\ replaced' = (replaced \/ (pub.pc # "idle" /\ pub.name = build.name))
        /\ build' = IF rest = <<>> THEN NoBuild("ok")
                    ELSE [build EXCEPT !.pc = "read", !.queue = rest, !.out = <<>>,
                                       !.name = KparName(info[Head(rest)])]
        /\ left' = left \ {build.name}
        /\ BuildRest /\ UNCHANGED <<builds, kills>>

\* A file that cannot be created, read or written, at any point of the build.
FailToWrite ==
    /\ build.pc \in {"create", "files"}
    /\ build' = [build EXCEPT !.pc = "cleanup"]
    /\ BuildRest /\ UNCHANGED <<archive, builds, kills, replaced, left>>

\* Faulty variant: what was written stays.
CleanUpNothing ==
    /\ build.pc = "cleanup"
    /\ build' = NoBuild("failed")
    /\ BuildRest /\ UNCHANGED <<archive, builds, kills, replaced, left>>

\* do_build_kpar on any error, whether or not the archive was created.  When
\* remove_file fails there is a message, and the file stays.
CleanUp ==
    /\ build.pc = "cleanup"
    /\ \/ /\ archive' = [archive EXCEPT ![build.name] = Absent]
          /\ replaced' = (replaced \/ (pub.pc # "idle" /\ pub.name = build.name))
          /\ left' = left \ {build.name}
       \/ /\ left' = left \cup {build.name}
          /\ UNCHANGED <<archive, replaced>>
    /\ build' = NoBuild("failed")
    /\ BuildRest /\ UNCHANGED <<builds, kills>>

Kill ==
    /\ build.pc # "idle" /\ kills < MaxKills
    /\ build' = NoBuild("killed")
    /\ kills' = kills + 1
    /\ left' = left \cup {build.name}
    /\ BuildRest /\ UNCHANGED <<archive, builds, replaced>>

(***************************************************************************)
(* publish                                                                 *)
(***************************************************************************)
PublishRest == UNCHANGED <<info, meta, source, texts, edits, archive, build, builds, kills,
                         left>>

Refuse == pub' = NoPublish("failed")

StartPublish ==
    /\ pub.pc = "idle" /\ publishes < MaxPublishes
    /\ \E name \in DOMAIN archive, url \in Urls :
        pub' = IF archive[name].st # "absent" /\ ValidateEndpointUrlShape(url)
               THEN [NoPublish("none") EXCEPT !.pc = "project", !.name = name]
               ELSE NoPublish("failed")
    /\ publishes' = publishes + 1
    /\ replaced' = FALSE
    /\ PublishRest /\ UNCHANGED uploads

\* The root of the archive, get_project, and the checks that need no entry.
ReadArchiveProject ==
    LET file == archive[pub.name]
    IN  /\ pub.pc = "project"
        /\ IF /\ file.st = "ok"
              /\ CheckInfo(file.v[1].info)
              /\ CheckMetamodel(file.v[1].meta.metamodel)
           THEN pub' = [pub EXCEPT !.pc = "entries", !.info = <<file.v[1].info>>,
                                   !.meta = <<file.v[1].meta>>]
           ELSE Refuse
        /\ PublishRest /\ UNCHANGED <<uploads, publishes, replaced>>

ReadEntries ==
    LET file == archive[pub.name]
    IN  /\ pub.pc = "entries"
        /\ IF file.st = "ok" /\ CheckEntries(file.v[1], pub.info[1], pub.meta[1])
           THEN pub' = [pub EXCEPT !.pc = "bytes"]
           ELSE Refuse
        /\ PublishRest /\ UNCHANGED <<uploads, publishes, replaced>>

\* The file is read once more, whatever it is by now.
ReadBytes ==
    LET file == archive[pub.name]
    IN  /\ pub.pc = "bytes"
        /\ IF file.st = "absent" THEN Refuse
           ELSE pub' = [pub EXCEPT !.pc = "discover", !.bytes = file.v]
        /\ PublishRest /\ UNCHANGED <<uploads, publishes, replaced>>

\* fetch_index_config, then the token for the upload URL below the API root.
Discover ==
    /\ pub.pc = "discover"
    /\ \/ Refuse
       \/ \E url \in Urls, mode \in {"auto", "always", "never"}, env \in Environments,
             matching \in Credentials :
            LET from == ResolvePublishBearer(mode, env, matching, Bearer)
            IN  IF ~ValidateEndpointUrlShape(url) \/ from = "error" THEN Refuse
                ELSE pub' = [pub EXCEPT !.token = from,
                        !.pc = CASE from = "github" -> "oidc"
                                 [] from = "gitlab" -> "exchange"
                                 [] from = "config" -> "upload"]
    /\ PublishRest /\ UNCHANGED <<uploads, publishes, replaced>>

\* The runner's endpoint gives the provider's token, or an error.
AcquireGithubOidcToken ==
    /\ pub.pc = "oidc"
    /\ Refuse \/ pub' = [pub EXCEPT !.pc = "exchange"]
    /\ PublishRest /\ UNCHANGED <<uploads, publishes, replaced>>

ExchangeOidcToken ==
    /\ pub.pc = "exchange"
    /\ Refuse \/ pub' = [pub EXCEPT !.pc = "upload"]
    /\ PublishRest /\ UNCHANGED <<uploads, publishes, replaced>>

\* One request, never repeated.  It may fail before the server has it or
\* after the server has accepted it.
Upload ==
    LET entry == [info |-> pub.info, bytes |-> pub.bytes,
                  same |-> ~replaced]
    IN  /\ pub.pc = "upload"
        /\ \/ \E status \in UploadStatuses :
                /\ pub' = NoPublish(MapPublishResponse(status))
                /\ uploads' = IF status \in {200, 201} THEN uploads \cup {entry} ELSE uploads
           \/ /\ Refuse
              /\ uploads' \in {uploads, uploads \cup {entry}}
        /\ PublishRest /\ UNCHANGED <<publishes, replaced>>

Build ==
    \/ ReadInfo \/ ReadMeta \/ CreateArchive \/ ArchiveFile \/ FinishArchive
    \/ FailToWrite \/ CleanUp

Publishing ==
    \/ ReadArchiveProject \/ ReadEntries \/ ReadBytes \/ Discover
    \/ AcquireGithubOidcToken \/ ExchangeOidcToken \/ Upload

Next ==
    \/ EditSource \/ EditInfo \/ EditMeta
    \/ StartBuild \/ Build \/ Kill
    \/ StartPublish \/ Publishing

Spec == Init /\ [][Next]_vars

(***************************************************************************)
(* Properties                                                              *)
(***************************************************************************)
\* Every complete archive build leaves is consistent in itself, though the
\* user edits the files while it is being built: checksum covers exactly the
\* files in it and holds their digests, and the index names symbols that the
\* archived text of their file defines.
ArchiveConsistent(a) ==
    /\ DOMAIN a.meta.checksum = DOMAIN a.files
    /\ \A path \in DOMAIN a.files : a.meta.checksum[path] = Sha256(a.files[path])
    /\ \A s \in DOMAIN a.meta.index :
            a.meta.index[s] \in DOMAIN a.files /\ s \in a.files[a.meta.index[s]]

BuiltArchivesConsistent ==
    [][\A name \in DOMAIN archive :
            archive'[name].st = "ok" /\ archive'[name] # archive[name]
                => ArchiveConsistent(archive'[name].v[1])]_vars

\* The metadata is one publish accepts, with the default compression, the texts
\* of the licences and at least one file, all in the language of the metamodel.
Publishable(a) ==
    /\ CheckInfo(a.info) /\ CheckMetamodel(a.meta.metamodel)
    /\ a.entries = "deflated"
    /\ LicenseFiles(a.info.license) \subseteq a.texts
    /\ DOMAIN a.files # {}
    /\ \A path \in DOMAIN a.files : Language[path] = Metamodels[a.meta.metamodel].kind

\* Build and publish agree: a publishable archive that build leaves passes the
\* checks of publish, whatever else the project directory holds.
BuiltArchivesPass ==
    [][\A name \in DOMAIN archive :
            LET a == archive'[name].v[1] IN
            /\ archive'[name].st = "ok" /\ archive'[name] # archive[name]
            /\ Publishable(a)
            => CheckEntries(a, a.info, a.meta)]_vars

\* A half-written archive that no build is at work on is one whose own last
\* build was killed, or failed and then could not remove it (remove_file's error
\* is only logged).  No other error leaves one behind, neither in do_build_kpar
\* nor in do_build_workspace_kpars, where the archives of the other projects stay
\* whole; and a later build of the same archive mends it.
TornOnlyIfLeft ==
    \A name \in DOMAIN archive : archive[name].st = "torn" =>
        name \in left \/ (build.pc # "idle" /\ build.name = name)

\* What the server accepted is what publish checked, with the metadata of the
\* same archive, as long as no build wrote that archive meanwhile: one symbol
\* table that fits the text, the texts of the licences, usages others can
\* resolve, and files in the language of the metamodel.
AcceptedUploadsAreSound ==
    \A u \in uploads : u.same =>
        /\ u.bytes # <<>> /\ u.bytes[1].info = u.info[1]
        /\ u.bytes[1].entries = "deflated"
        /\ ArchiveConsistent(u.bytes[1])
        /\ LicenseFiles(u.info[1].license) \subseteq u.bytes[1].texts
        /\ \A i \in 1..Len(u.info[1].usage) :
                u.info[1].usage[i].resource \notin LocalUsage
        /\ \A path \in DOMAIN u.bytes[1].files :
                Language[path] = Metamodels[u.bytes[1].meta.metamodel].kind

=============================================================================
