------------------------------ MODULE Publish -------------------------------
(***************************************************************************)
(* What `sysand publish' demands of an archive, of the index URL and of    *)
(* the CI environment, and how it reads the answer, as pure operators.     *)
(***************************************************************************)
EXTENDS KparBuild, HttpAuth

CONSTANTS Purl,             \* resources that are pkg:sysand/ identifiers
          StdLibs,          \* [resource under the standard URLs -> [known, version]]
          Metamodels,       \* [IRI with a known prefix -> [kind, version]]
          SemVer,           \* versions that parse
          BuildMetadata,    \* versions that parse and carry build metadata
          Identifiers,      \* publishers and names that can be normalised
          Language          \* [path -> the language its extension stands for]

(***************************************************************************)
(* prepare_publish_payload                                                 *)
(***************************************************************************)
\* 20yymmxx.
IsValidMetamodelVersion(v) ==
    v \in 20000000..20999999 /\ (v \div 100) % 100 \in 1..12

CheckMetamodel(metamodel) ==
    /\ metamodel \in DOMAIN Metamodels
    /\ IsValidMetamodelVersion(Metamodels[metamodel].version)

CheckStdLib(usage) ==
    /\ StdLibs[usage.resource].known
    /\ IsValidMetamodelVersion(StdLibs[usage.resource].version)
    /\ usage.constraint = <<>>

CheckUsage(usage) ==
    IF usage.resource \in DOMAIN StdLibs THEN CheckStdLib(usage)
    ELSE usage.resource \in Purl

CheckInfo(info) ==
    /\ info.version \in SemVer \ BuildMetadata
    /\ \A i \in 1..Len(info.usage) : CheckUsage(info.usage[i])
    /\ info.publisher \in Identifiers /\ info.name \in Identifiers
    /\ info.license \in DOMAIN LicenseStems

\* Faulty variant: the digest is not compared.
CheckFileNoDigest(archive, meta, path) ==
    /\ Language[path] = Metamodels[meta.metamodel].kind
    /\ meta.checksum[path].algorithm = "SHA256"
    /\ path \in DOMAIN archive.files
    /\ FileIndexSymbols(meta, path) \subseteq archive.files[path]

\* One file named by `checksum'.
CheckFile(archive, meta, path) ==
    /\ Language[path] = Metamodels[meta.metamodel].kind
    /\ meta.checksum[path].algorithm = "SHA256"
    /\ path \in DOMAIN archive.files
    /\ meta.checksum[path].value = archive.files[path]
    /\ FileIndexSymbols(meta, path) \subseteq archive.files[path]

\* Faulty variant: the changelog is an unexpected file.
CheckEntriesNoChangelog(archive, info, meta) ==
    /\ archive.entries = "deflated"
    /\ LicenseFiles(info.license) \subseteq archive.texts
    /\ DOMAIN meta.checksum # {}
    /\ Range(meta.index) \subseteq DOMAIN meta.checksum
    /\ \A path \in DOMAIN meta.checksum : CheckFile(archive, meta, path)
    /\ DOMAIN archive.files \subseteq DOMAIN meta.checksum
    /\ archive.texts \subseteq LicenseFiles(info.license) \cup {Readme}

\* The entries of the archive against the info and meta read from it before.
CheckEntries(archive, info, meta) ==
    /\ archive.entries = "deflated"
    /\ LicenseFiles(info.license) \subseteq archive.texts
    /\ DOMAIN meta.checksum # {}
    /\ Range(meta.index) \subseteq DOMAIN meta.checksum
    /\ \A path \in DOMAIN meta.checksum : CheckFile(archive, meta, path)
    /\ DOMAIN archive.files \subseteq DOMAIN meta.checksum
    /\ archive.texts \subseteq LicenseFiles(info.license) \cup {Readme, Changelog}

(***************************************************************************)
(* The index URL                                                           *)
(***************************************************************************)
ValidateEndpointUrlShape(url) ==
    /\ url.scheme \in {"http", "https"}
    /\ ~url.userinfo /\ ~url.query /\ ~url.fragment
    /\ ~url.upload      \* already ends in v1/upload

(***************************************************************************)
(* The bearer token.  An environment is the set of its variables that are  *)
(* set and not empty.                                                      *)
(***************************************************************************)
GithubVariables == {"githubToken", "githubUrl"}

TrustedPublishingProvider(env) ==
    LET github == GithubVariables \subseteq env
        gitlab == "gitlabToken" \in env
    IN  CASE github /\ gitlab -> "several"
          [] github /\ ~gitlab -> "github"
          [] ~github /\ gitlab -> "gitlab"
          [] OTHER -> None

\* The configured bearer tokens for the upload URL.
FromConfig(matching, bearer) ==
    CASE Lookup(BearerOnly(matching, bearer)) = "found" -> "config"
      [] OTHER -> "error"

\* Where the token comes from: the configuration, the provider, or an error.
ResolvePublishBearer(mode, env, matching, bearer) ==
    LET provider == TrustedPublishingProvider(env)
    IN  CASE mode = "never" -> FromConfig(matching, bearer)
          [] mode # "never" /\ provider = "several" -> "error"
          [] mode # "never" /\ provider \in {"github", "gitlab"} -> provider
          [] mode = "auto" /\ provider = None -> FromConfig(matching, bearer)
          [] mode = "always" /\ provider = None -> "error"

(***************************************************************************)
(* The answer to the upload                                                *)
(***************************************************************************)
UploadStatuses == {200, 201, 400, 401, 403, 404, 409, 500}

MapPublishResponse(status) ==
    IF status \in {200, 201} THEN "ok" ELSE "failed"

=============================================================================
