----------------------------- MODULE KparBuild ------------------------------
(***************************************************************************)
(* What `sysand build' puts into an archive, as pure operators.  An archive *)
(* is a record of its .project.json, its .meta.json, its source files (by  *)
(* path, each the set of its symbols), the names of its other texts, and   *)
(* the form of its entries: one compression for all of them, or "other"    *)
(* (links, encryption, executables, odd paths, a project below the root).  *)
(***************************************************************************)
EXTENDS ProjectMeta

CONSTANTS LocalUsage,       \* resources with the file: scheme
          LicenseStems,     \* [SPDX expression -> the files of its identifiers]
          FileName          \* [project name -> its alphanumeric form]

Readme == "README.md"
Changelog == "CHANGELOG.md"

\* license_file_stems; a licence that is no SPDX expression names no file.
LicenseFiles(license) ==
    IF license \in DOMAIN LicenseStems THEN LicenseStems[license] ELSE {}

\* default_kpar_file_name.
KparName(info) == <<FileName[info.name], info.version>>

\* Faulty variant: the old index is added to.
NewArchiveOldIndex(info, meta, options) ==
    [info |-> info, files |-> <<>>, texts |-> {}, entries |-> options.compression,
     meta |-> [meta EXCEPT !.checksum = <<>>]]

\* An archive being written: nothing in it, the index emptied unless it is kept.
NewArchive(info, meta, options) ==
    [info |-> info, files |-> <<>>, texts |-> {}, entries |-> options.compression,
     meta |-> [meta EXCEPT !.checksum = <<>>,
                           !.index = IF options.keepIndex THEN @ ELSE <<>>]]

\* The checks before the archive is created.
PathUsage(info) == \E i \in 1..Len(info.usage) : info.usage[i].resource \in LocalUsage
MetamodelConflict(meta, ofWorkspace) ==
    None \notin {ofWorkspace, meta.metamodel} /\ ofWorkspace # meta.metamodel

\* The project's own metamodel, or else the workspace's.
WithMetamodel(meta, ofWorkspace) ==
    [meta EXCEPT !.metamodel = IF @ = None THEN ofWorkspace ELSE @]

\* --keep-index: every indexed symbol has to be in the file.
MissingIndexSymbol(archive, path, symbols) ==
    FileIndexSymbols(archive.meta, path) \ symbols # {}

\* One source file: digest, symbols and the archived text come of one read.
AddFile(archive, path, symbols, options) ==
    [archive EXCEPT
        !.files = Put(archive.files, {path}, symbols),
        !.meta = [AddChecksum(archive.meta, path, Sha256(symbols)) EXCEPT
                    !.index = IF options.keepIndex THEN @ ELSE Put(@, symbols, path)]]

\* README, CHANGELOG and the texts of the licences, those that exist.
AddTexts(archive, existing) ==
    [archive EXCEPT !.texts =
        existing \cap ({Readme, Changelog} \cup LicenseFiles(archive.info.license))]

=============================================================================
