--------------------------- MODULE ReleaseProofs ---------------------------
(***************************************************************************)
(* What build and publish promise side by side, for any number of          *)
(* projects, edits, builds, uploads and kills.                             *)
(***************************************************************************)
EXTENDS Release, TLAPS

IsBuild(b) ==
    b \in [pc : {b.pc}, queue : {b.queue}, options : {b.options}, metamodel : {b.metamodel},
           name : {b.name}, info : {b.info}, todo : {b.todo}, out : {b.out}, result : {b.result}]

IsPub(b) ==
    b \in [pc : {b.pc}, name : {b.name}, info : {b.info}, meta : {b.meta}, bytes : {b.bytes},
           token : {b.token}, result : {b.result}]

\* An archive that is being written and still has to get the files of todo:
\* every entry of the index is right, or is kept and will be compared with its
\* file when that is added.
InProgress(a, todo, keepIndex) ==
    /\ IsArchive(a)
    /\ DOMAIN a.meta.checksum = DOMAIN a.files
    /\ \A path \in DOMAIN a.files : a.meta.checksum[path] = Sha256(a.files[path])
    /\ \A s \in DOMAIN a.meta.index :
            \/ a.meta.index[s] \in DOMAIN a.files /\ s \in a.files[a.meta.index[s]]
            \/ keepIndex /\ a.meta.index[s] \in todo
    /\ DOMAIN a.files \cap todo = {}

MetaInv ==
    /\ meta = [p \in Proj |-> meta[p]]
    /\ \A p \in Proj : meta[p].st = "ok" => IsMeta(meta[p].v[1])

BuildInv ==
    /\ IsBuild(build)
    /\ build.pc # "idle" => build.queue \in Seq(Proj) /\ build.queue # <<>>
    /\ build.pc \in {"create", "files"} =>
            InProgress(build.out[1], build.todo, build.options.keepIndex)

\* A file with an archive in it, or a torn one that is still to be removed or
\* finished, or was left.
FileInv ==
    \A name \in DOMAIN archive :
        /\ archive[name].st = "ok" =>
                archive[name].v = <<archive[name].v[1]>> /\ IsArchive(archive[name].v[1])
        /\ archive[name].st = "torn" =>
                name \in left \/ (build.pc \in {"files", "cleanup"} /\ build.name = name)

\* The archive a has passed the checks that need no entry, with these info and
\* meta; and all of them.
Read(a, i, m) ==
    /\ IsArchive(a) /\ a.info = i /\ a.meta = m
    /\ CheckInfo(i) /\ CheckMetamodel(m.metamodel)
Checked(a, i, m) == Read(a, i, m) /\ CheckEntries(a, i, m)

\* Unless the archive was replaced, publish goes on with what it has checked.
PubInv ==
    /\ IsPub(pub) /\ replaced \in BOOLEAN
    /\ pub.pc # "idle" => pub.name \in DOMAIN archive
    /\ pub.pc \in {"entries", "bytes"} /\ ~replaced =>
            /\ archive[pub.name].st = "ok"
            /\ Read(archive[pub.name].v[1], pub.info[1], pub.meta[1])
    /\ pub.pc = "bytes" /\ ~replaced =>
            CheckEntries(archive[pub.name].v[1], pub.info[1], pub.meta[1])
    /\ pub.pc \in {"discover", "oidc", "exchange", "upload"} /\ ~replaced =>
            pub.bytes # <<>> /\ Checked(pub.bytes[1], pub.info[1], pub.meta[1])

UploadInv ==
    \A u \in uploads : u.same =>
        u.bytes # <<>> /\ \E m : Checked(u.bytes[1], u.info[1], m)

ReleaseInv == MetaInv /\ BuildInv /\ FileInv /\ PubInv /\ UploadInv

-----------------------------------------------------------------------------
(* Metadata and archives *)

LEMMA SumsAreSums == (\A symbols : IsSum(Sha256(symbols))) /\ IsSum(NoSum)
  BY DEF IsSum, Sha256, NoSum

\* Every checksum has its two fields, also after one more is put.
LEMMA PutSum ==
    ASSUME NEW m, IsMeta(m), NEW path, NEW sum, IsSum(sum)
    PROVE  IsMeta(AddChecksum(m, path, sum))
  <1> DEFINE n == AddChecksum(m, path, sum)
  <1>1. /\ n \in [index : {n.index}, checksum : {n.checksum}, metamodel : {n.metamodel}]
        /\ n.checksum = Put(m.checksum, {path}, sum)
    BY Zenon DEF IsMeta, AddChecksum
  <1> HIDE DEF n
  <1>2. ASSUME NEW q \in DOMAIN n.checksum
        PROVE  IsSum(n.checksum[q])
    <2>1. n.checksum[q] = IF q \in {path} THEN sum ELSE m.checksum[q]
      BY <1>1 DEF Put
    <2>2. q = path \/ q \in DOMAIN m.checksum
      BY <1>1 DEF Put
    <2>3. CASE q = path
      BY <2>1, <2>3, Zenon
    <2>4. CASE q # path
      <3>1. n.checksum[q] = m.checksum[q] /\ q \in DOMAIN m.checksum
        BY <2>1, <2>2, <2>4
      <3> QED BY <3>1, Zenon DEF IsMeta
    <2> QED BY <2>3, <2>4
  <1>3. IsMeta(n)
    BY <1>1, <1>2, Zenon DEF IsMeta
  <1> QED BY <1>1, <1>3 DEF n

\* A change of the index, or of the metamodel, leaves the checksums.
LEMMA SetIndexIsMeta ==
    ASSUME NEW m, IsMeta(m), NEW x
    PROVE  /\ IsMeta([m EXCEPT !.index = x]) /\ [m EXCEPT !.index = x].index = x
           /\ [m EXCEPT !.index = x].checksum = m.checksum
           /\ [m EXCEPT !.index = x].metamodel = m.metamodel
  BY Zenon DEF IsMeta

LEMMA SetMetamodelIsMeta ==
    ASSUME NEW m, IsMeta(m), NEW x
    PROVE  /\ IsMeta([m EXCEPT !.metamodel = x])
           /\ [m EXCEPT !.metamodel = x].index = m.index
           /\ [m EXCEPT !.metamodel = x].checksum = m.checksum
  BY Zenon DEF IsMeta

LEMMA IncludeIsMeta ==
    ASSUME NEW m, IsMeta(m), NEW path, NEW symbols, NEW compute, NEW index
    PROVE  IsMeta(IncludeFile(m, path, symbols, compute, index))
  <1> DEFINE sum == IF compute THEN Sha256(symbols) ELSE NoSum
             summed == AddChecksum(m, path, sum)
             x == Restrict(summed.index,
                           {s \in DOMAIN summed.index : summed.index[s] \notin {path}})
             removed == [summed EXCEPT !.index = x]
             y == Put(removed.index, symbols, path)
  <1>1. IsSum(sum)
    BY SumsAreSums, Zenon
  <1> HIDE DEF sum
  <1>2. IsMeta(summed)
    BY <1>1, PutSum, Zenon
  <1>3. IncludeFile(m, path, symbols, compute, index) =
            IF index THEN [removed EXCEPT !.index = y] ELSE summed
    BY Zenon DEF IncludeFile, RemoveIndex, sum
  <1> HIDE DEF summed
  <1>4. IsMeta(removed)
    BY <1>2, SetIndexIsMeta
  <1> HIDE DEF removed
  <1>5. IsMeta([removed EXCEPT !.index = y])
    BY <1>4, SetIndexIsMeta
  <1> QED BY <1>2, <1>3, <1>5, Zenon

LEMMA ExcludeIsMeta ==
    ASSUME NEW m, IsMeta(m), NEW paths
    PROVE  IsMeta(ExcludeFiles(m, paths))
  <1> DEFINE x == Restrict(m.checksum, DOMAIN m.checksum \ paths)
             less == [m EXCEPT !.checksum = x]
             y == Restrict(less.index, {s \in DOMAIN less.index : less.index[s] \notin paths})
  <1>1. ExcludeFiles(m, paths) = [less EXCEPT !.index = y]
    BY Zenon DEF ExcludeFiles, RemoveChecksum, RemoveIndex
  <1>2. IsMeta(less)
    <2>1. /\ less \in [index : {less.index}, checksum : {less.checksum},
                       metamodel : {less.metamodel}]
          /\ less.checksum = x
      BY Zenon DEF IsMeta
    <2>2. \A q \in DOMAIN x : q \in DOMAIN m.checksum /\ x[q] = m.checksum[q]
      BY DEF Restrict
    <2> HIDE DEF x, less
    <2> QED BY <2>1, <2>2, Zenon DEF IsMeta
  <1> HIDE DEF less
  <1>3. IsMeta([less EXCEPT !.index = y])
    BY <1>2, SetIndexIsMeta
  <1> QED BY <1>1, <1>3

\* The metamodel of the workspace is filled in where the project has none.
LEMMA WithMetamodelIsMeta ==
    ASSUME NEW m, IsMeta(m), NEW w
    PROVE  /\ IsMeta(WithMetamodel(m, w)) /\ WithMetamodel(m, w).index = m.index
           /\ WithMetamodel(m, w).checksum = m.checksum
  <1> DEFINE x == IF m.metamodel = None THEN w ELSE m.metamodel
  <1>1. WithMetamodel(m, w) = [m EXCEPT !.metamodel = x]
    BY Zenon DEF WithMetamodel
  <1> HIDE DEF x
  <1> QED BY <1>1, SetMetamodelIsMeta

\* A new archive has no file; an index that is kept names files still to come.
LEMMA NewArchiveInProgress ==
    ASSUME NEW m, IsMeta(m), NEW i, NEW options
    PROVE  InProgress(NewArchive(i, m, options), SourcePaths(m), options.keepIndex)
  <1> DEFINE x == IF options.keepIndex THEN m.index ELSE <<>>
             n == [m EXCEPT !.checksum = <<>>, !.index = x]
             a == NewArchive(i, m, options)
  <1>1. /\ n \in [index : {n.index}, checksum : {n.checksum}, metamodel : {n.metamodel}]
        /\ n.index = x /\ n.checksum = <<>>
    BY Zenon DEF IsMeta
  <1>2. a = [info |-> i, files |-> <<>>, texts |-> {}, entries |-> options.compression,
             meta |-> n]
    BY Zenon DEF NewArchive
  <1>3. DOMAIN <<>> = {}
    OBVIOUS
  <1> HIDE DEF n
  <1>4. IsMeta(n)
    BY <1>1, <1>3, Zenon DEF IsMeta
  <1>5. /\ a \in [info : {a.info}, meta : {a.meta}, files : {a.files}, texts : {a.texts},
                  entries : {a.entries}]
        /\ a.meta = n /\ a.files = <<>>
    BY <1>2
  <1> HIDE DEF a
  <1>6. IsArchive(a)
    BY <1>4, <1>5, Zenon DEF IsArchive
  <1>7. ASSUME NEW s \in DOMAIN n.index
        PROVE  options.keepIndex /\ n.index[s] \in SourcePaths(m)
    <2>1. CASE options.keepIndex
      <3>1. n.index = m.index
        BY <1>1, <2>1
      <3> QED BY <2>1, <3>1, <1>7 DEF SourcePaths, Range
    <2>2. CASE ~options.keepIndex
      <3>1. n.index = <<>>
        BY <1>1, <2>2
      <3> QED BY <3>1, <1>3, <1>7
    <2> QED BY <2>1, <2>2
  <1> HIDE DEF x
  <1>8. InProgress(a, SourcePaths(m), options.keepIndex)
    <2>1. DOMAIN a.files = {} /\ DOMAIN a.meta.checksum = {}
      BY <1>1, <1>3, <1>5
    <2> QED BY <2>1, <1>5, <1>6, <1>7, Zenon DEF InProgress
  <1> QED BY <1>8 DEF a

\* Digest, symbols and text of a file come of one read, and a kept index is
\* compared with it.
LEMMA AddFileInProgress ==
    ASSUME NEW a, NEW todo, NEW options, NEW path \in todo, NEW symbols,
           InProgress(a, todo, options.keepIndex),
           ~(options.keepIndex /\ MissingIndexSymbol(a, path, symbols))
    PROVE  InProgress(AddFile(a, path, symbols, options), todo \ {path}, options.keepIndex)
  <1> DEFINE sum == Sha256(symbols)
             summed == AddChecksum(a.meta, path, sum)
             x == IF options.keepIndex THEN summed.index ELSE Put(summed.index, symbols, path)
             m == [summed EXCEPT !.index = x]
             b == AddFile(a, path, symbols, options)
  <1>1. IsArchive(a) /\ IsMeta(a.meta)
    BY DEF InProgress, IsArchive
  <1>2. IsSum(sum)
    BY SumsAreSums
  <1>3. b = [a EXCEPT !.files = Put(a.files, {path}, symbols), !.meta = m]
    BY Zenon DEF AddFile
  <1> HIDE DEF sum
  <1>4. /\ IsMeta(summed) /\ summed.index = a.meta.index
        /\ summed.checksum = Put(a.meta.checksum, {path}, sum)
    <2> DEFINE old == a.meta
    <2>1. IsMeta(old)
      BY <1>1
    <2>2. summed = AddChecksum(old, path, sum)
      OBVIOUS
    <2> HIDE DEF old, summed
    <2>3. /\ IsMeta(AddChecksum(old, path, sum))
          /\ AddChecksum(old, path, sum).index = old.index
          /\ AddChecksum(old, path, sum).checksum = Put(old.checksum, {path}, sum)
      <3>1. IsMeta(AddChecksum(old, path, sum))
        BY <2>1, <1>2, PutSum, Zenon
      <3>2. AddChecksum(old, path, sum).index = old.index
        BY <2>1, Zenon DEF IsMeta, AddChecksum
      <3>3. AddChecksum(old, path, sum).checksum = Put(old.checksum, {path}, sum)
        BY <2>1, Zenon DEF IsMeta, AddChecksum
      <3> QED BY <3>1, <3>2, <3>3
    <2>4. /\ IsMeta(summed) /\ summed.index = old.index
          /\ summed.checksum = Put(old.checksum, {path}, sum)
      BY <2>2, <2>3
    <2> QED BY <2>4 DEF old
  <1> HIDE DEF summed
  <1>5. IsMeta(m) /\ m.index = x /\ m.checksum = Put(a.meta.checksum, {path}, sum)
    BY <1>4, SetIndexIsMeta
  <1> HIDE DEF m
  <1>6. /\ b \in [info : {b.info}, meta : {b.meta}, files : {b.files}, texts : {b.texts},
                  entries : {b.entries}]
        /\ b.meta = m /\ b.files = Put(a.files, {path}, symbols)
    BY <1>1, <1>3, Zenon DEF IsArchive
  <1> HIDE DEF b
  <1>7. IsArchive(b)
    BY <1>5, <1>6, Zenon DEF IsArchive
  <1>8. path \notin DOMAIN a.files /\ DOMAIN a.meta.checksum = DOMAIN a.files
    BY DEF InProgress
  <1>9. /\ DOMAIN b.files = DOMAIN a.files \cup {path}
        /\ b.files[path] = symbols
        /\ \A q \in DOMAIN a.files : b.files[q] = a.files[q]
    BY <1>6, <1>8 DEF Put
  <1>10. /\ DOMAIN b.meta.checksum = DOMAIN b.files
         /\ \A q \in DOMAIN b.files : b.meta.checksum[q] = Sha256(b.files[q])
    <2>1. /\ DOMAIN b.meta.checksum = DOMAIN b.files
          /\ b.meta.checksum[path] = sum
          /\ \A q \in DOMAIN a.files : b.meta.checksum[q] = a.meta.checksum[q]
      BY <1>5, <1>6, <1>8, <1>9 DEF Put
    <2>2. sum = Sha256(b.files[path])
      BY <1>9 DEF sum
    <2>3. \A q \in DOMAIN a.files : b.meta.checksum[q] = Sha256(b.files[q])
      BY <2>1, <1>9, Zenon DEF InProgress
    <2> QED BY <2>1, <2>2, <2>3, <1>9
  <1>11. ASSUME NEW s \in DOMAIN b.meta.index
         PROVE  \/ b.meta.index[s] \in DOMAIN b.files /\ s \in b.files[b.meta.index[s]]
                \/ options.keepIndex /\ b.meta.index[s] \in todo \ {path}
    <2>1. CASE options.keepIndex
      <3>1. b.meta.index = a.meta.index
        BY <2>1, <1>4, <1>5, <1>6
      <3>2. a.meta.index[s] = path => s \in symbols
        BY <2>1, <3>1, <1>11 DEF MissingIndexSymbol, FileIndexSymbols
      <3>3. \/ a.meta.index[s] \in DOMAIN a.files /\ s \in a.files[a.meta.index[s]]
            \/ a.meta.index[s] \in todo
        BY <3>1, <1>11 DEF InProgress
      <3> QED BY <2>1, <3>1, <3>2, <3>3, <1>9
    <2>2. CASE ~options.keepIndex
      <3>1. b.meta.index = Put(a.meta.index, symbols, path)
        BY <2>2, <1>4, <1>5, <1>6
      <3>2. CASE s \in symbols
        <4>1. b.meta.index[s] = path
          BY <3>1, <3>2, <1>11 DEF Put
        <4> QED BY <4>1, <3>2, <1>9
      <3>3. CASE s \notin symbols
        <4>1. s \in DOMAIN a.meta.index /\ b.meta.index[s] = a.meta.index[s]
          BY <3>1, <3>3, <1>11 DEF Put
        <4>2. a.meta.index[s] \in DOMAIN a.files /\ s \in a.files[a.meta.index[s]]
          BY <4>1, <2>2 DEF InProgress
        <4> QED BY <4>1, <4>2, <1>9
      <3> QED BY <3>2, <3>3
    <2> QED BY <2>1, <2>2
  <1>12. DOMAIN b.files \cap (todo \ {path}) = {}
    BY <1>9 DEF InProgress
  <1>13. InProgress(b, todo \ {path}, options.keepIndex)
    BY <1>7, <1>10, <1>11, <1>12, Zenon DEF InProgress
  <1> QED BY <1>13 DEF b

\* With nothing left to add the archive is consistent; the texts change nothing.
LEMMA AddTextsConsistent ==
    ASSUME NEW a, NEW keepIndex, InProgress(a, {}, keepIndex), NEW existing
    PROVE  /\ IsArchive(AddTexts(a, existing)) /\ ArchiveConsistent(AddTexts(a, existing))
           /\ AddTexts(a, existing).texts \subseteq
                LicenseFiles(AddTexts(a, existing).info.license) \cup {Readme, Changelog}
  <1> DEFINE texts_ == existing \cap ({Readme, Changelog} \cup LicenseFiles(a.info.license))
             b == AddTexts(a, existing)
  <1>1. b = [a EXCEPT !.texts = texts_]
    BY Zenon DEF AddTexts
  <1>2. IsArchive(a)
    BY DEF InProgress
  <1> HIDE DEF b
  <1>3. /\ b \in [info : {b.info}, meta : {b.meta}, files : {b.files}, texts : {b.texts},
                  entries : {b.entries}]
        /\ b.info = a.info /\ b.meta = a.meta /\ b.files = a.files /\ b.texts = texts_
    BY <1>1, <1>2, Zenon DEF IsArchive
  <1>4. IsArchive(b)
    BY <1>2, <1>3, Zenon DEF IsArchive
  <1>5. ArchiveConsistent(b)
    BY <1>3 DEF InProgress, ArchiveConsistent
  <1>6. b.texts \subseteq LicenseFiles(b.info.license) \cup {Readme, Changelog}
    BY <1>3
  <1> QED BY <1>4, <1>5, <1>6 DEF b

\* A consistent archive passes the checks of its entries, where publish can take
\* it at all.
LEMMA ConsistentPasses ==
    ASSUME NEW a, ArchiveConsistent(a),
           a.texts \subseteq LicenseFiles(a.info.license) \cup {Readme, Changelog},
           Publishable(a)
    PROVE  CheckEntries(a, a.info, a.meta)
  <1>1. DOMAIN a.meta.checksum = DOMAIN a.files /\ Range(a.meta.index) \subseteq DOMAIN a.files
    BY DEF ArchiveConsistent, Range
  <1>2. ASSUME NEW path \in DOMAIN a.files PROVE CheckFile(a, a.meta, path)
    <2>1. /\ a.meta.checksum[path].algorithm = "SHA256"
          /\ a.meta.checksum[path].value = a.files[path]
      <3>1. a.meta.checksum[path] = Sha256(a.files[path])
        BY Zenon DEF ArchiveConsistent
      <3>2. \A s : Sha256(s).algorithm = "SHA256" /\ Sha256(s).value = s
        BY DEF Sha256
      <3> QED BY <3>1, <3>2, Zenon
    <2>2. FileIndexSymbols(a.meta, path) \subseteq a.files[path]
      BY DEF ArchiveConsistent, FileIndexSymbols
    <2> QED BY <2>1, <2>2 DEF CheckFile, Publishable
  <1> QED BY <1>1, <1>2 DEF CheckEntries, Publishable

\* Conversely, what passes all checks is consistent.
LEMMA CheckedIsSound ==
    ASSUME NEW a, NEW i, NEW m, Checked(a, i, m)
    PROVE  /\ a.info = i /\ a.entries = "deflated" /\ ArchiveConsistent(a)
           /\ LicenseFiles(i.license) \subseteq a.texts
           /\ \A k \in 1..Len(i.usage) : i.usage[k].resource \notin LocalUsage
           /\ \A path \in DOMAIN a.files :
                    Language[path] = Metamodels[a.meta.metamodel].kind
  <1>1. /\ IsMeta(a.meta) /\ a.info = i /\ a.meta = m
        /\ CheckInfo(i) /\ CheckEntries(a, i, m)
    BY DEF Checked, Read, IsArchive
  <1>2. DOMAIN m.checksum = DOMAIN a.files
    <2>1. DOMAIN a.files \subseteq DOMAIN m.checksum
      BY <1>1 DEF CheckEntries
    <2>2. \A path \in DOMAIN m.checksum : path \in DOMAIN a.files
      BY <1>1, Zenon DEF CheckEntries, CheckFile
    <2> QED BY <2>1, <2>2
  <1>3. ASSUME NEW path \in DOMAIN a.files
        PROVE  /\ m.checksum[path] = Sha256(a.files[path])
               /\ Language[path] = Metamodels[m.metamodel].kind
               /\ FileIndexSymbols(m, path) \subseteq a.files[path]
    <2>1. CheckFile(a, m, path)
      BY <1>1, <1>2 DEF CheckEntries
    <2>2. m.checksum[path] = [algorithm |-> m.checksum[path].algorithm,
                              value |-> m.checksum[path].value]
      BY <1>1, <1>2, Zenon DEF IsMeta, IsSum
    <2>3. m.checksum[path].algorithm = "SHA256" /\ m.checksum[path].value = a.files[path]
      BY <2>1 DEF CheckFile
    <2>4. m.checksum[path] = Sha256(a.files[path])
      BY <2>2, <2>3, Zenon DEF Sha256
    <2> QED BY <2>1, <2>4 DEF CheckFile
  <1>4. ASSUME NEW s \in DOMAIN m.index
        PROVE  m.index[s] \in DOMAIN a.files /\ s \in a.files[m.index[s]]
    <2>1. m.index[s] \in DOMAIN a.files
      BY <1>1, <1>2 DEF CheckEntries, Range
    <2>2. s \in FileIndexSymbols(m, m.index[s])
      BY DEF FileIndexSymbols
    <2> QED BY <2>1, <2>2, <1>3
  <1>5. ArchiveConsistent(a)
    BY <1>1, <1>2, <1>3, <1>4, Zenon DEF ArchiveConsistent
  <1>6. ASSUME NEW k \in 1..Len(i.usage) PROVE i.usage[k].resource \notin LocalUsage
    <2>1. CheckUsage(i.usage[k])
      BY <1>1 DEF CheckInfo
    <2> QED BY <2>1, UsagesAssumption DEF CheckUsage
  <1> QED BY <1>1, <1>3, <1>5, <1>6 DEF CheckEntries

-----------------------------------------------------------------------------
(* The steps of the user *)

LEMMA EditMetaKeeps ==
    ASSUME MetaInv, EditMeta
    PROVE  MetaInv'
  <1>1. PICK p \in Proj, path \in UNION {MetaEdits[q] : q \in Proj} :
            /\ meta[p].st = "ok"
            /\ \/ \E compute, index \in BOOLEAN :
                    meta' = [meta EXCEPT ![p] = Holds(IncludeFile(
                        meta[p].v[1], path, source[p][path].symbols, compute, index))]
               \/ meta' = [meta EXCEPT ![p] = Holds(ExcludeFiles(meta[p].v[1], {path}))]
    BY Zenon DEF EditMeta
  <1>2. IsMeta(meta[p].v[1])
    BY <1>1 DEF MetaInv
  <1>3. PICK m : IsMeta(m) /\ meta' = [meta EXCEPT ![p] = Holds(m)]
    <2>1. CASE meta' = [meta EXCEPT ![p] = Holds(ExcludeFiles(meta[p].v[1], {path}))]
      BY <1>2, <2>1, ExcludeIsMeta, Zenon
    <2>2. ASSUME NEW compute, NEW index,
                 meta' = [meta EXCEPT ![p] = Holds(IncludeFile(
                    meta[p].v[1], path, source[p][path].symbols, compute, index))]
          PROVE  \E m : IsMeta(m) /\ meta' = [meta EXCEPT ![p] = Holds(m)]
      BY <1>2, <2>2, IncludeIsMeta, Zenon
    <2> QED BY <1>1, <2>1, <2>2
  <1>4. Holds(m).v[1] = m
    BY DEF Holds
  <1>5. meta' = [q \in Proj |-> IF q = p THEN Holds(m) ELSE meta[q]]
    BY <1>3 DEF MetaInv
  <1>6. ASSUME NEW q \in Proj, meta'[q].st = "ok" PROVE IsMeta(meta'[q].v[1])
    <2>1. CASE q = p
      <3>1. meta'[q] = Holds(m)
        BY <1>5, <2>1
      <3> QED BY <3>1, <1>3, <1>4
    <2>2. CASE q # p
      <3>1. meta'[q] = meta[q]
        BY <1>5, <2>2
      <3> QED BY <3>1, <1>6 DEF MetaInv
    <2> QED BY <2>1, <2>2
  <1>7. meta' = [q \in Proj |-> meta'[q]]
    BY <1>5
  <1> QED BY <1>6, <1>7 DEF MetaInv

LEMMA EditsKeep ==
    ASSUME ReleaseInv, EditSource \/ EditInfo \/ EditMeta
    PROVE  ReleaseInv'
  <1>1. UNCHANGED <<archive, build, pub, uploads, left, replaced>>
    BY DEF EditSource, EditInfo, EditMeta
  <1>2. MetaInv'
    <2>1. CASE EditMeta
      BY <2>1, EditMetaKeeps DEF ReleaseInv
    <2>2. CASE UNCHANGED meta
      BY <2>2 DEF ReleaseInv, MetaInv
    <2> QED BY <2>1, <2>2 DEF EditSource, EditInfo
  <1>3. BuildInv' /\ FileInv'
    BY <1>1 DEF ReleaseInv, BuildInv, FileInv
  <1>4. PubInv' /\ UploadInv'
    BY <1>1, Zenon DEF ReleaseInv, PubInv, UploadInv
  <1> QED BY <1>2, <1>3, <1>4 DEF ReleaseInv

-----------------------------------------------------------------------------
(* The steps of build *)

\* What publish has checked stays, or it is noted that the archive was written.
LEMMA WritesAreNoted ==
    ASSUME PubInv, NEW file, UNCHANGED pub,
           archive' = [archive EXCEPT ![build.name] = file],
           replaced' = (replaced \/ (pub.pc # "idle" /\ pub.name = build.name))
    PROVE  PubInv'
  <1>1. DOMAIN archive' = DOMAIN archive
    OBVIOUS
  <1>2. replaced' \in BOOLEAN
    BY Zenon
  <1>3. CASE replaced'
    <2>1. IsPub(pub)' /\ (pub.pc # "idle" => pub.name \in DOMAIN archive)'
      BY <1>1 DEF PubInv
    <2> QED BY <1>2, <1>3, <2>1, Zenon DEF PubInv
  <1>4. CASE ~replaced' /\ pub.pc # "idle"
    <2>1. ~replaced /\ pub.name # build.name
      BY <1>4, Zenon
    <2>2. pub.name \in DOMAIN archive
      BY <1>4 DEF PubInv
    <2>3. archive'[pub.name] = archive[pub.name]
      BY <2>1, <2>2
    <2>4. IsPub(pub)' /\ (pub.pc # "idle" => pub.name \in DOMAIN archive)'
      BY <1>1 DEF PubInv
    <2>5. /\ pub.pc \in {"entries", "bytes"} =>
                archive'[pub.name].st = "ok" /\ Read(archive'[pub.name].v[1], pub.info[1], pub.meta[1])
          /\ pub.pc = "bytes" =>
                CheckEntries(archive'[pub.name].v[1], pub.info[1], pub.meta[1])
          /\ pub.pc \in {"discover", "oidc", "exchange", "upload"} =>
                pub.bytes # <<>> /\ Checked(pub.bytes[1], pub.info[1], pub.meta[1])
      BY <2>1, <2>3, Zenon DEF PubInv
    <2> QED BY <1>2, <2>4, <2>5, Zenon DEF PubInv
  <1>5. CASE pub.pc = "idle"
    <2>1. IsPub(pub)'
      BY DEF PubInv
    <2> QED BY <1>2, <1>5, <2>1 DEF PubInv
  <1> QED BY <1>2, <1>3, <1>4, <1>5

\* A step of build is right when the process and the archives are.
LEMMA BuildStepKeeps ==
    ASSUME ReleaseInv, BuildRest, BuildInv', FileInv',
           \/ UNCHANGED <<archive, replaced>>
           \/ \E file : /\ archive' = [archive EXCEPT ![build.name] = file]
                        /\ replaced' = (replaced \/ (pub.pc # "idle" /\ pub.name = build.name))
    PROVE  ReleaseInv'
  <1>1. MetaInv' /\ UploadInv'
    BY DEF BuildRest, ReleaseInv, MetaInv, UploadInv
  <1>2. UNCHANGED pub
    BY DEF BuildRest
  <1>3. PubInv'
    <2>1. CASE UNCHANGED <<archive, replaced>>
      BY <1>2, <2>1, Zenon DEF ReleaseInv, PubInv
    <2> QED BY <1>2, <2>1, WritesAreNoted DEF ReleaseInv
  <1> QED BY <1>1, <1>3 DEF ReleaseInv

\* The fields of a building process after a change of its step.
LEMMA SetStep ==
    ASSUME IsBuild(build), NEW step
    PROVE  /\ IsBuild([build EXCEPT !.pc = step])
           /\ [build EXCEPT !.pc = step].pc = step
           /\ [build EXCEPT !.pc = step].queue = build.queue
           /\ [build EXCEPT !.pc = step].name = build.name
           /\ [build EXCEPT !.pc = step].todo = build.todo
           /\ [build EXCEPT !.pc = step].out = build.out
           /\ [build EXCEPT !.pc = step].options = build.options
  BY Zenon DEF IsBuild

LEMMA NoBuildIsIdle ==
    ASSUME NEW result
    PROVE  IsBuild(NoBuild(result)) /\ NoBuild(result).pc = "idle"
  BY DEF IsBuild, NoBuild

\* A file that may stay torn is one of those that were.
LEMMA TornBefore ==
    ASSUME FileInv, build.pc \notin {"files", "cleanup"}, UNCHANGED <<archive, left>>
    PROVE  FileInv'
  BY DEF FileInv

LEMMA StartBuildKeeps ==
    ASSUME ReleaseInv, StartBuild
    PROVE  ReleaseInv'
  <1>1. BuildRest /\ UNCHANGED <<archive, left, replaced>> /\ build.pc = "idle"
    BY DEF StartBuild
  <1>2. PICK options \in BuildOptions, queue \in {<<p>> : p \in Proj} \cup {Order} :
            \E metamodel :
                build' = [NoBuild("none") EXCEPT
                            !.pc = "read", !.queue = queue, !.options = options,
                            !.metamodel = metamodel, !.name = KparName(info[Head(queue)])]
    BY Zenon DEF StartBuild
  <1>3. queue \in Seq(Proj) /\ queue # <<>>
    <2>1. Order \in Seq(Proj) /\ Order # <<>>
      BY FilesAssumption, Zenon
    <2>2. \A p \in Proj : <<p>> \in Seq(Proj) /\ <<p>> # <<>>
      OBVIOUS
    <2> QED BY <2>1, <2>2, Zenon
  <1>4. IsBuild(build') /\ build'.pc = "read" /\ build'.queue = queue
    BY <1>2, Zenon DEF IsBuild, NoBuild
  <1>5. BuildInv'
    BY <1>3, <1>4 DEF BuildInv
  <1>6. FileInv'
    BY <1>1, TornBefore DEF ReleaseInv
  <1> QED BY <1>1, <1>5, <1>6, BuildStepKeeps

LEMMA ReadInfoKeeps ==
    ASSUME ReleaseInv, ReadInfo
    PROVE  ReleaseInv'
  <1>1. /\ BuildRest /\ UNCHANGED <<archive, left, replaced>> /\ build.pc = "read"
        /\ build' = [build EXCEPT !.pc = "meta", !.info = <<info[Project]>>]
    BY Zenon DEF ReadInfo
  <1>2. IsBuild(build) /\ build.queue \in Seq(Proj) /\ build.queue # <<>>
    BY <1>1 DEF ReleaseInv, BuildInv
  <1>3. IsBuild(build') /\ build'.pc = "meta" /\ build'.queue = build.queue
    BY <1>1, <1>2, Zenon DEF IsBuild
  <1>4. BuildInv'
    BY <1>2, <1>3 DEF BuildInv
  <1>5. FileInv'
    BY <1>1, TornBefore DEF ReleaseInv
  <1> QED BY <1>1, <1>4, <1>5, BuildStepKeeps

LEMMA ReadMetaKeeps ==
    ASSUME ReleaseInv, ReadMeta
    PROVE  ReleaseInv'
  <1> DEFINE m == meta[Project].v[1]
             usable == WithMetamodel(m, build.metamodel)
             todo == SourcePaths(usable)
             a == NewArchive(build.info[1], usable, build.options)
  <1>1. /\ BuildRest /\ UNCHANGED <<archive, left, replaced>> /\ build.pc = "meta"
        /\ \/ build' = [build EXCEPT !.pc = "cleanup"]
           \/ /\ meta[Project].st = "ok"
              /\ build' = [build EXCEPT !.pc = "create", !.todo = todo, !.out = <<a>>]
    BY Zenon DEF ReadMeta
  <1>2. IsBuild(build) /\ build.queue \in Seq(Proj) /\ build.queue # <<>>
    BY <1>1 DEF ReleaseInv, BuildInv
  <1>3. Project \in Proj
    BY <1>2 DEF Project
  <1>4. FileInv'
    BY <1>1, TornBefore DEF ReleaseInv
  <1>5. CASE build' = [build EXCEPT !.pc = "cleanup"]
    <2>1. IsBuild(build') /\ build'.pc = "cleanup" /\ build'.queue = build.queue
      BY <1>2, <1>5, SetStep, Zenon
    <2>2. BuildInv'
      BY <1>2, <2>1 DEF BuildInv
    <2> QED BY <1>1, <1>4, <2>2, BuildStepKeeps
  <1>6. CASE /\ meta[Project].st = "ok"
             /\ build' = [build EXCEPT !.pc = "create", !.todo = todo, !.out = <<a>>]
    <2>1. IsMeta(m)
      BY <1>3, <1>6 DEF ReleaseInv, MetaInv
    <2> HIDE DEF m
    <2>2. IsMeta(usable)
      BY <2>1, WithMetamodelIsMeta
    <2> HIDE DEF usable
    <2>3. InProgress(a, todo, build.options.keepIndex)
      BY <2>2, NewArchiveInProgress
    <2> HIDE DEF a, todo
    <2>4. /\ IsBuild(build') /\ build'.pc = "create" /\ build'.queue = build.queue
          /\ build'.todo = todo /\ build'.out = <<a>> /\ build'.options = build.options
      BY <1>2, <1>6, Zenon DEF IsBuild
    <2>5. build'.out[1] = a
      BY <2>4
    <2>6. InProgress(build'.out[1], build'.todo, build'.options.keepIndex)
      BY <2>3, <2>4, <2>5
    <2>7. BuildInv'
      BY <1>2, <2>4, <2>6 DEF BuildInv
    <2> QED BY <1>1, <1>4, <2>7, BuildStepKeeps
  <1> QED BY <1>1, <1>5, <1>6

LEMMA CreateArchiveKeeps ==
    ASSUME ReleaseInv, CreateArchive
    PROVE  ReleaseInv'
  <1>1. /\ BuildRest /\ UNCHANGED left /\ build.pc = "create"
        /\ archive' = [archive EXCEPT ![build.name] = Torn]
        /\ replaced' = (replaced \/ (pub.pc # "idle" /\ pub.name = build.name))
        /\ build' = [build EXCEPT !.pc = "files"]
    BY Zenon DEF CreateArchive
  <1>2. IsBuild(build)
    BY DEF ReleaseInv, BuildInv
  <1>3. /\ IsBuild(build') /\ build'.pc = "files" /\ build'.queue = build.queue
        /\ build'.name = build.name /\ build'.todo = build.todo /\ build'.out = build.out
        /\ build'.options = build.options
    BY <1>1, <1>2, SetStep
  <1>4. BuildInv'
    BY <1>1, <1>3 DEF ReleaseInv, BuildInv
  <1>5. FileInv'
    <2>1. Torn.st = "torn"
      BY DEF Torn
    <2> QED BY <1>1, <1>3, <2>1 DEF ReleaseInv, FileInv
  <1> QED BY <1>1, <1>4, <1>5, BuildStepKeeps, Zenon

\* An error on the way, with the archive as it is.
LEMMA GiveUpKeeps ==
    ASSUME ReleaseInv, BuildRest, UNCHANGED <<archive, left, replaced>>,
           build.pc \in {"create", "files"}, build' = [build EXCEPT !.pc = "cleanup"]
    PROVE  ReleaseInv'
  <1>1. IsBuild(build)
    BY DEF ReleaseInv, BuildInv
  <1>2. /\ IsBuild(build') /\ build'.pc = "cleanup" /\ build'.queue = build.queue
        /\ build'.name = build.name
    BY <1>1, SetStep
  <1>3. BuildInv'
    BY <1>2 DEF ReleaseInv, BuildInv
  <1>4. FileInv'
    BY <1>2 DEF ReleaseInv, FileInv
  <1> QED BY <1>3, <1>4, BuildStepKeeps

LEMMA ArchiveFileKeeps ==
    ASSUME ReleaseInv, ArchiveFile
    PROVE  ReleaseInv'
  <1>1. BuildRest /\ UNCHANGED <<archive, left, replaced>> /\ build.pc = "files"
    BY DEF ArchiveFile
  <1>2. PICK path \in build.todo : \E symbols :
            \/ build' = [build EXCEPT !.pc = "cleanup"]
            \/ /\ ~(build.options.keepIndex /\ MissingIndexSymbol(build.out[1], path, symbols))
               /\ build' = [build EXCEPT !.todo = build.todo \ {path},
                                !.out = <<AddFile(build.out[1], path, symbols, build.options)>>]
    BY Zenon DEF ArchiveFile
  <1>3. PICK symbols :
            \/ build' = [build EXCEPT !.pc = "cleanup"]
            \/ /\ ~(build.options.keepIndex /\ MissingIndexSymbol(build.out[1], path, symbols))
               /\ build' = [build EXCEPT !.todo = build.todo \ {path},
                                !.out = <<AddFile(build.out[1], path, symbols, build.options)>>]
    BY <1>2, Zenon
  <1>4. CASE build' = [build EXCEPT !.pc = "cleanup"]
    BY <1>1, <1>4, GiveUpKeeps
  <1>5. CASE /\ ~(build.options.keepIndex /\ MissingIndexSymbol(build.out[1], path, symbols))
             /\ build' = [build EXCEPT !.todo = build.todo \ {path},
                              !.out = <<AddFile(build.out[1], path, symbols, build.options)>>]
    <2> DEFINE a == build.out[1]
               b == AddFile(a, path, symbols, build.options)
               todo == build.todo
               options == build.options
    <2>1. InProgress(a, todo, options.keepIndex) /\ IsBuild(build)
      BY <1>1 DEF ReleaseInv, BuildInv
    <2>2. ~(options.keepIndex /\ MissingIndexSymbol(a, path, symbols))
      BY <1>5
    <2>3. b = AddFile(a, path, symbols, options) /\ path \in todo
      BY <1>2
    <2>4. /\ IsBuild(build') /\ build'.pc = build.pc /\ build'.queue = build.queue
          /\ build'.name = build.name /\ build'.options = options
          /\ build'.todo = todo \ {path} /\ build'.out = <<b>>
      BY <1>5, <2>1, Zenon DEF IsBuild
    <2> HIDE DEF a, b, todo, options
    <2>5. InProgress(b, todo \ {path}, options.keepIndex)
      BY <2>1, <2>2, <2>3, AddFileInProgress, Zenon
    <2>6. build'.out[1] = b
      BY <2>4
    <2>7. InProgress(build'.out[1], build'.todo, build'.options.keepIndex)
      BY <2>4, <2>5, <2>6
    <2>8. BuildInv'
      BY <1>1, <2>4, <2>7 DEF ReleaseInv, BuildInv
    <2>9. FileInv'
      BY <1>1, <2>4 DEF ReleaseInv, FileInv
    <2> QED BY <1>1, <2>8, <2>9, BuildStepKeeps
  <1> QED BY <1>3, <1>4, <1>5

\* The archive that is complete is the one in progress with nothing to add.
LEMMA Finished ==
    ASSUME BuildInv, FinishArchive
    PROVE  \E a : /\ archive' = [archive EXCEPT ![build.name] = Holds(a)]
                 /\ IsArchive(a) /\ ArchiveConsistent(a)
                 /\ a.texts \subseteq LicenseFiles(a.info.license) \cup {Readme, Changelog}
  <1> DEFINE a == build.out[1]
             keepIndex == build.options.keepIndex
             existing == texts[Project]
  <1>1. InProgress(a, build.todo, keepIndex) /\ build.todo = {}
    BY DEF FinishArchive, BuildInv
  <1>2. InProgress(a, {}, keepIndex)
    BY <1>1
  <1>3. archive' = [archive EXCEPT ![build.name] = Holds(AddTexts(a, existing))]
    BY Zenon DEF FinishArchive
  <1> HIDE DEF a, keepIndex, existing
  <1>4. /\ IsArchive(AddTexts(a, existing)) /\ ArchiveConsistent(AddTexts(a, existing))
        /\ AddTexts(a, existing).texts \subseteq
                LicenseFiles(AddTexts(a, existing).info.license) \cup {Readme, Changelog}
    BY <1>2, AddTextsConsistent, Zenon
  <1> QED BY <1>3, <1>4, Zenon

LEMMA FinishArchiveKeeps ==
    ASSUME ReleaseInv, FinishArchive
    PROVE  ReleaseInv'
  <1> DEFINE rest == Tail(build.queue)
  <1>1. /\ BuildRest /\ left' = left \ {build.name} /\ build.pc = "files"
        /\ replaced' = (replaced \/ (pub.pc # "idle" /\ pub.name = build.name))
        /\ build' = IF rest = <<>> THEN NoBuild("ok")
                    ELSE [build EXCEPT !.pc = "read", !.queue = rest, !.out = <<>>,
                                       !.name = KparName(info[Head(rest)])]
    BY Zenon DEF FinishArchive
  <1>2. PICK a : archive' = [archive EXCEPT ![build.name] = Holds(a)] /\ IsArchive(a)
    BY Finished DEF ReleaseInv
  <1>3. IsBuild(build) /\ rest \in Seq(Proj)
    BY <1>1 DEF ReleaseInv, BuildInv
  <1> HIDE DEF rest
  <1>4. BuildInv'
    <2>1. CASE rest = <<>>
      <3>1. build' = NoBuild("ok")
        BY <1>1, <2>1
      <3>2. IsBuild(build') /\ build'.pc = "idle"
        BY <3>1, NoBuildIsIdle
      <3> QED BY <3>2 DEF BuildInv
    <2>2. CASE rest # <<>>
      <3>1. build' = [build EXCEPT !.pc = "read", !.queue = rest, !.out = <<>>,
                                   !.name = KparName(info[Head(rest)])]
        BY <1>1, <2>2, Zenon
      <3>2. IsBuild(build') /\ build'.pc = "read" /\ build'.queue = rest
        BY <1>3, <3>1, Zenon DEF IsBuild
      <3> QED BY <1>3, <2>2, <3>2 DEF BuildInv
    <2> QED BY <2>1, <2>2
  <1>5. FileInv'
    <2>2. Holds(a).st = "ok" /\ Holds(a).v = <<a>> /\ Holds(a).v[1] = a
      BY DEF Holds
    <2>3. ASSUME NEW name \in DOMAIN archive', archive'[name].st = "ok"
          PROVE  archive'[name].v = <<archive'[name].v[1]>> /\ IsArchive(archive'[name].v[1])
      <3>1. CASE name = build.name
        <4>1. archive'[name] = Holds(a)
          BY <1>2, <3>1, <2>3
        <4> QED BY <4>1, <2>2, <1>2
      <3>2. CASE name # build.name
        <4>1. name \in DOMAIN archive /\ archive'[name] = archive[name]
          BY <1>2, <3>2, <2>3
        <4> QED BY <4>1, <2>3, Zenon DEF ReleaseInv, FileInv
      <3> QED BY <3>1, <3>2
    <2>4. ASSUME NEW name \in DOMAIN archive', archive'[name].st = "torn"
          PROVE  name \in left'
      <3>1. name # build.name
        BY <1>2, <2>2, <2>4
      <3>2. name \in DOMAIN archive /\ archive'[name] = archive[name]
        BY <1>2, <3>1, <2>4
      <3>3. name \in left
        BY <3>1, <3>2, <2>4, Zenon DEF ReleaseInv, FileInv
      <3> QED BY <1>1, <3>1, <3>3
    <2> QED BY <2>3, <2>4, Zenon DEF FileInv
  <1> QED BY <1>1, <1>2, <1>4, <1>5, BuildStepKeeps, Zenon

\* What the build leaves is removed, or is left where it is.
LEMMA CleanUpKeeps ==
    ASSUME ReleaseInv, CleanUp
    PROVE  ReleaseInv'
  <1>1. BuildRest /\ build' = NoBuild("failed")
    BY Zenon DEF CleanUp
  <1>2. BuildInv'
    <2>1. IsBuild(build') /\ build'.pc = "idle"
      BY <1>1, NoBuildIsIdle
    <2> QED BY <2>1 DEF BuildInv
  <1>3. CASE /\ archive' = [archive EXCEPT ![build.name] = Absent]
             /\ replaced' = (replaced \/ (pub.pc # "idle" /\ pub.name = build.name))
             /\ left' = left \ {build.name}
    <2>1. Absent.st = "absent"
      BY DEF Absent
    <2>2. ASSUME NEW name \in DOMAIN archive', archive'[name].st # "absent"
          PROVE  /\ name \in DOMAIN archive /\ archive'[name] = archive[name]
                 /\ name # build.name
      BY <1>3, <2>1, <2>2
    <2>3. ASSUME NEW name \in DOMAIN archive', archive'[name].st = "ok"
          PROVE  archive'[name].v = <<archive'[name].v[1]>> /\ IsArchive(archive'[name].v[1])
      BY <2>2, <2>3, Zenon DEF ReleaseInv, FileInv
    <2>4. ASSUME NEW name \in DOMAIN archive', archive'[name].st = "torn"
          PROVE  name \in left'
      <3>1. name \in left /\ name # build.name
        BY <2>2, <2>4 DEF ReleaseInv, FileInv
      <3> QED BY <1>3, <3>1
    <2>5. FileInv'
      BY <2>3, <2>4, Zenon DEF FileInv
    <2> QED BY <1>1, <1>2, <1>3, <2>5, BuildStepKeeps, Zenon
  <1>4. CASE left' = left \cup {build.name} /\ UNCHANGED <<archive, replaced>>
    <2>1. FileInv'
      BY <1>4 DEF ReleaseInv, FileInv
    <2> QED BY <1>1, <1>2, <1>4, <2>1, BuildStepKeeps
  <1> QED BY <1>3, <1>4, Zenon DEF CleanUp

LEMMA KillKeeps ==
    ASSUME ReleaseInv, Kill
    PROVE  ReleaseInv'
  <1>1. /\ BuildRest /\ left' = left \cup {build.name} /\ build' = NoBuild("killed")
        /\ UNCHANGED <<archive, replaced>>
    BY DEF Kill
  <1>2. BuildInv'
    <2>1. IsBuild(build') /\ build'.pc = "idle"
      BY <1>1, NoBuildIsIdle
    <2> QED BY <2>1 DEF BuildInv
  <1>3. FileInv'
    BY <1>1 DEF ReleaseInv, FileInv
  <1> QED BY <1>1, <1>2, <1>3, BuildStepKeeps

LEMMA BuildKeeps ==
    ASSUME ReleaseInv, Build
    PROVE  ReleaseInv'
  <1>1. CASE FailToWrite
    BY <1>1, GiveUpKeeps DEF FailToWrite
  <1> QED BY <1>1, ReadInfoKeeps, ReadMetaKeeps, CreateArchiveKeeps, ArchiveFileKeeps, FinishArchiveKeeps,
             CleanUpKeeps DEF Build

-----------------------------------------------------------------------------
(* The steps of publish *)

LEMMA PublishStepKeeps ==
    ASSUME ReleaseInv, PublishRest, PubInv', UploadInv'
    PROVE  ReleaseInv'
  BY DEF PublishRest, ReleaseInv, MetaInv, BuildInv, FileInv

\* A publish that has ended, well or not, has nothing to keep.
LEMMA EndedKeeps ==
    ASSUME ReleaseInv, PublishRest, UNCHANGED replaced, UploadInv',
           NEW result, pub' = NoPublish(result)
    PROVE  ReleaseInv'
  <1>1. IsPub(pub') /\ pub'.pc = "idle"
    BY DEF IsPub, NoPublish
  <1>2. PubInv'
    BY <1>1 DEF ReleaseInv, PubInv
  <1> QED BY <1>2, PublishStepKeeps

LEMMA RefuseKeeps ==
    ASSUME ReleaseInv, PublishRest, UNCHANGED <<uploads, replaced>>, Refuse
    PROVE  ReleaseInv'
  <1>1. UploadInv'
    BY DEF ReleaseInv, UploadInv
  <1> QED BY <1>1, EndedKeeps DEF Refuse

LEMMA StartPublishKeeps ==
    ASSUME ReleaseInv, StartPublish
    PROVE  ReleaseInv'
  <1>1. PublishRest /\ UNCHANGED uploads /\ replaced' = FALSE
    BY DEF StartPublish
  <1>2. PICK name \in DOMAIN archive :
            \/ pub' = [NoPublish("none") EXCEPT !.pc = "project", !.name = name]
            \/ pub' = NoPublish("failed")
    BY Zenon DEF StartPublish
  <1>3. IsPub(pub') /\ (pub'.pc = "idle" \/ (pub'.pc = "project" /\ pub'.name = name))
    <2>1. CASE pub' = NoPublish("failed")
      BY <2>1 DEF IsPub, NoPublish
    <2>2. CASE pub' = [NoPublish("none") EXCEPT !.pc = "project", !.name = name]
      BY <2>2, Zenon DEF IsPub, NoPublish
    <2> QED BY <1>2, <2>1, <2>2
  <1>4. archive' = archive
    BY <1>1 DEF PublishRest
  <1>5. PubInv'
    BY <1>1, <1>3, <1>4, Zenon DEF PubInv
  <1>6. UploadInv'
    BY <1>1 DEF ReleaseInv, UploadInv
  <1> QED BY <1>1, <1>5, <1>6, PublishStepKeeps

LEMMA ReadArchiveProjectKeeps ==
    ASSUME ReleaseInv, ReadArchiveProject
    PROVE  ReleaseInv'
  <1> DEFINE a == archive[pub.name].v[1]
  <1>1. /\ PublishRest /\ UNCHANGED <<uploads, replaced>> /\ pub.pc = "project"
        /\ \/ Refuse
           \/ /\ archive[pub.name].st = "ok" /\ CheckInfo(a.info)
              /\ CheckMetamodel(a.meta.metamodel)
              /\ pub' = [pub EXCEPT !.pc = "entries", !.info = <<a.info>>, !.meta = <<a.meta>>]
    BY Zenon DEF ReadArchiveProject
  <1>2. CASE Refuse
    BY <1>1, <1>2, RefuseKeeps
  <1>3. CASE /\ archive[pub.name].st = "ok" /\ CheckInfo(a.info)
             /\ CheckMetamodel(a.meta.metamodel)
             /\ pub' = [pub EXCEPT !.pc = "entries", !.info = <<a.info>>, !.meta = <<a.meta>>]
    <2>1. IsPub(pub) /\ pub.name \in DOMAIN archive /\ replaced \in BOOLEAN
      BY <1>1 DEF ReleaseInv, PubInv
    <2>2. IsArchive(a)
      BY <1>3, <2>1, Zenon DEF ReleaseInv, FileInv
    <2>3. archive' = archive /\ replaced' = replaced
      BY <1>1 DEF PublishRest
    <2> HIDE DEF a
    <2>4. /\ IsPub(pub') /\ pub'.pc = "entries" /\ pub'.name = pub.name
          /\ pub'.info = <<a.info>> /\ pub'.meta = <<a.meta>>
      BY <1>3, <2>1, Zenon DEF IsPub
    <2>5. pub'.info[1] = a.info /\ pub'.meta[1] = a.meta
      BY <2>4
    <2>6. Read(a, pub'.info[1], pub'.meta[1])
      BY <1>3, <2>2, <2>5, Zenon DEF Read
    <2>7. archive'[pub'.name].v[1] = a /\ archive'[pub'.name].st = "ok"
      BY <1>3, <2>3, <2>4, Zenon DEF a
    <2>8. PubInv'
      BY <2>1, <2>3, <2>4, <2>6, <2>7 DEF PubInv
    <2>9. UploadInv'
      BY <1>1 DEF ReleaseInv, UploadInv
    <2> QED BY <1>1, <2>8, <2>9, PublishStepKeeps
  <1> QED BY <1>1, <1>2, <1>3

LEMMA ReadEntriesKeeps ==
    ASSUME ReleaseInv, ReadEntries
    PROVE  ReleaseInv'
  <1> DEFINE a == archive[pub.name].v[1]
  <1>1. /\ PublishRest /\ UNCHANGED <<uploads, replaced>> /\ pub.pc = "entries"
        /\ \/ Refuse
           \/ /\ CheckEntries(a, pub.info[1], pub.meta[1])
              /\ pub' = [pub EXCEPT !.pc = "bytes"]
    BY Zenon DEF ReadEntries
  <1>2. CASE Refuse
    BY <1>1, <1>2, RefuseKeeps
  <1>3. CASE /\ CheckEntries(a, pub.info[1], pub.meta[1])
             /\ pub' = [pub EXCEPT !.pc = "bytes"]
    <2>1. IsPub(pub) /\ pub.name \in DOMAIN archive /\ replaced \in BOOLEAN
      BY <1>1 DEF ReleaseInv, PubInv
    <2>2. ~replaced => archive[pub.name].st = "ok" /\ Read(a, pub.info[1], pub.meta[1])
      BY <1>1 DEF ReleaseInv, PubInv
    <2>3. archive' = archive /\ replaced' = replaced
      BY <1>1 DEF PublishRest
    <2>4. /\ IsPub(pub') /\ pub'.pc = "bytes" /\ pub'.name = pub.name
          /\ pub'.info = pub.info /\ pub'.meta = pub.meta
      BY <1>3, <2>1, Zenon DEF IsPub
    <2>5. PubInv'
      BY <1>3, <2>1, <2>2, <2>3, <2>4 DEF PubInv
    <2>6. UploadInv'
      BY <1>1 DEF ReleaseInv, UploadInv
    <2> QED BY <1>1, <2>5, <2>6, PublishStepKeeps
  <1> QED BY <1>1, <1>2, <1>3

\* The bytes are read again, and are the checked ones unless it is noted
\* otherwise.
LEMMA ReadBytesKeeps ==
    ASSUME ReleaseInv, ReadBytes
    PROVE  ReleaseInv'
  <1> DEFINE file == archive[pub.name]
  <1>1. /\ PublishRest /\ UNCHANGED <<uploads, replaced>> /\ pub.pc = "bytes"
        /\ Refuse \/ pub' = [pub EXCEPT !.pc = "discover", !.bytes = file.v]
    BY Zenon DEF ReadBytes
  <1>2. CASE Refuse
    BY <1>1, <1>2, RefuseKeeps
  <1>3. CASE pub' = [pub EXCEPT !.pc = "discover", !.bytes = file.v]
    <2>1. IsPub(pub) /\ pub.name \in DOMAIN archive /\ replaced \in BOOLEAN
      BY <1>1 DEF ReleaseInv, PubInv
    <2>2. ~replaced => file.st = "ok" /\ Checked(file.v[1], pub.info[1], pub.meta[1])
      BY <1>1 DEF ReleaseInv, PubInv, Checked
    <2>3. file.st = "ok" => file.v # <<>>
      <3>1. file.st = "ok" => file.v = <<file.v[1]>>
        BY <2>1, Zenon DEF ReleaseInv, FileInv
      <3>2. \A x : <<x>> # <<>>
        OBVIOUS
      <3> QED BY <3>1, <3>2, Zenon
    <2>4. archive' = archive /\ replaced' = replaced
      BY <1>1 DEF PublishRest
    <2> HIDE DEF file
    <2>5. /\ IsPub(pub') /\ pub'.pc = "discover" /\ pub'.name = pub.name
          /\ pub'.info = pub.info /\ pub'.meta = pub.meta /\ pub'.bytes = file.v
      BY <1>3, <2>1, Zenon DEF IsPub
    <2>6. PubInv'
      BY <2>1, <2>2, <2>3, <2>4, <2>5 DEF PubInv
    <2>7. UploadInv'
      BY <1>1 DEF ReleaseInv, UploadInv
    <2> QED BY <1>1, <2>6, <2>7, PublishStepKeeps
  <1> QED BY <1>1, <1>2, <1>3

\* The steps between reading and uploading keep what was read.
LEMMA AdvanceKeeps ==
    ASSUME ReleaseInv, PublishRest, UNCHANGED <<uploads, replaced>>,
           pub.pc \in {"discover", "oidc", "exchange"},
           NEW from, NEW step \in {"oidc", "exchange", "upload"},
           \/ pub' = [pub EXCEPT !.token = from, !.pc = step]
           \/ pub' = [pub EXCEPT !.pc = step]
    PROVE  ReleaseInv'
  <1>1. IsPub(pub) /\ pub.name \in DOMAIN archive /\ replaced \in BOOLEAN
    BY DEF ReleaseInv, PubInv
  <1>2. ~replaced => pub.bytes # <<>> /\ Checked(pub.bytes[1], pub.info[1], pub.meta[1])
    BY DEF ReleaseInv, PubInv
  <1>3. archive' = archive /\ replaced' = replaced
    BY DEF PublishRest
  <1>4. /\ IsPub(pub') /\ pub'.pc = step /\ pub'.name = pub.name
        /\ pub'.info = pub.info /\ pub'.meta = pub.meta /\ pub'.bytes = pub.bytes
    BY <1>1, Zenon DEF IsPub
  <1>5. PubInv'
    BY <1>1, <1>2, <1>3, <1>4 DEF PubInv
  <1>6. UploadInv'
    BY DEF ReleaseInv, UploadInv
  <1> QED BY <1>5, <1>6, PublishStepKeeps

LEMMA BearerSources ==
    ASSUME NEW mode \in {"auto", "always", "never"}, NEW env, NEW matching, NEW bearer
    PROVE  ResolvePublishBearer(mode, env, matching, bearer) \in
                {"config", "github", "gitlab", "error"}
  <1>1. FromConfig(matching, bearer) \in {"config", "error"}
    BY DEF FromConfig
  <1>2. TrustedPublishingProvider(env) \in {"several", "github", "gitlab", None}
    BY DEF TrustedPublishingProvider
  <1> QED BY <1>1, <1>2 DEF ResolvePublishBearer, None

LEMMA DiscoverKeeps ==
    ASSUME ReleaseInv, Discover
    PROVE  ReleaseInv'
  <1>1. PublishRest /\ UNCHANGED <<uploads, replaced>> /\ pub.pc = "discover"
    BY Zenon DEF Discover
  <1>2. CASE Refuse
    BY <1>1, <1>2, RefuseKeeps
  <1>3. CASE ~Refuse
    <2>1. PICK url \in Urls, mode \in {"auto", "always", "never"}, env \in Environments,
               matching \in Credentials :
            LET from == ResolvePublishBearer(mode, env, matching, Bearer)
            IN  IF ~ValidateEndpointUrlShape(url) \/ from = "error" THEN Refuse
                ELSE pub' = [pub EXCEPT !.token = from,
                        !.pc = CASE from = "github" -> "oidc"
                                 [] from = "gitlab" -> "exchange"
                                 [] from = "config" -> "upload"]
      BY <1>3, Zenon DEF Discover
    <2> DEFINE from == ResolvePublishBearer(mode, env, matching, Bearer)
               step == CASE from = "github" -> "oidc"
                         [] from = "gitlab" -> "exchange"
                         [] from = "config" -> "upload"
    <2>2. from # "error" /\ pub' = [pub EXCEPT !.token = from, !.pc = step]
      BY <1>3, <2>1, Zenon
    <2>3. from \in {"config", "github", "gitlab"}
      BY <2>2, BearerSources
    <2> HIDE DEF from
    <2>4. step \in {"oidc", "exchange", "upload"}
      BY <2>3
    <2> HIDE DEF step
    <2> QED BY <1>1, <2>2, <2>4, AdvanceKeeps, Zenon
  <1> QED BY <1>2, <1>3

LEMMA TokensKeep ==
    ASSUME ReleaseInv, AcquireGithubOidcToken \/ ExchangeOidcToken
    PROVE  ReleaseInv'
  <1>1. /\ PublishRest /\ UNCHANGED <<uploads, replaced>>
        /\ pub.pc \in {"discover", "oidc", "exchange"}
    BY DEF AcquireGithubOidcToken, ExchangeOidcToken
  <1>2. CASE Refuse
    BY <1>1, <1>2, RefuseKeeps
  <1>3. CASE \E step \in {"oidc", "exchange", "upload"} : pub' = [pub EXCEPT !.pc = step]
    BY <1>1, <1>3, AdvanceKeeps, Zenon
  <1> QED BY <1>2, <1>3, Zenon DEF AcquireGithubOidcToken, ExchangeOidcToken

LEMMA UploadKeeps ==
    ASSUME ReleaseInv, Upload
    PROVE  ReleaseInv'
  <1> DEFINE new == [info |-> pub.info, bytes |-> pub.bytes, same |-> ~replaced]
  <1>1. /\ PublishRest /\ UNCHANGED replaced /\ pub.pc = "upload"
        /\ uploads' \in {uploads, uploads \cup {new}}
        /\ \E result : pub' = NoPublish(result)
    BY Zenon DEF Upload, Refuse
  <1>2. ~replaced => pub.bytes # <<>> /\ Checked(pub.bytes[1], pub.info[1], pub.meta[1])
    BY <1>1 DEF ReleaseInv, PubInv
  <1>3. new.same => ~replaced
    BY Zenon
  <1>4. new.info = pub.info /\ new.bytes = pub.bytes
    OBVIOUS
  <1> HIDE DEF new
  <1>5. new.same => new.bytes # <<>> /\ \E m : Checked(new.bytes[1], new.info[1], m)
    BY <1>2, <1>3, <1>4, Zenon
  <1>6. \A u \in uploads' : u \in uploads \/ u = new
    BY <1>1
  <1>7. UploadInv'
    BY <1>5, <1>6, Zenon DEF ReleaseInv, UploadInv
  <1> QED BY <1>1, <1>7, EndedKeeps

LEMMA PublishingKeeps ==
    ASSUME ReleaseInv, Publishing
    PROVE  ReleaseInv'
  BY ReadArchiveProjectKeeps, ReadEntriesKeeps, ReadBytesKeeps, DiscoverKeeps, TokensKeep,
     UploadKeeps DEF Publishing

-----------------------------------------------------------------------------
(* The invariant *)

LEMMA InitIsInv == Init => ReleaseInv
  <1> SUFFICES ASSUME Init PROVE ReleaseInv
    OBVIOUS
  <1>1. /\ meta \in Metas /\ archive \in Archives /\ build = NoBuild("none")
        /\ pub = NoPublish("none") /\ uploads = {} /\ replaced = FALSE
    BY DEF Init
  <1>2. MetaInv
    BY <1>1, FilesAssumption, Zenon DEF MetaInv
  <1>3. BuildInv
    BY <1>1, NoBuildIsIdle DEF BuildInv
  <1>4. FileInv
    <2>1. \A name \in DOMAIN archive :
            /\ archive[name].st # "torn"
            /\ archive[name].st = "ok" =>
                    archive[name].v = <<archive[name].v[1]>> /\ IsArchive(archive[name].v[1])
      BY <1>1, FilesAssumption, Zenon
    <2> QED BY <2>1, Zenon DEF FileInv
  <1>5. PubInv
    <2>1. IsPub(pub) /\ pub.pc = "idle"
      BY <1>1 DEF IsPub, NoPublish
    <2> QED BY <1>1, <2>1, Zenon DEF PubInv
  <1>6. UploadInv
    BY <1>1 DEF UploadInv
  <1> QED BY <1>2, <1>3, <1>4, <1>5, <1>6 DEF ReleaseInv

LEMMA NextKeeps ==
    ASSUME ReleaseInv, [Next]_vars
    PROVE  ReleaseInv'
  <1>1. CASE UNCHANGED vars
    <2>1. UNCHANGED <<meta, archive, build, pub, uploads, left, replaced>>
      BY <1>1 DEF vars
    <2>2. MetaInv' /\ BuildInv' /\ FileInv'
      BY <2>1 DEF ReleaseInv, MetaInv, BuildInv, FileInv
    <2>3. PubInv' /\ UploadInv'
      BY <2>1, Zenon DEF ReleaseInv, PubInv, UploadInv
    <2> QED BY <2>2, <2>3 DEF ReleaseInv
  <1> QED BY <1>1, EditsKeep, StartBuildKeeps, BuildKeeps, KillKeeps, StartPublishKeeps,
             PublishingKeeps DEF Next

LEMMA ReleaseInvariant == Spec => []ReleaseInv
  BY InitIsInv, NextKeeps, PTL DEF Spec

-----------------------------------------------------------------------------
(* The properties *)

\* do_build_kpar and do_build_workspace_kpars remove what they have not finished
\* on every error path: a torn archive is left by a kill of its own build, or by a
\* remove_file that failed, until a later build of it succeeds or cleans up.
THEOREM TornArchivesWereLeft == Spec => []TornOnlyIfLeft
  <1>1. ReleaseInv => TornOnlyIfLeft
    BY DEF ReleaseInv, FileInv, TornOnlyIfLeft
  <1> QED BY <1>1, ReleaseInvariant, PTL

\* What the server accepts has passed the checks of prepare_publish_payload,
\* unless a build wrote the archive between the checks and the last read.
THEOREM AcceptedUploadsWereChecked == Spec => []AcceptedUploadsAreSound
  <1>1. ReleaseInv => AcceptedUploadsAreSound
    <2> SUFFICES ASSUME ReleaseInv, NEW u \in uploads, u.same
                 PROVE  /\ u.bytes # <<>> /\ u.bytes[1].info = u.info[1]
                        /\ u.bytes[1].entries = "deflated"
                        /\ ArchiveConsistent(u.bytes[1])
                        /\ LicenseFiles(u.info[1].license) \subseteq u.bytes[1].texts
                        /\ \A i \in 1..Len(u.info[1].usage) :
                                u.info[1].usage[i].resource \notin LocalUsage
                        /\ \A path \in DOMAIN u.bytes[1].files :
                                Language[path] = Metamodels[u.bytes[1].meta.metamodel].kind
      BY Zenon DEF AcceptedUploadsAreSound
    <2>1. u.bytes # <<>> /\ \E m : Checked(u.bytes[1], u.info[1], m)
      BY Zenon DEF ReleaseInv, UploadInv
    <2> DEFINE a == u.bytes[1]
               i == u.info[1]
    <2>2. PICK m : Checked(a, i, m)
      BY <2>1
    <2> HIDE DEF a, i
    <2>3. /\ a.info = i /\ a.entries = "deflated" /\ ArchiveConsistent(a)
          /\ LicenseFiles(i.license) \subseteq a.texts
          /\ \A k \in 1..Len(i.usage) : i.usage[k].resource \notin LocalUsage
          /\ \A path \in DOMAIN a.files :
                    Language[path] = Metamodels[a.meta.metamodel].kind
      BY <2>2, CheckedIsSound
    <2> QED BY <2>1, <2>3, Zenon DEF a, i
  <1> QED BY <1>1, ReleaseInvariant, PTL

\* A complete archive appears by the last step of a build only.
LEMMA OnlyFinished ==
    ASSUME ReleaseInv, [Next]_vars, NEW name \in DOMAIN archive,
           archive'[name].st = "ok", archive'[name] # archive[name]
    PROVE  /\ ArchiveConsistent(archive'[name].v[1])
           /\ archive'[name].v[1].texts \subseteq
                LicenseFiles(archive'[name].v[1].info.license) \cup {Readme, Changelog}
  <1>1. CASE FinishArchive
    <2>1. PICK a : /\ archive' = [archive EXCEPT ![build.name] = Holds(a)]
                   /\ IsArchive(a) /\ ArchiveConsistent(a)
                   /\ a.texts \subseteq LicenseFiles(a.info.license) \cup {Readme, Changelog}
      BY <1>1, Finished DEF ReleaseInv
    <2>2. archive'[name] = Holds(a)
      BY <2>1
    <2>3. archive'[name].v[1] = a
      BY <2>2 DEF Holds
    <2> QED BY <2>1, <2>3
  <1>2. CASE UNCHANGED archive
    BY <1>2
  <1>3. ASSUME NEW file \in {Torn, Absent}, archive' = [archive EXCEPT ![build.name] = file]
        PROVE  FALSE
    <2>1. file.st # "ok"
      BY DEF Torn, Absent
    <2> QED BY <1>3, <2>1
  <1>4. \/ FinishArchive \/ UNCHANGED archive
        \/ \E file \in {Torn, Absent} : archive' = [archive EXCEPT ![build.name] = file]
    <2>1. CASE Build
      <3>1. CASE CreateArchive
        BY <3>1 DEF CreateArchive
      <3>2. CASE CleanUp
        BY <3>2, Zenon DEF CleanUp
      <3>3. CASE ReadInfo \/ ReadMeta \/ ArchiveFile \/ FailToWrite
        BY <3>3, Zenon DEF ReadInfo, ReadMeta, ArchiveFile, FailToWrite
      <3> QED BY <2>1, <3>1, <3>2, <3>3 DEF Build
    <2>2. CASE EditSource \/ EditInfo \/ EditMeta \/ StartBuild \/ Kill
      BY <2>2, Zenon DEF EditSource, EditInfo, EditMeta, StartBuild, Kill
    <2>3. CASE StartPublish \/ Publishing
      BY <2>3, Zenon DEF StartPublish, Publishing, ReadArchiveProject, ReadEntries, ReadBytes, Discover,
                  AcquireGithubOidcToken, ExchangeOidcToken, Upload, PublishRest
    <2>4. CASE UNCHANGED vars
      BY <2>4 DEF vars
    <2> QED BY <2>1, <2>2, <2>3, <2>4 DEF Next
  <1> QED BY <1>1, <1>2, <1>3, <1>4

\* Digest, symbols and text of each file come of one read, so that every archive
\* build completes is consistent, though the user edits meanwhile.
THEOREM BuildsAreConsistent == Spec => BuiltArchivesConsistent
  <1>1. ReleaseInv /\ [Next]_vars =>
            [\A name \in DOMAIN archive :
                archive'[name].st = "ok" /\ archive'[name] # archive[name]
                    => ArchiveConsistent(archive'[name].v[1])]_vars
    BY OnlyFinished, Zenon
  <1> QED BY <1>1, ReleaseInvariant, PTL DEF Spec, BuiltArchivesConsistent

\* build and prepare_publish_payload agree: an archive build completes passes the
\* checks of its entries, where publish takes projects of its kind.
THEOREM BuildsPassThePublishChecks == Spec => BuiltArchivesPass
  <1> DEFINE Passes(a) == Publishable(a) => CheckEntries(a, a.info, a.meta)
  <1>1. ASSUME NEW a, ArchiveConsistent(a),
               a.texts \subseteq LicenseFiles(a.info.license) \cup {Readme, Changelog}
        PROVE  Passes(a)
    BY <1>1, ConsistentPasses, Zenon
  <1>2. ReleaseInv /\ [Next]_vars =>
            [\A name \in DOMAIN archive :
                archive'[name].st = "ok" /\ archive'[name] # archive[name]
                    => Passes(archive'[name].v[1])]_vars
    <2> HIDE DEF Passes
    <2> QED BY <1>1, OnlyFinished, Zenon
  <1>3. ReleaseInv /\ [Next]_vars =>
            [\A name \in DOMAIN archive :
                LET a == archive'[name].v[1] IN
                /\ archive'[name].st = "ok" /\ archive'[name] # archive[name]
                /\ Publishable(a)
                => CheckEntries(a, a.info, a.meta)]_vars
    BY <1>2, Zenon
  <1> QED BY <1>3, ReleaseInvariant, PTL DEF Spec, BuiltArchivesPass

=============================================================================
