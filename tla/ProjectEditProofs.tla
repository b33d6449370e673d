-------------------------- MODULE ProjectEditProofs --------------------------
(***************************************************************************)
(* Theorems about ProjectEdit, for any processes, files and requests and   *)
(* any number of commands: what is on disk was computed from files that    *)
(* were themselves consistent (FilesInv), and a command that no other      *)
(* overlapped knows what it has changed (AloneInv).                        *)
(***************************************************************************)
EXTENDS ProjectEdit, WellFoundedInduction, TLAPS

\* A leaf is Zenon's unless it names another prover.
USE Zenon

Commands == {"init", "include", "exclude", "set", "clear", "addItem", "removeItem",
             "metamodel", "add", "remove"}

\* The records of the model have just their fields.
IsDisk(d) == d \in [info : {d.info}, meta : {d.meta}, config : {d.config}, lock : {d.lock}]

IsProc(r) ==
    r \in [op : {r.op}, req : {r.req}, pc : {r.pc}, info : {r.info}, meta : {r.meta},
           config : {r.config}, backup : {r.backup}, todo : {r.todo}, file : {r.file},
           out : {r.out}, restoring : {r.restoring}, unindexed : {r.unindexed},
           result : {r.result}]

\* A command is to write the file, or has truncated it already.
Storing(r, file) == r.pc \in {"create", "write"} /\ r.file = file
Writing(r, file) == r.pc = "write" /\ r.file = file

\* A command writes the lockfile: lock itself, or an add that locks.
Locks(r) == r.op = "lock" \/ (r.op = "add" /\ r.req.lock)

\* Which command is at which step, with which file.
Control(r) ==
    /\ r.op \in Commands => r.req \in Requests[r.op]
    /\ r.op \in Commands \cup {"lock", "none"}
    /\ r.pc = "config" => r.op \in {"add", "remove"}
    /\ r.pc = "unlink" => r.op = "remove"
    /\ r.pc \in {"backup", "sync"} => r.op = "add" /\ r.req.lock
    /\ r.pc \in {"info", "meta"} => r.op \in Commands \ {"init"}
    /\ r.pc = "source" => r.op = "include"
    /\ r.pc \in {"newInfo", "newMeta"} => r.op = "init"
    /\ r.pc = "lock" \/ Storing(r, "lock") => Locks(r)
    /\ Storing(r, "config") \/ Storing(r, "unlinked") => r.op \in {"add", "remove"}
    /\ Storing(r, "info") => r.op \in Commands
    /\ Storing(r, "meta") => r.op \in Commands \ {"add", "remove"}
    /\ r.pc \in {"create", "write"} =>
            r.file \in {"config", "unlinked", "info", "meta", "lock"}
    /\ r.file = "unlinked" => r.pc # "create"
    /\ r.restoring => r.op = "add" /\ r.file = "info" /\ r.pc \in {"create", "write"}

\* The text of a configuration file that a command writes.
ConfigText(out) == out = Holds(out.v[1]) /\ out.v[1] \in Seq(Projects)

\* What a command holds in memory is as good as what it may find on disk.
Contained(r) ==
    /\ r.info = <<>> \/ (r.info = <<r.info[1]>> /\ GoodInfo(r.info[1]))
    /\ r.pc = "source" => GoodMeta(r.meta[1], r.unindexed)
    /\ r.config \in Seq(Projects)
    /\ InfoFile(r.backup)
    /\ Storing(r, "info") => InfoFile(r.out)
    /\ Storing(r, "meta") => MetaFile(r.out, r.unindexed)
    /\ Storing(r, "config") => ConfigText(r.out)

GoodProc(r) == IsProc(r) /\ Control(r) /\ Contained(r)

FilesInv ==
    /\ IsDisk(disk)
    /\ InfoFile(disk.info) /\ MetaFile(disk.meta, unindexed) /\ ConfigFile(disk.config)
    /\ proc = [p \in Proc |-> proc[p]]
    /\ \A p \in Proc : GoodProc(proc[p])

\* The lockfile that an add or a lock is going to write or has written.
LockOut(d, config) ==
    Holds([usage |-> d.info.v[1].usage,
           source |-> [i \in 1..Len(d.info.v[1].usage) |->
                          OverrideOf(config, d.info.v[1].usage[i].resource)]])

\* What command r has made of the disk b that it found, when nothing else ran.
MetaProgress(r, b, d) == Writing(r, "meta") \/ d.meta = b.meta

InfoProgress(r, b, d) ==
    /\ \/ d.info = b.info
       \/ Writing(r, "info")
       \/ r.op = "init" /\ b.info = Absent /\ (r.pc = "newMeta" \/ Storing(r, "meta"))
       \/ r.op = "add" /\ (r.pc \in {"lock", "sync"} \/ Storing(r, "lock") \/ r.restoring)
    /\ r.op = "init" => b.info = Absent \/ r.pc = "newInfo"
    /\ r.op = "add" /\ r.req.lock /\ ~Storing(r, "config") /\ r.pc \notin {"config", "backup"}
            => r.backup = b.info
    /\ r.restoring => r.out = b.info

ConfigProgress(r, b, d) ==
    LET tables == Tables(b.config)
        added == Holds(AddSource(tables, r.req.iri, r.req.source))
        pushed == PushSource(tables, r.req.iri, r.req.source)
    IN  /\ r.op = "add" /\ (r.pc = "config" \/ Storing(r, "config")) => r.req.source # None
        /\ r.op = "lock" \/ (r.op = "add" /\ (r.req.source = None \/ r.pc = "config")) =>
                d.config = b.config /\ r.config = tables
        /\ r.op = "add" /\ r.req.source # None /\ r.pc # "config" =>
                /\ r.config = pushed
                /\ IF Storing(r, "config") THEN r.out = added ELSE d.config = added

LockProgress(r, b, d) ==
    /\ d.lock = b.lock \/ Writing(r, "lock") \/ r.pc = "sync" \/ r.restoring
    /\ r.pc = "sync" \/ Storing(r, "lock") => d.info.st = "ok" /\ r.out = LockOut(d, r.config)
    /\ r.pc = "sync" => d.lock = r.out

Progress(r, b, d) ==
    /\ ConfigFile(b.config)
    /\ r.file # "unlinked"
    /\ r.pc = "write" => d[r.file] = Empty
    /\ MetaProgress(r, b, d) /\ InfoProgress(r, b, d)
    /\ ConfigProgress(r, b, d) /\ LockProgress(r, b, d)

AloneInv ==
    /\ alone \subseteq Proc
    /\ \A p \in alone :
        Active \subseteq {p} /\ (p \in Active => Progress(proc[p], before, disk))

-----------------------------------------------------------------------------
(* What the commands make of .meta.json *)

\* The fields of a changed .meta.json.
LEMMA SetChecksum ==
    ASSUME NEW m, m \in [index : {m.index}, checksum : {m.checksum}, metamodel : {m.metamodel}],
           NEW x
    PROVE  LET n == [m EXCEPT !.checksum = x]
           IN  /\ n \in [index : {n.index}, checksum : {n.checksum}, metamodel : {n.metamodel}]
               /\ n.index = m.index /\ n.checksum = x
  OBVIOUS

LEMMA SetIndex ==
    ASSUME NEW m, m \in [index : {m.index}, checksum : {m.checksum}, metamodel : {m.metamodel}],
           NEW x
    PROVE  LET n == [m EXCEPT !.index = x]
           IN  /\ n \in [index : {n.index}, checksum : {n.checksum}, metamodel : {n.metamodel}]
               /\ n.index = x /\ n.checksum = m.checksum
  OBVIOUS

LEMMA IncludeKeepsMeta ==
    ASSUME NEW m, NEW skip, GoodMeta(m, skip), NEW path, NEW symbols,
           NEW compute \in BOOLEAN, NEW index \in BOOLEAN
    PROVE  GoodMeta(IncludeFile(m, path, symbols, compute, index),
                    IF index THEN skip \ {path} ELSE skip \cup {path})
  <1> DEFINE sum == IF compute THEN Sha256(symbols) ELSE NoSum
             c == Put(m.checksum, {path}, sum)
             summed == [m EXCEPT !.checksum = c]
             x == Restrict(summed.index,
                  {s \in DOMAIN summed.index : summed.index[s] \notin {path}})
             removed == [summed EXCEPT !.index = x]
             y == Put(removed.index, symbols, path)
             n == [removed EXCEPT !.index = y]
  <1>1. IncludeFile(m, path, symbols, compute, index) = IF index THEN n ELSE summed
    BY DEF IncludeFile, AddChecksum, RemoveIndex
  <1>2. sum.algorithm = "SHA256" => sum.value = symbols
    BY DEF Sha256, NoSum
  <1> HIDE DEF sum
  <1>3. /\ DOMAIN c = DOMAIN m.checksum \cup {path}
        /\ c[path] = sum /\ \A q \in DOMAIN m.checksum \ {path} : c[q] = m.checksum[q]
    BY DEF Put
  <1> HIDE DEF c
  <1>4. /\ summed \in [index : {summed.index}, checksum : {summed.checksum},
                       metamodel : {summed.metamodel}]
        /\ summed.index = m.index /\ summed.checksum = c
    BY SetChecksum DEF GoodMeta
  <1> HIDE DEF summed
  <1>5. /\ removed \in [index : {removed.index}, checksum : {removed.checksum},
                        metamodel : {removed.metamodel}]
        /\ removed.index = x /\ removed.checksum = c
    BY SetIndex, <1>4
  <1>6. /\ DOMAIN x = {s \in DOMAIN m.index : m.index[s] # path}
        /\ \A s \in DOMAIN x : x[s] = m.index[s]
    BY <1>4 DEF Restrict
  <1> HIDE DEF x, removed
  <1>7. /\ n \in [index : {n.index}, checksum : {n.checksum}, metamodel : {n.metamodel}]
        /\ n.index = y /\ n.checksum = c
    BY SetIndex, <1>5
  <1>8. /\ DOMAIN y = DOMAIN x \cup symbols
        /\ \A s \in DOMAIN y : y[s] = IF s \in symbols THEN path ELSE x[s]
    BY <1>5 DEF Put
  <1> HIDE DEF y, n
  <1>9. /\ \A s \in DOMAIN m.index : m.index[s] \in DOMAIN m.checksum
        /\ \A s \in DOMAIN m.index :
              m.index[s] \notin skip /\ m.checksum[m.index[s]].algorithm = "SHA256"
                 => s \in m.checksum[m.index[s]].value
    BY DEF GoodMeta, IndexWithin, IndexAgrees, Range
  <1>10. CASE index
    <2>1. IndexWithin(n)
      BY SMTT(40), <1>3, <1>6, <1>7, <1>8, <1>9 DEF IndexWithin, Range
    <2>2. IndexAgrees(n, skip \ {path})
      BY SMTT(40), <1>2, <1>3, <1>6, <1>7, <1>8, <1>9 DEF IndexAgrees
    <2> QED BY ZenonT(60), <2>1, <2>2, <1>1, <1>7, <1>10 DEF GoodMeta
  <1>11. CASE ~index
    <2>1. IndexWithin(summed)
      BY ZenonT(60), <1>3, <1>4, <1>9 DEF IndexWithin, Range
    <2>2. IndexAgrees(summed, skip \cup {path})
      BY ZenonT(60), <1>3, <1>4, <1>9 DEF IndexAgrees
    <2> QED BY <2>1, <2>2, <1>1, <1>4, <1>11 DEF GoodMeta
  <1> QED BY <1>10, <1>11

LEMMA ExcludeKeepsMeta ==
    ASSUME NEW m, NEW skip, GoodMeta(m, skip), NEW paths
    PROVE  GoodMeta(ExcludeFiles(m, paths), skip)
  <1> DEFINE c == Restrict(m.checksum, DOMAIN m.checksum \ paths)
             less == [m EXCEPT !.checksum = c]
             x == Restrict(less.index, {s \in DOMAIN less.index : less.index[s] \notin paths})
             n == [less EXCEPT !.index = x]
  <1>1. ExcludeFiles(m, paths) = n
    BY DEF ExcludeFiles, RemoveChecksum, RemoveIndex
  <1>2. /\ DOMAIN c = DOMAIN m.checksum \ paths
        /\ \A q \in DOMAIN c : c[q] = m.checksum[q]
    BY DEF Restrict
  <1> HIDE DEF c
  <1>3. /\ less \in [index : {less.index}, checksum : {less.checksum}, metamodel : {less.metamodel}]
        /\ less.index = m.index /\ less.checksum = c
    BY SetChecksum DEF GoodMeta
  <1> HIDE DEF less
  <1>4. /\ DOMAIN x = {s \in DOMAIN m.index : m.index[s] \notin paths}
        /\ \A s \in DOMAIN x : x[s] = m.index[s]
    BY <1>3 DEF Restrict
  <1> HIDE DEF x
  <1>5. /\ n \in [index : {n.index}, checksum : {n.checksum}, metamodel : {n.metamodel}]
        /\ n.index = x /\ n.checksum = c
    BY SetIndex, <1>3
  <1> HIDE DEF n
  <1>6. IndexWithin(n)
    BY SMT, <1>2, <1>4, <1>5 DEF IndexWithin, GoodMeta, Range
  <1>7. IndexAgrees(n, skip)
    BY SMT, <1>2, <1>4, <1>5 DEF IndexAgrees, GoodMeta, Range
  <1> QED BY <1>1, <1>5, <1>6, <1>7 DEF GoodMeta

LEMMA MetamodelKeepsMeta ==
    ASSUME NEW m, NEW skip, GoodMeta(m, skip), NEW value
    PROVE  GoodMeta(SetMetamodel(m, value), skip)
  <1> DEFINE n == SetMetamodel(m, value)
  <1>1. /\ n \in [index : {n.index}, checksum : {n.checksum}, metamodel : {n.metamodel}]
        /\ n.index = m.index /\ n.checksum = m.checksum
    BY DEF SetMetamodel, GoodMeta
  <1> HIDE DEF n
  <1> QED BY <1>1 DEF GoodMeta, IndexWithin, IndexAgrees, n

LEMMA NewMetaIsGood == \A skip : GoodMeta(NewMeta, skip)
  BY SMT DEF GoodMeta, NewMeta, IndexWithin, IndexAgrees, Range

-----------------------------------------------------------------------------
(* Positions in a sequence *)

\* Numbers are well founded: what fails for some number fails for a least one.
LEMMA LeastElement ==
    ASSUME NEW T, T \subseteq Nat, T # {}
    PROVE  \E m \in T : \A k \in T : m <= k
  <1>1. IsWellFoundedOn(OpToRel(<, Nat), Nat)
    BY NatLessThanWellFounded
  <1>2. PICK m \in T : \A y \in T : ~(<<y, m>> \in OpToRel(<, Nat))
    BY <1>1, WFMin
  <1>3. \A y \in T : ~(y < m)
    BY <1>2 DEF OpToRel
  <1> QED BY SMT, <1>3

\* The first and the last of some positions of a sequence.
LEMMA MinMax ==
    ASSUME NEW n \in Nat, NEW T, T \subseteq 1..n, T # {}
    PROVE  /\ Min(T) \in T /\ \A k \in T : Min(T) <= k
           /\ Max(T) \in T /\ \A k \in T : k <= Max(T)
  <1>1. \E m \in T : \A k \in T : m <= k
    <2>1. T \subseteq Nat
      BY SMT
    <2> QED BY <2>1, LeastElement
  <1>2. \E m \in T : \A k \in T : m >= k
    <2> DEFINE U == {i \in 0..n : n - i \in T}
    <2>1. U # {}
      <3>1. PICK k \in T : TRUE
        OBVIOUS
      <3>2. n - k \in 0..n /\ n - (n - k) = k
        BY SMT
      <3> QED BY <3>1, <3>2
    <2>2. U \subseteq Nat
      BY SMT
    <2> HIDE DEF U
    <2>6. PICK i \in U : \A k \in U : i <= k
      BY <2>1, <2>2, LeastElement
    <2> USE DEF U
    <2>3. \A k \in T : n - k \in 0..n /\ n - (n - k) = k
      BY SMT
    <2>4. \A k \in T : i <= n - k
      BY <2>6, <2>3
    <2>5. n - i \in T /\ \A k \in T : n - i >= k
      BY SMT, <2>6, <2>4
    <2> QED BY <2>5
  <1> QED BY <1>1, <1>2 DEF Min, Max

-----------------------------------------------------------------------------
(* What they make of .project.json *)

\* do_add adds a usage, or a constraint to one.
LEMMA AddUsageKeeps ==
    ASSUME NEW u \in Seq(Usages), Distinct(u), NEW new \in Usages
    PROVE  AddUsage(u, new) \in Seq(Usages) /\ Distinct(AddUsage(u, new))
  <1> DEFINE at == UsagesOf(u, new.resource)
  <1>1. CASE at = {}
    <2>1. AddUsage(u, new) = Append(u, new)
      BY <1>1 DEF AddUsage
    <2>2. \A i \in 1..Len(u) : u[i].resource # new.resource
      BY <1>1 DEF UsagesOf
    <2> QED BY SMT, <2>1, <2>2 DEF Distinct
  <1>2. CASE at # {}
    <2>1. Min(at) \in 1..Len(u)
      <3>1. Len(u) \in Nat /\ at \subseteq 1..Len(u)
        BY SMT DEF UsagesOf
      <3> HIDE DEF at
      <3>2. Min(at) \in at
        BY <3>1, <1>2, MinMax
      <3> QED BY <3>1, <3>2
    <2> DEFINE c == u[Min(at)].constraint \o new.constraint
               v == [u EXCEPT ![Min(at)].constraint = c]
    <2>2. AddUsage(u, new) = u \/ AddUsage(u, new) = v
      BY <1>2 DEF AddUsage
    <2>3. u[Min(at)] \in Usages
      BY SMT, <2>1
    <2>4. c \in Seq(STRING)
      BY SMT, <2>3 DEF Usages
    <2> HIDE DEF c
    <2> DEFINE e == [u[Min(at)] EXCEPT !.constraint = c]
    <2>5. e \in Usages /\ e.resource = u[Min(at)].resource
      BY <2>3, <2>4 DEF Usages
    <2>6. v = [u EXCEPT ![Min(at)] = e]
      OBVIOUS
    <2> HIDE DEF e, v, at
    <2>7. v \in Seq(Usages) /\ Distinct(v)
      BY SMT, <2>1, <2>5, <2>6 DEF Distinct
    <2> QED BY <2>2, <2>7
  <1> QED BY <1>1, <1>2

\* The recursion of pop_usage is well defined, and its value a subsequence.
LEMMA PopUsageKeeps ==
    ASSUME NEW u \in Seq(Usages), Distinct(u), NEW resource
    PROVE  PopUsage(u, resource) \in Seq(Usages) /\ Distinct(PopUsage(u, resource))
  <1> DEFINE n == Len(u)
             Rec(g, i) == IF i = 0 THEN <<>>
                          ELSE IF u[i].resource = resource THEN g[i - 1]
                          ELSE Append(g[i - 1], u[i])
             IsKept(g, m) == g = [i \in 0..m |-> Rec(g, i)]
             kept == CHOOSE g : g = [i \in 0..n |-> Rec(g, i)]
  <1>1. PopUsage(u, resource) = kept[n]
    BY DEF PopUsage
  <1>2. n \in Nat /\ \A i \in 1..n : u[i] \in Usages
    BY SMT
  <1> HIDE DEF n
  <1>3. \E g : IsKept(g, n)
    <2> DEFINE T == {m \in 0..n : ~\E g : IsKept(g, m)}
    <2> HIDE DEF IsKept
    <2> SUFFICES ASSUME ~\E g : IsKept(g, n) PROVE FALSE
      OBVIOUS
    <2>6. n \in 0..n
      BY SMT, <1>2
    <2>1. T # {}
      BY <2>6
    <2>5. T \subseteq Nat
      BY SMT, <1>2
    <2> HIDE DEF T
    <2>2. PICK m \in T : \A k \in T : m <= k
      BY <2>1, <2>5, LeastElement
    <2> USE DEF T
    <2>3. CASE m = 0
      <3> DEFINE g == [i \in 0..0 |-> <<>>]
      <3>1. IsKept(g, 0)
        BY SMT DEF IsKept
      <3> QED BY <2>2, <2>3, <3>1
    <2>4. CASE m # 0
      <3>1. m - 1 \in 0..n /\ m - 1 \notin T /\ m \in Nat
        BY SMT, <2>2, <2>4, <1>2
      <3>2. PICK g : IsKept(g, m - 1)
        BY <3>1
      <3> DEFINE h == [i \in 0..m |-> Rec(g, i)]
      <3>3. \A i \in 0..(m - 1) : h[i] = g[i]
        <4>1. \A i \in 0..(m - 1) : g[i] = Rec(g, i)
          BY <3>2 DEF IsKept
        <4> HIDE DEF Rec
        <4> QED BY SMT, <3>1, <4>1
      <3>4. \A i \in 0..m : h[i] = Rec(h, i)
        <4> SUFFICES ASSUME NEW i \in 0..m PROVE h[i] = Rec(h, i)
          OBVIOUS
        <4>1. h[i] = Rec(g, i)
          OBVIOUS
        <4> HIDE DEF h
        <4>2. i # 0 => h[i - 1] = g[i - 1]
          BY SMT, <3>1, <3>3
        <4> QED BY <4>1, <4>2
      <3>5. IsKept(h, m)
        <4> HIDE DEF Rec
        <4> QED BY <3>4 DEF IsKept
      <3> QED BY <2>2, <3>5
    <2> QED BY <2>3, <2>4
  <1>4. IsKept(kept, n)
    BY <1>3
  <1> HIDE DEF kept
  <1> DEFINE P(m) == /\ kept[m] \in Seq(Usages) /\ Distinct(kept[m])
                     /\ \A j \in 1..Len(kept[m]) : \E k \in 1..m :
                            kept[m][j].resource = u[k].resource
  <1>10. \A i \in 0..n : kept[i] = Rec(kept, i)
    BY <1>4
  <1>5. kept[0] = <<>>
    <2>1. 0 \in 0..n
      BY SMT, <1>2
    <2>2. kept[0] = Rec(kept, 0)
      BY <1>10, <2>1
    <2> QED
      BY <2>2
  <1>6. \A m \in 1..n : kept[m] = IF u[m].resource = resource THEN kept[m - 1]
                                  ELSE Append(kept[m - 1], u[m])
    BY SMT, <1>2, <1>10
  <1> HIDE DEF IsKept, Rec
  <1>7. ASSUME NEW m \in 1..n, P(m - 1) PROVE P(m)
    <2> DEFINE w == kept[m - 1]
    <2>1. CASE u[m].resource = resource
      <3>1. kept[m] = w
        BY <1>6, <2>1
      <3>2. \A k \in 1..(m - 1) : k \in 1..m
        BY SMT, <1>2
      <3> QED BY ZenonT(60), <1>7, <3>1, <3>2
    <2>2. CASE u[m].resource # resource
      <3>1. kept[m] = Append(w, u[m])
        BY <1>6, <2>2
      <3>2. /\ w \in Seq(Usages) /\ Distinct(w) /\ u[m] \in Usages
            /\ \A j \in 1..Len(w) : \E k \in 1..(m - 1) : w[j].resource = u[k].resource
        BY <1>2, <1>7
      <3>3. \A k \in 1..(m - 1) : u[k].resource # u[m].resource
        BY SMT, <1>2 DEF Distinct, n
      <3>4. \A j \in 1..Len(w) : w[j].resource # u[m].resource
        BY ZenonT(60), <3>2, <3>3
      <3> HIDE DEF w
      <3>5. Distinct(Append(w, u[m])) /\ Append(w, u[m]) \in Seq(Usages)
        BY SMT, <3>2, <3>4 DEF Distinct
      <3>6. ASSUME NEW j \in 1..Len(Append(w, u[m]))
            PROVE  \E k \in 1..m : Append(w, u[m])[j].resource = u[k].resource
        BY SMTT(40), <1>2, <3>2
      <3> QED BY ZenonT(60), <3>1, <3>5, <3>6
    <2> QED BY <2>1, <2>2
  <1>8. P(0)
    BY SMT, <1>5 DEF Distinct
  <1>9. P(n)
    <2> DEFINE T == {m \in 0..n : ~P(m)}
    <2> HIDE DEF P
    <2>1. SUFFICES ASSUME T # {} PROVE FALSE
      BY SMT, <1>2
    <2>4. T \subseteq Nat
      BY SMT, <1>2
    <2> HIDE DEF T
    <2>2. PICK m \in T : \A k \in T : m <= k
      BY <2>1, <2>4, LeastElement
    <2> USE DEF T
    <2>3. m \in 1..n /\ m - 1 \in 0..n /\ m - 1 \notin T
      BY SMT, <1>2, <1>8, <2>2
    <2> QED BY <1>7, <2>2, <2>3
  <1> QED BY <1>1, <1>9

LEMMA NewInfoIsGood ==
    ASSUME NEW name, NEW license
    PROVE  GoodInfo(NewInfo(name, license))
  <1>1. <<>> \in Seq(STRING) /\ <<>> \in Seq(Usages) /\ Distinct(<<>>)
    BY SMT DEF Distinct
  <1> QED BY <1>1 DEF GoodInfo, NewInfo

LEMMA SetUsageKeepsInfo ==
    ASSUME NEW info, GoodInfo(info), NEW u \in Seq(Usages), Distinct(u)
    PROVE  GoodInfo([info EXCEPT !.usage = u])
  BY DEF GoodInfo

LEMMA SetMaintainerKeepsInfo ==
    ASSUME NEW info, GoodInfo(info), NEW m \in Seq(STRING)
    PROVE  GoodInfo([info EXCEPT !.maintainer = m])
  BY DEF GoodInfo

LEMMA SetInfoKeepsInfo ==
    ASSUME NEW info, GoodInfo(info), NEW value,
           NEW field \in {"name", "publisher", "version", "license"}
    PROVE  GoodInfo(SetInfo(info, field, value))
  <1>1. CASE field = "name"
    BY <1>1 DEF SetInfo, GoodInfo
  <1>2. CASE field = "publisher"
    BY <1>2 DEF SetInfo, GoodInfo
  <1>3. CASE field = "version"
    BY <1>3 DEF SetInfo, GoodInfo
  <1>4. CASE field = "license"
    BY <1>4 DEF SetInfo, GoodInfo
  <1> QED BY <1>1, <1>2, <1>3, <1>4

LEMMA ClearInfoKeepsInfo ==
    ASSUME NEW info, GoodInfo(info), NEW field \in {"publisher", "license", "maintainer"}
    PROVE  GoodInfo(ClearInfo(info, field))
  <1>1. <<>> \in Seq(STRING)
    BY SMT
  <1>2. CASE field = "publisher"
    BY <1>2 DEF ClearInfo, GoodInfo
  <1>3. CASE field = "license"
    BY <1>3 DEF ClearInfo, GoodInfo
  <1>4. CASE field = "maintainer"
    BY <1>1, <1>4, SetMaintainerKeepsInfo DEF ClearInfo
  <1> QED BY <1>2, <1>3, <1>4

LEMMA WithoutIsSeq ==
    ASSUME NEW S, NEW s \in Seq(S), NEW i \in 1..Len(s)
    PROVE  Without(s, i) \in Seq(S)
  <1>1. SubSeq(s, 1, i - 1) \in Seq(S) /\ SubSeq(s, i + 1, Len(s)) \in Seq(S)
    BY SMT
  <1> QED BY SMT, <1>1 DEF Without

LEMMA AddInfoKeepsInfo ==
    ASSUME NEW info, GoodInfo(info), NEW items \in Seq(STRING)
    PROVE  GoodInfo(AddInfo(info, items))
  <1>1. info.maintainer \o items \in Seq(STRING)
    BY SMT DEF GoodInfo
  <1> QED BY <1>1, SetMaintainerKeepsInfo DEF AddInfo

LEMMA RemoveInfoKeepsInfo ==
    ASSUME NEW info, GoodInfo(info), NEW idx \in Nat, RemovableInfo(info, idx)
    PROVE  GoodInfo(RemoveInfo(info, idx))
  <1>1. info.maintainer \in Seq(STRING) /\ idx \in 1..Len(info.maintainer)
    BY SMT DEF GoodInfo, RemovableInfo
  <1>2. Without(info.maintainer, idx) \in Seq(STRING)
    BY <1>1, WithoutIsSeq
  <1> QED BY <1>2, SetMaintainerKeepsInfo DEF RemoveInfo

-----------------------------------------------------------------------------
(* The tables of the configuration *)

LEMMA TablesBounds ==
    ASSUME NEW c \in Seq(Projects), NEW iri, TablesOf(c, iri) # {}
    PROVE  /\ Min(TablesOf(c, iri)) \in TablesOf(c, iri)
           /\ Max(TablesOf(c, iri)) \in TablesOf(c, iri)
           /\ \A k \in TablesOf(c, iri) : k <= Max(TablesOf(c, iri))
  <1>1. Len(c) \in Nat /\ TablesOf(c, iri) \subseteq 1..Len(c)
    BY SMT DEF TablesOf
  <1> QED BY <1>1, MinMax

LEMMA TableIsProject ==
    ASSUME NEW iri \in STRING, NEW from \in STRING
    PROVE  [identifiers |-> {iri}, source |-> from] \in Projects
  BY DEF Projects

LEMMA AddSourceKeeps ==
    ASSUME NEW c \in Seq(Projects), NEW iri \in STRING, NEW from \in STRING
    PROVE  AddSource(c, iri, from) \in Seq(Projects) /\ PushSource(c, iri, from) \in Seq(Projects)
  <1> DEFINE at == TablesOf(c, iri)
             e == [c[Min(at)] EXCEPT !.source = from]
  <1>1. PushSource(c, iri, from) \in Seq(Projects)
    BY SMT, TableIsProject DEF PushSource
  <1>2. CASE at = {}
    BY <1>1, <1>2 DEF AddSource, PushSource
  <1>3. CASE at # {}
    <2>1. Min(at) \in 1..Len(c)
      BY <1>3, TablesBounds DEF TablesOf
    <2>2. AddSource(c, iri, from) = [c EXCEPT ![Min(at)] = e]
      BY <1>3 DEF AddSource
    <2>3. \A i \in 1..Len(c) : c[i] \in Projects
      BY SMT
    <2>4. e \in Projects
      BY <2>1, <2>3 DEF Projects
    <2>5. \A i \in 1..Len(c), x \in Projects : [c EXCEPT ![i] = x] \in Seq(Projects)
      BY SMT
    <2> HIDE DEF e, at
    <2> QED BY <1>1, <2>1, <2>2, <2>4, <2>5
  <1> QED BY <1>2, <1>3

LEMMA RemoveSourceKeeps ==
    ASSUME NEW c \in Seq(Projects), NEW iri
    PROVE  RemoveSource(c, iri) \in Seq(Projects)
  <1> DEFINE at == TablesOf(c, iri)
  <1>1. CASE at = {}
    BY <1>1 DEF RemoveSource
  <1>2. CASE at # {}
    <2>1. Min(at) \in 1..Len(c)
      BY <1>2, TablesBounds DEF TablesOf
    <2> QED BY <2>1, <1>2, WithoutIsSeq DEF RemoveSource
  <1> QED BY <1>1, <1>2

\* When the IRI has no table or one of its own, the configuration in memory
\* and the one on disk give every resource the same source.
LEMMA SourcesAgree ==
    ASSUME NEW c \in Seq(Projects), NEW iri \in STRING, NEW from \in STRING,
           OwnTable(c, iri), NEW other
    PROVE  OverrideOf(PushSource(c, iri, from), other) = OverrideOf(AddSource(c, iri, from), other)
  <1> DEFINE at == TablesOf(c, iri)
             d == PushSource(c, iri, from)
             e == AddSource(c, iri, from)
             t == [identifiers |-> {iri}, source |-> from]
  <1>1. CASE at = {}
    BY <1>1 DEF AddSource, PushSource
  <1>2. CASE at # {}
    <2> DEFINE m == Min(at)
               f == [c[m] EXCEPT !.source = from]
    <2>1. m \in at /\ m \in 1..Len(c) /\ at = {m} /\ c[m].identifiers = {iri}
      <3>1. m \in at
        BY <1>2, TablesBounds
      <3>2. m \in 1..Len(c)
        BY <3>1 DEF TablesOf
      <3> QED BY <3>1, <3>2 DEF OwnTable
    <2>2. e = [c EXCEPT ![m] = f]
      BY <1>2 DEF AddSource
    <2>3. c[m] \in Projects
      BY SMT, <2>1
    <2>4. f.source = from /\ f.identifiers = {iri}
      BY <2>1, <2>3 DEF Projects
    <2>5. d = Append(c, t) /\ t.identifiers = {iri} /\ t.source = from
      BY DEF PushSource
    <2>6. \A i \in 1..Len(c) : iri \in c[i].identifiers => i = m
      BY <2>1 DEF TablesOf
    <2> SUFFICES OverrideOf(d, other) = OverrideOf(e, other)
      OBVIOUS
    <2> HIDE DEF at, m, f, t, d, e
    <2>7. /\ Len(d) = Len(c) + 1 /\ d[Len(c) + 1] = t
          /\ \A i \in 1..Len(c) : d[i] = c[i]
      BY SMT, <2>5
    <2>8. /\ Len(e) = Len(c) /\ e[m] = f
          /\ \A i \in 1..Len(c) : i # m => e[i] = c[i]
      BY SMT, <2>1, <2>2
    <2>9. d \in Seq(Projects) /\ e \in Seq(Projects)
      BY AddSourceKeeps DEF d, e
    <2>10. CASE other = iri
      <3>1. TablesOf(e, other) = {m}
        BY <2>1, <2>4, <2>6, <2>8, <2>10 DEF TablesOf
      <3>2. Len(c) + 1 \in TablesOf(d, other) /\ \A k \in TablesOf(d, other) : k <= Len(c) + 1
        BY SMT, <2>5, <2>7, <2>10 DEF TablesOf
      <3>3. Max(TablesOf(d, other)) = Len(c) + 1
        <4>1. Max(TablesOf(d, other)) \in 1..(Len(c) + 1) /\ Len(c) + 1 <= Max(TablesOf(d, other))
          BY <3>2, <2>7, <2>9, TablesBounds DEF TablesOf
        <4> QED BY SMT, <4>1
      <3>4. Max(TablesOf(e, other)) = m
        BY <3>1, <2>9, TablesBounds
      <3>5. OverrideOf(e, other) = e[m].source
        BY <3>1, <3>4 DEF OverrideOf
      <3>6. OverrideOf(d, other) = d[Len(c) + 1].source
        BY <3>2, <3>3 DEF OverrideOf
      <3> QED BY <3>5, <3>6, <2>4, <2>5, <2>7, <2>8
    <2>11. CASE other # iri
      <3>1. TablesOf(d, other) = TablesOf(c, other)
        BY SMT, <2>5, <2>7, <2>11 DEF TablesOf
      <3>2. TablesOf(e, other) = TablesOf(c, other) /\ m \notin TablesOf(c, other)
        BY <2>1, <2>4, <2>8, <2>11 DEF TablesOf
      <3>3. CASE TablesOf(c, other) # {}
        <4>1. Max(TablesOf(c, other)) \in 1..Len(c) /\ Max(TablesOf(c, other)) # m
          BY <3>2, <3>3, TablesBounds DEF TablesOf
        <4>2. /\ OverrideOf(d, other) = d[Max(TablesOf(c, other))].source
              /\ OverrideOf(e, other) = e[Max(TablesOf(c, other))].source
          BY <3>1, <3>2, <3>3 DEF OverrideOf
        <4> QED BY <4>1, <4>2, <2>7, <2>8
      <3>4. CASE TablesOf(c, other) = {}
        BY <3>1, <3>2, <3>4 DEF OverrideOf
      <3> QED BY <3>3, <3>4
    <2> QED BY <2>10, <2>11
  <1> QED BY <1>1, <1>2

-----------------------------------------------------------------------------
(* The records of the processes *)

SameCommand(r, n) == n.op = r.op /\ n.req = r.req
SameMemory(r, n) ==
    /\ n.info = r.info /\ n.meta = r.meta /\ n.unindexed = r.unindexed
    /\ n.config = r.config /\ n.backup = r.backup
SameOutput(r, n) == n.file = r.file /\ n.out = r.out /\ n.restoring = r.restoring

LEMMA AtFields ==
    ASSUME NEW r, IsProc(r), NEW pc
    PROVE  /\ IsProc(At(r, pc)) /\ At(r, pc).pc = pc
           /\ SameCommand(r, At(r, pc)) /\ SameMemory(r, At(r, pc)) /\ SameOutput(r, At(r, pc))
  BY DEF At, IsProc, SameCommand, SameMemory, SameOutput

LEMMA StoreFields ==
    ASSUME NEW r, IsProc(r), NEW file, NEW out
    PROVE  LET n == Store(r, file, out)
           IN  /\ IsProc(n) /\ n.pc = "create" /\ n.file = file /\ n.out = out
               /\ SameCommand(r, n) /\ SameMemory(r, n) /\ n.restoring = r.restoring
  BY DEF Store, IsProc, SameCommand, SameMemory

LEMMA IdleFields ==
    ASSUME NEW result
    PROVE  LET r == Idle(result)
           IN  /\ IsProc(r) /\ r.op = "none" /\ r.pc = "idle" /\ r.result = result
               /\ r.info = <<>> /\ r.meta = <<>> /\ r.unindexed = {}
               /\ r.config = <<>> /\ r.backup = Absent
               /\ r.file = "info" /\ r.out = Absent /\ r.restoring = FALSE
  BY DEF Idle, IsProc

LEMMA EmptyConfig == <<>> \in Seq(Projects)
  BY SMT

LEMMA IdleIsGood == \A result : GoodProc(Idle(result))
  <1> SUFFICES ASSUME NEW result PROVE GoodProc(Idle(result))
    OBVIOUS
  <1> DEFINE r == Idle(result)
  <1>1. /\ IsProc(r) /\ r.op = "none" /\ r.pc = "idle"
        /\ r.info = <<>> /\ r.meta = <<>> /\ r.config = <<>> /\ r.backup = Absent
        /\ r.restoring = FALSE
    BY IdleFields
  <1> HIDE DEF r
  <1>2. Control(r)
    BY <1>1 DEF Control, Commands, Storing
  <1>3. Contained(r)
    BY <1>1, EmptyConfig DEF Contained, InfoFile, Storing
  <1> QED BY <1>1, <1>2, <1>3 DEF GoodProc, r

\* A step that writes no file keeps what is in memory.
LEMMA AtIsGood ==
    ASSUME NEW r, GoodProc(r), NEW pc, pc \notin {"create", "write", "source"}, Control(At(r, pc))
    PROVE  GoodProc(At(r, pc))
  <1> DEFINE n == At(r, pc)
  <1>1. IsProc(n) /\ n.pc = pc /\ SameMemory(r, n)
    BY AtFields DEF GoodProc
  <1> HIDE DEF n
  <1>2. Contained(n)
    BY <1>1 DEF SameMemory, Contained, GoodProc, Storing
  <1> QED BY <1>1, <1>2 DEF GoodProc, n

\* A file to be written must be good, and the command one that writes it.
LEMMA StoreIsGood ==
    ASSUME NEW r, GoodProc(r), NEW file, NEW out, Control(Store(r, file, out)),
           file = "info" => InfoFile(out), file = "meta" => MetaFile(out, r.unindexed),
           file = "config" => ConfigText(out)
    PROVE  GoodProc(Store(r, file, out))
  <1> DEFINE n == Store(r, file, out)
  <1>3. IsProc(r)
    BY DEF GoodProc
  <1>1. IsProc(n) /\ n.pc = "create" /\ n.file = file /\ n.out = out /\ SameMemory(r, n)
    BY SMT, <1>3, StoreFields
  <1> HIDE DEF n
  <1>2. Contained(n)
    BY <1>1 DEF SameMemory, Contained, GoodProc, Storing
  <1> QED BY <1>1, <1>2 DEF GoodProc, n

\* The conditions under which Control allows a step.
LEMMA AtControl ==
    ASSUME NEW r, GoodProc(r), NEW pc, ~r.restoring,
           \/ pc = "info" /\ r.op \in Commands \ {"init"}
           \/ pc = "backup" /\ r.op = "add" /\ r.req.lock
           \/ pc = "unlink" /\ r.op = "remove"
           \/ pc = "newMeta" /\ r.op = "init"
           \/ pc = "lock" /\ Locks(r)
           \/ pc = "sync" /\ r.op = "add" /\ r.req.lock
    PROVE  GoodProc(At(r, pc))
  <1> DEFINE n == At(r, pc)
  <1>1. n.pc = pc /\ n.op = r.op /\ n.req = r.req /\ n.restoring = r.restoring
    BY ZenonT(60), AtFields DEF GoodProc, SameCommand, SameOutput
  <1>2. Control(r)
    BY DEF GoodProc
  <1> HIDE DEF n
  <1>3. Control(n)
    BY <1>1, <1>2 DEF Control, Storing, Locks
  <1> QED BY <1>3, AtIsGood DEF n

LEMMA StoreControl ==
    ASSUME NEW r, GoodProc(r), NEW file, NEW out,
           \/ file = "info" /\ r.op \in Commands /\ InfoFile(out)
           \/ /\ file = "meta" /\ r.op \in Commands \ {"add", "remove"} /\ ~r.restoring
              /\ MetaFile(out, r.unindexed)
           \/ file = "config" /\ r.op \in {"add", "remove"} /\ ~r.restoring /\ ConfigText(out)
           \/ file = "lock" /\ Locks(r) /\ ~r.restoring
    PROVE  GoodProc(Store(r, file, out))
  <1> DEFINE n == Store(r, file, out)
  <1>1. IsProc(r) /\ Control(r)
    BY DEF GoodProc
  <1>2. /\ n.pc = "create" /\ n.file = file /\ n.op = r.op /\ n.req = r.req
        /\ n.restoring = r.restoring
    BY SMT, <1>1, StoreFields DEF SameCommand
  <1> HIDE DEF n
  <1>3. Control(n)
    BY ZenonT(60), <1>1, <1>2 DEF Control, Storing, Locks
  <1>4. /\ file = "info" => InfoFile(out)
        /\ file = "meta" => MetaFile(out, r.unindexed)
        /\ file = "config" => ConfigText(out)
    OBVIOUS
  <1> QED BY <1>3, <1>4, StoreIsGood DEF n

LEMMA AfterConfigIsGood ==
    ASSUME NEW r, GoodProc(r), r.op \in {"add", "remove"}, ~r.restoring
    PROVE  GoodProc(AfterConfig(r))
  <1>1. CASE r.op = "remove"
    <2>1. AfterConfig(r) = At(r, "info")
      BY <1>1 DEF AfterConfig
    <2> QED BY <1>1, <2>1, AtControl DEF Commands
  <1>2. CASE r.op = "add"
    <2>1. r.req.lock \in BOOLEAN
      BY SMT, <1>2, RequestsAssumption DEF GoodProc, Control, Commands
    <2>2. CASE r.req.iri \in Std
      <3>1. AfterConfig(r) = Done(r)
        BY <1>2, <2>2 DEF AfterConfig
      <3> QED BY <3>1, IdleIsGood DEF Done
    <2>3. CASE r.req.iri \notin Std /\ r.req.lock
      <3>1. AfterConfig(r) = At(r, "backup")
        BY <1>2, <2>3 DEF AfterConfig
      <3> QED BY <1>2, <2>3, <3>1, AtControl
    <2>4. CASE r.req.iri \notin Std /\ ~r.req.lock
      <3>1. AfterConfig(r) = At(r, "info")
        BY <1>2, <2>4 DEF AfterConfig
      <3> QED BY <1>2, <3>1, AtControl DEF Commands
    <2> QED BY ZenonT(60), <2>1, <2>2, <2>3, <2>4
  <1> QED BY <1>1, <1>2

LEMMA GiveUpIsGood ==
    ASSUME NEW r, GoodProc(r)
    PROVE  GoodProc(GiveUp(r))
  <1>1. CASE r.op = "add"
    <2> DEFINE s == Store(r, "info", r.backup)
               n == [s EXCEPT !.restoring = TRUE]
    <2>1. GoodProc(s) /\ s.pc = "create" /\ s.file = "info" /\ s.op = "add"
      BY SMTT(40), <1>1, StoreControl, StoreFields DEF GoodProc, Contained, SameCommand, Commands
    <2>2. GiveUp(r) = n
      BY <1>1 DEF GiveUp
    <2> HIDE DEF s
    <2>3. /\ IsProc(n) /\ SameCommand(s, n) /\ SameMemory(s, n) /\ n.pc = s.pc
          /\ n.file = s.file /\ n.out = s.out /\ n.restoring = TRUE
      BY <2>1 DEF IsProc, SameCommand, SameMemory, GoodProc
    <2> HIDE DEF n
    <2>4. Control(n)
      BY ZenonT(60), <2>1, <2>3 DEF GoodProc, Control, SameCommand, Storing, Locks
    <2>5. Contained(n)
      BY <2>1, <2>3 DEF GoodProc, Contained, SameMemory, Storing
    <2> QED BY ZenonT(60), <2>2, <2>3, <2>4, <2>5 DEF GoodProc
  <1>2. CASE r.op # "add"
    BY <1>2, IdleIsGood DEF GiveUp, Fail
  <1> QED BY <1>1, <1>2

LEMMA AfterWriteIsGood ==
    ASSUME NEW r, GoodProc(r), r.pc = "write"
    PROVE  GoodProc(AfterWrite(r))
  <1>1. /\ r.op \in Commands => r.req \in Requests[r.op]
        /\ r.file \in {"config", "unlinked", "info", "meta", "lock"}
        /\ r.file \in {"config", "unlinked"} => r.op \in {"add", "remove"} /\ ~r.restoring
        /\ r.file = "info" => r.op \in Commands
        /\ r.file = "lock" => Locks(r) /\ ~r.restoring
    BY DEF GoodProc, Control, Storing
  <1>2. CASE r.file \in {"config", "unlinked"}
    <2>1. AfterWrite(r) = AfterConfig(r)
      BY <1>2 DEF AfterWrite
    <2> QED BY <1>1, <1>2, <2>1, AfterConfigIsGood
  <1>3. CASE r.file = "meta"
    <2>1. AfterWrite(r) = Done(r)
      BY <1>3 DEF AfterWrite
    <2> QED BY <2>1, IdleIsGood DEF Done
  <1>4. CASE r.file = "lock"
    <2>1. AfterWrite(r) = IF r.op = "add" /\ r.req.sync THEN At(r, "sync") ELSE Done(r)
      BY <1>4 DEF AfterWrite
    <2>2. CASE r.op = "add" /\ r.req.sync
      BY <1>1, <1>4, <2>1, <2>2, AtControl DEF Locks
    <2>3. CASE ~(r.op = "add" /\ r.req.sync)
      BY <2>1, <2>3, IdleIsGood DEF Done
    <2> QED BY <2>2, <2>3
  <1>5. CASE r.file = "info"
    <2>1. r.restoring => r.op = "add"
      BY DEF GoodProc, Control
    <2>2. CASE r.op = "init"
      <3>1. AfterWrite(r) = At(r, "newMeta")
        BY <1>5, <2>1, <2>2 DEF AfterWrite
      <3> QED BY <2>1, <2>2, <3>1, AtControl
    <2>3. CASE r.restoring
      <3>1. AfterWrite(r) = Fail(r)
        BY <1>5, <2>1, <2>3 DEF AfterWrite
      <3> QED BY <3>1, IdleIsGood DEF Fail
    <2>4. CASE r.op = "add" /\ ~r.restoring
      <3>1. AfterWrite(r) = IF r.req.lock THEN At(r, "lock") ELSE Done(r)
        BY <1>5, <2>4 DEF AfterWrite
      <3>2. CASE r.req.lock
        BY <2>4, <3>1, <3>2, AtControl DEF Locks
      <3>3. CASE ~r.req.lock
        BY <3>1, <3>3, IdleIsGood DEF Done
      <3> QED BY <3>2, <3>3
    <2>5. CASE r.op \notin {"init", "add"}
      <3>1. AfterWrite(r) = Done(r)
        BY <1>5, <2>1, <2>5 DEF AfterWrite
      <3> QED BY <3>1, IdleIsGood DEF Done
    <2> QED BY <2>2, <2>3, <2>4, <2>5
  <1> QED BY <1>1, <1>2, <1>3, <1>4, <1>5

LEMMA BrokenIsGood ==
    ASSUME NEW r, GoodProc(r), r.pc \in {"create", "write"}
    PROVE  GoodProc(Broken(r))
  <1>1. r.file \in {"config", "unlinked", "info", "meta", "lock"}
    BY DEF GoodProc, Control
  <1>2. CASE r.file = "lock"
    BY <1>2, GiveUpIsGood DEF Broken
  <1>3. CASE r.file \in {"config", "unlinked"}
    <2>1. Broken(r) = Fail(r)
      BY <1>3 DEF Broken
    <2> QED BY <2>1, IdleIsGood DEF Fail
  <1>4. CASE r.file \in {"info", "meta"}
    <2>1. Broken(r) = Idle("broken")
      BY <1>4 DEF Broken
    <2> QED BY <2>1, IdleIsGood
  <1> QED BY <1>1, <1>2, <1>3, <1>4

LEMMA HoldsFields == \A v : Holds(v).st = "ok" /\ Holds(v).v = <<v>> /\ Holds(v).v[1] = v
  BY DEF Holds

LEMMA HoldsInfo == ASSUME NEW info, GoodInfo(info) PROVE InfoFile(Holds(info))
  BY HoldsFields DEF InfoFile

LEMMA HoldsMeta ==
    ASSUME NEW meta, NEW skip, GoodMeta(meta, skip) PROVE MetaFile(Holds(meta), skip)
  BY HoldsFields DEF MetaFile

LEMMA HoldsConfig == ASSUME NEW c \in Seq(Projects) PROVE ConfigText(Holds(c))
  BY HoldsFields DEF ConfigText

\* What a file holds, and the tables of a configuration file.
LEMMA FileContents ==
    /\ \A f : InfoFile(f) => f.v = <<>> \/ (f.v = <<f.v[1]>> /\ GoodInfo(f.v[1]))
    /\ \A f, skip : MetaFile(f, skip) => f.v = <<>> \/ (f.v = <<f.v[1]>> /\ GoodMeta(f.v[1], skip))
    /\ \A f : ConfigFile(f) => Tables(f) \in Seq(Projects)
  <1>1. Absent.v = <<>> /\ Empty.v = <<>> /\ Torn.v = <<>>
    BY DEF Absent, Empty, Torn
  <1>2. \A f : InfoFile(f) => f.v = <<>> \/ (f.v = <<f.v[1]>> /\ GoodInfo(f.v[1]))
    <2> SUFFICES ASSUME NEW f, InfoFile(f)
                 PROVE  f.v = <<>> \/ (f.v = <<f.v[1]>> /\ GoodInfo(f.v[1]))
      OBVIOUS
    <2>1. CASE f = Holds(f.v[1]) /\ GoodInfo(f.v[1])
      <3>1. f.v = <<f.v[1]>>
        BY <2>1, HoldsFields
      <3> QED BY <2>1, <3>1
    <2> QED BY <1>1, <2>1 DEF InfoFile
  <1>3. \A f, skip : MetaFile(f, skip) => f.v = <<>> \/ (f.v = <<f.v[1]>> /\ GoodMeta(f.v[1], skip))
    <2> SUFFICES ASSUME NEW f, NEW skip, MetaFile(f, skip)
                 PROVE  f.v = <<>> \/ (f.v = <<f.v[1]>> /\ GoodMeta(f.v[1], skip))
      OBVIOUS
    <2>1. CASE f = Holds(f.v[1]) /\ GoodMeta(f.v[1], skip)
      <3>1. f.v = <<f.v[1]>>
        BY <2>1, HoldsFields
      <3> QED BY <2>1, <3>1
    <2> QED BY <1>1, <2>1 DEF MetaFile
  <1>4. \A f : ConfigFile(f) => Tables(f) \in Seq(Projects)
    <2> SUFFICES ASSUME NEW f, ConfigFile(f) PROVE Tables(f) \in Seq(Projects)
      OBVIOUS
    <2>1. CASE f \in {Absent, Empty, Torn}
      <3>1. f.v = <<>>
        BY <1>1, <2>1
      <3> QED BY <3>1, EmptyConfig DEF Tables
    <2>2. CASE f.v[1] \in Seq(Projects)
      BY <2>2, EmptyConfig DEF Tables
    <2> QED BY <2>1, <2>2 DEF ConfigFile
  <1> QED BY <1>2, <1>3, <1>4

LEMMA DoIncludeIsGood ==
    ASSUME NEW r, GoodProc(r), r.op = "include", ~r.restoring,
           HasMeta(r) => GoodMeta(r.meta[1], r.unindexed)
    PROVE  GoodProc(DoInclude(r))
  <1> DEFINE n == DoInclude(r)
             m == IF HasMeta(r) THEN r.meta ELSE <<NewMeta>>
  <1>1. /\ IsProc(n) /\ SameCommand(r, n) /\ n.pc = "source" /\ n.meta = m
        /\ n.info = r.info /\ n.unindexed = r.unindexed /\ n.config = r.config
        /\ n.backup = r.backup /\ SameOutput(r, n)
    BY DEF DoInclude, GoodProc, IsProc, SameCommand, SameOutput
  <1>2. GoodMeta(m[1], r.unindexed)
    <2>1. CASE HasMeta(r)
      BY <2>1
    <2>2. CASE ~HasMeta(r)
      <3>1. m = <<NewMeta>>
        BY <2>2
      <3> HIDE DEF m
      <3>2. m[1] = NewMeta
        BY <3>1
      <3> QED BY <3>2, NewMetaIsGood
    <2> QED BY <2>1, <2>2
  <1> HIDE DEF n, m
  <1>3. Control(n)
    BY <1>1 DEF GoodProc, Control, SameCommand, SameOutput, Storing, Locks
  <1>4. Contained(n)
    BY <1>1, <1>2 DEF GoodProc, Contained, Storing
  <1> QED BY <1>1, <1>3, <1>4 DEF GoodProc, n

LEMMA PutInfoIsGood ==
    ASSUME NEW r, GoodProc(r), r.op \in Commands, NEW info, GoodInfo(info)
    PROVE  GoodProc(PutInfo(r, info))
  BY HoldsInfo, StoreControl DEF PutInfo

LEMMA PutMetaIsGood ==
    ASSUME NEW r, GoodProc(r), r.op \in Commands \ {"add", "remove"}, ~r.restoring,
           NEW meta, GoodMeta(meta, r.unindexed)
    PROVE  GoodProc(PutMeta(r, meta))
  BY HoldsMeta, StoreControl DEF PutMeta

LEMMA FailIsGood == \A r : GoodProc(Fail(r)) /\ GoodProc(Done(r))
  BY IdleIsGood DEF Fail, Done

LEMMA DecideIsGood ==
    ASSUME NEW r, GoodProc(r), r.op \in Commands \ {"init"}, ~r.restoring,
           HasMeta(r) => GoodMeta(r.meta[1], r.unindexed)
    PROVE  GoodProc(Decide(r))
  <1>1. HasMeta(r) => GoodMeta(r.meta[1], r.unindexed)
    OBVIOUS
  <1>2. HasInfo(r) => GoodInfo(r.info[1])
    BY DEF HasInfo, GoodProc, Contained
  <1>3. r.req \in Requests[r.op]
    BY DEF GoodProc, Control
  <1>4. CASE r.op = "include"
    <2>1. Decide(r) = DoInclude(r)
      BY <1>4 DEF Decide
    <2> QED BY <1>4, <2>1, DoIncludeIsGood
  <1>5. CASE r.op = "exclude"
    <2>1. Decide(r) = DoExclude(r)
      BY <1>5 DEF Decide
    <2>2. GoodProc(DoExclude(r))
      <3> DEFINE m == Excluded(r.meta[1], r.req, Len(r.req))
      <3>1. DoExclude(r) = Fail(r) \/ (HasMeta(r) /\ DoExclude(r) = PutMeta(r, m))
        BY DEF DoExclude
      <3>2. HasMeta(r) => GoodMeta(m, r.unindexed)
        BY <1>1, ExcludeKeepsMeta DEF Excluded
      <3> HIDE DEF m
      <3> QED BY <1>5, <3>1, <3>2, PutMetaIsGood, FailIsGood DEF Commands
    <2> QED BY <2>1, <2>2
  <1>6. CASE r.op = "add"
    <2>1. Decide(r) = DoAdd(r)
      BY <1>6 DEF Decide
    <2>2. r.req \in [iri : STRING, constraint : Seq(STRING), source : STRING,
                     lock : BOOLEAN, sync : BOOLEAN]
      BY <1>3, <1>6, RequestsAssumption
    <2>3. GoodProc(DoAdd(r))
      <3> DEFINE usages == AddUsage(r.info[1].usage, Usage(r.req.iri, r.req.constraint))
                 info == [r.info[1] EXCEPT !.usage = usages]
      <3>1. \/ DoAdd(r) = Fail(r) \/ DoAdd(r) = Done(r)
            \/ HasInfo(r) /\ DoAdd(r) = PutInfo(r, info)
        BY DEF DoAdd
      <3>2. Usage(r.req.iri, r.req.constraint) \in Usages
        BY <2>2 DEF Usage, Usages
      <3>3. HasInfo(r) => usages \in Seq(Usages) /\ Distinct(usages)
        BY <1>2, <3>2, AddUsageKeeps DEF GoodInfo
      <3> HIDE DEF usages
      <3>4. HasInfo(r) => GoodInfo(info)
        BY <1>2, <3>3, SetUsageKeepsInfo
      <3> HIDE DEF info
      <3> QED BY <1>6, <3>1, <3>4, PutInfoIsGood, FailIsGood DEF Commands
    <2> QED BY <2>1, <2>3
  <1>7. CASE r.op = "remove"
    <2>1. Decide(r) = DoRemove(r)
      BY <1>7 DEF Decide
    <2>2. GoodProc(DoRemove(r))
      <3> DEFINE usages == PopUsage(r.info[1].usage, r.req)
                 info == [r.info[1] EXCEPT !.usage = usages]
      <3>1. DoRemove(r) = Fail(r) \/ (HasInfo(r) /\ DoRemove(r) = PutInfo(r, info))
        BY DEF DoRemove
      <3>2. HasInfo(r) => usages \in Seq(Usages) /\ Distinct(usages)
        BY <1>2, PopUsageKeeps DEF GoodInfo
      <3> HIDE DEF usages
      <3>3. HasInfo(r) => GoodInfo(info)
        BY <1>2, <3>2, SetUsageKeepsInfo
      <3> HIDE DEF info
      <3> QED BY <1>7, <3>1, <3>3, PutInfoIsGood, FailIsGood DEF Commands
    <2> QED BY <2>1, <2>2
  <1>8. CASE r.op = "set"
    <2>1. Decide(r) = ApplySet(r)
      BY <1>8 DEF Decide
    <2>2. r.req.field \in {"name", "publisher", "version", "license"}
      BY SMTT(40), <1>3, <1>8, RequestsAssumption
    <2>3. ApplySet(r) = Fail(r)
            \/ (HasInfo(r) /\ ApplySet(r) = PutInfo(r, SetInfo(r.info[1], r.req.field,
                 r.req.value)))
      BY DEF ApplySet
    <2>4. HasInfo(r) => GoodInfo(SetInfo(r.info[1], r.req.field, r.req.value))
      BY <1>2, <2>2, SetInfoKeepsInfo
    <2> QED BY <1>8, <2>1, <2>3, <2>4, PutInfoIsGood, FailIsGood DEF Commands
  <1>9. CASE r.op = "metamodel"
    <2>1. Decide(r) = ApplySetMeta(r)
      BY <1>9 DEF Decide
    <2>2. ApplySetMeta(r) = Fail(r)
            \/ (HasMeta(r) /\ ApplySetMeta(r) = PutMeta(r, SetMetamodel(r.meta[1], r.req)))
      BY DEF ApplySetMeta
    <2>3. HasMeta(r) => GoodMeta(SetMetamodel(r.meta[1], r.req), r.unindexed)
      BY <1>1, MetamodelKeepsMeta
    <2> QED BY <1>9, <2>1, <2>2, <2>3, PutMetaIsGood, FailIsGood DEF Commands
  <1>10. CASE r.op = "clear"
    <2>1. Decide(r) = ApplyClear(r)
      BY <1>10 DEF Decide
    <2>2. ApplyClear(r) = Fail(r)
            \/ (HasInfo(r) /\ ApplyClear(r) = PutInfo(r, ClearInfo(r.info[1], r.req)))
      BY DEF ApplyClear
    <2>3. HasInfo(r) => GoodInfo(ClearInfo(r.info[1], r.req))
      BY <1>2, <1>3, <1>10, RequestsAssumption, ClearInfoKeepsInfo
    <2> QED BY <1>10, <2>1, <2>2, <2>3, PutInfoIsGood, FailIsGood DEF Commands
  <1>11. CASE r.op = "addItem"
    <2>1. Decide(r) = ApplyAdd(r)
      BY <1>11 DEF Decide
    <2>2. ApplyAdd(r) = Fail(r)
            \/ (HasInfo(r) /\ ApplyAdd(r) = PutInfo(r, AddInfo(r.info[1], r.req)))
      BY DEF ApplyAdd
    <2>3. HasInfo(r) => GoodInfo(AddInfo(r.info[1], r.req))
      BY <1>2, <1>3, <1>11, RequestsAssumption, AddInfoKeepsInfo
    <2> QED BY <1>11, <2>1, <2>2, <2>3, PutInfoIsGood, FailIsGood DEF Commands
  <1>12. CASE r.op = "removeItem"
    <2>1. Decide(r) = ApplyRemove(r)
      BY <1>12 DEF Decide
    <2>2. ApplyRemove(r) = Fail(r)
            \/ /\ HasInfo(r) /\ RemovableInfo(r.info[1], r.req)
               /\ ApplyRemove(r) = PutInfo(r, RemoveInfo(r.info[1], r.req))
      BY DEF ApplyRemove
    <2>3. HasInfo(r) /\ RemovableInfo(r.info[1], r.req) => GoodInfo(RemoveInfo(r.info[1], r.req))
      BY <1>2, <1>3, <1>12, RequestsAssumption, RemoveInfoKeepsInfo
    <2> QED BY <1>12, <2>1, <2>2, <2>3, PutInfoIsGood, FailIsGood DEF Commands
  <1> QED BY <1>4, <1>5, <1>6, <1>7, <1>8, <1>9, <1>10, <1>11, <1>12 DEF Commands

\* A step of one process concerns its own state and the files.
LEMMA ProcStep ==
    ASSUME FilesInv, NEW p \in Proc, NEW r, GoodProc(r), Goto(p, r),
           IsDisk(disk'), InfoFile(disk'.info), MetaFile(disk'.meta, unindexed'),
           ConfigFile(disk'.config)
    PROVE  FilesInv'
  <1>1. proc = [q \in Proc |-> proc[q]] /\ \A q \in Proc : GoodProc(proc[q])
    BY DEF FilesInv
  <1>2. proc' = [q \in Proc |-> IF q = p THEN r ELSE proc[q]]
    BY <1>1 DEF Goto
  <1>3. proc' = [q \in Proc |-> proc'[q]] /\ \A q \in Proc : GoodProc(proc'[q])
    BY <1>1, <1>2
  <1> QED BY <1>3 DEF FilesInv

LEMMA ReadingStep ==
    ASSUME FilesInv, NEW p \in Proc, NEW r, GoodProc(r), Goto(p, r), UNCHANGED <<disk, unindexed>>
    PROVE  FilesInv'
  <1>1. /\ IsDisk(disk') /\ InfoFile(disk'.info) /\ MetaFile(disk'.meta, unindexed')
        /\ ConfigFile(disk'.config)
    BY DEF FilesInv
  <1> QED BY <1>1, ProcStep

LEMMA InitGood == ASSUME Init PROVE FilesInv
  <1>1. /\ disk \in Disks /\ unindexed = {} /\ proc = [p \in Proc |-> Idle("none")]
    BY DEF Init
  <1>2. \A p \in Proc : GoodProc(proc[p])
    BY <1>1, IdleIsGood
  <1>3. proc = [p \in Proc |-> proc[p]]
    BY <1>1
  <1>4. IsDisk(disk) /\ InfoFile(disk.info) /\ MetaFile(disk.meta,
       unindexed) /\ ConfigFile(disk.config)
    BY <1>1, DisksAssumption DEF IsDisk
  <1> QED BY <1>2, <1>3, <1>4 DEF FilesInv

LEMMA StartGood ==
    ASSUME FilesInv, NEW p \in Proc, NEW op, NEW req, NEW pc, Start(p, op, req, pc),
           op \in Commands => req \in Requests[op],
           \/ op = "init" /\ pc = "newInfo"
           \/ op \in Commands \ {"init"} /\ pc = "info"
           \/ op = "add" /\ pc = "afterConfig"
           \/ op \in {"add", "remove"} /\ pc = "config"
           \/ op = "lock" /\ pc = "lock"
    PROVE  FilesInv'
  <1> DEFINE i == Idle("none")
             c == Tables(disk.config)
             r == [i EXCEPT !.op = op, !.req = req, !.pc = pc, !.config = c]
  <1>1. /\ Goto(p, IF pc = "afterConfig" THEN AfterConfig(r) ELSE r)
        /\ UNCHANGED <<disk, unindexed>>
    BY DEF Start, Goto
  <1>2. GoodProc(i) /\ i.restoring = FALSE
    BY IdleIsGood, IdleFields
  <1>3. c \in Seq(Projects)
    BY FileContents DEF FilesInv
  <1> HIDE DEF i, c
  <1>4. /\ IsProc(r) /\ r.op = op /\ r.req = req /\ r.pc = pc /\ r.config = c
        /\ r.info = i.info /\ r.meta = i.meta /\ r.unindexed = i.unindexed /\ r.backup = i.backup
        /\ SameOutput(i, r)
    BY <1>2 DEF GoodProc, IsProc, SameOutput
  <1> HIDE DEF r
  <1>5. Control(r)
    BY ZenonT(60), <1>2, <1>4 DEF Control, Storing, Locks, SameOutput, Commands
  <1>6. Contained(r)
    <2>1. ~Storing(r, "info") /\ ~Storing(r, "meta") /\ ~Storing(r, "config")
      BY <1>4 DEF Storing
    <2> QED BY <1>2, <1>3, <1>4, <2>1 DEF GoodProc, Contained
  <1>7. GoodProc(r)
    BY <1>4, <1>5, <1>6 DEF GoodProc
  <1>8. CASE pc = "afterConfig"
    <2>1. GoodProc(AfterConfig(r))
      BY <1>2, <1>4, <1>7, <1>8, AfterConfigIsGood DEF SameOutput
    <2>2. Goto(p, AfterConfig(r))
      BY <1>1, <1>8
    <2> QED BY <1>1, <2>1, <2>2, ReadingStep
  <1>9. CASE pc # "afterConfig"
    <2>1. Goto(p, r)
      BY <1>1, <1>9
    <2> QED BY <1>1, <1>7, <2>1, ReadingStep
  <1> QED BY <1>8, <1>9

LEMMA StartsGood ==
    ASSUME FilesInv, NEW p \in Proc,
           \/ StartInit(p) \/ StartInclude(p) \/ StartExclude(p) \/ StartInfo(p)
           \/ StartAdd(p) \/ StartRemove(p) \/ StartLock(p)
    PROVE  FilesInv'
  <1>1. CASE StartInit(p)
    <2>1. PICK req \in Requests.init : Start(p, "init", req, "newInfo")
      BY <1>1 DEF StartInit
    <2> QED BY <2>1, StartGood DEF Commands
  <1>2. CASE StartInclude(p)
    <2>1. PICK req \in Requests.include : Start(p, "include", req, "info")
      BY <1>2 DEF StartInclude
    <2> QED BY <2>1, StartGood DEF Commands
  <1>3. CASE StartExclude(p)
    <2>1. PICK req \in Requests.exclude : Start(p, "exclude", req, "info")
      BY <1>3 DEF StartExclude
    <2> QED BY <2>1, StartGood DEF Commands
  <1>4. CASE StartInfo(p)
    <2>1. PICK op \in {"set", "clear", "addItem", "removeItem", "metamodel"} :
            \E req \in Requests[op] : Start(p, op, req, "info")
      BY <1>4 DEF StartInfo
    <2>2. PICK req \in Requests[op] : Start(p, op, req, "info")
      BY <2>1
    <2> QED BY <2>1, <2>2, StartGood DEF Commands
  <1>5. CASE StartAdd(p)
    <2>1. PICK req \in Requests.add :
            Start(p, "add", req, IF req.source = None THEN "afterConfig" ELSE "config")
      BY <1>5 DEF StartAdd
    <2> QED BY <2>1, StartGood DEF Commands
  <1>6. CASE StartRemove(p)
    <2>1. PICK req \in Requests.remove : Start(p, "remove", req, "config")
      BY <1>6 DEF StartRemove
    <2> QED BY <2>1, StartGood DEF Commands
  <1>7. CASE StartLock(p)
    BY <1>7, StartGood DEF Commands, StartLock
  <1> QED BY <1>1, <1>2, <1>3, <1>4, <1>5, <1>6, <1>7

LEMMA GoodFields ==
    ASSUME NEW r, GoodProc(r)
    PROVE  /\ r.op \in Commands => r.req \in Requests[r.op]
           /\ r.pc \notin {"create", "write"} => ~r.restoring
  BY DEF GoodProc, Control

LEMMA ReadConfigGood ==
    ASSUME FilesInv, NEW p \in Proc, ReadConfig(p)
    PROVE  FilesInv'
  <1> DEFINE r == proc[p]
             tables == Tables(disk.config)
             added == AddSource(tables, r.req.iri, r.req.source)
             removed == RemoveSource(tables, r.req)
             s == Store(r, "config", Holds(added))
             c == PushSource(s.config, r.req.iri, r.req.source)
  <1>1. r.pc = "config" /\ UNCHANGED <<disk, unindexed>>
    BY ZenonT(60) DEF ReadConfig, Step
  <1>2. GoodProc(r) /\ r.op \in {"add", "remove"} /\ ~r.restoring /\ tables \in Seq(Projects)
    <2>1. GoodProc(r) /\ tables \in Seq(Projects)
      BY FileContents DEF FilesInv
    <2> QED BY <1>1, <2>1 DEF GoodProc, Control
  <1>3. \/ Goto(p, Fail(r))
        \/ r.op = "add" /\ Goto(p, [s EXCEPT !.config = c])
        \/ Goto(p, AfterConfig(r))
        \/ r.op # "add" /\ Goto(p, At(r, "unlink"))
        \/ Goto(p, Store(r, "config", Holds(removed)))
    <2>1. CASE disk.config.st = "torn"
      BY <2>1 DEF ReadConfig
    <2>2. CASE disk.config.st # "torn" /\ r.op = "add"
      BY <2>2 DEF ReadConfig
    <2>3. CASE disk.config.st # "torn" /\ r.op # "add"
      <3>1. Goto(p, CASE removed = tables -> AfterConfig(r)
                      [] removed = <<>> /\ tables # <<>> -> At(r, "unlink")
                      [] OTHER -> Store(r, "config", Holds(removed)))
        BY <2>3 DEF ReadConfig
      <3> HIDE DEF r, tables, removed
      <3>2. CASE removed = tables
        BY <3>1, <3>2
      <3>3. CASE removed # tables /\ removed = <<>> /\ tables # <<>>
        BY <2>3, <3>1, <3>3
      <3>4. CASE removed # tables /\ ~(removed = <<>> /\ tables # <<>>)
        BY <3>1, <3>4
      <3> QED BY <3>2, <3>3, <3>4
    <2> QED BY <2>1, <2>2, <2>3
  <1>4. GoodProc(AfterConfig(r)) /\ GoodProc(Fail(r))
    BY <1>2, AfterConfigIsGood, FailIsGood
  <1>5. r.op # "add" => GoodProc(At(r, "unlink"))
    BY <1>2, AtControl
  <1>6. GoodProc(Store(r, "config", Holds(removed)))
    BY <1>2, RemoveSourceKeeps, HoldsConfig, StoreControl
  <1>7. ASSUME r.op = "add" PROVE GoodProc([s EXCEPT !.config = c])
    <2>1. r.req.iri \in STRING /\ r.req.source \in STRING
      BY SMT, <1>2, <1>7, GoodFields, RequestsAssumption DEF Commands
    <2>3. GoodProc(s)
      BY <1>2, <2>1, AddSourceKeeps, HoldsConfig, StoreControl
    <2> HIDE DEF s
    <2>2. c \in Seq(Projects)
      BY <2>1, <2>3, AddSourceKeeps DEF GoodProc, Contained
    <2> HIDE DEF c, r
    <2> DEFINE n == [s EXCEPT !.config = c]
    <2>4. /\ IsProc(n) /\ SameCommand(s, n) /\ SameOutput(s, n) /\ n.pc = s.pc /\ n.config = c
          /\ n.info = s.info /\ n.meta = s.meta /\ n.unindexed = s.unindexed
          /\ n.backup = s.backup
      BY <2>3 DEF GoodProc, IsProc, SameCommand, SameOutput
    <2> HIDE DEF n
    <2>5. Control(n)
      BY ZenonT(60), <2>3, <2>4 DEF GoodProc, Control, SameCommand, SameOutput, Storing, Locks
    <2>6. Contained(n)
      BY <2>2, <2>3, <2>4 DEF GoodProc, Contained, SameOutput, Storing
    <2> QED BY <2>4, <2>5, <2>6 DEF GoodProc, n
  <1> HIDE DEF r, s, c, removed
  <1>8. \E n : GoodProc(n) /\ Goto(p, n)
    BY <1>3, <1>4, <1>5, <1>6, <1>7
  <1> QED BY <1>1, <1>8, ReadingStep

LEMMA BackupGood ==
    ASSUME FilesInv, NEW p \in Proc, Backup(p) \/ ReadInfo(p) \/ ReadMeta(p)
    PROVE  FilesInv'
  <1> DEFINE r == proc[p]
  <1>1. GoodProc(r) /\ InfoFile(disk.info) /\ MetaFile(disk.meta, unindexed)
    BY DEF FilesInv
  <1>2. UNCHANGED <<disk, unindexed>> /\ r.pc \in {"backup", "info", "meta"}
    BY DEF Backup, ReadInfo, ReadMeta, Step
  <1>3. ~r.restoring
    BY <1>1, <1>2 DEF GoodProc, Control
  <1>4. CASE Goto(p, Fail(r))
    BY <1>2, <1>4, FailIsGood, ReadingStep
  <1>5. CASE r.pc = "backup" /\ Goto(p, [r EXCEPT !.pc = "info", !.backup = disk.info])
    <2> DEFINE n == [r EXCEPT !.pc = "info", !.backup = disk.info]
    <2> HIDE DEF r
    <2>1. /\ IsProc(n) /\ SameCommand(r, n) /\ SameOutput(r, n) /\ n.pc = "info"
          /\ n.info = r.info /\ n.meta = r.meta /\ n.unindexed = r.unindexed
          /\ n.backup = disk.info /\ n.config = r.config
      BY <1>1 DEF GoodProc, IsProc, SameCommand, SameOutput
    <2> HIDE DEF n
    <2>2. Control(n)
      BY <1>1, <1>3, <1>5, <2>1 DEF GoodProc, Control, SameCommand, SameOutput, Storing,
         Locks, Commands
    <2>3. Contained(n)
      BY <1>1, <2>1 DEF GoodProc, Contained, Storing
    <2>4. GoodProc(n)
      BY <2>1, <2>2, <2>3 DEF GoodProc
    <2> QED BY <1>2, <1>5, <2>4, ReadingStep DEF n
  <1>6. CASE r.pc = "info" /\ Goto(p, [r EXCEPT !.pc = "meta", !.info = disk.info.v])
    <2> DEFINE n == [r EXCEPT !.pc = "meta", !.info = disk.info.v]
    <2> HIDE DEF r
    <2>1. /\ IsProc(n) /\ SameCommand(r, n) /\ SameOutput(r, n) /\ n.pc = "meta"
          /\ n.info = disk.info.v /\ n.meta = r.meta /\ n.unindexed = r.unindexed
          /\ n.backup = r.backup /\ n.config = r.config
      BY <1>1 DEF GoodProc, IsProc, SameCommand, SameOutput
    <2> HIDE DEF n
    <2>2. Control(n)
      BY <1>1, <1>3, <1>6, <2>1 DEF GoodProc, Control, SameCommand, SameOutput, Storing,
         Locks, Commands
    <2>3. n.info = <<>> \/ (n.info = <<n.info[1]>> /\ GoodInfo(n.info[1]))
      BY <1>1, <2>1, FileContents
    <2>4. Contained(n)
      BY <1>1, <2>1, <2>3 DEF GoodProc, Contained, Storing
    <2>5. GoodProc(n)
      BY <2>1, <2>2, <2>4 DEF GoodProc
    <2> QED BY <1>2, <1>6, <2>5, ReadingStep DEF n
  <1>7. CASE /\ r.pc = "meta"
             /\ Goto(p, Decide([r EXCEPT !.meta = disk.meta.v, !.unindexed = unindexed]))
    <2> DEFINE n == [r EXCEPT !.meta = disk.meta.v, !.unindexed = unindexed]
    <2> HIDE DEF r
    <2>1. /\ IsProc(n) /\ SameCommand(r, n) /\ SameOutput(r, n) /\ n.pc = "meta"
          /\ n.info = r.info /\ n.meta = disk.meta.v /\ n.unindexed = unindexed
          /\ n.backup = r.backup /\ n.config = r.config
      BY <1>1, <1>7 DEF GoodProc, IsProc, SameCommand, SameOutput
    <2> HIDE DEF n
    <2>2. Control(n)
      BY <1>1, <1>3, <1>7, <2>1 DEF GoodProc, Control, SameCommand, SameOutput, Storing,
         Locks, Commands
    <2>3. HasMeta(n) => GoodMeta(n.meta[1], n.unindexed)
      BY <1>1, <2>1, FileContents DEF HasMeta
    <2>4. Contained(n)
      BY <1>1, <2>1 DEF GoodProc, Contained, Storing
    <2>5. GoodProc(n) /\ n.op \in Commands \ {"init"} /\ ~n.restoring
      BY <1>3, <2>1, <2>2, <2>4 DEF GoodProc, Control, SameOutput
    <2>6. GoodProc(Decide(n))
      BY <2>3, <2>5, DecideIsGood
    <2> QED BY <1>2, <1>7, <2>6, ReadingStep DEF n
  <1> QED BY <1>4, <1>5, <1>6, <1>7 DEF Backup, ReadInfo, ReadMeta, Step

LEMMA ReadSourceGood ==
    ASSUME FilesInv, NEW p \in Proc, ReadSource(p)
    PROVE  FilesInv'
  <1> DEFINE r == proc[p]
             path == Head(r.todo)
             meta == IncludeFile(r.meta[1], path, source[path].symbols,
                                 r.req.compute, r.req.index)
             skip == IF r.req.index THEN r.unindexed \ {path} ELSE r.unindexed \cup {path}
             next == [r EXCEPT !.unindexed = skip]
  <1>1. /\ r.pc = "source" /\ UNCHANGED <<disk, unindexed>>
        /\ \/ Goto(p, Fail(r)) \/ Goto(p, PutMeta(next, meta))
           \/ Goto(p, [next EXCEPT !.meta = <<meta>>, !.todo = Tail(next.todo)])
    BY DEF ReadSource, Step
  <1>2. GoodProc(r)
    BY DEF FilesInv
  <1>3. r.op = "include" /\ ~r.restoring /\ GoodMeta(r.meta[1], r.unindexed)
    BY <1>1, <1>2 DEF GoodProc, Control, Contained
  <1>4. r.req.compute \in BOOLEAN /\ r.req.index \in BOOLEAN
    BY SMTT(40), <1>2, <1>3, GoodFields, RequestsAssumption DEF Commands
  <1>5. GoodMeta(meta, skip)
    BY ZenonT(60), <1>3, <1>4, IncludeKeepsMeta
  <1> HIDE DEF r, meta, skip
  <1>6. /\ IsProc(next) /\ SameCommand(r, next) /\ SameOutput(r, next) /\ next.pc = r.pc
        /\ next.info = r.info /\ next.meta = r.meta /\ next.unindexed = skip
        /\ next.config = r.config /\ next.backup = r.backup
    BY <1>2 DEF GoodProc, IsProc, SameCommand, SameOutput
  <1>7. CASE Goto(p, Fail(r))
    BY <1>1, <1>7, FailIsGood, ReadingStep
  <1> HIDE DEF next
  <1>8. CASE Goto(p, PutMeta(next, meta))
    <2> DEFINE n == PutMeta(next, meta)
    <2>1. /\ IsProc(n) /\ n.pc = "create" /\ n.file = "meta" /\ n.out = Holds(meta)
          /\ SameCommand(next, n) /\ SameMemory(next, n) /\ n.restoring = next.restoring
      BY SMT, <1>6, StoreFields DEF PutMeta
    <2> HIDE DEF n
    <2>2. Control(n)
      BY SMTT(40), <1>2, <1>3, <1>6, <2>1
         DEF GoodProc, Control, Storing, Locks, SameCommand, SameOutput, Commands
    <2>3. n.unindexed = skip /\ n.info = r.info /\ n.config = r.config /\ n.backup = r.backup
      BY <1>6, <2>1 DEF SameMemory
    <2>4. MetaFile(n.out, n.unindexed)
      BY <1>5, <2>1, <2>3, HoldsMeta
    <2>5. Contained(n)
      BY <1>2, <2>1, <2>3, <2>4 DEF GoodProc, Contained, Storing
    <2>6. GoodProc(n)
      BY <2>1, <2>2, <2>5 DEF GoodProc
    <2> QED BY <1>1, <1>8, <2>6, ReadingStep DEF n
  <1>9. CASE Goto(p, [next EXCEPT !.meta = <<meta>>, !.todo = Tail(next.todo)])
    <2> DEFINE n == [next EXCEPT !.meta = <<meta>>, !.todo = Tail(next.todo)]
    <2>1. /\ IsProc(n) /\ SameCommand(next, n) /\ SameOutput(next, n) /\ n.pc = next.pc
          /\ n.meta = <<meta>> /\ n.unindexed = next.unindexed /\ n.info = next.info
          /\ n.config = next.config /\ n.backup = next.backup
      BY ZenonT(60), <1>6 DEF IsProc, SameCommand, SameOutput
    <2> HIDE DEF n
    <2>2. Control(n)
      BY SMTT(40), <1>2, <1>6, <2>1 DEF GoodProc, Control, Storing, Locks, SameCommand, SameOutput
    <2>3. GoodMeta(n.meta[1], n.unindexed)
      BY SMT, <1>5, <1>6, <2>1
    <2>4. Contained(n)
      BY <1>1, <1>2, <1>6, <2>1, <2>3 DEF GoodProc, Contained, Storing
    <2>5. GoodProc(n)
      BY <2>1, <2>2, <2>4 DEF GoodProc
    <2> QED BY <1>1, <1>9, <2>5, ReadingStep DEF n
  <1> QED BY <1>1, <1>7, <1>8, <1>9

LEMMA NewFilesGood ==
    ASSUME FilesInv, NEW p \in Proc, NewInfoFile(p) \/ NewMetaFile(p)
    PROVE  FilesInv'
  <1> DEFINE r == proc[p]
             info == NewInfo(r.req.name, r.req.license)
  <1>1. /\ r.pc \in {"newInfo", "newMeta"} /\ UNCHANGED <<disk, unindexed>>
        /\ \/ Goto(p, Fail(r)) \/ Goto(p, Store(r, "info", Holds(info)))
           \/ Goto(p, Store(r, "meta", Holds(NewMeta)))
    BY DEF NewInfoFile, NewMetaFile, Step
  <1>2. GoodProc(r) /\ r.op = "init" /\ ~r.restoring
    <2>1. GoodProc(r)
      BY DEF FilesInv
    <2> QED BY <1>1, <2>1 DEF GoodProc, Control
  <1> HIDE DEF r
  <1>3. GoodProc(Store(r, "info", Holds(info)))
    BY <1>2, NewInfoIsGood, HoldsInfo, StoreControl DEF Commands
  <1>4. GoodProc(Store(r, "meta", Holds(NewMeta)))
    BY <1>2, NewMetaIsGood, HoldsMeta, StoreControl DEF Commands
  <1> QED BY <1>1, <1>3, <1>4, FailIsGood, ReadingStep

LEMMA LockSyncGood ==
    ASSUME FilesInv, NEW p \in Proc, Lock(p) \/ Sync(p)
    PROVE  FilesInv'
  <1> DEFINE r == proc[p]
  <1>1. /\ r.pc \in {"lock", "sync"} /\ UNCHANGED <<disk, unindexed>>
        /\ \/ Goto(p, GiveUp(r)) \/ Goto(p, Done(r))
           \/ r.pc = "lock" /\ \E out : Goto(p, Store(r, "lock", out))
    BY DEF Lock, Sync, Step
  <1>2. GoodProc(r) /\ ~r.restoring /\ (r.pc = "lock" => Locks(r))
    <2>1. GoodProc(r)
      BY DEF FilesInv
    <2> QED BY <1>1, <2>1 DEF GoodProc, Control
  <1> HIDE DEF r
  <1>3. \A out : r.pc = "lock" => GoodProc(Store(r, "lock", out))
    BY <1>2, StoreControl
  <1> QED BY <1>1, <1>2, <1>3, GiveUpIsGood, FailIsGood, ReadingStep

\* One of the files is replaced.
Replaced(d, file, text, e) == e = [d EXCEPT ![file] = text]

LEMMA DiskFields ==
    ASSUME NEW d, IsDisk(d), NEW file \in {"info", "meta", "config", "lock"}, NEW text,
           NEW e, Replaced(d, file, text, e)
    PROVE  /\ IsDisk(e)
           /\ e.info = IF file = "info" THEN text ELSE d.info
           /\ e.meta = IF file = "meta" THEN text ELSE d.meta
           /\ e.config = IF file = "config" THEN text ELSE d.config
           /\ e.lock = IF file = "lock" THEN text ELSE d.lock
  <1>1. CASE file = "info"
    BY <1>1 DEF IsDisk, Replaced
  <1>2. CASE file = "meta"
    BY <1>2 DEF IsDisk, Replaced
  <1>3. CASE file = "config"
    BY <1>3 DEF IsDisk, Replaced
  <1>4. CASE file = "lock"
    BY <1>4 DEF IsDisk, Replaced
  <1> QED BY <1>1, <1>2, <1>3, <1>4

LEMMA CreateGood ==
    ASSUME FilesInv, NEW p \in Proc, Create(p)
    PROVE  FilesInv'
  <1> DEFINE r == proc[p]
             n == At(r, "write")
  <1>1. /\ r.pc = "create" /\ unindexed' = unindexed
        /\ \/ disk' = [disk EXCEPT ![r.file] = Empty] /\ Goto(p, n)
           \/ disk' = disk /\ Goto(p, Broken(r))
    BY DEF Create, Step
  <1>2. GoodProc(r) /\ IsDisk(disk)
    BY DEF FilesInv
  <1>3. r.file \in {"info", "meta", "config", "lock"}
    BY <1>1, <1>2 DEF GoodProc, Control
  <1>4. CASE disk' = disk /\ Goto(p, Broken(r))
    BY <1>1, <1>2, <1>4, BrokenIsGood, ReadingStep
  <1>5. CASE disk' = [disk EXCEPT ![r.file] = Empty] /\ Goto(p, n)
    <2> HIDE DEF r
    <2>1. IsProc(n) /\ n.pc = "write" /\ SameCommand(r, n) /\ SameMemory(r, n) /\ SameOutput(r, n)
      BY <1>2, AtFields DEF GoodProc
    <2> HIDE DEF n
    <2>2. Control(n)
      BY <1>1, <1>2, <2>1 DEF GoodProc, Control, Storing, Locks, SameCommand, SameOutput
    <2>3. Contained(n)
      BY <1>1, <1>2, <2>1 DEF GoodProc, Contained, Storing, SameMemory, SameOutput
    <2>4. GoodProc(n)
      BY <2>1, <2>2, <2>3 DEF GoodProc
    <2>5. InfoFile(Empty) /\ MetaFile(Empty, unindexed) /\ ConfigFile(Empty)
      BY DEF InfoFile, MetaFile, ConfigFile
    <2>6. /\ IsDisk(disk')
          /\ disk'.info = IF r.file = "info" THEN Empty ELSE disk.info
          /\ disk'.meta = IF r.file = "meta" THEN Empty ELSE disk.meta
          /\ disk'.config = IF r.file = "config" THEN Empty ELSE disk.config
      <3>1. Replaced(disk, r.file, Empty, disk')
        BY <1>5 DEF Replaced
      <3> QED BY SMTT(40), <1>2, <1>3, <3>1, DiskFields
    <2>7. InfoFile(disk'.info) /\ MetaFile(disk'.meta, unindexed') /\ ConfigFile(disk'.config)
      BY <1>1, <2>5, <2>6 DEF FilesInv
    <2> QED BY <1>5, <2>4, <2>6, <2>7, ProcStep
  <1> QED BY <1>1, <1>4, <1>5

\* A cut configuration file has some of the tables.
LEMMA CutConfig ==
    ASSUME NEW c \in Seq(Projects), NEW n \in 1..Len(c)
    PROVE  ConfigFile(Holds(SubSeq(c, 1, n)))
  <1>1. SubSeq(c, 1, n) \in Seq(Projects)
    BY SMT
  <1> QED BY <1>1, HoldsConfig DEF ConfigFile, ConfigText

\* The files are good when a write has ended, whatever it came to.
LEMMA LeaveGood ==
    ASSUME FilesInv, NEW p \in Proc, proc[p].pc = "write",
           NEW texts, texts \subseteq Cut(proc[p]), Leave(proc[p], texts)
    PROVE  /\ IsDisk(disk') /\ InfoFile(disk'.info) /\ MetaFile(disk'.meta, unindexed')
           /\ ConfigFile(disk'.config)
  <1> DEFINE r == proc[p]
  <1>1. /\ unindexed' = IF r.file = "meta" /\ disk'.meta = r.out THEN r.unindexed ELSE unindexed
        /\ \/ r.file = "unlinked" /\ disk' = disk
           \/ r.file # "unlinked" /\ \E text \in texts : disk' = [disk EXCEPT ![r.file] = text]
    BY DEF Leave
  <1>2. /\ GoodProc(r) /\ IsDisk(disk)
        /\ InfoFile(disk.info) /\ MetaFile(disk.meta, unindexed) /\ ConfigFile(disk.config)
    BY DEF FilesInv
  <1>3. /\ r.file \in {"info", "meta", "config", "lock", "unlinked"}
        /\ r.file = "info" => InfoFile(r.out)
        /\ r.file = "meta" => MetaFile(r.out, r.unindexed)
        /\ r.file = "config" => ConfigText(r.out)
    BY <1>2 DEF GoodProc, Control, Contained, Storing
  <1>4. texts \subseteq Cut(r)
    OBVIOUS
  <1> HIDE DEF r
  <1>5. CASE r.file = "unlinked"
    BY <1>1, <1>2, <1>5
  <1>6. CASE r.file # "unlinked"
    <2>1. PICK text \in texts : disk' = [disk EXCEPT ![r.file] = text]
      BY <1>1, <1>6
    <2>2. /\ IsDisk(disk')
          /\ disk'.info = IF r.file = "info" THEN text ELSE disk.info
          /\ disk'.meta = IF r.file = "meta" THEN text ELSE disk.meta
          /\ disk'.config = IF r.file = "config" THEN text ELSE disk.config
      <3>1. r.file \in {"info", "meta", "config", "lock"}
        BY <1>3, <1>6
      <3>2. Replaced(disk, r.file, text, disk')
        BY <2>1 DEF Replaced
      <3> QED BY SMTT(40), <1>2, <3>1, <3>2, DiskFields
    <2>3. \/ text \in {disk[r.file], Torn, r.out}
          \/ r.file = "config" /\ \E n \in 1..Len(r.out.v[1]) : text = Holds(SubSeq(r.out.v[1], 1, n))
      BY <1>4 DEF Cut
    <2>4. InfoFile(Torn) /\ (\A skip : MetaFile(Torn, skip)) /\ ConfigFile(Torn)
      BY DEF InfoFile, MetaFile, ConfigFile
    <2>5. InfoFile(disk'.info)
      BY <1>2, <1>3, <2>2, <2>3, <2>4
    <2>6. ConfigFile(disk'.config)
      <3>1. r.file = "config" => ConfigFile(r.out)
        BY <1>3 DEF ConfigFile, ConfigText
      <3>2. r.file = "config" => \A n \in 1..Len(r.out.v[1]) : ConfigFile(Holds(SubSeq(r.out.v[1], 1, n)))
        BY <1>3, CutConfig DEF ConfigText
      <3> QED BY <1>2, <2>2, <2>3, <2>4, <3>1, <3>2
    <2>7. MetaFile(disk'.meta, unindexed')
      BY <1>1, <1>2, <1>3, <2>2, <2>3, <2>4
    <2> QED BY <2>2, <2>5, <2>6, <2>7
  <1> QED BY <1>5, <1>6

LEMMA WrittenWithinCut == \A r : Written(r) \subseteq Cut(r)
  BY DEF Written, Cut

LEMMA WriteGood ==
    ASSUME FilesInv, NEW p \in Proc, Write(p)
    PROVE  FilesInv'
  <1> DEFINE r == proc[p]
  <1>1. /\ r.pc = "write"
        /\ \/ Leave(r, Written(r)) /\ Goto(p, AfterWrite(r))
           \/ Leave(r, Cut(r)) /\ Goto(p, Broken(r))
    BY DEF Write, Step
  <1>2. GoodProc(AfterWrite(r)) /\ GoodProc(Broken(r))
    <2>1. GoodProc(r)
      BY DEF FilesInv
    <2> QED BY <1>1, <2>1, AfterWriteIsGood, BrokenIsGood
  <1>3. /\ IsDisk(disk') /\ InfoFile(disk'.info) /\ MetaFile(disk'.meta, unindexed')
        /\ ConfigFile(disk'.config)
    <2>1. Cut(r) \subseteq Cut(r) /\ Written(r) \subseteq Cut(r)
      BY WrittenWithinCut
    <2> QED BY <1>1, <2>1, LeaveGood
  <1> QED BY <1>1, <1>2, <1>3, ProcStep

LEMMA UnreachedGood ==
    ASSUME FilesInv, NEW p \in Proc, Unreached(p)
    PROVE  FilesInv'
  <1>1. Goto(p, Fail(proc[p])) /\ UNCHANGED <<disk, unindexed>>
    BY DEF Unreached
  <1> QED BY <1>1, FailIsGood, ReadingStep

LEMMA UnlinkGood ==
    ASSUME FilesInv, NEW p \in Proc, Unlink(p)
    PROVE  FilesInv'
  <1> DEFINE r == proc[p]
  <1>1. /\ r.pc = "unlink" /\ disk' = [disk EXCEPT !.config = Absent] /\ unindexed' = unindexed
        /\ proc' = [q \in Proc |-> proc'[q]] /\ proc'[p] \in {Fail(r), AfterConfig(r)}
    BY DEF Unlink, Step
  <1>2. \A q \in Proc : GoodProc(proc[q])
    BY DEF FilesInv
  <1>3. GoodProc(proc'[p])
    <2>1. r.op = "remove" /\ ~r.restoring
      BY <1>1, <1>2 DEF GoodProc, Control
    <2> QED BY <1>1, <1>2, <2>1, AfterConfigIsGood, FailIsGood
  <1>4. ASSUME NEW q \in Proc, q # p PROVE GoodProc(proc'[q])
    <2>1. \/ proc'[q] = proc[q]
          \/ /\ proc[q].pc = "write" /\ proc[q].file = "config"
             /\ proc'[q] = [proc[q] EXCEPT !.file = "unlinked"]
      BY <1>4 DEF Unlink
    <2> DEFINE s == proc[q]
               n == [s EXCEPT !.file = "unlinked"]
    <2>2. GoodProc(s)
      BY <1>2
    <2> HIDE DEF s
    <2>3. CASE s.pc = "write" /\ s.file = "config" /\ proc'[q] = n
      <3>1. /\ IsProc(n) /\ SameCommand(s, n) /\ SameMemory(s, n) /\ n.pc = s.pc
            /\ n.file = "unlinked" /\ n.restoring = s.restoring
        BY <2>2 DEF GoodProc, IsProc, SameCommand, SameMemory
      <3> HIDE DEF n
      <3>2. Control(n)
        BY <2>2, <2>3, <3>1 DEF GoodProc, Control, Storing, Locks, SameCommand
      <3>3. Contained(n)
        BY <2>2, <2>3, <3>1 DEF GoodProc, Contained, Storing, SameMemory
      <3> QED BY <2>3, <3>1, <3>2, <3>3 DEF GoodProc
    <2> QED BY <2>1, <2>2, <2>3 DEF s
  <1>5. IsDisk(disk') /\ InfoFile(disk'.info) /\ MetaFile(disk'.meta, unindexed')
        /\ ConfigFile(disk'.config)
    <2>1. ConfigFile(Absent)
      BY DEF ConfigFile
    <2>2. IsDisk(disk)
      BY DEF FilesInv
    <2>3. IsDisk(disk') /\ disk'.config = Absent /\ disk'.info = disk.info /\ disk'.meta = disk.meta
      BY <1>1, <2>2 DEF IsDisk
    <2> QED BY <1>1, <2>1, <2>3 DEF FilesInv
  <1>6. \A q \in Proc : GoodProc(proc'[q])
    BY <1>3, <1>4
  <1> QED BY <1>1, <1>5, <1>6 DEF FilesInv

LEMMA CrashGood ==
    ASSUME FilesInv, NEW p \in Proc, Crash(p)
    PROVE  FilesInv'
  <1>1. Goto(p, Idle("crashed"))
    BY DEF Crash
  <1>2. CASE proc[p].pc = "write"
    <2>1. Leave(proc[p], Cut(proc[p])) /\ Cut(proc[p]) \subseteq Cut(proc[p])
      BY <1>2 DEF Crash
    <2> QED BY <1>1, <1>2, <2>1, IdleIsGood, LeaveGood, ProcStep
  <1>3. CASE proc[p].pc # "write"
    <2>1. UNCHANGED <<disk, unindexed>>
      BY <1>3 DEF Crash
    <2> QED BY <1>1, <2>1, IdleIsGood, ReadingStep
  <1> QED BY <1>2, <1>3

LEMMA WorkGood ==
    ASSUME FilesInv, NEW p \in Proc, Work(p)
    PROVE  FilesInv'
  BY ReadConfigGood, BackupGood, ReadSourceGood, NewFilesGood, CreateGood, WriteGood,
     UnlinkGood, LockSyncGood, UnreachedGood DEF Work

\* FilesInv holds in every state.
LEMMA FilesInvariant == Spec => []FilesInv
  <1>1. Init => FilesInv
    BY InitGood
  <1>2. FilesInv /\ [Next]_vars => FilesInv'
    <2> SUFFICES ASSUME FilesInv, [Next]_vars PROVE FilesInv'
      OBVIOUS
    <2>1. ASSUME NEW p \in Proc,
                 \/ StartInit(p) \/ StartInclude(p) \/ StartExclude(p) \/ StartInfo(p)
                 \/ StartAdd(p) \/ StartRemove(p) \/ StartLock(p)
          PROVE  FilesInv'
      BY <2>1, StartsGood
    <2>2. ASSUME NEW path \in Path, EditSource(path) PROVE FilesInv'
      <3>1. UNCHANGED <<disk, proc, unindexed>>
        BY <2>2 DEF EditSource
      <3> QED BY <3>1 DEF FilesInv
    <2>3. CASE UNCHANGED vars
      <3>1. UNCHANGED <<disk, proc, unindexed>>
        BY <2>3 DEF vars
      <3> QED BY <3>1 DEF FilesInv
    <2> QED BY <2>1, <2>2, <2>3, WorkGood, CrashGood DEF Next
  <1> QED BY <1>1, <1>2, PTL DEF Spec

LEMMA FileStates ==
    /\ Absent.st = "absent" /\ Empty.st = "empty" /\ Torn.st = "torn"
    /\ \A x : /\ Holds(x).st = "ok"
            /\ Holds(x) # Absent /\ Holds(x) # Empty /\ Holds(x) # Torn
    /\ Absent # Empty /\ Absent # Torn
  <1>1. /\ Absent.st = "absent" /\ Empty.st = "empty" /\ Torn.st = "torn"
        /\ \A x : Holds(x).st = "ok"
    BY DEF Absent, Empty, Torn, Holds
  <1>2. /\ "absent" # "ok" /\ "empty" # "ok" /\ "torn" # "ok"
        /\ "absent" # "empty" /\ "absent" # "torn"
    OBVIOUS
  <1> QED BY <1>1, <1>2

\* A file that can be read is a good one.
LEMMA Readable ==
    /\ \A f : InfoFile(f) /\ f.st = "ok" => GoodInfo(f.v[1])
    /\ \A f, skip : MetaFile(f, skip) /\ f.st = "ok" => GoodMeta(f.v[1], skip)
  BY FileStates DEF InfoFile, MetaFile

\* Whatever commands interleave or crash, a readable .meta.json has a checksum
\* for every file its index names.
THEOREM IndexWithinChecksumsHolds == Spec => []IndexWithinChecksums
  <1>1. FilesInv => IndexWithinChecksums
    BY Readable DEF FilesInv, GoodMeta, IndexWithinChecksums
  <1> QED BY <1>1, FilesInvariant, PTL

\* A symbol that a readable .meta.json lists for a file is in the text whose
\* digest it lists.
THEOREM IndexAgreesWithDigestsHolds == Spec => []IndexAgreesWithDigests
  <1>1. FilesInv => IndexAgreesWithDigests
    BY Readable DEF FilesInv, GoodMeta, IndexAgreesWithDigests
  <1> QED BY <1>1, FilesInvariant, PTL

\* A readable .project.json has no two usages of one resource.
THEOREM NoDuplicateUsagesHolds == Spec => []NoDuplicateUsages
  <1>1. FilesInv => NoDuplicateUsages
    BY Readable DEF FilesInv, GoodInfo, NoDuplicateUsages
  <1> QED BY <1>1, FilesInvariant, PTL

-----------------------------------------------------------------------------
(* A command that nothing overlaps *)

\* What holds of the disk e when command r, which began with disk b, ends.
KeepsProject(r, b, e) ==
    /\ e.meta = b.meta
    /\ e.info = b.info \/ (r.op = "init" /\ b.meta # Absent /\ b.info = Absent)

CurrentLock(r, b, e) ==
    /\ e.lock # b.lock
    /\ \/ r.op # "add" \/ r.req.source = None
       \/ OwnTable(Tables(b.config), r.req.iri)
    => LET usages == e.info.v[1].usage
           lock == e.lock.v[1]
       IN  /\ lock.usage = usages
           /\ \A i \in 1..Len(usages) :
                lock.source[i] = OverrideOf(Tables(e.config), usages[i].resource)

\* A step takes r to n and leaves disk e.
Outcome(r, n, b, e) ==
    /\ n.pc # "idle" => Progress(n, b, e)
    /\ n.pc = "idle" /\ n.result = "failed" => KeepsProject(r, b, e)
    /\ n.pc = "idle" /\ n.result = "broken" => KeepsFiles(r, b, e, {"info", "meta"} \ {r.file})
    /\ n.pc = "idle" /\ n.result = "ok" => CurrentLock(r, b, e)

LEMMA FailOutcome ==
    ASSUME NEW r, NEW b, NEW e, KeepsProject(r, b, e)
    PROVE  Outcome(r, Idle("failed"), b, e)
  <1>1. Idle("failed").pc = "idle" /\ Idle("failed").result = "failed"
    BY IdleFields
  <1>2. "failed" # "ok" /\ "failed" # "broken" /\ "broken" # "ok"
    OBVIOUS
  <1> QED BY <1>1, <1>2 DEF Outcome

LEMMA DoneOutcome ==
    ASSUME NEW r, NEW b, NEW e, CurrentLock(r, b, e)
    PROVE  Outcome(r, Idle("ok"), b, e)
  <1>1. Idle("ok").pc = "idle" /\ Idle("ok").result = "ok"
    BY IdleFields
  <1>2. "failed" # "ok" /\ "failed" # "broken" /\ "broken" # "ok"
    OBVIOUS
  <1> QED BY <1>1, <1>2 DEF Outcome

\* A command that fails before it has written anything.
LEMMA FailsClean ==
    ASSUME NEW r, NEW b, NEW d, Progress(r, b, d),
           r.pc \notin {"create", "write", "newMeta", "lock", "sync"}, ~r.restoring
    PROVE  KeepsProject(r, b, d)
  BY DEF Progress, MetaProgress, InfoProgress, Writing, Storing, KeepsProject

LEMMA UnreachedOutcome ==
    ASSUME FilesInv, NEW p \in Proc, Unreached(p), NEW b, Progress(proc[p], b, disk)
    PROVE  Outcome(proc[p], proc'[p], b, disk')
  <1> DEFINE r == proc[p]
  <1>1. /\ r.pc \in {"config", "unlink", "backup", "info", "meta", "source"}
        /\ Goto(p, Fail(r)) /\ disk' = disk
    BY DEF Unreached
  <1>2. GoodProc(r) /\ proc = [q \in Proc |-> proc[q]]
    BY DEF FilesInv
  <1>3. ~r.restoring /\ proc'[p] = Idle("failed")
    BY <1>1, <1>2 DEF GoodProc, Control, Goto, Fail
  <1>4. KeepsProject(r, b, disk)
    BY <1>1, <1>3, FailsClean
  <1> QED BY <1>1, <1>3, <1>4, FailOutcome

LEMMA TablesOfHolds == \A v : Tables(Holds(v)) = v
  BY SMT, HoldsFields DEF Tables

LEMMA SameLock ==
    ASSUME NEW r, NEW b, NEW e, e.lock = b.lock
    PROVE  CurrentLock(r, b, e)
  BY DEF CurrentLock

\* The lockfile of a command that has reached its end follows the
\* configuration file.
LEMMA WrittenLock ==
    ASSUME NEW r, GoodProc(r), NEW b, NEW d, Progress(r, b, d), Locks(r),
           r.pc = "sync" \/ Storing(r, "lock"),
           NEW e, e.info = d.info, e.config = d.config, e.lock = r.out
    PROVE  CurrentLock(r, b, e)
  <1> DEFINE usages == d.info.v[1].usage
             sources == [i \in 1..Len(usages) |-> OverrideOf(r.config, usages[i].resource)]
             out == [usage |-> usages, source |-> sources]
             tables == Tables(b.config)
  <1>1. e.lock.v[1].usage = usages /\ e.lock.v[1].source = sources
    <2>1. e.lock = Holds(out)
      BY DEF Progress, LockProgress, LockOut
    <2>2. out.usage = usages /\ out.source = sources
      OBVIOUS
    <2>3. e.lock.v[1] = out
      <3> HIDE DEF out
      <3> QED BY <2>1, HoldsFields
    <2> QED BY <2>2, <2>3
  <1>2. r.pc # "config" /\ ~Storing(r, "config")
    BY DEF Storing
  <1>3. ASSUME r.op # "add" \/ r.req.source = None, NEW x
        PROVE  OverrideOf(r.config, x) = OverrideOf(Tables(e.config), x)
    <2>1. d.config = b.config /\ r.config = tables
      BY <1>3 DEF Progress, ConfigProgress, Locks
    <2> QED BY <2>1
  <1>4. ASSUME r.op = "add", r.req.source # None, OwnTable(tables, r.req.iri), NEW x
        PROVE  OverrideOf(r.config, x) = OverrideOf(Tables(e.config), x)
    <2> DEFINE added == AddSource(tables, r.req.iri, r.req.source)
    <2>1. r.config = PushSource(tables, r.req.iri, r.req.source) /\ d.config = Holds(added)
      BY <1>2, <1>4 DEF Progress, ConfigProgress
    <2>2. tables \in Seq(Projects)
      BY FileContents DEF Progress
    <2>3. r.req.iri \in STRING /\ r.req.source \in STRING
      <3>1. r.req \in Requests.add
        BY <1>4 DEF GoodProc, Control, Commands
      <3> QED BY <3>1, RequestsAssumption
    <2>4. Tables(Holds(added)) = added
      BY TablesOfHolds
    <2>5. OverrideOf(r.config, x) = OverrideOf(added, x)
      <3> DEFINE pushed == PushSource(tables, r.req.iri, r.req.source)
      <3> HIDE DEF tables
      <3>1. OverrideOf(pushed, x) = OverrideOf(added, x)
        BY ZenonT(60), <1>4, <2>2, <2>3, SourcesAgree
      <3> QED BY <2>1, <3>1
    <2> HIDE DEF added
    <2> QED BY <2>1, <2>4, <2>5
  <1>5. ASSUME r.op # "add" \/ r.req.source = None \/ OwnTable(tables, r.req.iri),
               NEW i \in 1..Len(usages)
        PROVE  sources[i] = OverrideOf(Tables(e.config), usages[i].resource)
    <2>1. sources[i] = OverrideOf(r.config, usages[i].resource)
      BY <1>5
    <2> QED BY <1>3, <1>4, <1>5, <2>1
  <1> QED BY ZenonT(60), <1>1, <1>5 DEF CurrentLock

\* A step that only reads, between the configuration and the first write.
LEMMA StillReading ==
    ASSUME NEW r, NEW n, NEW b, NEW d, Progress(r, b, d), SameCommand(r, n),
           n.config = r.config, n.backup = r.backup, ~r.restoring, ~n.restoring,
           r.op # "init", r.pc \in {"info", "meta", "source"}, n.file # "unlinked",
           n.pc \in {"info", "meta", "source"} \/ (n.pc = "create" /\ n.file \in {"info", "meta"})
    PROVE  Progress(n, b, d)
  <1>1. MetaProgress(n, b, d)
    BY DEF Progress, MetaProgress, Writing
  <1>2. InfoProgress(n, b, d)
    BY DEF Progress, InfoProgress, Writing, Storing, SameCommand
  <1>3. ConfigProgress(n, b, d)
    BY DEF Progress, ConfigProgress, Storing, SameCommand
  <1>4. LockProgress(n, b, d)
    BY DEF Progress, LockProgress, Writing, Storing
  <1> QED BY <1>1, <1>2, <1>3, <1>4 DEF Progress

LEMMA ReadConfigOutcome ==
    ASSUME FilesInv, NEW p \in Proc, ReadConfig(p), NEW b, Progress(proc[p], b, disk)
    PROVE  Outcome(proc[p], proc'[p], b, disk')
  <1> DEFINE r == proc[p]
             tables == Tables(disk.config)
             added == AddSource(tables, r.req.iri, r.req.source)
             removed == RemoveSource(tables, r.req)
             s == Store(r, "config", Holds(added))
             t == [s EXCEPT !.config = PushSource(s.config, r.req.iri, r.req.source)]
             u == Store(r, "config", Holds(removed))
  <1>1. /\ r.pc = "config" /\ disk' = disk
        /\ \/ Goto(p, Fail(r)) \/ (r.op = "add" /\ Goto(p, t))
           \/ (r.op # "add" /\ (Goto(p, AfterConfig(r)) \/ Goto(p, At(r, "unlink")) \/ Goto(p, u)))
    BY DEF ReadConfig, Step
  <1>2. GoodProc(r) /\ proc = [q \in Proc |-> proc[q]]
    BY DEF FilesInv
  <1>3. IsProc(r) /\ r.op \in {"add", "remove"} /\ ~r.restoring
    BY <1>1, <1>2 DEF GoodProc, Control
  <1>4. \A n : Goto(p, n) => proc'[p] = n
    BY <1>2 DEF Goto
  <1> HIDE DEF r
  <1>5. CASE Goto(p, Fail(r))
    BY ZenonT(60), <1>1, <1>3, <1>4, <1>5, FailsClean, FailOutcome DEF Fail, r
  <1>6. CASE r.op = "add" /\ Goto(p, t)
    <2>1. IsProc(s) /\ s.pc = "create" /\ s.file = "config" /\ s.out = Holds(added)
          /\ SameCommand(r, s) /\ SameMemory(r, s) /\ s.restoring = r.restoring
      BY SMT, <1>3, StoreFields
    <2> HIDE DEF s, added
    <2>2. t.pc = s.pc /\ t.file = s.file /\ t.out = s.out /\ SameCommand(s, t)
          /\ t.restoring = s.restoring
          /\ t.config = PushSource(s.config, r.req.iri, r.req.source)
      BY <2>1 DEF IsProc, SameCommand
    <2> HIDE DEF t
    <2>3. Progress(r, b, disk)
      BY DEF r
    <2>4. MetaProgress(t, b, disk)
      BY <1>1, <2>3 DEF Progress, MetaProgress, Writing
    <2>5. InfoProgress(t, b, disk)
      BY <1>1, <1>3, <1>6, <2>1, <2>2, <2>3
           DEF Progress, InfoProgress, Writing, Storing, SameCommand
    <2>6. ConfigProgress(t, b, disk)
      <3>1. r.req.source # None /\ r.config = Tables(b.config) /\ disk.config = b.config
        BY <1>1, <1>6, <2>3 DEF Progress, ConfigProgress
      <3>2. t.out = Holds(AddSource(Tables(b.config), r.req.iri, r.req.source))
        BY <2>1, <2>2, <3>1 DEF added
      <3>3. t.config = PushSource(Tables(b.config), r.req.iri, r.req.source)
        BY <2>1, <2>2, <3>1 DEF SameMemory
      <3>4. t.pc = "create" /\ t.file = "config" /\ t.req = r.req /\ t.op = "add"
        BY <1>6, <2>1, <2>2 DEF SameCommand
      <3> QED BY <3>1, <3>2, <3>3, <3>4 DEF ConfigProgress, Storing
    <2>7. LockProgress(t, b, disk)
      BY <1>1, <1>3, <2>1, <2>2, <2>3 DEF Progress, LockProgress, Writing, Storing
    <2>8. Progress(t, b, disk)
      BY ZenonT(60), <2>1, <2>2, <2>3, <2>4, <2>5, <2>6, <2>7 DEF Progress
    <2>9. t.pc # "idle"
      BY <2>1, <2>2
    <2> QED BY <1>1, <1>4, <1>6, <2>8, <2>9 DEF Outcome
  <1>7. ASSUME r.op # "add", NEW n, SameCommand(r, n), ~n.restoring, n.file # "unlinked",
               n.pc \in {"info", "unlink"} \/ (n.pc = "create" /\ n.file = "config")
        PROVE  Progress(n, b, disk)
    <2>1. Progress(r, b, disk)
      BY DEF r
    <2>2. MetaProgress(n, b, disk)
      BY <1>1, <2>1 DEF Progress, MetaProgress, Writing
    <2>3. InfoProgress(n, b, disk)
      BY <1>1, <1>3, <1>7, <2>1 DEF Progress, InfoProgress, Writing, Storing, SameCommand
    <2>4. ConfigProgress(n, b, disk)
      BY <1>3, <1>7 DEF ConfigProgress, SameCommand
    <2>5. LockProgress(n, b, disk)
      BY <1>1, <1>3, <1>7, <2>1 DEF Progress, LockProgress, Writing, Storing
    <2> QED BY <1>7, <2>1, <2>2, <2>3, <2>4, <2>5 DEF Progress
  <1>8. CASE r.op # "add" /\ (Goto(p, AfterConfig(r)) \/ Goto(p, At(r, "unlink")) \/ Goto(p, u))
    <2>1. PICK n \in {AfterConfig(r), At(r, "unlink"), u} : Goto(p, n)
      BY <1>8
    <2>2. AfterConfig(r) = At(r, "info")
      BY <1>3, <1>8 DEF AfterConfig
    <2>3. /\ SameCommand(r, n) /\ ~n.restoring /\ n.file # "unlinked"
          /\ n.pc \in {"info", "unlink"} \/ (n.pc = "create" /\ n.file = "config")
      <3>1. r.file # "unlinked"
        BY DEF Progress, r
      <3>2. /\ At(r, "info").pc = "info" /\ At(r, "unlink").pc = "unlink"
            /\ SameCommand(r, At(r, "info")) /\ SameOutput(r, At(r, "info"))
            /\ SameCommand(r, At(r, "unlink")) /\ SameOutput(r, At(r, "unlink"))
        BY ZenonT(60), <1>3, AtFields
      <3>3. u.pc = "create" /\ u.file = "config" /\ SameCommand(r, u) /\ u.restoring = r.restoring
        BY SMTT(40), <1>3, StoreFields
      <3> HIDE DEF u
      <3> QED BY ZenonT(60), <1>3, <2>2, <3>1, <3>2, <3>3 DEF SameOutput
    <2>4. Progress(n, b, disk)
      BY <1>7, <1>8, <2>3
    <2>5. n.pc # "idle"
      BY <2>3
    <2> QED BY <1>1, <1>4, <2>1, <2>4, <2>5 DEF Outcome
  <1> QED BY <1>1, <1>5, <1>6, <1>8 DEF r

\* What a command makes of the project it has read: it ends, goes on to read
\* source files, or writes one of the project's files.
Decides(r, n) ==
    \/ n = Fail(r) \/ n = Done(r) \/ (r.op = "include" /\ n = DoInclude(r))
    \/ \E file \in {"info", "meta"} : \E out : n = Store(r, file, out)

LEMMA DecideForms ==
    ASSUME NEW r, r.op \in Commands \ {"init"}
    PROVE  Decides(r, Decide(r))
  <1>1. \A out : Decides(r, PutInfo(r, out)) /\ Decides(r, PutMeta(r, out))
    BY DEF Decides, PutInfo, PutMeta
  <1>2. Decides(r, Fail(r)) /\ Decides(r, Done(r))
    BY DEF Decides
  <1>3. CASE r.op = "include"
    BY <1>3 DEF Decide, Decides
  <1>4. CASE r.op = "exclude"
    BY <1>1, <1>2, <1>4 DEF Decide, DoExclude
  <1>5. CASE r.op = "add"
    BY <1>1, <1>2, <1>5 DEF Decide, DoAdd
  <1>6. CASE r.op = "remove"
    BY <1>1, <1>2, <1>6 DEF Decide, DoRemove
  <1>7. CASE r.op \in {"set", "metamodel", "clear"}
    BY <1>1, <1>2, <1>7 DEF Decide, ApplySet, ApplySetMeta, ApplyClear
  <1>8. CASE r.op \in {"addItem", "removeItem"}
    BY <1>1, <1>2, <1>8 DEF Decide, ApplyAdd, ApplyRemove
  <1> QED BY <1>3, <1>4, <1>5, <1>6, <1>7, <1>8 DEF Commands

LEMMA UnlinkOutcome ==
    ASSUME FilesInv, NEW p \in Proc, Unlink(p), NEW b, Progress(proc[p], b, disk)
    PROVE  Outcome(proc[p], proc'[p], b, disk')
  <1> DEFINE r == proc[p]
             e == [disk EXCEPT !.config = Absent]
  <1>1. r.pc = "unlink" /\ disk' = e /\ proc'[p] \in {Fail(r), AfterConfig(r)}
    BY DEF Unlink, Step
  <1>2. IsDisk(disk) /\ GoodProc(r)
    BY DEF FilesInv
  <1>3. e.info = disk.info /\ e.meta = disk.meta /\ e.lock = disk.lock
    BY <1>2 DEF IsDisk
  <1>4. IsProc(r) /\ r.op = "remove" /\ ~r.restoring /\ r.file # "unlinked"
    BY <1>1, <1>2 DEF GoodProc, Control, Progress
  <1>5. AfterConfig(r) = At(r, "info")
    BY <1>4 DEF AfterConfig
  <1>6. Progress(r, b, disk)
    OBVIOUS
  <1> HIDE DEF r, e
  <1>7. CASE proc'[p] = Fail(r)
    <2>1. KeepsProject(r, b, disk)
      BY <1>1, <1>4, <1>6, FailsClean
    <2>2. KeepsProject(r, b, e)
      BY <1>3, <2>1 DEF KeepsProject
    <2> QED BY <1>1, <1>7, <2>2, FailOutcome DEF Fail, r
  <1>8. CASE proc'[p] = AfterConfig(r)
    <2> DEFINE n == At(r, "info")
    <2>1. n.pc = "info" /\ SameCommand(r, n) /\ SameOutput(r, n)
      BY <1>4, AtFields
    <2> HIDE DEF n
    <2>2. MetaProgress(n, b, e)
      BY <1>1, <1>3, <1>6 DEF Progress, MetaProgress, Writing
    <2>3. InfoProgress(n, b, e)
      BY <1>1, <1>3, <1>4, <1>6, <2>1
         DEF Progress, InfoProgress, Writing, Storing, SameCommand, SameOutput
    <2>4. ConfigProgress(n, b, e)
      BY <1>4, <2>1 DEF ConfigProgress, SameCommand
    <2>5. LockProgress(n, b, e)
      BY <1>1, <1>3, <1>4, <1>6, <2>1 DEF Progress, LockProgress, Writing, Storing
    <2>6. Progress(n, b, e) /\ n.pc # "idle"
      BY <1>4, <1>6, <2>1, <2>2, <2>3, <2>4, <2>5 DEF Progress, SameOutput
    <2> QED BY <1>1, <1>5, <1>8, <2>6 DEF Outcome, n
  <1> QED BY <1>1, <1>7, <1>8 DEF r

LEMMA ReadProjectOutcome ==
    ASSUME FilesInv, NEW p \in Proc, Backup(p) \/ ReadInfo(p), NEW b, Progress(proc[p], b, disk)
    PROVE  Outcome(proc[p], proc'[p], b, disk')
  <1> DEFINE r == proc[p]
             s == [r EXCEPT !.pc = "info", !.backup = disk.info]
             t == [r EXCEPT !.pc = "meta", !.info = disk.info.v]
  <1>1. /\ disk' = disk /\ r.pc \in {"backup", "info"}
        /\ \/ Goto(p, Fail(r)) \/ (r.pc = "backup" /\ Goto(p, s))
           \/ (r.pc = "info" /\ Goto(p, t))
    <2>1. CASE Backup(p)
      BY <2>1 DEF Backup, Step
    <2>2. CASE ReadInfo(p)
      BY <2>2 DEF ReadInfo, Step
    <2> QED BY <2>1, <2>2
  <1>2. GoodProc(r) /\ proc = [q \in Proc |-> proc[q]]
    BY DEF FilesInv
  <1>3. /\ IsProc(r) /\ r.op \in Commands \ {"init"} /\ ~r.restoring /\ r.file # "unlinked"
        /\ r.pc = "backup" => r.op = "add" /\ r.req.lock
    BY <1>1, <1>2 DEF GoodProc, Control, Progress, Commands
  <1>4. \A n : Goto(p, n) => proc'[p] = n
    BY <1>2 DEF Goto
  <1>5. Progress(r, b, disk)
    OBVIOUS
  <1> HIDE DEF r
  <1>6. CASE Goto(p, Fail(r))
    BY <1>1, <1>3, <1>4, <1>5, <1>6, FailsClean, FailOutcome DEF Fail, r
  <1>7. CASE r.pc = "backup" /\ Goto(p, s)
    <2>1. s.pc = "info" /\ s.backup = disk.info /\ SameCommand(r, s) /\ SameOutput(r, s)
          /\ s.config = r.config
      BY <1>3 DEF IsProc, SameCommand, SameOutput
    <2> HIDE DEF s
    <2>2. MetaProgress(s, b, disk)
      BY <1>5, <1>7 DEF Progress, MetaProgress, Writing
    <2>3. InfoProgress(s, b, disk)
      BY <1>3, <1>5, <1>7, <2>1
         DEF Progress, InfoProgress, Writing, Storing, SameCommand, SameOutput
    <2>4. ConfigProgress(s, b, disk)
      BY <1>5, <1>7, <2>1 DEF Progress, ConfigProgress, SameCommand, Storing
    <2>5. LockProgress(s, b, disk)
      BY <1>3, <1>5, <1>7, <2>1 DEF Progress, LockProgress, Writing, Storing
    <2>6. Progress(s, b, disk) /\ s.pc # "idle"
      BY <1>3, <1>5, <2>1, <2>2, <2>3, <2>4, <2>5 DEF Progress, SameOutput
    <2> QED BY <1>1, <1>4, <1>7, <2>6 DEF Outcome
  <1>8. CASE r.pc = "info" /\ Goto(p, t)
    <2>1. t.pc = "meta" /\ t.backup = r.backup /\ SameCommand(r, t) /\ SameOutput(r, t)
          /\ t.config = r.config
      BY <1>3 DEF IsProc, SameCommand, SameOutput
    <2> HIDE DEF t
    <2>2. Progress(t, b, disk) /\ t.pc # "idle"
      BY <1>3, <1>5, <1>8, <2>1, StillReading DEF SameOutput
    <2> QED BY <1>1, <1>4, <1>8, <2>2 DEF Outcome
  <1> QED BY <1>1, <1>6, <1>7, <1>8 DEF r

LEMMA ReadMetaOutcome ==
    ASSUME FilesInv, NEW p \in Proc, ReadMeta(p), NEW b, Progress(proc[p], b, disk)
    PROVE  Outcome(proc[p], proc'[p], b, disk')
  <1> DEFINE r == proc[p]
             m == [r EXCEPT !.meta = disk.meta.v, !.unindexed = unindexed]
  <1>1. disk' = disk /\ r.pc = "meta" /\ (Goto(p, Fail(r)) \/ Goto(p, Decide(m)))
    BY DEF ReadMeta, Step
  <1>2. GoodProc(r) /\ proc = [q \in Proc |-> proc[q]]
    BY DEF FilesInv
  <1>3. IsProc(r) /\ r.op \in Commands \ {"init"} /\ ~r.restoring /\ r.file # "unlinked"
    BY <1>1, <1>2 DEF GoodProc, Control, Progress
  <1>4. \A n : Goto(p, n) => proc'[p] = n
    BY <1>2 DEF Goto
  <1>5. Progress(r, b, disk)
    OBVIOUS
  <1> HIDE DEF r
  <1>6. IsProc(m) /\ SameCommand(r, m) /\ SameOutput(r, m) /\ m.config = r.config
        /\ m.backup = r.backup
    BY <1>3 DEF IsProc, SameCommand, SameOutput
  <1> HIDE DEF m
  <1>7. CASE Goto(p, Fail(r)) \/ Goto(p, Fail(m))
    BY <1>1, <1>3, <1>4, <1>5, <1>7, FailsClean, FailOutcome DEF Fail, r
  <1>8. CASE Goto(p, Done(m))
    <2>1. disk.lock = b.lock
      BY <1>1, <1>3, <1>5 DEF Progress, LockProgress, Writing
    <2> QED BY <1>1, <1>4, <1>8, <2>1, SameLock, DoneOutcome DEF Done
  <1>9. ASSUME NEW n, Goto(p, n), SameCommand(m, n), n.config = m.config, n.backup = m.backup,
               n.restoring = m.restoring, n.file # "unlinked",
               n.pc = "source" \/ (n.pc = "create" /\ n.file \in {"info", "meta"})
        PROVE  Outcome(proc[p], proc'[p], b, disk')
    <2>1. SameCommand(r, n) /\ n.config = r.config /\ n.backup = r.backup /\ ~n.restoring
      BY <1>3, <1>6, <1>9 DEF SameCommand, SameOutput
    <2>2. Progress(n, b, disk) /\ n.pc # "idle"
      BY <1>1, <1>3, <1>5, <1>9, <2>1, StillReading
    <2> QED BY <1>1, <1>4, <1>9, <2>2 DEF Outcome
  <1>10. CASE Goto(p, DoInclude(m))
    <2> DEFINE n == DoInclude(m)
    <2>1. /\ SameCommand(m, n) /\ SameOutput(m, n) /\ n.config = m.config
          /\ n.backup = m.backup /\ n.pc = "source"
      BY <1>6 DEF DoInclude, IsProc, SameCommand, SameOutput
    <2> HIDE DEF n
    <2> QED BY <1>3, <1>6, <1>9, <1>10, <2>1 DEF SameOutput, n
  <1>11. ASSUME NEW file \in {"info", "meta"}, NEW out, Goto(p, Store(m, file, out))
         PROVE  Outcome(proc[p], proc'[p], b, disk')
    <2> DEFINE n == Store(m, file, out)
    <2>1. /\ SameCommand(m, n) /\ SameMemory(m, n) /\ n.restoring = m.restoring
          /\ n.pc = "create" /\ n.file = file
      BY SMT, <1>6, StoreFields
    <2> HIDE DEF n
    <2>2. n.file # "unlinked" /\ n.config = m.config /\ n.backup = m.backup
      BY <2>1 DEF SameMemory
    <2> QED BY <1>9, <1>11, <2>1, <2>2 DEF n
  <1>12. Decides(m, Decide(m))
    BY <1>3, <1>6, DecideForms DEF SameCommand
  <1>13. CASE Goto(p, Decide(m))
    BY <1>7, <1>8, <1>10, <1>11, <1>12, <1>13 DEF Decides
  <1> QED BY <1>1, <1>7, <1>13

LEMMA ReadSourceOutcome ==
    ASSUME FilesInv, NEW p \in Proc, ReadSource(p), NEW b, Progress(proc[p], b, disk)
    PROVE  Outcome(proc[p], proc'[p], b, disk')
  <1> DEFINE r == proc[p]
             path == Head(r.todo)
             meta == IncludeFile(r.meta[1], path, source[path].symbols,
                                 r.req.compute, r.req.index)
             skip == IF r.req.index THEN r.unindexed \ {path} ELSE r.unindexed \cup {path}
             next == [r EXCEPT !.unindexed = skip]
             s == PutMeta(next, meta)
             t == [next EXCEPT !.meta = <<meta>>, !.todo = Tail(next.todo)]
  <1>1. disk' = disk /\ r.pc = "source" /\ (Goto(p, Fail(r)) \/ Goto(p, s) \/ Goto(p, t))
    BY DEF ReadSource, Step
  <1>2. GoodProc(r) /\ proc = [q \in Proc |-> proc[q]]
    BY DEF FilesInv
  <1>3. IsProc(r) /\ r.op = "include" /\ ~r.restoring /\ r.file # "unlinked"
    BY <1>1, <1>2 DEF GoodProc, Control, Progress
  <1>4. \A n : Goto(p, n) => proc'[p] = n
    BY <1>2 DEF Goto
  <1>5. Progress(r, b, disk)
    OBVIOUS
  <1> HIDE DEF r, meta, skip
  <1>6. IsProc(next) /\ SameCommand(r, next) /\ SameOutput(r, next) /\ next.pc = r.pc
        /\ next.config = r.config /\ next.backup = r.backup
    BY <1>3 DEF IsProc, SameCommand, SameOutput
  <1> HIDE DEF next
  <1>7. /\ s.pc = "create" /\ s.file = "meta" /\ SameCommand(next, s) /\ SameMemory(next, s)
        /\ s.restoring = next.restoring
    BY SMT, <1>6, StoreFields DEF PutMeta
  <1>8. /\ t.pc = next.pc /\ SameCommand(next, t) /\ SameOutput(next, t)
        /\ t.config = next.config /\ t.backup = next.backup
    BY <1>6 DEF IsProc, SameCommand, SameOutput
  <1> HIDE DEF s, t
  <1>9. CASE Goto(p, Fail(r))
    BY <1>1, <1>3, <1>4, <1>5, <1>9, FailsClean, FailOutcome DEF Fail, r
  <1>10. CASE Goto(p, s) \/ Goto(p, t)
    <2>1. PICK n \in {s, t} : Goto(p, n)
      BY <1>10
    <2>2. /\ SameCommand(r, n) /\ n.config = r.config /\ n.backup = r.backup /\ ~n.restoring
          /\ n.file # "unlinked" /\ (n.pc = "source" \/ (n.pc = "create" /\ n.file = "meta"))
      BY SMTT(40), <1>1, <1>3, <1>6, <1>7, <1>8 DEF SameCommand, SameMemory, SameOutput
    <2>3. Progress(n, b, disk) /\ n.pc # "idle"
      BY <1>1, <1>3, <1>5, <2>2, StillReading
    <2> QED BY <1>1, <1>4, <2>1, <2>3 DEF Outcome
  <1> QED BY <1>1, <1>9, <1>10

LEMMA NewFilesOutcome ==
    ASSUME FilesInv, NEW p \in Proc, NewInfoFile(p) \/ NewMetaFile(p),
           NEW b, Progress(proc[p], b, disk)
    PROVE  Outcome(proc[p], proc'[p], b, disk')
  <1> DEFINE r == proc[p]
             s == Store(r, "info", Holds(NewInfo(r.req.name, r.req.license)))
             t == Store(r, "meta", Holds(NewMeta))
  <1>1. /\ disk' = disk
        /\ \/ r.pc = "newInfo" /\ Goto(p, Fail(r))
           \/ r.pc = "newInfo" /\ disk.info.st = "absent" /\ Goto(p, s)
           \/ r.pc = "newMeta" /\ disk.meta.st # "absent" /\ Goto(p, Fail(r))
           \/ r.pc = "newMeta" /\ Goto(p, t)
    <2>1. CASE NewInfoFile(p)
      BY <2>1 DEF NewInfoFile, Step
    <2>2. CASE NewMetaFile(p)
      BY <2>2 DEF NewMetaFile, Step
    <2> QED BY <2>1, <2>2
  <1>2. GoodProc(r) /\ proc = [q \in Proc |-> proc[q]] /\ InfoFile(disk.info)
    BY DEF FilesInv
  <1>3. IsProc(r) /\ r.op = "init" /\ ~r.restoring /\ r.file # "unlinked"
    BY <1>1, <1>2 DEF GoodProc, Control, Progress
  <1>4. \A n : Goto(p, n) => proc'[p] = n
    BY <1>2 DEF Goto
  <1>5. Progress(r, b, disk)
    OBVIOUS
  <1> HIDE DEF r
  <1>6. /\ s.pc = "create" /\ s.file = "info" /\ SameCommand(r, s) /\ ~s.restoring
        /\ t.pc = "create" /\ t.file = "meta" /\ SameCommand(r, t) /\ ~t.restoring
    BY SMT, <1>3, StoreFields
  <1> HIDE DEF s, t
  <1>7. CASE r.pc = "newInfo" /\ Goto(p, Fail(r))
    BY <1>1, <1>3, <1>4, <1>5, <1>7, FailsClean, FailOutcome DEF Fail, r
  <1>8. CASE r.pc = "newMeta" /\ disk.meta.st # "absent" /\ Goto(p, Fail(r))
    <2>1. disk.meta = b.meta /\ b.meta # Absent
      BY <1>5, <1>8, FileStates DEF Progress, MetaProgress, Writing
    <2>2. b.info = Absent
      BY <1>3, <1>5, <1>8 DEF Progress, InfoProgress
    <2>3. KeepsProject(r, b, disk)
      BY <1>3, <2>1, <2>2 DEF KeepsProject
    <2> QED BY <1>1, <1>4, <1>8, <2>3, FailOutcome DEF Fail, r
  <1>9. CASE r.pc = "newInfo" /\ disk.info.st = "absent" /\ Goto(p, s)
    <2>1. disk.info = b.info
      BY <1>3, <1>5, <1>9 DEF Progress, InfoProgress, Writing, Storing
    <2>2. disk.info = Absent
      BY <1>2, <1>9, FileStates DEF InfoFile
    <2>3. MetaProgress(s, b, disk) /\ InfoProgress(s, b, disk)
      BY <1>3, <1>5, <1>6, <1>9, <2>1, <2>2
         DEF Progress, MetaProgress, InfoProgress, Writing, Storing, SameCommand
    <2>4. ConfigProgress(s, b, disk)
      BY <1>3, <1>6 DEF ConfigProgress, SameCommand
    <2>5. LockProgress(s, b, disk)
      BY <1>3, <1>5, <1>6, <1>9 DEF Progress, LockProgress, Writing, Storing
    <2>6. Progress(s, b, disk) /\ s.pc # "idle"
      BY <1>5, <1>6, <2>3, <2>4, <2>5 DEF Progress
    <2> QED BY <1>1, <1>4, <1>9, <2>6 DEF Outcome
  <1>10. CASE r.pc = "newMeta" /\ Goto(p, t)
    <2>1. MetaProgress(t, b, disk)
      BY <1>5, <1>10 DEF Progress, MetaProgress, Writing
    <2>2. InfoProgress(t, b, disk)
      BY <1>3, <1>5, <1>6, <1>10 DEF Progress, InfoProgress, Writing, Storing, SameCommand
    <2>3. ConfigProgress(t, b, disk)
      BY <1>3, <1>6 DEF ConfigProgress, SameCommand
    <2>4. LockProgress(t, b, disk)
      BY ZenonT(60), <1>3, <1>5, <1>6, <1>10 DEF Progress, LockProgress, Writing, Storing
    <2>5. Progress(t, b, disk) /\ t.pc # "idle"
      BY <1>5, <1>6, <2>1, <2>2, <2>3, <2>4 DEF Progress
    <2> QED BY <1>1, <1>4, <1>10, <2>5 DEF Outcome
  <1> QED BY <1>1, <1>7, <1>8, <1>9, <1>10

\* An add that gives up is about to restore the text it began with.
LEMMA GiveUpOutcome ==
    ASSUME NEW r, GoodProc(r), r.pc \in {"lock", "sync"} \/ Storing(r, "lock"),
           NEW b, NEW d, Progress(r, b, d),
           NEW e, e.info = d.info, e.meta = d.meta, e.config = d.config
    PROVE  Outcome(r, GiveUp(r), b, e)
  <1>1. IsProc(r) /\ ~r.restoring /\ (r.op = "lock" \/ (r.op = "add" /\ r.req.lock))
    BY DEF GoodProc, Control, Locks, Storing
  <1>2. CASE r.op = "lock"
    <2>1. GiveUp(r) = Idle("failed")
      BY <1>2 DEF GiveUp, Fail
    <2>2. KeepsProject(r, b, e)
      BY <1>1, <1>2 DEF Progress, MetaProgress, InfoProgress, Writing, Storing, KeepsProject
    <2> QED BY <2>1, <2>2, FailOutcome
  <1>3. CASE r.op = "add"
    <2> DEFINE s == Store(r, "info", r.backup)
               n == [s EXCEPT !.restoring = TRUE]
    <2>1. GiveUp(r) = n
      BY <1>3 DEF GiveUp
    <2>2. /\ IsProc(s) /\ s.pc = "create" /\ s.file = "info" /\ s.out = r.backup
          /\ SameCommand(r, s) /\ SameMemory(r, s)
      BY SMT, <1>1, StoreFields
    <2> HIDE DEF s
    <2>3. /\ n.pc = s.pc /\ n.file = s.file /\ n.out = s.out /\ SameCommand(s, n)
          /\ SameMemory(s, n) /\ n.restoring = TRUE
      BY <2>2 DEF IsProc, SameCommand, SameMemory
    <2> HIDE DEF n
    <2>4. /\ n.pc = "create" /\ n.file = "info" /\ n.out = r.backup /\ n.restoring
          /\ SameCommand(r, n) /\ n.config = r.config /\ n.backup = r.backup
      BY <2>2, <2>3 DEF SameCommand, SameMemory
    <2>5. MetaProgress(n, b, e)
      BY DEF Progress, MetaProgress, Writing, Storing
    <2>6. InfoProgress(n, b, e)
      <3>1. r.backup = b.info
        BY <1>1, <1>3 DEF Progress, InfoProgress, Storing
      <3> QED BY <1>3, <2>4, <3>1 DEF InfoProgress, SameCommand
    <2>7. ConfigProgress(n, b, e)
      BY ZenonT(60), <1>3, <2>4 DEF Progress, ConfigProgress, Storing, SameCommand
    <2>8. LockProgress(n, b, e)
      BY <2>4 DEF LockProgress, Storing
    <2>9. Progress(n, b, e) /\ n.pc # "idle"
      BY <2>4, <2>5, <2>6, <2>7, <2>8 DEF Progress
    <2> QED BY <2>1, <2>9 DEF Outcome
  <1> QED BY <1>1, <1>2, <1>3

\* A write that fails leaves the other files alone.
LEMMA BrokenOutcome ==
    ASSUME NEW r, GoodProc(r), r.pc \in {"create", "write"}, NEW b, NEW d, Progress(r, b, d),
           NEW e, r.file # "info" => e.info = d.info, r.file # "meta" => e.meta = d.meta,
           r.file # "config" => e.config = d.config
    PROVE  Outcome(r, Broken(r), b, e)
  <1>1. /\ r.file \in {"config", "info", "meta", "lock"}
        /\ r.file = "meta" => r.op # "add"
        /\ r.file = "config" => r.op \in {"add", "remove"}
        /\ r.restoring => r.file = "info"
    BY DEF GoodProc, Control, Storing, Progress
  <1>2. CASE r.file = "lock"
    <2>1. Broken(r) = GiveUp(r) /\ Storing(r, "lock")
      BY <1>2 DEF Broken, Storing
    <2>2. e.info = d.info /\ e.meta = d.meta /\ e.config = d.config
      BY <1>2
    <2> QED BY <2>1, <2>2, GiveUpOutcome
  <1>3. CASE r.file = "config"
    <2>1. Broken(r) = Idle("failed")
      BY <1>3 DEF Broken, Fail
    <2>2. KeepsProject(r, b, e)
      BY <1>1, <1>3 DEF Progress, MetaProgress, InfoProgress, Writing, Storing, KeepsProject
    <2> QED BY <2>1, <2>2, FailOutcome
  <1>4. CASE r.file \in {"info", "meta"}
    <2>1. Broken(r) = Idle("broken")
      BY <1>4 DEF Broken
    <2>2. KeepsFiles(r, b, e, {"info", "meta"} \ {r.file})
      <3>1. r.file = "info" => e.meta = b.meta
        BY DEF Progress, MetaProgress, Writing
      <3>2. r.file = "meta" => e.info = b.info \/ (r.op = "init" /\ b.info = Absent)
        BY <1>1 DEF Progress, InfoProgress, Writing, Storing
      <3> QED BY <1>4, <3>1, <3>2 DEF KeepsFiles
    <2>3. Idle("broken").pc = "idle" /\ Idle("broken").result = "broken"
      BY IdleFields
    <2>4. "failed" # "broken" /\ "broken" # "ok"
      OBVIOUS
    <2> QED BY <2>1, <2>2, <2>3, <2>4 DEF Outcome
  <1> QED BY <1>1, <1>2, <1>3, <1>4

LEMMA CreateOutcome ==
    ASSUME FilesInv, NEW p \in Proc, Create(p), NEW b, Progress(proc[p], b, disk)
    PROVE  Outcome(proc[p], proc'[p], b, disk')
  <1> DEFINE r == proc[p]
             n == At(r, "write")
             e == [disk EXCEPT ![r.file] = Empty]
  <1>1. /\ r.pc = "create"
        /\ (disk' = e /\ Goto(p, n)) \/ (disk' = disk /\ Goto(p, Broken(r)))
    BY DEF Create, Step
  <1>2. GoodProc(r) /\ proc = [q \in Proc |-> proc[q]] /\ IsDisk(disk)
    BY DEF FilesInv
  <1>3. /\ IsProc(r) /\ r.file \in {"config", "info", "meta", "lock"}
        /\ r.file = "lock" => Locks(r)
        /\ r.file = "meta" => r.op \notin {"add", "remove"}
        /\ r.file = "config" => r.op \in {"add", "remove"}
        /\ r.restoring => r.op = "add" /\ r.file = "info"
    BY <1>1, <1>2 DEF GoodProc, Control, Storing
  <1>4. \A m : Goto(p, m) => proc'[p] = m
    BY <1>2 DEF Goto
  <1>5. Progress(r, b, disk)
    OBVIOUS
  <1> HIDE DEF r
  <1>6. /\ n.pc = "write" /\ SameCommand(r, n) /\ SameOutput(r, n) /\ SameMemory(r, n)
    BY <1>3, AtFields
  <1>7. /\ e.info = IF r.file = "info" THEN Empty ELSE disk.info
        /\ e.meta = IF r.file = "meta" THEN Empty ELSE disk.meta
        /\ e.config = IF r.file = "config" THEN Empty ELSE disk.config
        /\ e.lock = IF r.file = "lock" THEN Empty ELSE disk.lock
    <2>1. Replaced(disk, r.file, Empty, e)
      BY DEF Replaced
    <2> HIDE DEF e
    <2> QED BY SMT, <1>2, <1>3, <2>1, DiskFields
  <1>8. e[n.file] = Empty
    BY <1>2, <1>3, <1>6 DEF IsDisk, SameOutput
  <1> HIDE DEF n, e
  <1>9. MetaProgress(n, b, e)
    BY <1>1, <1>5, <1>6, <1>7 DEF Progress, MetaProgress, Writing, SameOutput
  <1>10. InfoProgress(n, b, e)
    BY ZenonT(60), <1>1, <1>3, <1>5, <1>6, <1>7
       DEF Progress, InfoProgress, Writing, Storing, SameOutput, SameCommand, SameMemory
  <1>11. ConfigProgress(n, b, e)
    BY ZenonT(60), <1>1, <1>3, <1>5, <1>6, <1>7
       DEF Progress, ConfigProgress, Storing, SameOutput, SameCommand, SameMemory
  <1>12. LockProgress(n, b, e)
    BY ZenonT(60), <1>1, <1>3, <1>5, <1>6, <1>7
       DEF Progress, LockProgress, LockOut, Writing, Storing, SameOutput, SameMemory
  <1>13. Progress(n, b, e) /\ n.pc # "idle"
    BY <1>5, <1>6, <1>8, <1>9, <1>10, <1>11, <1>12 DEF Progress, SameOutput
  <1>14. CASE disk' = e /\ Goto(p, n)
    BY <1>4, <1>13, <1>14 DEF Outcome
  <1>15. CASE disk' = disk /\ Goto(p, Broken(r))
    BY <1>1, <1>2, <1>4, <1>5, <1>15, BrokenOutcome DEF r
  <1> QED BY <1>1, <1>14, <1>15 DEF r

\* The step after a write leads to another step with the file written.
LEMMA Continues ==
    ASSUME NEW r, GoodProc(r), NEW b, NEW d, Progress(r, b, d), r.pc = "write",
           NEW e,
           e.info = IF r.file = "info" THEN r.out ELSE d.info,
           e.meta = IF r.file = "meta" THEN r.out ELSE d.meta,
           e.config = IF r.file = "config" THEN r.out ELSE d.config,
           e.lock = IF r.file = "lock" THEN r.out ELSE d.lock,
           NEW pc, ~r.restoring,
           \/ r.file = "config" /\ r.op = "remove" /\ pc = "info"
           \/ r.file = "config" /\ r.op = "add" /\ r.req.lock /\ pc = "backup"
           \/ r.file = "config" /\ r.op = "add" /\ ~r.req.lock /\ pc = "info"
           \/ r.file = "info" /\ r.op = "init" /\ pc = "newMeta"
           \/ r.file = "info" /\ r.op = "add" /\ r.req.lock /\ pc = "lock"
           \/ r.file = "lock" /\ r.op = "add" /\ pc = "sync"
    PROVE  Outcome(r, At(r, pc), b, e)
  <1> DEFINE n == At(r, pc)
  <1>1. n.pc = pc /\ SameCommand(r, n) /\ SameOutput(r, n) /\ SameMemory(r, n)
    BY ZenonT(60), AtFields DEF GoodProc
  <1> HIDE DEF n
  <1>2. pc \notin {"idle", "create", "write", "config"}
    OBVIOUS
  <1>3. MetaProgress(n, b, e)
    BY <1>1, <1>2 DEF Progress, MetaProgress, Writing
  <1>4. InfoProgress(n, b, e)
    BY SMT, <1>1, <1>2 DEF Progress, InfoProgress, Writing, Storing, SameOutput, SameCommand, SameMemory
  <1>5. ConfigProgress(n, b, e)
    <2>1. r.op # "lock"
      OBVIOUS
    <2>2. ~Storing(n, "config") /\ n.pc # "config" /\ n.op = r.op /\ n.req = r.req
          /\ n.config = r.config
      BY <1>1, <1>2 DEF Storing, SameCommand, SameMemory
    <2>3. Storing(r, "config") <=> r.file = "config"
      BY DEF Storing
    <2> QED BY <1>1, <1>2, <2>1, <2>2, <2>3 DEF Progress, ConfigProgress
  <1>6. LockProgress(n, b, e)
    BY <1>1, <1>2 DEF Progress, LockProgress, LockOut, Writing, Storing, SameOutput,
         SameMemory
  <1>7. Progress(n, b, e)
    BY <1>1, <1>2, <1>3, <1>4, <1>5, <1>6 DEF Progress, SameOutput
  <1> QED BY <1>1, <1>2, <1>7 DEF Outcome, n

LEMMA WrittenOutcome ==
    ASSUME FilesInv, NEW p \in Proc, proc[p].pc = "write", Leave(proc[p], Written(proc[p])),
           Goto(p, AfterWrite(proc[p])), NEW b, Progress(proc[p], b, disk)
    PROVE  Outcome(proc[p], proc'[p], b, disk')
  <1> DEFINE r == proc[p]
             e == [disk EXCEPT ![r.file] = r.out]
  <1>1. r.pc = "write" /\ Goto(p, AfterWrite(r))
    OBVIOUS
  <1>2. GoodProc(r) /\ proc = [q \in Proc |-> proc[q]] /\ IsDisk(disk)
    BY DEF FilesInv
  <1>3. r.file # "unlinked" /\ disk[r.file] = Empty
    BY <1>1 DEF Progress
  <1>4. disk' = e
    <2>1. Written(r) = {r.out}
      BY <1>3 DEF Written
    <2> QED BY <1>3, <2>1 DEF Leave
  <1>5. /\ IsProc(r) /\ r.file \in {"config", "info", "meta", "lock"}
        /\ r.file = "lock" => Locks(r)
        /\ r.file = "meta" => r.op \notin {"add", "remove"}
        /\ r.file = "config" => r.op \in {"add", "remove"}
        /\ r.restoring => r.op = "add" /\ r.file = "info"
    BY <1>1, <1>2, <1>3 DEF GoodProc, Control, Storing
  <1>6. proc'[p] = AfterWrite(r)
    BY <1>1, <1>2 DEF Goto
  <1>7. Progress(r, b, disk)
    OBVIOUS
  <1> HIDE DEF r
  <1>8. /\ e.info = IF r.file = "info" THEN r.out ELSE disk.info
        /\ e.meta = IF r.file = "meta" THEN r.out ELSE disk.meta
        /\ e.config = IF r.file = "config" THEN r.out ELSE disk.config
        /\ e.lock = IF r.file = "lock" THEN r.out ELSE disk.lock
    <2>1. Replaced(disk, r.file, r.out, e)
      BY DEF Replaced
    <2> HIDE DEF e
    <2> QED BY SMTT(40), <1>2, <1>5, <2>1, DiskFields
  <1>9. SUFFICES Outcome(r, AfterWrite(r), b, e)
    BY <1>4, <1>6 DEF r
  <1> HIDE DEF e
  <1>10. r.file # "lock" /\ ~r.restoring => e.lock = b.lock
    BY <1>1, <1>7, <1>8 DEF Progress, LockProgress, Writing
  <1>11. r.file # "lock" /\ ~r.restoring => Outcome(r, Done(r), b, e)
    BY <1>10, SameLock, DoneOutcome DEF Done
  <1>12. CASE r.file = "config"
    <2>1. AfterWrite(r) = AfterConfig(r)
      BY <1>12 DEF AfterWrite
    <2>2. ~r.restoring
      BY <1>5, <1>12
    <2>3. CASE r.op = "remove"
      <3>1. AfterConfig(r) = At(r, "info")
        BY <2>3 DEF AfterConfig
      <3> QED BY SMTT(40), <1>1, <1>2, <1>7, <1>8, <1>12, <2>1, <2>2, <2>3, <3>1, Continues
    <2>4. CASE r.op = "add"
      <3>1. r.req.lock \in BOOLEAN
        <4>1. r.req \in Requests.add
          BY <1>2, <2>4, GoodFields DEF Commands
        <4> QED BY <4>1, RequestsAssumption
      <3>2. CASE r.req.iri \in Std
        <4>1. AfterConfig(r) = Done(r)
          BY <2>4, <3>2 DEF AfterConfig
        <4> QED BY <1>11, <1>12, <2>1, <2>2, <4>1
      <3>3. CASE r.req.iri \notin Std /\ r.req.lock
        <4>1. AfterConfig(r) = At(r, "backup")
          BY <2>4, <3>3 DEF AfterConfig
        <4> QED BY <1>1, <1>2, <1>7, <1>8, <1>12, <2>1, <2>2, <2>4, <3>3, <4>1, Continues
      <3>4. CASE r.req.iri \notin Std /\ ~r.req.lock
        <4>1. AfterConfig(r) = At(r, "info")
          BY <2>4, <3>4 DEF AfterConfig
        <4> QED BY ZenonT(60), <1>1, <1>2, <1>7, <1>8, <1>12, <2>1, <2>2, <2>4, <3>4, <4>1, Continues
      <3> QED BY <3>1, <3>2, <3>3, <3>4
    <2> QED BY <1>5, <1>12, <2>3, <2>4
  <1>13. CASE r.file = "info" /\ r.op = "init"
    <2>1. ~r.restoring
      BY <1>5, <1>13
    <2>2. AfterWrite(r) = At(r, "newMeta")
      BY <1>13, <2>1 DEF AfterWrite
    <2> QED BY ZenonT(60), <1>1, <1>2, <1>7, <1>8, <1>13, <2>1, <2>2, Continues
  <1>14. CASE r.file = "info" /\ r.restoring
    <2>1. r.op = "add"
      BY <1>5, <1>14
    <2>2. AfterWrite(r) = Fail(r)
      BY <1>14, <2>1 DEF AfterWrite
    <2>3. e.info = b.info /\ e.meta = b.meta
      BY <1>1, <1>7, <1>8, <1>14 DEF Progress, InfoProgress, MetaProgress, Writing
    <2>4. KeepsProject(r, b, e)
      BY <2>3 DEF KeepsProject
    <2> QED BY <2>2, <2>4, FailOutcome DEF Fail
  <1>15. CASE r.file = "info" /\ r.op = "add" /\ ~r.restoring
    <2>1. AfterWrite(r) = IF r.req.lock THEN At(r, "lock") ELSE Done(r)
      BY <1>15 DEF AfterWrite
    <2>2. CASE r.req.lock
      BY ZenonT(60), <1>1, <1>2, <1>7, <1>8, <1>15, <2>1, <2>2, Continues
    <2>3. CASE ~r.req.lock
      BY <1>11, <1>15, <2>1, <2>3
    <2> QED BY <2>2, <2>3
  <1>16. CASE r.file = "info" /\ r.op \notin {"init", "add"}
    <2>1. ~r.restoring
      BY <1>5, <1>16
    <2>2. AfterWrite(r) = Done(r)
      BY <1>16, <2>1 DEF AfterWrite
    <2> QED BY <1>11, <1>16, <2>1, <2>2
  <1>17. CASE r.file = "lock"
    <2>1. AfterWrite(r) = IF r.op = "add" /\ r.req.sync THEN At(r, "sync") ELSE Done(r)
      BY <1>17 DEF AfterWrite
    <2>2. ~r.restoring /\ Storing(r, "lock") /\ Locks(r)
      BY <1>1, <1>5, <1>17 DEF Storing
    <2>3. CASE r.op = "add" /\ r.req.sync
      BY ZenonT(60), <1>1, <1>2, <1>7, <1>8, <1>17, <2>1, <2>2, <2>3, Continues
    <2>4. CASE ~(r.op = "add" /\ r.req.sync)
      <3>1. CurrentLock(r, b, e)
        BY <1>2, <1>7, <1>8, <1>17, <2>2, WrittenLock
      <3> QED BY <2>1, <2>4, <3>1, DoneOutcome DEF Done
    <2> QED BY <2>3, <2>4
  <1>18. CASE r.file = "meta"
    <2>1. ~r.restoring
      BY <1>5, <1>18
    <2>2. AfterWrite(r) = Done(r)
      BY <1>18 DEF AfterWrite
    <2> QED BY <1>11, <1>18, <2>1, <2>2
  <1> QED BY <1>5, <1>12, <1>13, <1>14, <1>15, <1>16, <1>17, <1>18

LEMMA WriteOutcome ==
    ASSUME FilesInv, NEW p \in Proc, Write(p), NEW b, Progress(proc[p], b, disk)
    PROVE  Outcome(proc[p], proc'[p], b, disk')
  <1> DEFINE r == proc[p]
  <1>1. /\ r.pc = "write"
        /\ \/ Leave(r, Written(r)) /\ Goto(p, AfterWrite(r))
           \/ Leave(r, Cut(r)) /\ Goto(p, Broken(r))
    BY DEF Write, Step
  <1>2. CASE Leave(r, Written(r)) /\ Goto(p, AfterWrite(r))
    BY <1>1, <1>2, WrittenOutcome
  <1>3. CASE Leave(r, Cut(r)) /\ Goto(p, Broken(r))
    <2>1. GoodProc(r) /\ proc = [q \in Proc |-> proc[q]] /\ IsDisk(disk)
      BY DEF FilesInv
    <2>2. r.file \in {"info", "meta", "config", "lock"}
      BY <1>1, <2>1 DEF GoodProc, Control, Progress
    <2>3. PICK text : disk' = [disk EXCEPT ![r.file] = text]
      BY <1>3, <2>2 DEF Leave
    <2>4. /\ disk'.info = IF r.file = "info" THEN text ELSE disk.info
          /\ disk'.meta = IF r.file = "meta" THEN text ELSE disk.meta
          /\ disk'.config = IF r.file = "config" THEN text ELSE disk.config
      <3>1. Replaced(disk, r.file, text, disk')
        BY <2>3 DEF Replaced
      <3> QED BY SMTT(40), <2>1, <2>2, <3>1, DiskFields
    <2>5. /\ r.file # "info" => disk'.info = disk.info
          /\ r.file # "meta" => disk'.meta = disk.meta
          /\ r.file # "config" => disk'.config = disk.config
      BY <2>4
    <2>6. proc'[p] = Broken(r)
      BY <1>3, <2>1 DEF Goto
    <2> QED BY <1>1, <2>1, <2>5, <2>6, BrokenOutcome
  <1> QED BY <1>1, <1>2, <1>3

LEMMA LockSyncOutcome ==
    ASSUME FilesInv, NEW p \in Proc, Lock(p) \/ Sync(p), NEW b, Progress(proc[p], b, disk)
    PROVE  Outcome(proc[p], proc'[p], b, disk')
  <1> DEFINE r == proc[p]
             out == LockOut(disk, r.config)
             n == Store(r, "lock", out)
  <1>1. /\ r.pc \in {"lock", "sync"} /\ disk' = disk
        /\ \/ Goto(p, GiveUp(r)) \/ (r.pc = "sync" /\ Goto(p, Done(r)))
           \/ r.pc = "lock" /\ disk.info.st = "ok" /\ Goto(p, n)
    <2>1. CASE Lock(p)
      BY <2>1 DEF Lock, Step, LockOut
    <2>2. CASE Sync(p)
      BY <2>2 DEF Sync, Step
    <2> QED BY <2>1, <2>2
  <1>2. GoodProc(r) /\ proc = [q \in Proc |-> proc[q]]
    BY DEF FilesInv
  <1>3. IsProc(r) /\ ~r.restoring /\ Locks(r)
    BY <1>1, <1>2 DEF GoodProc, Control, Locks
  <1>4. \A m : Goto(p, m) => proc'[p] = m
    BY <1>2 DEF Goto
  <1>5. Progress(r, b, disk)
    OBVIOUS
  <1> HIDE DEF r, out
  <1>6. n.pc = "create" /\ n.file = "lock" /\ n.out = out /\ SameCommand(r, n) /\ SameMemory(r, n)
        /\ ~n.restoring
    BY SMT, <1>3, StoreFields
  <1> HIDE DEF n
  <1>7. CASE Goto(p, GiveUp(r))
    BY <1>1, <1>2, <1>4, <1>5, <1>7, GiveUpOutcome DEF r
  <1>8. CASE r.pc = "sync" /\ Goto(p, Done(r))
    <2>1. disk.lock = r.out
      BY <1>5, <1>8 DEF Progress, LockProgress
    <2>2. CurrentLock(r, b, disk)
      BY <1>2, <1>3, <1>5, <1>8, <2>1, WrittenLock
    <2> QED BY <1>1, <1>4, <1>8, <2>2, DoneOutcome DEF Done, r
  <1>9. CASE r.pc = "lock" /\ disk.info.st = "ok" /\ Goto(p, n)
    <2>1. MetaProgress(n, b, disk)
      BY <1>5, <1>9 DEF Progress, MetaProgress, Writing
    <2>2. InfoProgress(n, b, disk)
      BY <1>3, <1>5, <1>6, <1>9
         DEF Progress, InfoProgress, Writing, Storing, SameCommand, SameMemory
    <2>3. ConfigProgress(n, b, disk)
      BY <1>3, <1>5, <1>6, <1>9 DEF Progress, ConfigProgress, Storing, SameCommand,
           SameMemory
    <2>4. LockProgress(n, b, disk)
      BY <1>3, <1>5, <1>6, <1>9 DEF Progress, LockProgress, Writing, Storing, SameMemory, out
    <2>5. Progress(n, b, disk) /\ n.pc # "idle"
      BY <1>5, <1>6, <2>1, <2>2, <2>3, <2>4 DEF Progress
    <2> QED BY <1>1, <1>4, <1>9, <2>5 DEF Outcome
  <1> QED BY <1>1, <1>7, <1>8, <1>9

LEMMA WorkOutcome ==
    ASSUME FilesInv, NEW p \in Proc, Work(p), NEW b, Progress(proc[p], b, disk)
    PROVE  Outcome(proc[p], proc'[p], b, disk')
  BY ReadConfigOutcome, UnlinkOutcome, ReadProjectOutcome, ReadMetaOutcome,
       ReadSourceOutcome,
     NewFilesOutcome, CreateOutcome, WriteOutcome, LockSyncOutcome, UnreachedOutcome DEF Work

\* Work is done by one process.
LEMMA OnlyOne ==
    ASSUME FilesInv, NEW p \in Proc, Work(p)
    PROVE  /\ proc[p].pc # "idle" /\ UNCHANGED <<alone, before>>
           /\ \A q \in Proc \ {p} : proc'[q].pc = proc[q].pc
  <1>1. proc = [q \in Proc |-> proc[q]]
    BY DEF FilesInv
  <1>2. CASE Unlink(p)
    <2>1. proc[p].pc = "unlink" /\ UNCHANGED <<alone, before>>
      BY <1>2 DEF Unlink, Step, Quiet
    <2>2. ASSUME NEW q \in Proc \ {p} PROVE proc'[q].pc = proc[q].pc
      <3>1. \/ proc'[q] = proc[q]
            \/ proc'[q] = [proc[q] EXCEPT !.file = "unlinked"]
        BY <1>2, <2>2 DEF Unlink
      <3>2. IsProc(proc[q])
        BY DEF FilesInv, GoodProc
      <3> QED BY <3>1, <3>2 DEF IsProc
    <2> QED BY <2>1, <2>2
  <1>3. CASE ~Unlink(p)
    <2>1. \E r : Goto(p, r)
      BY <1>3 DEF Work, ReadConfig, Backup, ReadInfo, ReadMeta, ReadSource, NewInfoFile,
                     NewMetaFile, Create, Write, Lock, Sync, Unreached
    <2>2. Quiet
      BY <1>3 DEF Work, ReadConfig, Backup, ReadInfo, ReadMeta, ReadSource, NewInfoFile,
                     NewMetaFile, Create, Write, Lock, Sync, Unreached
    <2>3. proc[p].pc \in {"config", "unlink", "backup", "info", "meta", "source", "newInfo", "newMeta",
                          "create", "write", "lock", "sync"}
      BY <1>3 DEF Work, ReadConfig, Backup, ReadInfo, ReadMeta, ReadSource, NewInfoFile,
                     NewMetaFile, Create, Write, Lock, Sync, Unreached, Step
    <2>4. \A q \in Proc \ {p} : proc'[q].pc = proc[q].pc
      BY <1>1, <2>1 DEF Goto
    <2> QED BY <2>2, <2>3, <2>4 DEF Quiet
  <1> QED BY <1>2, <1>3

LEMMA WorkAlone ==
    ASSUME FilesInv, AloneInv, NEW p \in Proc, Work(p)
    PROVE  /\ AloneInv'
           /\ p \in alone => Outcome(proc[p], proc'[p], before, disk')
  <1>1. /\ proc[p].pc # "idle" /\ UNCHANGED <<alone, before>>
        /\ \A q \in Proc \ {p} : proc'[q].pc = proc[q].pc
    BY OnlyOne
  <1>2. p \in Active
    BY <1>1 DEF Active
  <1>3. p \in alone => Outcome(proc[p], proc'[p], before, disk')
    BY <1>2, WorkOutcome DEF AloneInv
  <1>4. ASSUME NEW q \in alone
        PROVE  Active' \subseteq {q} /\ (q \in Active' => Progress(proc'[q], before, disk'))
    <2>1. q = p /\ Active \subseteq {p}
      BY <1>2 DEF AloneInv
    <2>2. Active' \subseteq {p}
      BY <1>1, <2>1 DEF Active
    <2>3. p \in Active' => proc'[p].pc # "idle"
      BY DEF Active
    <2> QED BY <1>3, <2>1, <2>2, <2>3 DEF Outcome
  <1> QED BY <1>1, <1>3, <1>4 DEF AloneInv

\* A command that starts has changed nothing.
LEMMA StartProgress ==
    ASSUME FilesInv, NEW p \in Proc, NEW op, NEW req, NEW pc, Start(p, op, req, pc),
           \/ op = "init" /\ pc = "newInfo"
           \/ op \in Commands \ {"init", "add"} /\ pc \in {"info", "config"}
           \/ op = "add" /\ req.lock \in BOOLEAN
              /\ pc = IF req.source = None THEN "afterConfig" ELSE "config"
           \/ op = "lock" /\ pc = "lock"
    PROVE  proc'[p].pc # "idle" => Progress(proc'[p], disk, disk)
  <1> DEFINE i == Idle("none")
             r == [i EXCEPT !.op = op, !.req = req, !.pc = pc, !.config = Tables(disk.config)]
             n == IF pc = "afterConfig" THEN AfterConfig(r) ELSE r
  <1>1. proc = [q \in Proc |-> proc[q]] /\ ConfigFile(disk.config)
    BY DEF FilesInv
  <1>2. proc'[p] = n
    BY <1>1 DEF Start
  <1>3. IsProc(i) /\ i.file = "info" /\ i.restoring = FALSE
    BY IdleFields
  <1> HIDE DEF i
  <1>4. /\ IsProc(r) /\ r.op = op /\ r.req = req /\ r.pc = pc /\ r.config = Tables(disk.config)
        /\ r.file = i.file /\ r.restoring = i.restoring
    BY <1>3 DEF IsProc
  <1> HIDE DEF r
  <1>5. /\ n.op = op /\ n.req = req /\ n.config = Tables(disk.config)
        /\ n.file = "info" /\ ~n.restoring
        /\ \/ op # "add" /\ n.pc \in {"newInfo", "info", "config", "lock"}
           \/ op = "add" /\ req.source = None /\ req.lock /\ n.pc = "backup"
           \/ op = "add" /\ req.source = None /\ ~req.lock /\ n.pc = "info"
           \/ op = "add" /\ req.source # None /\ n.pc = "config"
        /\ op = "init" => n.pc = "newInfo"
     \/ n.pc = "idle"
    <2>1. CASE pc # "afterConfig"
      <3>1. n = r
        BY <2>1
      <3> HIDE DEF n
      <3> QED BY <1>3, <1>4, <2>1, <3>1 DEF Commands
    <2>2. CASE pc = "afterConfig"
      <3>1. n = AfterConfig(r) /\ op = "add" /\ req.lock \in BOOLEAN /\ req.source = None
        BY <2>2
      <3> HIDE DEF n
      <3>2. CASE req.iri \in Std
        <4>1. n = Idle("ok")
          BY <1>4, <3>1, <3>2 DEF AfterConfig, Done
        <4>2. n.pc = "idle"
          BY <4>1, IdleFields
        <4> QED BY <4>2
      <3>3. CASE req.iri \notin Std /\ req.lock
        <4>1. n = At(r, "backup")
          BY <1>4, <3>1, <3>3 DEF AfterConfig
        <4>2. n.pc = "backup" /\ SameCommand(r, n) /\ SameOutput(r, n) /\ SameMemory(r, n)
          BY <1>4, <4>1, AtFields
        <4> QED BY <1>3, <1>4, <3>1, <3>3, <4>2 DEF SameCommand, SameOutput, SameMemory
      <3>4. CASE req.iri \notin Std /\ ~req.lock
        <4>1. n = At(r, "info")
          BY <1>4, <3>1, <3>4 DEF AfterConfig
        <4>2. n.pc = "info" /\ SameCommand(r, n) /\ SameOutput(r, n) /\ SameMemory(r, n)
          BY <1>4, <4>1, AtFields
        <4> QED BY <1>3, <1>4, <3>1, <3>4, <4>2 DEF SameCommand, SameOutput, SameMemory
      <3> QED BY <3>1, <3>2, <3>3, <3>4
    <2> QED BY <2>1, <2>2
  <1> HIDE DEF n
  <1>6. CASE n.pc # "idle"
    <2>1. MetaProgress(n, disk, disk)
      BY DEF MetaProgress
    <2>2. InfoProgress(n, disk, disk)
      BY <1>5, <1>6 DEF InfoProgress
    <2>3. ConfigProgress(n, disk, disk)
      BY <1>5, <1>6 DEF ConfigProgress, Storing
    <2>4. LockProgress(n, disk, disk)
      BY <1>5, <1>6 DEF LockProgress, Storing
    <2>5. Progress(n, disk, disk)
      BY <1>1, <1>5, <1>6, <2>1, <2>2, <2>3, <2>4 DEF Progress
    <2> QED BY <1>2, <2>5
  <1> QED BY <1>2, <1>6

LEMMA StartAlone ==
    ASSUME FilesInv, AloneInv, NEW p \in Proc, NEW op, NEW req, NEW pc, Start(p, op, req, pc),
           proc'[p].pc # "idle" => Progress(proc'[p], disk, disk)
    PROVE  AloneInv' /\ \A q \in Proc : ~(proc[q].pc # "idle" /\ proc'[q].pc = "idle")
  <1> DEFINE n == proc'[p]
  <1>1. /\ proc[p].pc = "idle" /\ disk' = disk
        /\ alone' = (IF Active = {} THEN {p} ELSE alone \ Active)
        /\ before' = (IF Active = {} THEN disk ELSE before)
    BY DEF Start
  <1>2. \A q \in Proc \ {p} : proc'[q] = proc[q]
    <2>1. proc = [q \in Proc |-> proc[q]]
      BY DEF FilesInv
    <2>2. \E r : proc' = [proc EXCEPT ![p] = r]
      BY DEF Start
    <2> QED BY <2>1, <2>2
  <1>3. alone \subseteq Proc
    BY DEF AloneInv
  <1>4. CASE Active = {}
    <2>1. Active' \subseteq {p}
      BY <1>2, <1>4 DEF Active
    <2>2. alone' = {p} /\ before' = disk
      BY <1>1, <1>4
    <2>3. p \in Active' => Progress(proc'[p], before', disk')
      BY <1>1, <2>2 DEF Active
    <2> QED BY <1>1, <1>2, <2>1, <2>2, <2>3 DEF AloneInv
  <1>5. CASE Active # {}
    <2>1. alone' = {}
      BY SMTT(40), <1>1, <1>5 DEF AloneInv
    <2> QED BY <1>1, <1>2, <2>1 DEF AloneInv
  <1> QED BY <1>4, <1>5

\* What a step of Next does to a command that no other overlapped.
LEMMA StartsAlone ==
    ASSUME FilesInv, AloneInv, NEW p \in Proc,
           \/ StartInit(p) \/ StartInclude(p) \/ StartExclude(p) \/ StartInfo(p)
           \/ StartAdd(p) \/ StartRemove(p) \/ StartLock(p)
    PROVE  AloneInv' /\ \A q \in Proc : ~(proc[q].pc # "idle" /\ proc'[q].pc = "idle")
  <1>1. CASE StartInit(p)
    <2>1. PICK req \in Requests.init : Start(p, "init", req, "newInfo")
      BY <1>1 DEF StartInit
    <2> QED BY <2>1, StartProgress, StartAlone
  <1>2. CASE StartInclude(p)
    <2>1. PICK req \in Requests.include : Start(p, "include", req, "info")
      BY <1>2 DEF StartInclude
    <2> QED BY <2>1, StartProgress, StartAlone DEF Commands
  <1>3. CASE StartExclude(p)
    <2>1. PICK req \in Requests.exclude : Start(p, "exclude", req, "info")
      BY <1>3 DEF StartExclude
    <2> QED BY <2>1, StartProgress, StartAlone DEF Commands
  <1>4. CASE StartInfo(p)
    <2>1. PICK op \in {"set", "clear", "addItem", "removeItem", "metamodel"} :
              \E req \in Requests[op] : Start(p, op, req, "info")
      BY <1>4 DEF StartInfo
    <2>2. PICK req \in Requests[op] : Start(p, op, req, "info")
      BY <2>1
    <2> QED BY <2>2, StartProgress, StartAlone DEF Commands
  <1>5. CASE StartAdd(p)
    <2>1. PICK req \in Requests.add :
              Start(p, "add", req, IF req.source = None THEN "afterConfig" ELSE "config")
      BY <1>5 DEF StartAdd
    <2>2. req.lock \in BOOLEAN
      BY RequestsAssumption
    <2> QED BY <2>1, <2>2, StartProgress, StartAlone
  <1>6. CASE StartRemove(p)
    <2>1. PICK req \in Requests.remove : Start(p, "remove", req, "config")
      BY <1>6 DEF StartRemove
    <2> QED BY <2>1, StartProgress, StartAlone DEF Commands
  <1>7. CASE StartLock(p)
    BY <1>7, StartProgress, StartAlone DEF StartLock
  <1> QED BY ZenonT(60), <1>1, <1>2, <1>3, <1>4, <1>5, <1>6, <1>7

LEMMA CrashAlone ==
    ASSUME FilesInv, AloneInv, NEW p \in Proc, Crash(p)
    PROVE  /\ AloneInv' /\ proc'[p].result = "crashed"
           /\ \A q \in Proc \ {p} : proc'[q] = proc[q]
  <1>1. p \in Active /\ Goto(p, Idle("crashed")) /\ UNCHANGED <<alone, before>>
    BY DEF Crash, Quiet
  <1>2. proc = [q \in Proc |-> proc[q]]
    BY DEF FilesInv
  <1>3. proc'[p] = Idle("crashed") /\ \A q \in Proc \ {p} : proc'[q] = proc[q]
    BY <1>1, <1>2 DEF Goto
  <1>4. Idle("crashed").pc = "idle" /\ Idle("crashed").result = "crashed"
    BY IdleFields
  <1>5. Active' \subseteq Active \ {p}
    BY <1>3, <1>4 DEF Active
  <1>6. ASSUME NEW q \in alone
        PROVE  Active' \subseteq {q} /\ q \notin Active'
    BY <1>1, <1>5 DEF AloneInv
  <1> QED BY <1>1, <1>3, <1>4, <1>6 DEF AloneInv

\* How a step can end a command that no other overlapped.
StepAlone ==
    \A p \in alone : proc[p].pc # "idle" /\ proc'[p].pc = "idle" =>
        proc'[p].result = "crashed" \/ Outcome(proc[p], proc'[p], before, disk')

LEMMA NextAlone ==
    ASSUME FilesInv, AloneInv, [Next]_vars
    PROVE  AloneInv' /\ StepAlone
  <1>1. ASSUME NEW p \in Proc,
               \/ StartInit(p) \/ StartInclude(p) \/ StartExclude(p) \/ StartInfo(p)
               \/ StartAdd(p) \/ StartRemove(p) \/ StartLock(p)
        PROVE  AloneInv' /\ StepAlone
    BY <1>1, StartsAlone DEF StepAlone, AloneInv
  <1>2. ASSUME NEW p \in Proc, Work(p) PROVE AloneInv' /\ StepAlone
    BY <1>2, WorkAlone, OnlyOne DEF StepAlone, AloneInv
  <1>3. ASSUME NEW p \in Proc, Crash(p) PROVE AloneInv' /\ StepAlone
    BY <1>3, CrashAlone DEF StepAlone, AloneInv
  <1>4. ASSUME UNCHANGED <<disk, proc, alone, before>> PROVE AloneInv' /\ StepAlone
    <2>1. AloneInv'
      BY <1>4 DEF AloneInv, Active
    <2> QED BY <1>4, <2>1 DEF StepAlone
  <1>5. ASSUME NEW path \in Path, EditSource(path) PROVE AloneInv' /\ StepAlone
    BY <1>4, <1>5 DEF EditSource
  <1>6. CASE UNCHANGED vars
    BY <1>4, <1>6 DEF vars
  <1> QED BY <1>1, <1>2, <1>3, <1>5, <1>6 DEF Next

LEMMA AloneInvariant == Spec => [](FilesInv /\ AloneInv) /\ [][StepAlone]_vars
  <1>1. Init => AloneInv
    <2> SUFFICES ASSUME Init PROVE AloneInv
      OBVIOUS
    <2>1. alone = {}
      BY DEF Init
    <2> QED BY <2>1 DEF AloneInv
  <1>2. FilesInv /\ AloneInv /\ [Next]_vars => AloneInv' /\ [StepAlone]_vars
    BY NextAlone
  <1> QED BY <1>1, <1>2, FilesInvariant, PTL DEF Spec

\* A command that fails while no other command runs leaves .project.json and
\* .meta.json as they were, however many commands have run, failed or crashed
\* before; but for the file whose writing failed, and for the .project.json of
\* an init, as the property tells them apart.
THEOREM FailureKeepsProjectHolds == Spec => FailureKeepsProject
  <1> DEFINE A == \A p \in alone :
                    /\ Ends(p, "failed") =>
                        /\ KeepsFiles(proc[p], before, disk', {"info", "meta"})
                        /\ disk'.info # before.info => before.meta # Absent
                    /\ Ends(p, "broken") =>
                        KeepsFiles(proc[p], before, disk', {"info", "meta"} \ {proc[p].file})
  <1>1. [StepAlone]_vars => [A]_vars
    <2>1. "failed" # "crashed" /\ "broken" # "crashed"
      OBVIOUS
    <2>2. \A r, b, e : KeepsProject(r, b, e) =>
            KeepsFiles(r, b, e, {"info", "meta"}) /\ (e.info # b.info => b.meta # Absent)
      BY DEF KeepsProject, KeepsFiles
    <2>3. StepAlone => A
      BY <2>1, <2>2 DEF StepAlone, Ends, Outcome
    <2> QED BY <2>3
  <1>2. FailureKeepsProject <=> [][A]_vars
    BY DEF FailureKeepsProject
  <1> HIDE DEF A
  <1> QED BY <1>1, <1>2, AloneInvariant, PTL

\* When a command that no other overlapped has written the lockfile, the
\* lockfile has the usages of .project.json with the sources that the
\* configuration file gives them.
THEOREM LockIsCurrentHolds == Spec => LockIsCurrent
  <1> DEFINE A == \A p \in Proc :
                    /\ Ends(p, "ok") /\ p \in alone /\ disk'.lock # before.lock
                    /\ \/ proc[p].op # "add" \/ proc[p].req.source = None
                       \/ OwnTable(Tables(before.config), proc[p].req.iri)
                    => LET usages == disk'.info.v[1].usage
                           lock == disk'.lock.v[1]
                       IN  /\ lock.usage = usages
                           /\ \A i \in 1..Len(usages) :
                                lock.source[i] = OverrideOf(Tables(disk'.config),
                                     usages[i].resource)
  <1>1. [StepAlone]_vars => [A]_vars
    <2>1. "ok" # "crashed"
      OBVIOUS
    <2>2. StepAlone => A
      BY <2>1 DEF StepAlone, Ends, Outcome, CurrentLock
    <2> QED BY <2>2
  <1>2. LockIsCurrent <=> [][A]_vars
    BY DEF LockIsCurrent
  <1> HIDE DEF A
  <1> QED BY <1>1, <1>2, AloneInvariant, PTL
=============================================================================
