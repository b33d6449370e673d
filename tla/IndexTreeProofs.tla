-------------------------- MODULE IndexTreeProofs ---------------------------
(***************************************************************************)
(* What holds of the index tree for every set of projects, versions,       *)
(* archives and processes, whatever interleaves and fails: BaseInv.        *)
(***************************************************************************)
EXTENDS IndexTreeInv, WellFoundedInduction, TLAPS

\* A leaf is Zenon's unless it names another prover.
USE Zenon

\* A non-empty set of natural numbers has a least element.
LEMMA LeastElement ==
    ASSUME NEW T, T \subseteq Nat, T # {}
    PROVE  \E m \in T : \A k \in T : m <= k
<1>1. IsWellFoundedOn(OpToRel(<, Nat), Nat)
  BY NatLessThanWellFounded
<1>2. PICK m \in T : \A y \in T : ~(<<y, m>> \in OpToRel(<, Nat))
  BY <1>1, WFMin
<1>3. \A y \in T : ~(y < m)
  BY <1>2 DEF OpToRel
<1> QED
  BY SMT, <1>3

\* A list of entries as a function on its positions.
LEMMA ListFacts ==
    ASSUME NEW s \in VersionsJson
    PROVE  /\ Len(s) \in Nat
           /\ DOMAIN s = 1..Len(s)
           /\ \A i \in 1..Len(s) : s[i] \in VersionEntry
           /\ \A i \in 1..Len(s) : s[i].version \in Nat
<1>1. Len(s) \in Nat /\ DOMAIN s = 1..Len(s)
  BY SMT DEF VersionsJson
<1>2. \A i \in 1..Len(s) : s[i] \in VersionEntry
  BY SMT DEF VersionsJson
<1>3. \A e \in VersionEntry : e.version \in Versions
  BY DEF VersionEntry
<1> QED
  BY <1>1, <1>2, <1>3, VersionsAssumption

\* Sorting a list without repeated versions gives a strictly descending list
\* of the same entries.
LEMMA SortedList ==
    ASSUME NEW s \in VersionsJson, StrictlyDescending(s)
    PROVE  /\ SortedDescending(s) \in VersionsJson
           /\ StrictlyDescending(SortedDescending(s))
           /\ \A i \in DOMAIN SortedDescending(s) :
                 \E k \in DOMAIN s : SortedDescending(s)[i] = s[k]
           /\ \A k \in DOMAIN s :
                 \E i \in DOMAIN SortedDescending(s) : SortedDescending(s)[i] = s[k]
<1> DEFINE Inj == {g \in [DOMAIN s -> DOMAIN s] :
                      \A i, j \in DOMAIN s : g[i] = g[j] => i = j}
           Arranged == {[i \in DOMAIN s |-> s[f[i]]] : f \in Inj}
           t == SortedDescending(s)
<1>1. /\ DOMAIN s = 1..Len(s) /\ Len(s) \in Nat
      /\ \A i \in 1..Len(s) : s[i] \in VersionEntry
      /\ \A i \in 1..Len(s) : s[i].version \in Nat
  BY ListFacts
<1>2. s \in Arranged /\ Descending(s)
  <2> DEFINE id == [i \in DOMAIN s |-> i]
  <2>1. id \in Inj
    OBVIOUS
  <2>2. s = [i \in DOMAIN s |-> s[id[i]]]
    BY SMT, <1>1 DEF VersionsJson
  <2>3. Descending(s)
    BY SMT, <1>1 DEF StrictlyDescending, Descending
  <2>4. s \in Arranged
    <3> HIDE DEF Inj, id
    <3> QED
      BY <2>1, <2>2
  <2> QED
    BY <2>3, <2>4
<1>3. t \in Arranged /\ Descending(t)
  BY <1>2 DEF SortedDescending
<1>4. PICK f \in Inj : t = [i \in DOMAIN s |-> s[f[i]]]
  BY <1>3
<1>5. t \in VersionsJson
  BY SMTT(40), <1>1, <1>4 DEF VersionsJson
<1>6. StrictlyDescending(t)
  <2> SUFFICES ASSUME NEW i \in DOMAIN t, NEW j \in DOMAIN t, i < j
               PROVE  t[i].version > t[j].version
    BY DEF StrictlyDescending
  <2>1. t[i].version >= t[j].version
    BY <1>3 DEF Descending
  <2>2. f[i] # f[j] /\ f[i] \in DOMAIN s /\ f[j] \in DOMAIN s
    BY SMT, <1>1, <1>4
  <2>3. f[i] < f[j] \/ f[j] < f[i]
    BY SMT, <1>1, <2>2
  <2>4. s[f[i]].version > s[f[j]].version \/ s[f[j]].version > s[f[i]].version
    BY <2>2, <2>3 DEF StrictlyDescending
  <2>5. t[i] = s[f[i]] /\ t[j] = s[f[j]]
    BY <1>4
  <2> QED
    BY SMTT(40), <1>1, <2>1, <2>2, <2>4, <2>5
<1>7. \A i \in DOMAIN t : \E k \in DOMAIN s : t[i] = s[k]
  BY <1>4
<1>8. \A k \in DOMAIN s : \E i \in DOMAIN t : t[i] = s[k]
  <2> DEFINE n == Len(s)
             low == {i \in 1..n : f[i] < i}
             high == {k \in 0..(n - 1) : f[n - k] > n - k}
  <2>1. /\ n \in Nat /\ \A i \in 1..n : f[i] \in 1..n
        /\ \A i \in 1..n : t[i] = s[f[i]]
    BY <1>1, <1>4
  <2>2. \A i, j \in 1..n : i < j => f[i] < f[j]
    <3> SUFFICES ASSUME NEW i \in 1..n, NEW j \in 1..n, i < j PROVE f[i] < f[j]
      OBVIOUS
    <3>1. s[f[i]].version > s[f[j]].version
      <4>1. i \in DOMAIN t /\ j \in DOMAIN t
        BY <1>1, <1>4
      <4>2. t[i].version > t[j].version
        BY <1>6, <4>1 DEF StrictlyDescending
      <4> QED
        BY <2>1, <4>2
    <3>2. /\ f[i] \in DOMAIN s /\ f[j] \in DOMAIN s
          /\ s[f[i]].version \in Nat /\ s[f[j]].version \in Nat
      BY <1>1, <2>1
    <3>3. f[j] < f[i] => s[f[j]].version > s[f[i]].version
      BY <3>2 DEF StrictlyDescending
    <3>4. ~(s[f[j]].version > s[f[i]].version) /\ s[f[i]].version # s[f[j]].version
      BY SMTT(40), <3>1, <3>2
    <3>5. ~(f[j] < f[i]) /\ f[i] # f[j]
      BY <3>3, <3>4
    <3> QED
      BY SMTT(40), <2>1, <3>5
  <2> HIDE DEF n
  <2>3. low = {}
    <3> SUFFICES ASSUME low # {} PROVE FALSE
      OBVIOUS
    <3>1. low \subseteq Nat
      BY SMT, <2>1
    <3>2. PICK m \in low : \A k \in low : m <= k
      <4> HIDE DEF low
      <4> QED
        BY <3>1, LeastElement
    <3>3. f[m] \in low
      BY <2>1, <2>2
    <3> QED
      BY SMT, <2>1, <3>2, <3>3
  <2>4. high = {}
    <3> SUFFICES ASSUME high # {} PROVE FALSE
      OBVIOUS
    <3>1. high \subseteq Nat
      BY SMT, <2>1
    <3>2. PICK m \in high : \A k \in high : m <= k
      <4> HIDE DEF high
      <4> QED
        BY <3>1, LeastElement
    <3>3. /\ n - m \in 1..n /\ f[n - m] \in 1..n /\ f[n - m] > n - m
          /\ n - f[n - m] \in 0..(n - 1) /\ n - (n - f[n - m]) = f[n - m]
      BY SMT, <2>1
    <3>4. f[f[n - m]] > f[n - m]
      BY <2>1, <2>2, <3>3
    <3>5. n - f[n - m] \in high
      BY <3>3, <3>4
    <3> QED
      BY SMT, <2>1, <3>2, <3>3, <3>5
  <2>5. \A k \in 1..n : f[k] = k
    <3> SUFFICES ASSUME NEW k \in 1..n PROVE f[k] = k
      OBVIOUS
    <3>1. ~(f[k] < k)
      BY <2>3
    <3>2. n - k \in 0..(n - 1) /\ n - (n - k) = k
      BY SMT, <2>1
    <3>3. ~(f[k] > k)
      BY ZenonT(60), <2>4, <3>2
    <3> QED
      BY SMT, <2>1, <3>1, <3>3
  <2>6. \A k \in 1..n : k \in DOMAIN t /\ t[k] = s[k]
    BY <1>1, <1>4, <2>1, <2>5 DEF n
  <2> QED
    BY <1>1, <2>6 DEF n
<1> QED
  BY <1>5, <1>6, <1>7, <1>8

\* Inserting an unlisted version where binary search says keeps the list
\* strictly descending, and the new list holds the entries of the old one,
\* the new one and nothing else.
LEMMA InsertedList ==
    ASSUME NEW s \in VersionsJson, StrictlyDescending(s),
           NEW e \in VersionEntry, ~Listed(s, e.version)
    PROVE  LET t == InsertAt(s, InsertPosition(s, e.version), e) IN
           /\ t \in VersionsJson
           /\ StrictlyDescending(t)
           /\ \A i \in DOMAIN t : t[i] = e \/ \E k \in DOMAIN s : t[i] = s[k]
           /\ \E i \in DOMAIN t : t[i] = e
           /\ \A k \in DOMAIN s : \E i \in DOMAIN t : t[i] = s[k]
<1> DEFINE v == e.version
           n == Len(s)
           Fits(k) == /\ \A i \in 1..(k - 1) : s[i].version > v
                      /\ \A i \in k..n : s[i].version < v
           pos == InsertPosition(s, v)
           t == InsertAt(s, pos, e)
<1>1. /\ DOMAIN s = 1..n /\ n \in Nat /\ v \in Nat
      /\ \A i \in 1..n : s[i] \in VersionEntry
      /\ \A i \in 1..n : s[i].version \in Nat /\ s[i].version # v
  <2>1. v \in Nat
    BY VersionsAssumption DEF VersionEntry
  <2> QED
    BY <2>1, ListFacts DEF Listed
<1>2. \E k \in 1..(n + 1) : Fits(k)
  <2> DEFINE T == {i \in 1..n : s[i].version < v}
  <2>1. CASE T = {}
    <3>1. Fits(n + 1)
      BY SMTT(40), <1>1, <2>1
    <3> QED
      BY SMTT(40), <1>1, <3>1
  <2>2. CASE T # {}
    <3>1. PICK m \in T : \A k \in T : m <= k
      <4>1. T \subseteq Nat
        BY SMT, <1>1
      <4> HIDE DEF T
      <4> QED
        BY <2>2, <4>1, LeastElement
    <3>2. \A i \in 1..(m - 1) : s[i].version > v
      BY SMT, <1>1, <3>1
    <3>3. \A i \in m..n : s[i].version < v
      <4> SUFFICES ASSUME NEW i \in m..n PROVE s[i].version < v
        OBVIOUS
      <4>1. i = m \/ s[m].version > s[i].version
        BY SMTT(40), <1>1, <3>1 DEF StrictlyDescending
      <4> QED
        BY SMTT(40), <1>1, <3>1, <4>1
    <3> QED
      BY SMTT(40), <1>1, <3>1, <3>2, <3>3
  <2> QED
    BY <2>1, <2>2
<1>3. pos \in 1..(n + 1) /\ Fits(pos)
  BY <1>2 DEF InsertPosition
<1> HIDE DEF pos
<1>4. t = [i \in 1..(n + 1) |-> IF i < pos THEN s[i] ELSE IF i = pos THEN e ELSE s[i - 1]]
  BY DEF InsertAt
<1> HIDE DEF t
<1>5. \A i \in 1..(n + 1) : t[i] = e \/ \E k \in DOMAIN s : t[i] = s[k]
  <2> SUFFICES ASSUME NEW i \in 1..(n + 1)
               PROVE  t[i] = e \/ \E k \in DOMAIN s : t[i] = s[k]
    OBVIOUS
  <2>1. CASE i < pos
    <3>1. i \in 1..n /\ t[i] = s[i]
      BY SMT, <1>1, <1>3, <1>4, <2>1
    <3> QED
      BY <1>1, <3>1
  <2>2. CASE i = pos
    BY SMT, <1>4, <2>2
  <2>3. CASE pos < i
    <3>1. i - 1 \in 1..n /\ t[i] = s[i - 1]
      BY SMT, <1>1, <1>3, <1>4, <2>3
    <3> QED
      BY <1>1, <3>1
  <2> QED
    BY SMT, <1>1, <1>3, <2>1, <2>2, <2>3
<1>6. t \in VersionsJson /\ DOMAIN t = 1..(n + 1)
  <2>1. \A i \in 1..(n + 1) : t[i] \in VersionEntry
    BY <1>1, <1>5
  <2> QED
    BY SMT, <1>1, <1>4, <2>1 DEF VersionsJson
<1>7. StrictlyDescending(t)
  <2> SUFFICES ASSUME NEW i \in 1..(n + 1), NEW j \in 1..(n + 1), i < j
               PROVE  t[i].version > t[j].version
    BY <1>6 DEF StrictlyDescending
  <2>1. CASE j < pos
    BY SMTT(40), <1>1, <1>3, <1>4, <2>1 DEF StrictlyDescending
  <2>2. CASE j = pos
    BY SMTT(40), <1>1, <1>3, <1>4, <2>2
  <2>3. CASE i < pos /\ pos < j
    BY SMTT(40), <1>1, <1>3, <1>4, <2>3 DEF StrictlyDescending
  <2>4. CASE i = pos
    BY SMTT(40), <1>1, <1>3, <1>4, <2>4
  <2>5. CASE pos < i
    <3>1. i - 1 \in 1..n /\ j - 1 \in 1..n /\ i - 1 < j - 1
      BY SMT, <1>1, <1>3, <2>5
    <3>2. t[i] = s[i - 1] /\ t[j] = s[j - 1]
      BY SMT, <1>1, <1>3, <1>4, <2>5
    <3> QED
      BY <1>1, <3>1, <3>2 DEF StrictlyDescending
  <2> QED
    BY SMTT(40), <1>1, <1>3, <2>1, <2>2, <2>3, <2>4, <2>5
<1>8. t[pos] = e
  BY SMT, <1>3, <1>4
<1>9. \A k \in DOMAIN s : \E i \in DOMAIN t : t[i] = s[k]
  <2> SUFFICES ASSUME NEW k \in 1..n PROVE \E i \in 1..(n + 1) : t[i] = s[k]
    BY <1>1, <1>6
  <2>1. CASE k < pos
    BY SMT, <1>1, <1>3, <1>4, <2>1
  <2>2. CASE pos <= k
    <3>1. k + 1 \in 1..(n + 1) /\ t[k + 1] = s[k]
      BY SMT, <1>1, <1>3, <1>4, <2>2
    <3> QED
      BY <3>1
  <2> QED
    BY SMT, <1>1, <1>3, <2>1, <2>2
<1> QED
  BY <1>3, <1>5, <1>6, <1>7, <1>8, <1>9 DEF t, pos

\* Changing the status of an entry changes neither the versions nor their order.
LEMMA RestatusedList ==
    ASSUME NEW s \in VersionsJson, NEW i \in DOMAIN s, NEW st \in VersionStatus
    PROVE  LET t == SetStatus(s, i, st) IN
           /\ t \in VersionsJson /\ DOMAIN t = DOMAIN s
           /\ \A k \in DOMAIN s : /\ t[k].version = s[k].version
                                  /\ t[k].build = s[k].build
                                  /\ k # i => t[k] = s[k]
           /\ t[i].status = st
           /\ StrictlyDescending(s) => StrictlyDescending(t)
<1>1. s[i] \in VersionEntry
  BY SMT DEF VersionsJson
<1>2. [s[i] EXCEPT !.status = st] \in VersionEntry
  BY <1>1 DEF VersionEntry
<1>3. SetStatus(s, i, st) \in VersionsJson /\ DOMAIN SetStatus(s, i, st) = DOMAIN s
  BY SMT, <1>2 DEF VersionsJson, SetStatus
<1>4. \A k \in DOMAIN s : s[k] \in VersionEntry
  BY SMT DEF VersionsJson
<1>5. \A k \in DOMAIN s : /\ SetStatus(s, i, st)[k].version = s[k].version
                          /\ SetStatus(s, i, st)[k].build = s[k].build
                          /\ k # i => SetStatus(s, i, st)[k] = s[k]
  BY <1>4 DEF SetStatus, VersionEntry
<1>6. SetStatus(s, i, st)[i].status = st
  BY <1>1 DEF SetStatus, VersionEntry
<1> QED
  BY <1>3, <1>5, <1>6 DEF StrictlyDescending

-----------------------------------------------------------------------------
(* Control: what Return and Continue preserve *)

LEMMA NoJobType == NoJob \in Jobs /\ StrictlyDescending(NoJob.vers)
<1>1. /\ (CHOOSE p \in Projects : TRUE) \in Projects
      /\ (CHOOSE v \in Versions : TRUE) \in Versions
      /\ (CHOOSE b \in Builds : TRUE) \in Builds
  BY ProjectsAssumption, VersionsAssumption, BuildsAssumption
<1>2. NoProjects \in IndexJson
  BY DEF NoProjects, IndexJson
<1>3. <<>> \in VersionsJson
  BY SMT DEF VersionsJson
<1>4. NoJob \in Jobs
  BY SMT, <1>1, <1>2, <1>3 DEF NoJob, Jobs, Commands
<1>5. StrictlyDescending(<<>>)
  BY SMT DEF StrictlyDescending
<1> QED
  BY <1>4, <1>5 DEF NoJob

LEMMA OpenedType ==
    ASSUME DiskInv, NEW p \in Projects
    PROVE  /\ OpenedVersions(p) \in [kind: FileKind, val: VersionsJson]
           /\ StrictlyDescending(OpenedVersions(p).val)
<1>1. Blank("empty", <<>>) \in [kind: FileKind, val: VersionsJson]
  BY SMT DEF Blank, FileKind, VersionsJson
<1>2. StrictlyDescending(Blank("empty", <<>>).val)
  BY SMT DEF Blank, StrictlyDescending
<1> QED
  BY <1>1, <1>2 DEF OpenedVersions, DiskInv

-----------------------------------------------------------------------------
(* BaseInv is inductive, with concurrent commands and with failures *)

LEMMA BaseInit == Init => BaseInv
<1> SUFFICES ASSUME Init PROVE BaseInv
  OBVIOUS
<1>1. NoProjects \in IndexJson /\ <<>> \in VersionsJson /\ StrictlyDescending(<<>>)
  BY SMT DEF NoProjects, IndexJson, VersionsJson, StrictlyDescending
<1>2. DiskInv
  BY <1>1 DEF Init, NothingAdded, DiskInv, Blank, FileKind, FileContents
<1>3. ControlInv
  BY NoJobType DEF Init, NothingAdded, ControlInv, Labels, Outcomes
<1> QED
  BY <1>2, <1>3 DEF BaseInv

\* The types of the variables of a running command.
LEMMA JobFields ==
    ASSUME ControlInv, NEW self \in Procs
    PROVE  LET j == job[self] IN
           /\ j \in Jobs /\ j.prj \in Projects /\ j.ver \in Versions /\ j.build \in Builds
           /\ j.idx \in IndexJson /\ j.vers \in VersionsJson /\ j.next \in Nat \ {0}
           /\ j.op \in Commands /\ StrictlyDescending(j.vers)
BY DEF ControlInv, Jobs

\* The list `add' is about to write.
LEMMA AddedList ==
    ASSUME BaseInv, NEW self \in Procs,
           ~Listed(SortedDescending(OpenedVersions(job[self].prj).val), job[self].ver)
    PROVE  LET j == job[self]
               s == OpenedVersions(j.prj).val
               u == SortedDescending(s)
               e == [version |-> j.ver, status |-> "available", build |-> j.build]
               t == InsertAt(u, InsertPosition(u, j.ver), e)
           IN  /\ t \in VersionsJson /\ StrictlyDescending(t)
               /\ \A i \in DOMAIN t :
                     t[i] = e \/ (t[i].version # j.ver /\ \E k \in DOMAIN s : t[i] = s[k])
               /\ \E i \in DOMAIN t : t[i] = e
               /\ \A k \in DOMAIN s : \E i \in DOMAIN t : t[i] = s[k]
<1> DEFINE j == job[self]
           s == OpenedVersions(j.prj).val
           u == SortedDescending(s)
           e == [version |-> j.ver, status |-> "available", build |-> j.build]
           t == InsertAt(u, InsertPosition(u, e.version), e)
<1>1. j.prj \in Projects /\ j.ver \in Versions /\ j.build \in Builds
  BY JobFields DEF BaseInv
<1>2. s \in VersionsJson /\ StrictlyDescending(s)
  BY <1>1, OpenedType DEF BaseInv
<1>3. e \in VersionEntry /\ e.version = j.ver
  BY <1>1 DEF VersionEntry, VersionStatus
<1> HIDE DEF s, e, j
<1>4. /\ u \in VersionsJson /\ StrictlyDescending(u)
      /\ \A i \in DOMAIN u : \E k \in DOMAIN s : u[i] = s[k]
      /\ \A k \in DOMAIN s : \E i \in DOMAIN u : u[i] = s[k]
  BY <1>2, SortedList
<1>5. ~Listed(u, e.version)
  BY <1>3 DEF s, j
<1> HIDE DEF u
<1>6. /\ t \in VersionsJson /\ StrictlyDescending(t)
      /\ \A i \in DOMAIN t : t[i] = e \/ \E k \in DOMAIN u : t[i] = u[k]
      /\ \E i \in DOMAIN t : t[i] = e
      /\ \A k \in DOMAIN u : \E i \in DOMAIN t : t[i] = u[k]
  BY SMTT(40), <1>3, <1>4, <1>5, InsertedList
<1> HIDE DEF t
<1>7. \A i \in DOMAIN t :
         t[i] = e \/ (t[i].version # j.ver /\ \E k \in DOMAIN s : t[i] = s[k])
  <2> SUFFICES ASSUME NEW i \in DOMAIN t, t[i] # e
               PROVE  t[i].version # j.ver /\ \E k \in DOMAIN s : t[i] = s[k]
    OBVIOUS
  <2>1. PICK k \in DOMAIN u : t[i] = u[k]
    BY <1>6
  <2>2. u[k].version # j.ver
    BY <1>3, <1>5 DEF Listed
  <2> QED
    BY SMTT(40), <1>4, <2>1, <2>2
<1>8. \A k \in DOMAIN s : \E i \in DOMAIN t : t[i] = s[k]
  BY SMT, <1>4, <1>6
<1> QED
  BY ZenonT(60), <1>3, <1>6, <1>7, <1>8 DEF s, u, e, t, j

LEMMA BaseNext ==
    ASSUME BaseInv, [Next]_vars
    PROVE  BaseInv'
<1>ReturnControl.
      ASSUME ControlInv, NEW self \in Procs, NEW result \in Outcomes,
             Return(self, result)
      PROVE  ControlInv'
  <2> USE <1>ReturnControl
  <2> USE DEF ControlInv, Return, Goto
  <2>1. pc' \in [Procs -> Labels]
    BY DEF Labels
  <2>2. job' \in [Procs -> Jobs]
    BY NoJobType
  <2>3. outcome' \in [Procs -> Outcomes]
    OBVIOUS
  <2>4. \A x \in Procs : StrictlyDescending(job'[x].vers)
    BY NoJobType
  <2> QED
    BY <2>1, <2>2, <2>3, <2>4
<1>ContinueControl.
      ASSUME ControlInv, NEW self \in Procs, NEW label \in Labels,
             NEW locals \in Jobs, StrictlyDescending(locals.vers),
             Continue(self, label, locals)
      PROVE  ControlInv'
  <2> USE <1>ContinueControl
  <2> USE DEF ControlInv, Continue, Goto
  <2>1. pc' \in [Procs -> Labels]
    OBVIOUS
  <2>2. job' \in [Procs -> Jobs]
    OBVIOUS
  <2>3. outcome' \in [Procs -> Outcomes]
    OBVIOUS
  <2>4. \A x \in Procs : StrictlyDescending(job'[x].vers)
    OBVIOUS
  <2> QED
    BY <2>1, <2>2, <2>3, <2>4
<1>BeginControl.
      ASSUME BaseInv, NEW self \in Procs,
             NEW locals \in Jobs, locals.vers = NoJob.vers, Begin(self, locals)
      PROVE  BaseInv'
  <2> USE <1>BeginControl
  <2>1. Continue(self, "openIndex", locals) /\ UNCHANGED disk
    BY DEF Begin
  <2>2. ControlInv'
    BY <2>1, NoJobType, <1>ContinueControl DEF BaseInv, Labels
  <2>3. DiskInv'
    BY <2>1 DEF BaseInv, DiskInv, disk
  <2> QED
    BY <2>2, <2>3 DEF BaseInv
<1>VersionsDisk.
      ASSUME DiskInv, NEW p \in Projects,
             NEW f \in [kind: FileKind, val: VersionsJson], StrictlyDescending(f.val),
             versions' = [versions EXCEPT ![p] = f], UNCHANGED <<index, dirs, files>>
      PROVE  DiskInv'
  BY <1>VersionsDisk DEF DiskInv
<1>BaseStart.
      ASSUME BaseInv, NEW self \in Procs, Start(self)
      PROVE  BaseInv'
  <2> USE <1>BaseStart
  <2>1. CASE BeginInit(self)
    <3>1. CASE index.kind # "absent"
      <4>1. ControlInv'
        BY <2>1, <3>1, <1>ReturnControl DEF BeginInit, BaseInv, Outcomes
      <4> QED
        BY <2>1, <3>1, <4>1 DEF BeginInit, BaseInv, DiskInv
    <3>2. CASE index.kind = "absent"
      <4>1. ControlInv'
        BY <2>1, <3>2, NoJobType, <1>ContinueControl DEF BeginInit, BaseInv, Labels
      <4>2. NoProjects \in IndexJson
        BY DEF NoProjects, IndexJson
      <4>3. index' \in [kind: FileKind, val: IndexJson]
        BY SMT, <2>1, <3>2, <4>2 DEF BeginInit, Blank, FileKind
      <4> QED
        BY <2>1, <4>1, <4>3 DEF BeginInit, BaseInv, DiskInv
    <3> QED
      BY <3>1, <3>2
  <2>2. CASE \E p \in Projects, v \in Versions, b \in Builds : BeginAdd(self, p, v, b)
    <3>1. PICK p \in Projects, v \in Versions, b \in Builds : BeginAdd(self, p, v, b)
      BY <2>2
    <3> DEFINE locals == [NoJob EXCEPT !.op = "add", !.prj = p, !.ver = v, !.build = b]
    <3>2. locals \in Jobs /\ locals.vers = NoJob.vers
      BY NoJobType DEF Jobs, Commands
    <3> QED
      BY <3>1, <3>2, <1>BeginControl DEF BeginAdd
  <2>3. CASE \E p \in Projects, v \in Versions : BeginYank(self, p, v)
    <3>1. PICK p \in Projects, v \in Versions : BeginYank(self, p, v)
      BY <2>3
    <3> DEFINE locals == [NoJob EXCEPT !.op = "yank", !.prj = p, !.ver = v]
    <3>2. locals \in Jobs /\ locals.vers = NoJob.vers
      BY NoJobType DEF Jobs, Commands
    <3> QED
      BY <3>1, <3>2, <1>BeginControl DEF BeginYank
  <2>4. CASE \E p \in Projects, v \in Versions : BeginRemoveVersion(self, p, v)
    <3>1. PICK p \in Projects, v \in Versions : BeginRemoveVersion(self, p, v)
      BY <2>4
    <3> DEFINE locals == [NoJob EXCEPT !.op = "removeVersion", !.prj = p, !.ver = v]
    <3>2. locals \in Jobs /\ locals.vers = NoJob.vers
      BY NoJobType DEF Jobs, Commands
    <3> QED
      BY <3>1, <3>2, <1>BeginControl DEF BeginRemoveVersion
  <2>5. CASE \E p \in Projects : BeginRemoveProject(self, p)
    <3>1. PICK p \in Projects : BeginRemoveProject(self, p)
      BY <2>5
    <3> DEFINE locals == [NoJob EXCEPT !.op = "removeProject", !.prj = p]
    <3>2. locals \in Jobs /\ locals.vers = NoJob.vers
      BY NoJobType DEF Jobs, Commands
    <3> QED
      BY <3>1, <3>2, <1>BeginControl DEF BeginRemoveProject
  <2> QED
    BY <2>1, <2>2, <2>3, <2>4, <2>5 DEF Start, StartPublish, StartRemove
<1>BaseOpenIndex.
      ASSUME BaseInv, NEW self \in Procs,
             AddOpenIndex(self) \/ YankOpenIndex(self) \/ RemoveOpenIndex(self)
      PROVE  BaseInv'
  <2> USE <1>BaseOpenIndex
  <2> DEFINE j == job[self]
  <2>1. UNCHANGED disk
    BY DEF AddOpenIndex, YankOpenIndex, RemoveOpenIndex
  <2>2. DiskInv'
    BY <2>1 DEF BaseInv, DiskInv, disk
  <2>3. j \in Jobs /\ j.prj \in Projects /\ StrictlyDescending(j.vers)
    BY JobFields DEF BaseInv
  <2>4. index.val \in IndexJson
    BY DEF BaseInv, DiskInv
  <2>5. CASE Return(self, "error")
    BY <2>2, <2>5, <1>ReturnControl DEF BaseInv, Outcomes
  <2>6. CASE Continue(self, "openVersions", j)
    BY <2>2, <2>3, <2>6, <1>ContinueControl DEF BaseInv, Labels
  <2>7. CASE Continue(self, "openVersions",
                  [j EXCEPT !.idx = [index.val EXCEPT ![j.prj] = "available"],
                            !.isNew = (index.val[j.prj] = "unlisted")])
    <3> DEFINE idx == [index.val EXCEPT ![j.prj] = "available"]
               new == (index.val[j.prj] = "unlisted")
               locals == [j EXCEPT !.idx = idx, !.isNew = new]
    <3>1. idx \in IndexJson /\ new \in BOOLEAN
      BY <2>3, <2>4 DEF IndexJson, ProjectStatus
    <3> HIDE DEF idx, new
    <3>2. locals \in Jobs /\ locals.vers = j.vers
      BY <2>3, <3>1 DEF Jobs
    <3>3. Continue(self, "openVersions", locals)
      BY <2>7 DEF idx, new
    <3> HIDE DEF locals
    <3> QED
      BY <2>2, <2>3, <3>2, <3>3, <1>ContinueControl DEF BaseInv, Labels
  <2>8. CASE Continue(self, "openVersions",
                  [j EXCEPT !.idx = [index.val EXCEPT ![j.prj] = "removed"]])
    <3> DEFINE idx == [index.val EXCEPT ![j.prj] = "removed"]
               locals == [j EXCEPT !.idx = idx]
    <3>1. idx \in IndexJson
      BY <2>3, <2>4 DEF IndexJson, ProjectStatus
    <3> HIDE DEF idx
    <3>2. locals \in Jobs /\ locals.vers = j.vers
      BY <2>3, <3>1 DEF Jobs
    <3>3. Continue(self, "openVersions", locals)
      BY <2>8 DEF idx
    <3> HIDE DEF locals
    <3> QED
      BY <2>2, <2>3, <3>2, <3>3, <1>ContinueControl DEF BaseInv, Labels
  <2> QED
    BY <2>5, <2>6, <2>7, <2>8 DEF AddOpenIndex, YankOpenIndex, RemoveOpenIndex
<1>BaseOpenVersions.
      ASSUME BaseInv, NEW self \in Procs,
             AddOpenVersions(self) \/ YankOpenVersions(self) \/ RemoveOpenVersions(self)
      PROVE  BaseInv'
  <2> USE <1>BaseOpenVersions
  <2> DEFINE j == job[self]
             f == OpenedVersions(j.prj)
  <2>1. j \in Jobs /\ j.prj \in Projects /\ StrictlyDescending(j.vers)
    BY JobFields DEF BaseInv
  <2>2. f \in [kind: FileKind, val: VersionsJson] /\ StrictlyDescending(f.val)
    BY <2>1, OpenedType DEF BaseInv
  <2>3. DiskInv'
    <3>1. versions' = [versions EXCEPT ![j.prj] = f] /\ UNCHANGED <<index, dirs, files>>
      BY DEF AddOpenVersions, YankOpenVersions, RemoveOpenVersions
    <3> HIDE DEF f
    <3> QED
      BY <2>1, <2>2, <3>1, <1>VersionsDisk DEF BaseInv
  <2>4. ASSUME NEW r \in Outcomes, Return(self, r) PROVE BaseInv'
    BY <2>3, <2>4, <1>ReturnControl DEF BaseInv
  <2>5. ASSUME NEW label \in Labels, NEW t \in VersionsJson, StrictlyDescending(t),
               Continue(self, label, [j EXCEPT !.vers = t])
        PROVE  BaseInv'
    <3> DEFINE locals == [j EXCEPT !.vers = t]
    <3>1. locals \in Jobs /\ locals.vers = t
      BY <2>1 DEF Jobs
    <3>2. Continue(self, label, locals)
      BY <2>5
    <3> HIDE DEF locals
    <3> QED
      BY <2>3, <2>5, <3>1, <3>2, <1>ContinueControl DEF BaseInv
  <2>6. CASE AddOpenVersions(self)
    <3>1. CASE Return(self, "error")
      BY <2>4, <3>1 DEF Outcomes
    <3>2. CASE ~Return(self, "error")
      <4> DEFINE s == SortedDescending(f.val)
                 e == [version |-> j.ver, status |-> "available", build |-> j.build]
                 t == InsertAt(s, InsertPosition(s, j.ver), e)
      <4>1. ~Listed(s, j.ver) /\ Continue(self, "mkdir", [j EXCEPT !.vers = t])
        BY <2>6, <3>2 DEF AddOpenVersions
      <4>2. t \in VersionsJson /\ StrictlyDescending(t)
        BY <4>1, AddedList
      <4> HIDE DEF t
      <4> QED
        BY <2>5, <4>1, <4>2 DEF Labels
    <3> QED
      BY <3>1, <3>2
  <2>7. CASE YankOpenVersions(self)
    <3>1. CASE Return(self, "error") \/ Return(self, "ok")
      BY <2>4, <3>1 DEF Outcomes
    <3>2. CASE ~(Return(self, "error") \/ Return(self, "ok"))
      <4>1. PICK i \in DOMAIN f.val :
               Continue(self, "truncVersions",
                  [j EXCEPT !.vers = SetStatus(f.val, i, "yanked")])
        BY <2>7, <3>2 DEF YankOpenVersions
      <4> DEFINE t == SetStatus(f.val, i, "yanked")
      <4>2. f.val \in VersionsJson
        BY <2>2
      <4>3. t \in VersionsJson /\ StrictlyDescending(t)
        <5> HIDE DEF f
        <5> QED
          BY <2>2, <4>2, RestatusedList DEF VersionStatus
      <4> HIDE DEF t
      <4> QED
        BY <2>5, <4>1, <4>3 DEF Labels, t
    <3> QED
      BY <3>1, <3>2
  <2>8. CASE RemoveOpenVersions(self)
    <3>1. CASE Return(self, "error")
      BY <2>4, <3>1 DEF Outcomes
    <3>2. CASE Continue(self, "scan", [j EXCEPT !.vers = f.val])
      <4>1. f.val \in VersionsJson
        BY <2>2
      <4> HIDE DEF f
      <4> QED
        BY <2>2, <2>5, <3>2, <4>1 DEF Labels
    <3> QED
      BY <2>8, <3>1, <3>2 DEF RemoveOpenVersions
  <2> QED
    BY <2>6, <2>7, <2>8
<1>BaseAddFiles.
      ASSUME BaseInv, NEW self \in Procs,
             \/ AddMkdir(self) \/ AddWriteFile(self)
             \/ AddWriteFileFails(self) \/ AddKilledInWriteFile(self)
      PROVE  BaseInv'
  <2> USE <1>BaseAddFiles
  <2> DEFINE j == job[self]
  <2>1. /\ j \in Jobs /\ j.prj \in Projects /\ j.ver \in Versions /\ j.build \in Builds
        /\ StrictlyDescending(j.vers)
    BY JobFields DEF BaseInv
  <2>2. UNCHANGED <<index, versions>>
    BY DEF AddMkdir, AddWriteFile, AddWriteFileFails, AddKilledInWriteFile
  <2>3. ASSUME NEW f \in FileNames, NEW x \in FileContents
        PROVE  [files EXCEPT ![<<j.prj, j.ver, f>>] = x]
                  \in [Projects \X Versions \X FileNames -> FileContents]
    BY <2>1 DEF BaseInv, DiskInv
  <2>4. files' \in [Projects \X Versions \X FileNames -> FileContents]
    <3>1. CASE UNCHANGED files
      BY <3>1 DEF BaseInv, DiskInv
    <3>2. CASE /\ pc[self] \in FileNames
               /\ \/ files' = [files EXCEPT ![<<j.prj, j.ver, pc[self]>>] = j.build]
                  \/ files' = [files EXCEPT ![<<j.prj, j.ver, pc[self]>>] = "partial"]
      BY ZenonT(40), <2>1, <2>3, <3>2 DEF FileContents
    <3> QED
      BY <3>1, <3>2 DEF AddMkdir, AddWriteFile, AddWriteFileFails, AddKilledInWriteFile
  <2>5. dirs' \subseteq Projects \X Versions
    <3>1. \/ dirs' = dirs
          \/ dirs' = dirs \cup {<<j.prj, j.ver>>}
          \/ dirs' = dirs \ {<<j.prj, j.ver>>}
      BY DEF AddMkdir, AddWriteFile, AddWriteFileFails, AddKilledInWriteFile
    <3> QED
      BY SMT, <2>1, <3>1 DEF BaseInv, DiskInv
  <2>6. DiskInv'
    BY <2>2, <2>4, <2>5 DEF BaseInv, DiskInv
  <2>7. ControlInv'
    <3>1. \/ \E r \in Outcomes : Return(self, r)
          \/ \E label \in Labels : Continue(self, label, j)
      BY SMT DEF AddMkdir, AddWriteFile, AddWriteFileFails, AddKilledInWriteFile, FileNames,
             FileStep, Outcomes, Labels
    <3> QED
      BY <2>1, <3>1, <1>ReturnControl, <1>ContinueControl DEF BaseInv
  <2> QED
    BY <2>6, <2>7 DEF BaseInv
<1>BaseRemoveScan.
      ASSUME BaseInv, NEW self \in Procs, RemoveScan(self)
      PROVE  BaseInv'
  <2> USE <1>BaseRemoveScan
  <2> DEFINE j == job[self]
             todo == {i \in j.next..Len(j.vers) : ToRemove(j, i)}
  <2>1. /\ j \in Jobs /\ j.vers \in VersionsJson /\ StrictlyDescending(j.vers)
        /\ j.next \in Nat \ {0}
    BY JobFields DEF BaseInv
  <2>2. DiskInv'
    BY DEF BaseInv, DiskInv, RemoveScan, disk
  <2>3. CASE \E r \in Outcomes : Return(self, r)
    BY <2>2, <2>3, <1>ReturnControl DEF BaseInv
  <2>4. CASE Continue(self, "truncIndex", j)
    BY <2>1, <2>2, <2>4, <1>ContinueControl DEF BaseInv, Labels
  <2>5. CASE \E i \in todo :
                Continue(self, "truncVersions",
                    [j EXCEPT !.vers = SetStatus(j.vers, i, "removed"),
                              !.ver = j.vers[i].version,
                              !.next = i + 1])
    <3>1. PICK i \in todo :
                Continue(self, "truncVersions",
                    [j EXCEPT !.vers = SetStatus(j.vers, i, "removed"),
                              !.ver = j.vers[i].version,
                              !.next = i + 1])
      BY <2>5
    <3> DEFINE t == SetStatus(j.vers, i, "removed")
               w == j.vers[i].version
               locals == [j EXCEPT !.vers = t, !.ver = w, !.next = i + 1]
    <3>2. i \in DOMAIN j.vers /\ i + 1 \in Nat \ {0}
      BY SMTT(40), <2>1, ListFacts
    <3>3. t \in VersionsJson /\ StrictlyDescending(t)
      BY <2>1, <3>2, RestatusedList DEF VersionStatus
    <3>4. w \in Versions
      BY <2>1, <3>2, ListFacts DEF VersionEntry
    <3>5. Continue(self, "truncVersions", locals)
      BY <3>1
    <3> HIDE DEF t, w
    <3>6. locals \in Jobs /\ locals.vers = t
      BY <2>1, <3>2, <3>3, <3>4 DEF Jobs
    <3> HIDE DEF locals
    <3> QED
      BY <2>2, <3>3, <3>5, <3>6, <1>ContinueControl DEF BaseInv, Labels
  <2> QED
    BY <2>3, <2>4, <2>5 DEF RemoveScan, Outcomes
<1>BaseRemoveFiles.
      ASSUME BaseInv, NEW self \in Procs, RemoveFile(self) \/ RemoveDir(self)
      PROVE  BaseInv'
  <2> USE <1>BaseRemoveFiles
  <2> DEFINE j == job[self]
  <2>1. /\ j \in Jobs /\ j.prj \in Projects /\ j.ver \in Versions
        /\ StrictlyDescending(j.vers)
    BY JobFields DEF BaseInv
  <2>2. UNCHANGED <<index, versions>>
    BY DEF RemoveFile, RemoveDir
  <2>3. files' \in [Projects \X Versions \X FileNames -> FileContents]
    BY ZenonT(60), <2>1 DEF BaseInv, DiskInv, RemoveFile, RemoveDir, FileContents
  <2>4. dirs' \subseteq Projects \X Versions
    BY DEF BaseInv, DiskInv, RemoveFile, RemoveDir
  <2>5. DiskInv'
    BY <2>2, <2>3, <2>4 DEF BaseInv, DiskInv
  <2>6. CASE UNCHANGED <<pc, job, outcome>>
    BY <2>5, <2>6 DEF BaseInv, ControlInv
  <2>7. CASE Return(self, "error")
    BY <2>5, <2>7, <1>ReturnControl DEF BaseInv, Outcomes
  <2>8. CASE Continue(self, "scan", j)
    BY <2>1, <2>5, <2>8, <1>ContinueControl DEF BaseInv, Labels
  <2> QED
    BY <2>6, <2>7, <2>8 DEF RemoveFile, RemoveDir
<1>BaseWriteVersions.
      ASSUME BaseInv, NEW self \in Procs, TruncVersions(self) \/ WriteVersions(self)
      PROVE  BaseInv'
  <2> USE <1>BaseWriteVersions
  <2> DEFINE j == job[self]
  <2>1. /\ j \in Jobs /\ j.prj \in Projects /\ j.vers \in VersionsJson
        /\ StrictlyDescending(j.vers)
    BY JobFields DEF BaseInv
  <2>2. /\ <<>> \in VersionsJson /\ StrictlyDescending(<<>>)
    BY SMT DEF VersionsJson, StrictlyDescending
  <2>3. DiskInv'
    <3>1. PICK f \in {Json(j.vers), Blank("garbled", <<>>), Blank("empty", <<>>)} :
             versions' = [versions EXCEPT ![j.prj] = f]
      BY DEF TruncVersions, WriteVersions, Overwritten
    <3>2. f \in [kind: FileKind, val: VersionsJson] /\ StrictlyDescending(f.val)
      BY SMTT(40), <2>1, <2>2, <3>1 DEF Json, Blank, FileKind
    <3>3. UNCHANGED <<index, dirs, files>>
      BY DEF TruncVersions, WriteVersions
    <3> QED
      BY ZenonT(60), <2>1, <3>1, <3>2, <3>3, <1>VersionsDisk DEF BaseInv
  <2>4. ControlInv'
    <3>1. \/ Return(self, "ok")
          \/ \E label \in Labels : Continue(self, label, j)
      BY DEF TruncVersions, WriteVersions, Labels
    <3> QED
      BY <2>1, <3>1, <1>ReturnControl, <1>ContinueControl DEF BaseInv, Outcomes
  <2> QED
    BY <2>3, <2>4 DEF BaseInv
<1>BaseWriteIndex.
      ASSUME BaseInv, NEW self \in Procs, TruncIndex(self) \/ WriteIndex(self)
      PROVE  BaseInv'
  <2> USE <1>BaseWriteIndex
  <2> DEFINE j == job[self]
  <2>1. j \in Jobs /\ j.idx \in IndexJson /\ StrictlyDescending(j.vers)
    BY JobFields DEF BaseInv
  <2>2. NoProjects \in IndexJson
    BY DEF NoProjects, IndexJson
  <2>3. index' \in {Json(j.idx), Blank("garbled", NoProjects), Blank("empty", NoProjects)}
    BY DEF TruncIndex, WriteIndex, Overwritten
  <2>4. index' \in [kind: FileKind, val: IndexJson]
    BY SMTT(40), <2>1, <2>2, <2>3 DEF Json, Blank, FileKind
  <2>5. DiskInv'
    BY <2>4 DEF BaseInv, DiskInv, TruncIndex, WriteIndex
  <2>6. ControlInv'
    BY <2>1, <1>ReturnControl, <1>ContinueControl DEF BaseInv, TruncIndex, WriteIndex, Outcomes, Labels
  <2> QED
    BY <2>5, <2>6 DEF BaseInv
<1>BaseInterrupted.
      ASSUME BaseInv, NEW self \in Procs, WriteJsonFails(self) \/ Stop(self)
      PROVE  BaseInv'
  <2> USE <1>BaseInterrupted
  <2> DEFINE j == job[self]
  <2>1. j.prj \in Projects
    BY JobFields DEF BaseInv
  <2>2. ControlInv'
    BY <1>ReturnControl DEF BaseInv, WriteJsonFails, Stop, Outcomes
  <2>3. CASE UNCHANGED disk
    BY <2>2, <2>3 DEF BaseInv, DiskInv, disk
  <2>4. CASE /\ versions' = [versions EXCEPT ![j.prj] = Blank("garbled", <<>>)]
             /\ UNCHANGED <<index, dirs, files>>
    <3>1. /\ Blank("garbled", <<>>) \in [kind: FileKind, val: VersionsJson]
          /\ StrictlyDescending(Blank("garbled", <<>>).val)
      BY SMTT(40) DEF Blank, FileKind, VersionsJson, StrictlyDescending
    <3> QED
      BY <2>1, <2>2, <2>4, <3>1, <1>VersionsDisk DEF BaseInv
  <2>5. CASE /\ index' = Blank("garbled", NoProjects)
             /\ UNCHANGED <<versions, dirs, files>>
    <3>1. NoProjects \in IndexJson
      BY DEF NoProjects, IndexJson
    <3>2. index' \in [kind: FileKind, val: IndexJson]
      BY <2>5, <3>1 DEF Blank, FileKind
    <3> QED
      BY <2>2, <2>5, <3>2 DEF BaseInv, DiskInv
  <2> QED
    BY <2>3, <2>4, <2>5 DEF WriteJsonFails, Stop
<1>1. CASE UNCHANGED vars
  BY <1>1 DEF BaseInv, DiskInv, ControlInv, vars
<1>2. CASE Next
  <2>1. PICK self \in Procs : Start(self) \/ Step(self) \/ Fault(self)
    BY <1>2 DEF Next
  <2>2. CASE Start(self)
    BY <2>2, <1>BaseStart
  <2>3. CASE Step(self)
    BY <2>3, <1>BaseOpenIndex, <1>BaseOpenVersions, <1>BaseAddFiles, <1>BaseRemoveScan,
       <1>BaseRemoveFiles, <1>BaseWriteVersions, <1>BaseWriteIndex DEF Step
  <2>4. CASE Fault(self)
    BY <2>4, <1>BaseAddFiles, <1>BaseInterrupted DEF Fault
  <2> QED
    BY <2>1, <2>2, <2>3, <2>4
<1> QED
  BY <1>1, <1>2

\* Every file and every variable of a command keeps its type: no step of any
\* command, concurrent, failing or killed, indexes outside a list or a table.
THEOREM TypeCorrect == Spec => []TypeOK
<1>1. Spec => []BaseInv
  BY BaseInit, BaseNext, PTL DEF Spec
<1>2. BaseInv => TypeOK
  BY DEF BaseInv, DiskInv, ControlInv, TypeOK
<1> QED
  BY <1>1, <1>2, PTL

\* versions.json lists each version at most once, newest first, after any
\* interleaving of any number of commands, failures included.
THEOREM AlwaysNewestFirst == Spec => []VersionsNewestFirst
<1>1. Spec => []BaseInv
  BY BaseInit, BaseNext, PTL DEF Spec
<1>2. BaseInv => VersionsNewestFirst
  BY DEF BaseInv, DiskInv, VersionsNewestFirst
<1> QED
  BY <1>1, <1>2, PTL

-----------------------------------------------------------------------------
(* Commands side by side, removals alone *)

\* A step that keeps the command running, or ends it.
KeepsCommand(self) ==
    /\ \A o \in Procs : o # self => pc'[o] = pc[o] /\ job'[o] = job[o]
    /\ pc'[self] = "idle" \/ (pc[self] # "idle" /\ job'[self].op = job[self].op)
    /\ pc'[self] \in {"scan", "rmdir"} => Removing(job[self])

LEMMA SharedInit == Init => SharedInv
<1> SUFFICES ASSUME Init PROVE SharedInv
  OBVIOUS
<1>1. \A a \in Procs : pc[a] = "idle"
  BY DEF Init, NothingAdded
<1>2. RemovalsAlone
  BY <1>1 DEF RemovalsAlone
<1>3. ASSUME NEW p \in Projects, NEW v \in Versions PROVE OneCopier(p, v)
  <2>1. \A a \in Procs : ~Copying(a, p, v)
    BY <1>1 DEF Copying, FileNames
  <2>2. \A f \in FileNames : files[<<p, v, f>>] = "none"
    BY DEF Init, NothingAdded
  <2> QED
    BY <2>1, <2>2 DEF OneCopier
<1> QED
  BY <1>2, <1>3 DEF SharedInv

LEMMA SharedNextStep ==
    ASSUME BaseInv, SharedInv, [SharedNext]_vars
    PROVE  SharedInv'
<1>ReturnSelf.
      ASSUME ControlInv, NEW self \in Procs, NEW result, Return(self, result)
      PROVE  /\ pc'[self] = "idle" /\ job'[self] = NoJob
             /\ \A o \in Procs : o # self => pc'[o] = pc[o] /\ job'[o] = job[o]
  BY <1>ReturnSelf DEF ControlInv, Return, Goto
<1>ContinueSelf.
      ASSUME ControlInv, NEW self \in Procs, NEW label, NEW locals,
             Continue(self, label, locals)
      PROVE  /\ pc'[self] = label /\ job'[self] = locals
             /\ \A o \in Procs : o # self => pc'[o] = pc[o] /\ job'[o] = job[o]
  BY <1>ContinueSelf DEF ControlInv, Continue, Goto
<1>SharedControl.
      ASSUME RemovalsAlone, NEW self \in Procs, KeepsCommand(self)
      PROVE  RemovalsAlone'
  <2> USE <1>SharedControl
  <2>1. \A o \in Procs : pc'[o] # "idle" =>
           pc[o] # "idle" /\ job'[o].op = job[o].op
    BY DEF KeepsCommand
  <2>2. \A o \in Procs : pc'[o] \in {"scan", "rmdir"} => Removing(job[o]) /\ pc'[o] # "idle"
    BY DEF KeepsCommand, RemovalsAlone
  <2> QED
    BY ZenonT(60), <2>1, <2>2 DEF RemovalsAlone, Removing
\* Nothing happens to the files, and self does not come to copy any.
<1>SharedFiles.
      ASSUME SharedInv, NEW self \in Procs, UNCHANGED <<dirs, files>>,
             \A o \in Procs : o # self => pc'[o] = pc[o] /\ job'[o] = job[o],
             pc'[self] \notin FileNames, RemovalsAlone'
      PROVE  SharedInv'
  <2> USE <1>SharedFiles
  <2>1. ASSUME NEW p \in Projects, NEW v \in Versions PROVE OneCopier(p, v)'
    <3>1. OneCopier(p, v)
      BY DEF SharedInv
    <3>2. \A o \in Procs : Copying(o, p, v)' => Copying(o, p, v) /\ job'[o] = job[o]
      BY DEF Copying
    <3> QED
      BY <3>1, <3>2 DEF OneCopier
  <2> QED
    BY <2>1 DEF SharedInv
<1>SharedReturn.
      ASSUME ControlInv, SharedInv, NEW self \in Procs, NEW result, Return(self, result),
             UNCHANGED <<dirs, files>>
      PROVE  SharedInv'
  <2> USE <1>SharedReturn
  <2>1. /\ pc'[self] = "idle"
        /\ \A o \in Procs : o # self => pc'[o] = pc[o] /\ job'[o] = job[o]
    BY <1>ReturnSelf
  <2>2. KeepsCommand(self) /\ pc'[self] \notin FileNames
    BY <2>1 DEF KeepsCommand, FileNames
  <2> QED
    BY <2>1, <2>2, <1>SharedControl, <1>SharedFiles DEF SharedInv
<1>SharedContinue.
      ASSUME ControlInv, SharedInv, NEW self \in Procs, NEW label, NEW locals,
             Continue(self, label, locals), UNCHANGED <<dirs, files>>,
             pc[self] # "idle", locals.op = job[self].op, label \notin FileNames,
             label \in {"scan", "rmdir"} => Removing(job[self])
      PROVE  SharedInv'
  <2> USE <1>SharedContinue
  <2>1. /\ pc'[self] = label /\ job'[self] = locals
        /\ \A o \in Procs : o # self => pc'[o] = pc[o] /\ job'[o] = job[o]
    BY <1>ContinueSelf
  <2>2. KeepsCommand(self) /\ pc'[self] \notin FileNames
    BY <2>1 DEF KeepsCommand
  <2> QED
    BY <2>1, <2>2, <1>SharedControl, <1>SharedFiles DEF SharedInv
\* A command that begins to run does so at the index, and not as one of two
\* that are not to run together.
<1>SharedBegin.
      ASSUME ControlInv, SharedInv, NEW self \in Procs, NEW label, NEW locals,
             Continue(self, label, locals), label \in {"openIndex", "writeIndex"},
             UNCHANGED <<dirs, files>>,
             \/ AllIdle
             \/ ~RemovalRuns /\ ~Removing(locals)
      PROVE  SharedInv'
  <2> USE <1>SharedBegin
  <2>1. /\ pc'[self] = label /\ job'[self] = locals
        /\ \A o \in Procs : o # self => pc'[o] = pc[o] /\ job'[o] = job[o]
    BY <1>ContinueSelf
  <2>2. label \notin FileNames \cup {"scan", "rmdir"}
    BY DEF FileNames
  <2>3. \A a, b \in Procs :
           (Removing(job[a]) /\ pc[a] # "idle" /\ pc[b] # "idle" => a = b)'
    <3>1. CASE AllIdle
      BY <2>1, <3>1 DEF AllIdle
    <3>2. CASE ~RemovalRuns /\ ~Removing(locals)
      BY <2>1, <3>2 DEF RemovalRuns, Removing
    <3> QED
      BY <3>1, <3>2
  <2>4. \A a \in Procs : (pc[a] \in {"scan", "rmdir"} => Removing(job[a]))'
    BY <2>1, <2>2 DEF SharedInv, RemovalsAlone, Removing
  <2>5. RemovalsAlone'
    BY <2>3, <2>4 DEF RemovalsAlone
  <2> QED
    BY <2>1, <2>2, <2>5, <1>SharedFiles
<1>SharedStarts.
      ASSUME BaseInv, SharedInv, NEW self \in Procs,
             \/ ~RemovalRuns /\ StartPublish(self)
             \/ AllIdle /\ StartRemove(self)
      PROVE  SharedInv'
  <2> USE <1>SharedStarts
  <2> USE DEF BaseInv
  <2>1. ASSUME NEW locals, Begin(self, locals), AllIdle \/ (~RemovalRuns /\ ~Removing(locals))
        PROVE  SharedInv'
    BY <2>1, <1>SharedBegin DEF Begin, disk
  <2>2. CASE AllIdle /\ StartRemove(self)
    BY <2>1, <2>2 DEF StartRemove, BeginRemoveVersion, BeginRemoveProject
  <2>3. CASE ~RemovalRuns /\ BeginInit(self)
    <3>1. CASE Return(self, "error")
      BY <2>3, <3>1, <1>SharedReturn DEF BeginInit
    <3>2. CASE Continue(self, "writeIndex", NoJob)
      <4>1. ~Removing(NoJob)
        BY DEF NoJob, Removing
      <4> QED
        BY <2>3, <3>2, <4>1, <1>SharedBegin DEF BeginInit
    <3> QED
      BY <2>3, <3>1, <3>2 DEF BeginInit
  <2>4. CASE ~RemovalRuns /\ \E p \in Projects, v \in Versions, b \in Builds : BeginAdd(self, p, v, b)
    <3>1. PICK p \in Projects, v \in Versions, b \in Builds : BeginAdd(self, p, v, b)
      BY <2>4
    <3> DEFINE locals == [NoJob EXCEPT !.op = "add", !.prj = p, !.ver = v, !.build = b]
    <3>2. locals.op = "add"
      BY NoJobType DEF Jobs, Commands
    <3>3. Begin(self, locals)
      BY <3>1 DEF BeginAdd
    <3> HIDE DEF locals
    <3>4. ~Removing(locals)
      BY <3>2 DEF Removing
    <3> QED
      BY <2>1, <2>4, <3>3, <3>4
  <2>5. CASE ~RemovalRuns /\ \E p \in Projects, v \in Versions : BeginYank(self, p, v)
    <3>1. PICK p \in Projects, v \in Versions : BeginYank(self, p, v)
      BY <2>5
    <3> DEFINE locals == [NoJob EXCEPT !.op = "yank", !.prj = p, !.ver = v]
    <3>2. locals.op = "yank"
      BY NoJobType DEF Jobs, Commands
    <3>3. Begin(self, locals)
      BY <3>1 DEF BeginYank
    <3> HIDE DEF locals
    <3>4. ~Removing(locals)
      BY <3>2 DEF Removing
    <3> QED
      BY <2>1, <2>5, <3>3, <3>4
  <2> QED
    BY <2>2, <2>3, <2>4, <2>5 DEF StartPublish
<1>SharedOpenIndex.
      ASSUME BaseInv, SharedInv, NEW self \in Procs,
             AddOpenIndex(self) \/ YankOpenIndex(self) \/ RemoveOpenIndex(self)
      PROVE  SharedInv'
  <2> USE <1>SharedOpenIndex
  <2> DEFINE j == job[self]
  <2>1. UNCHANGED <<dirs, files>> /\ pc[self] # "idle"
    BY DEF AddOpenIndex, YankOpenIndex, RemoveOpenIndex, disk
  <2>2. CASE Return(self, "error")
    BY <2>1, <2>2, <1>SharedReturn DEF BaseInv
  <2>3. ASSUME NEW locals, locals.op = j.op, Continue(self, "openVersions", locals)
        PROVE  SharedInv'
    BY <2>1, <2>3, <1>SharedContinue DEF BaseInv, FileNames
  <2>4. CASE ~Return(self, "error")
    <3>1. PICK idx \in {[index.val EXCEPT ![j.prj] = x] : x \in ProjectStatus}, new \in BOOLEAN :
             \/ Continue(self, "openVersions", j)
             \/ Continue(self, "openVersions", [j EXCEPT !.idx = idx, !.isNew = new])
             \/ Continue(self, "openVersions", [j EXCEPT !.idx = idx])
      BY <2>4 DEF AddOpenIndex, YankOpenIndex, RemoveOpenIndex, ProjectStatus
    <3>2. j \in Jobs
      BY JobFields DEF BaseInv
    <3>3. [j EXCEPT !.idx = idx, !.isNew = new].op = j.op /\ [j EXCEPT !.idx = idx].op = j.op
      BY <3>2 DEF Jobs
    <3> QED
      BY ZenonT(60), <2>3, <3>1, <3>3
  <2> QED
    BY <2>2, <2>4
<1>SharedOpenVersions.
      ASSUME BaseInv, SharedInv, NEW self \in Procs,
             AddOpenVersions(self) \/ YankOpenVersions(self) \/ RemoveOpenVersions(self)
      PROVE  SharedInv'
  <2> USE <1>SharedOpenVersions
  <2> DEFINE j == job[self]
  <2>1. UNCHANGED <<dirs, files>> /\ pc[self] # "idle" /\ j \in Jobs
    BY JobFields DEF AddOpenVersions, YankOpenVersions, RemoveOpenVersions, BaseInv
  <2>2. CASE \E r : Return(self, r)
    BY <2>1, <2>2, <1>SharedReturn DEF BaseInv
  <2>3. ASSUME NEW t, NEW label, label \in {"mkdir", "truncVersions", "scan"},
               label = "scan" => Removing(j),
               Continue(self, label, [j EXCEPT !.vers = t])
        PROVE  SharedInv'
    <3>1. [j EXCEPT !.vers = t].op = j.op
      BY <2>1 DEF Jobs
    <3>2. label \notin FileNames /\ (label \in {"scan", "rmdir"} => Removing(j))
      BY <2>3 DEF FileNames
    <3> QED
      BY <2>1, <2>3, <3>1, <3>2, <1>SharedContinue DEF BaseInv
  <2>4. CASE AddOpenVersions(self)
    <3>1. \/ \E r : Return(self, r)
          \/ \E t : Continue(self, "mkdir", [j EXCEPT !.vers = t])
      BY <2>4 DEF AddOpenVersions
    <3> QED
      BY <2>2, <2>3, <3>1
  <2>5. CASE YankOpenVersions(self)
    <3>1. \/ \E r : Return(self, r)
          \/ \E t : Continue(self, "truncVersions", [j EXCEPT !.vers = t])
      BY <2>5 DEF YankOpenVersions
    <3> QED
      BY <2>2, <2>3, <3>1
  <2>6. CASE RemoveOpenVersions(self)
    <3>1. /\ Removing(j)
          /\ \/ \E r : Return(self, r)
             \/ \E t : Continue(self, "scan", [j EXCEPT !.vers = t])
      BY <2>6 DEF RemoveOpenVersions, Removing
    <3> QED
      BY <2>2, <2>3, <3>1
  <2> QED
    BY <2>4, <2>5, <2>6
<1>SharedRemoveScan.
      ASSUME BaseInv, SharedInv, NEW self \in Procs, RemoveScan(self)
      PROVE  SharedInv'
  <2> USE <1>SharedRemoveScan
  <2> DEFINE j == job[self]
  <2>1. UNCHANGED <<dirs, files>> /\ pc[self] # "idle" /\ j \in Jobs
    BY JobFields DEF RemoveScan, BaseInv, disk
  <2>2. CASE \E r : Return(self, r)
    BY <2>1, <2>2, <1>SharedReturn DEF BaseInv
  <2>3. CASE Continue(self, "truncIndex", j)
    BY <2>1, <2>3, <1>SharedContinue DEF BaseInv, FileNames
  <2>4. CASE \E t, v, n : Continue(self, "truncVersions",
                               [j EXCEPT !.vers = t, !.ver = v, !.next = n])
    <3>1. PICK t, v, n : Continue(self, "truncVersions",
                               [j EXCEPT !.vers = t, !.ver = v, !.next = n])
      BY <2>4
    <3> DEFINE locals == [j EXCEPT !.vers = t, !.ver = v, !.next = n]
    <3>2. locals.op = j.op /\ Continue(self, "truncVersions", locals)
      BY <2>1, <3>1 DEF Jobs
    <3> HIDE DEF locals
    <3> QED
      BY <2>1, <3>2, <1>SharedContinue DEF BaseInv, FileNames
  <2> QED
    BY <2>2, <2>3, <2>4 DEF RemoveScan
<1>SharedWrites.
      ASSUME BaseInv, SharedInv, NEW self \in Procs,
             \/ TruncVersions(self) \/ WriteVersions(self)
             \/ TruncIndex(self) \/ WriteIndex(self)
             \/ WriteJsonFails(self) \/ Stop(self)
      PROVE  SharedInv'
  <2> USE <1>SharedWrites
  <2> DEFINE j == job[self]
  <2>1. UNCHANGED <<dirs, files>> /\ pc[self] # "idle"
    BY DEF TruncVersions, WriteVersions, TruncIndex, WriteIndex, WriteJsonFails, Stop, disk
  <2>2. CASE \E r : Return(self, r)
    BY <2>1, <2>2, <1>SharedReturn DEF BaseInv
  <2>3. ASSUME NEW label, label \notin FileNames,
               label \in {"scan", "rmdir"} => Removing(j), Continue(self, label, j)
        PROVE  SharedInv'
    BY <2>1, <2>3, <1>SharedContinue DEF BaseInv
  <2>4. \/ \E r : Return(self, r)
        \/ \E label \in {"writeVersions", "truncIndex", "writeIndex"} : Continue(self, label, j)
        \/ Removing(j) /\ Continue(self, "rmdir", j)
    BY DEF TruncVersions, WriteVersions, TruncIndex, WriteIndex, WriteJsonFails, Stop, Removing
  <2>5. /\ \A label \in {"writeVersions", "truncIndex", "writeIndex"} :
              label \notin FileNames /\ label \notin {"scan", "rmdir"}
        /\ "rmdir" \notin FileNames
    BY DEF FileNames
  <2> QED
    BY ZenonT(60), <2>2, <2>3, <2>4, <2>5
\* A step that touches one directory is to be checked against that one only.
<1>SharedAtDirectory.
      ASSUME SharedInv, NEW self \in Procs, RemovalsAlone',
             \A o \in Procs : o # self => pc'[o] = pc[o] /\ job'[o] = job[o],
             NEW p \in Projects, NEW v \in Versions, OneCopier(p, v)',
             \A q \in Projects, w \in Versions : <<q, w>> # <<p, v>> =>
                /\ ~Copying(self, q, w)'
                /\ <<q, w>> \in dirs' <=> <<q, w>> \in dirs
                /\ \A f \in FileNames : files'[<<q, w, f>>] = files[<<q, w, f>>]
      PROVE  SharedInv'
  <2> USE <1>SharedAtDirectory
  <2>1. ASSUME NEW q \in Projects, NEW w \in Versions, <<q, w>> # <<p, v>>
        PROVE  OneCopier(q, w)'
    <3>1. OneCopier(q, w)
      BY DEF SharedInv
    <3>2. ASSUME NEW o \in Procs, Copying(o, q, w)'
          PROVE  Copying(o, q, w) /\ job'[o] = job[o]
      <4>1. o # self
        BY <2>1, <3>2
      <4>2. pc'[o] = pc[o] /\ job'[o] = job[o]
        BY <4>1
      <4> QED
        BY <3>2, <4>2 DEF Copying
    <3>3. /\ <<q, w>> \in dirs' <=> <<q, w>> \in dirs
          /\ \A f \in FileNames : files'[<<q, w, f>>] = files[<<q, w, f>>]
      BY <2>1
    <3>4. \A a, b \in Procs : Copying(a, q, w)' /\ Copying(b, q, w)' => a = b
      BY <3>1, <3>2 DEF OneCopier
    <3>5. \A a \in Procs : Copying(a, q, w)' =>
             /\ <<q, w>> \in dirs'
             /\ \A f \in FileNames : files'[<<q, w, f>>] \in {"none", job'[a].build}
      BY <3>1, <3>2, <3>3 DEF OneCopier
    <3>6. <<q, w>> \notin dirs' => \A f \in FileNames : files'[<<q, w, f>>] = "none"
      <4>1. <<q, w>> \notin dirs => \A f \in FileNames : files[<<q, w, f>>] = "none"
        BY <3>1 DEF OneCopier
      <4> QED
        BY <3>3, <4>1
    <3>7. \A f, g \in FileNames :
             files'[<<q, w, f>>] \in Builds /\ files'[<<q, w, g>>] \in Builds =>
                files'[<<q, w, f>>] = files'[<<q, w, g>>]
      <4>1. \A f, g \in FileNames :
               files[<<q, w, f>>] \in Builds /\ files[<<q, w, g>>] \in Builds =>
                  files[<<q, w, f>>] = files[<<q, w, g>>]
        BY <3>1 DEF OneCopier
      <4> QED
        BY ZenonT(60), <3>3, <4>1
    <3> QED
      BY <3>4, <3>5, <3>6, <3>7 DEF OneCopier
  <2>2. \A q \in Projects, w \in Versions : <<q, w>> = <<p, v>> => q = p /\ w = v
    OBVIOUS
  <2> QED
    BY ZenonT(60), <2>1, <2>2 DEF SharedInv
\* create_dir: the directory was not there, so no one was copying into it.
<1>SharedMkdir.
      ASSUME BaseInv, SharedInv, NEW self \in Procs, AddMkdir(self)
      PROVE  SharedInv'
  <2> USE <1>SharedMkdir
  <2> DEFINE j == job[self]
  <2>0. PICK p \in Projects, v \in Versions : p = j.prj /\ v = j.ver
    BY JobFields DEF BaseInv
  <2>1. /\ pc[self] = "mkdir" /\ UNCHANGED files
    BY <2>0, JobFields DEF AddMkdir, BaseInv
  <2>2. CASE <<p, v>> \in dirs
    BY <2>0, <2>1, <2>2, <1>SharedReturn DEF AddMkdir, BaseInv
  <2>3. CASE <<p, v>> \notin dirs
    <3>1. dirs' = dirs \cup {<<p, v>>} /\ Continue(self, "kpar", j)
      BY <2>0, <2>3 DEF AddMkdir
    <3>2. /\ pc'[self] = "kpar" /\ job'[self] = j
          /\ \A o \in Procs : o # self => pc'[o] = pc[o] /\ job'[o] = job[o]
      BY <3>1, <1>ContinueSelf DEF BaseInv
    <3>3. RemovalsAlone'
      <4>1. KeepsCommand(self)
        BY <2>1, <3>2 DEF KeepsCommand
      <4> QED
        BY <4>1, <1>SharedControl DEF SharedInv
    <3>4. OneCopier(p, v)
      BY <2>1 DEF SharedInv
    <3>5. \A o \in Procs : o # self => ~Copying(o, p, v)'
      BY <2>3, <3>2, <3>4 DEF OneCopier, Copying
    <3>6. /\ \A f \in FileNames : files'[<<p, v, f>>] = "none"
          /\ <<p, v>> \in dirs'
      BY <2>1, <2>3, <3>1, <3>4 DEF OneCopier
    <3>7. OneCopier(p, v)'
      BY <3>5, <3>6, BuildsAssumption DEF OneCopier
    <3>8. \A q \in Projects, w \in Versions : <<q, w>> # <<p, v>> =>
             /\ ~Copying(self, q, w)'
             /\ <<q, w>> \in dirs' <=> <<q, w>> \in dirs
             /\ \A f \in FileNames : files'[<<q, w, f>>] = files[<<q, w, f>>]
      BY <2>0, <2>1, <3>1, <3>2 DEF Copying
    <3> QED
      BY <2>1, <3>2, <3>3, <3>7, <3>8, <1>SharedAtDirectory
  <2> QED
    BY <2>2, <2>3
<1>SharedWriteFile.
      ASSUME BaseInv, SharedInv, NEW self \in Procs, AddWriteFile(self)
      PROVE  SharedInv'
  <2> USE <1>SharedWriteFile
  <2> DEFINE j == job[self]
  <2>0. PICK p \in Projects, v \in Versions : p = j.prj /\ v = j.ver
    BY JobFields DEF BaseInv
  <2>1. /\ pc[self] \in FileNames /\ UNCHANGED dirs
        /\ j.build \in Builds
        /\ files \in [Projects \X Versions \X FileNames -> FileContents]
    BY <2>0, JobFields DEF AddWriteFile, BaseInv, DiskInv
  <2>2. CASE <<p, v>> \notin dirs
    BY <2>0, <2>1, <2>2, <1>SharedReturn DEF AddWriteFile, BaseInv
  <2>3. CASE <<p, v>> \in dirs
    <3>1. /\ files' = [files EXCEPT ![<<p, v, pc[self]>>] = j.build]
          /\ Continue(self, FileStep[pc[self]], j)
      BY <2>0, <2>3 DEF AddWriteFile
    <3>2. \A q \in Projects, w \in Versions, f \in FileNames :
             files'[<<q, w, f>>] = IF <<q, w, f>> = <<p, v, pc[self]>>
                                   THEN j.build ELSE files[<<q, w, f>>]
      BY <2>1, <3>1
    <3>3. /\ pc'[self] = FileStep[pc[self]] /\ job'[self] = j
          /\ \A o \in Procs : o # self => pc'[o] = pc[o] /\ job'[o] = job[o]
      BY ZenonT(60), <3>1, <1>ContinueSelf DEF BaseInv
    <3>4. FileStep[pc[self]] \notin {"scan", "rmdir"} /\ pc[self] # "idle"
      BY SMT, <2>1 DEF FileStep, FileNames
    <3>5. RemovalsAlone'
      <4>1. KeepsCommand(self)
        BY <3>3, <3>4 DEF KeepsCommand
      <4> QED
        BY <4>1, <1>SharedControl DEF SharedInv
    <3>6. OneCopier(p, v) /\ Copying(self, p, v)
      BY <2>0, <2>1 DEF SharedInv, Copying
    <3>7. \A o \in Procs : Copying(o, p, v)' => o = self
      BY ZenonT(60), <3>3, <3>6 DEF OneCopier, Copying
    <3>8. \A f \in FileNames : files'[<<p, v, f>>] \in {"none", j.build}
      BY ZenonT(60), <2>1, <3>2, <3>6 DEF OneCopier
    <3>9. OneCopier(p, v)'
      <4>1. <<p, v>> \in dirs'
        BY <2>1, <2>3
      <4>2. \A a \in Procs : Copying(a, p, v)' =>
               \A f \in FileNames : files'[<<p, v, f>>] \in {"none", job'[a].build}
        BY <3>3, <3>7, <3>8
      <4>3. \A f, g \in FileNames :
               files'[<<p, v, f>>] \in Builds /\ files'[<<p, v, g>>] \in Builds =>
                  files'[<<p, v, f>>] = files'[<<p, v, g>>]
        BY <3>8, BuildsAssumption
      <4> QED
        BY <3>7, <4>1, <4>2, <4>3 DEF OneCopier
    <3>10. \A q \in Projects, w \in Versions : <<q, w>> # <<p, v>> =>
             /\ ~Copying(self, q, w)'
             /\ <<q, w>> \in dirs' <=> <<q, w>> \in dirs
             /\ \A f \in FileNames : files'[<<q, w, f>>] = files[<<q, w, f>>]
      BY ZenonT(60), <2>0, <2>1, <3>2, <3>3 DEF Copying
    <3> QED
      BY <2>1, <3>3, <3>5, <3>9, <3>10, <1>SharedAtDirectory
  <2> QED
    BY <2>2, <2>3
\* An `add' that fails or is killed at a file keeps the directory, with that
\* file cut short, or removes it empty.
<1>SharedAddFaults.
      ASSUME BaseInv, SharedInv, NEW self \in Procs,
             AddWriteFileFails(self) \/ AddKilledInWriteFile(self)
      PROVE  SharedInv'
  <2> USE <1>SharedAddFaults
  <2> DEFINE j == job[self]
  <2>0. PICK p \in Projects, v \in Versions : p = j.prj /\ v = j.ver
    BY JobFields DEF BaseInv
  <2>1. /\ pc[self] \in FileNames /\ <<p, v>> \in dirs
        /\ j.build \in Builds
        /\ files \in [Projects \X Versions \X FileNames -> FileContents]
    BY <2>0, JobFields DEF AddWriteFileFails, AddKilledInWriteFile, BaseInv, DiskInv
  <2>2. /\ \E r : Return(self, r)
        /\ \/ UNCHANGED files
           \/ files' = [files EXCEPT ![<<p, v, pc[self]>>] = "partial"]
        /\ \/ dirs' = dirs
           \/ /\ dirs' = dirs \ {<<p, v>>}
              /\ \A f \in FileNames : files'[<<p, v, f>>] = "none"
    BY <2>0 DEF AddWriteFileFails, AddKilledInWriteFile
  <2>3. /\ pc'[self] = "idle"
        /\ \A o \in Procs : o # self => pc'[o] = pc[o] /\ job'[o] = job[o]
    BY <2>2, <1>ReturnSelf DEF BaseInv
  <2>4. RemovalsAlone'
    <3>1. KeepsCommand(self)
      BY <2>3 DEF KeepsCommand
    <3> QED
      BY <3>1, <1>SharedControl DEF SharedInv
  <2>5. \A q \in Projects, w \in Versions, f \in FileNames :
           \/ files'[<<q, w, f>>] = files[<<q, w, f>>]
           \/ <<q, w>> = <<p, v>> /\ files'[<<q, w, f>>] = "partial"
    BY <2>1, <2>2
  <2>6. OneCopier(p, v) /\ Copying(self, p, v)
    BY <2>0, <2>1 DEF SharedInv, Copying
  <2>7. \A q \in Projects, w \in Versions : ~Copying(self, q, w)'
    BY <2>3 DEF Copying, FileNames
  <2>8. \A o \in Procs : ~Copying(o, p, v)'
    BY ZenonT(60), <2>1, <2>3, <2>6, <2>7 DEF OneCopier, Copying
  <2>9. \A f \in FileNames : files'[<<p, v, f>>] \in {"none", j.build, "partial"}
    <3>1. \A f \in FileNames : files[<<p, v, f>>] \in {"none", j.build}
      BY <2>6 DEF OneCopier
    <3> QED
      BY <2>5, <3>1
  <2>10. <<p, v>> \notin dirs' =>
            \A f \in FileNames : files'[<<p, v, f>>] = "none"
    BY <2>1, <2>2
  <2>11. OneCopier(p, v)'
    BY <2>8, <2>9, <2>10, BuildsAssumption DEF OneCopier
  <2>12. \A q \in Projects, w \in Versions : <<q, w>> # <<p, v>> =>
           /\ ~Copying(self, q, w)'
           /\ <<q, w>> \in dirs' <=> <<q, w>> \in dirs
           /\ \A f \in FileNames : files'[<<q, w, f>>] = files[<<q, w, f>>]
    <3>1. \A q \in Projects, w \in Versions : <<q, w>> # <<p, v>> =>
             (<<q, w>> \in dirs' <=> <<q, w>> \in dirs)
      BY <2>2
    <3> QED
      BY <2>5, <2>7, <3>1
  <2> QED
    BY <2>1, <2>3, <2>4, <2>11, <2>12, <1>SharedAtDirectory
\* remove_dir_all: no `add' runs that could be at the directory.
<1>SharedRemoveFiles.
      ASSUME BaseInv, SharedInv, NEW self \in Procs, RemoveFile(self) \/ RemoveDir(self)
      PROVE  SharedInv'
  <2> USE <1>SharedRemoveFiles
  <2> DEFINE j == job[self]
  <2>0. PICK p \in Projects, v \in Versions : p = j.prj /\ v = j.ver
    BY JobFields DEF BaseInv
  <2>1. /\ pc[self] = "rmdir"
        /\ files \in [Projects \X Versions \X FileNames -> FileContents]
    BY <2>0, JobFields DEF RemoveFile, RemoveDir, BaseInv, DiskInv
  <2>2. Removing(j)
    BY ZenonT(60), <2>1 DEF SharedInv, RemovalsAlone
  <2>3. \A o \in Procs : o # self => pc[o] = "idle"
    BY <2>1, <2>2 DEF SharedInv, RemovalsAlone
  <2>4. CASE Return(self, "error") /\ UNCHANGED <<dirs, files>>
    BY <2>4, <1>SharedReturn DEF BaseInv
  <2>5. CASE ~(Return(self, "error") /\ UNCHANGED <<dirs, files>>)
    <3>1. /\ UNCHANGED <<pc, job>> \/ Continue(self, "scan", j)
          /\ \/ UNCHANGED files
             \/ \E f \in FileNames : files' = [files EXCEPT ![<<p, v, f>>] = "none"]
          /\ \/ dirs' = dirs /\ <<p, v>> \in dirs
             \/ /\ dirs' = dirs \ {<<p, v>>}
                /\ \A f \in FileNames : files'[<<p, v, f>>] = "none"
      BY <2>0, <2>5 DEF RemoveFile, RemoveDir
    <3>2. /\ pc'[self] \in {"scan", "rmdir"} /\ job'[self] = j
          /\ \A o \in Procs : o # self => pc'[o] = pc[o] /\ job'[o] = job[o]
      BY ZenonT(60), <2>1, <3>1, <1>ContinueSelf DEF BaseInv
    <3>3. RemovalsAlone'
      <4>1. KeepsCommand(self)
        BY <2>1, <2>2, <3>2 DEF KeepsCommand
      <4> QED
        BY <4>1, <1>SharedControl DEF SharedInv
    <3>4. \A q \in Projects, w \in Versions, f \in FileNames :
             \/ files'[<<q, w, f>>] = files[<<q, w, f>>]
             \/ <<q, w>> = <<p, v>> /\ files'[<<q, w, f>>] = "none"
      BY <2>1, <3>1
    <3>5. \A o \in Procs, q \in Projects, w \in Versions : ~Copying(o, q, w)'
      BY <2>3, <3>2 DEF Copying, FileNames
    <3>6. OneCopier(p, v)
      BY <2>1 DEF SharedInv
    <3>7. \A f \in FileNames : files'[<<p, v, f>>] \in {files[<<p, v, f>>], "none"}
      BY <2>1, <3>4
    <3>8. <<p, v>> \notin dirs' =>
             \A f \in FileNames : files'[<<p, v, f>>] = "none"
      BY ZenonT(60), <3>1
    <3>9. OneCopier(p, v)'
      <4>1. \A o \in Procs : ~Copying(o, p, v)'
        BY <2>1, <3>5
      <4>2. \A f, g \in FileNames :
               files'[<<p, v, f>>] \in Builds /\ files'[<<p, v, g>>] \in Builds =>
                  files'[<<p, v, f>>] = files'[<<p, v, g>>]
        BY <3>6, <3>7, BuildsAssumption DEF OneCopier
      <4> QED
        BY <3>8, <4>1, <4>2 DEF OneCopier
    <3>10. \A q \in Projects, w \in Versions : <<q, w>> # <<p, v>> =>
             /\ ~Copying(self, q, w)'
             /\ <<q, w>> \in dirs' <=> <<q, w>> \in dirs
             /\ \A f \in FileNames : files'[<<q, w, f>>] = files[<<q, w, f>>]
      <4>1. \A q \in Projects, w \in Versions : <<q, w>> # <<p, v>> =>
               (<<q, w>> \in dirs' <=> <<q, w>> \in dirs)
        BY ZenonT(60), <3>1
      <4> QED
        BY <3>4, <3>5, <4>1
    <3> QED
      BY <2>1, <3>2, <3>3, <3>9, <3>10, <1>SharedAtDirectory
  <2> QED
    BY <2>4, <2>5
<1>1. CASE UNCHANGED vars
  <2>1. UNCHANGED <<pc, job, dirs, files>>
    BY <1>1 DEF vars
  <2> QED
    BY SMTT(40), <2>1 DEF SharedInv, RemovalsAlone, OneCopier, Copying
<1>2. CASE SharedNext
  <2>1. PICK self \in Procs :
           \/ ~RemovalRuns /\ StartPublish(self)
           \/ AllIdle /\ StartRemove(self)
           \/ Step(self) \/ Fault(self)
    BY <1>2 DEF SharedNext
  <2>2. CASE \/ ~RemovalRuns /\ StartPublish(self)
             \/ AllIdle /\ StartRemove(self)
    BY <2>2, <1>SharedStarts
  <2>3. CASE Step(self)
    BY <2>3, <1>SharedOpenIndex, <1>SharedOpenVersions, <1>SharedMkdir, <1>SharedWriteFile,
       <1>SharedRemoveScan, <1>SharedRemoveFiles, <1>SharedWrites DEF Step
  <2>4. CASE Fault(self)
    BY <2>4, <1>SharedAddFaults, <1>SharedWrites DEF Fault
  <2> QED
    BY <2>1, <2>2, <2>3, <2>4
<1> QED
  BY <1>1, <1>2

\* Any number of `add', `yank' and `init' commands side by side, each of which
\* may fail or be killed at any step, never mix two archives in a version
\* directory, and neither do removals that have the tree to themselves.
THEOREM ArchivesNeverMix == SharedSpec => []OneArchivePerDirectory
<1>1. [SharedNext]_vars => [Next]_vars
  BY DEF SharedNext, Next, Start
<1>2. Init => BaseInv /\ SharedInv
  BY BaseInit, SharedInit
<1>3. BaseInv /\ SharedInv /\ [SharedNext]_vars => (BaseInv /\ SharedInv)'
  BY <1>1, BaseNext, SharedNextStep
<1>4. BaseInv /\ SharedInv => OneArchivePerDirectory
  <2> SUFFICES ASSUME BaseInv, SharedInv, NEW d \in dirs, NEW f \in FileNames, NEW g \in FileNames,
                      files[<<d[1], d[2], f>>] \in Builds, files[<<d[1], d[2], g>>] \in Builds
               PROVE  files[<<d[1], d[2], f>>] = files[<<d[1], d[2], g>>]
    BY DEF OneArchivePerDirectory
  <2>1. d[1] \in Projects /\ d[2] \in Versions
    BY DEF BaseInv, DiskInv
  <2> QED
    BY ZenonT(60), <2>1 DEF SharedInv, OneCopier
<1> QED
  BY <1>2, <1>3, <1>4, PTL DEF SharedSpec
=============================================================================
