------------------------- MODULE VersionSetProofs --------------------------
(***************************************************************************)
(* The laws PubGrub relies on hold of DiscreteHashSet for all positions.   *)
(***************************************************************************)
EXTENDS VersionSets, FiniteSetTheorems, TLAPS

\* Complement and intersection are what their names say, member by member.
THEOREM MembersOfOperations ==
    ASSUME NEW s, IsVersionSet(s), NEW t, IsVersionSet(t), NEW v \in Nat
    PROVE  /\ ~contains(empty, v)
           /\ \A u \in Nat : contains(singleton(u), v) <=> v = u
           /\ contains(complement(s), v) <=> ~contains(s, v)
           /\ contains(intersection(s, t), v) <=> contains(s, v) /\ contains(t, v)
  <1>1. PICK S \in SUBSET Nat : IsFiniteSet(S) /\ s \in {Finite(S), CoFinite(S)}
    BY DEF IsVersionSet
  <1>2. PICK T \in SUBSET Nat : IsFiniteSet(T) /\ t \in {Finite(T), CoFinite(T)}
    BY DEF IsVersionSet
  <1>3. ~contains(empty, v) /\ \A u \in Nat : contains(singleton(u), v) <=> v = u
    BY DEF contains, empty, singleton, Finite
  <1>4. contains(complement(s), v) <=> ~contains(s, v)
    BY <1>1 DEF contains, complement, Finite, CoFinite
  <1>5. contains(intersection(s, t), v) <=> contains(s, v) /\ contains(t, v)
    <2>1. CASE s = Finite(S)
      BY <2>1, <1>2 DEF contains, intersection, Finite, CoFinite
    <2>2. CASE s = CoFinite(S)
      BY <2>2, <1>2 DEF contains, intersection, Finite, CoFinite
    <2> QED BY <1>1, <2>1, <2>2
  <1> QED BY <1>3, <1>4, <1>5

\* The operations stay within the sets that are represented.
THEOREM OperationsAreSets ==
    ASSUME NEW s, IsVersionSet(s), NEW t, IsVersionSet(t)
    PROVE  IsVersionSet(complement(s)) /\ IsVersionSet(intersection(s, t))
  <1>1. PICK S \in SUBSET Nat : IsFiniteSet(S) /\ s \in {Finite(S), CoFinite(S)}
    BY DEF IsVersionSet
  <1>2. PICK T \in SUBSET Nat : IsFiniteSet(T) /\ t \in {Finite(T), CoFinite(T)}
    BY DEF IsVersionSet
  <1>3. IsVersionSet(complement(s))
    BY <1>1 DEF IsVersionSet, complement, Finite, CoFinite
  <1>4. IsVersionSet(intersection(s, t))
    <2>1. CASE s = Finite(S)
      <3> DEFINE I == {v \in S : contains(t, v)}
      <3>1. intersection(s, t) = Finite(I)
        BY <2>1 DEF intersection, Finite
      <3>2. IsFiniteSet(I) /\ I \in SUBSET Nat
        BY <1>1, FS_Subset
      <3> HIDE DEF I
      <3> QED BY <3>1, <3>2 DEF IsVersionSet
    <2>2. CASE s = CoFinite(S) /\ t = Finite(T)
      <3>1. intersection(s, t) = Finite(T \ S)
        BY <2>2 DEF intersection, Finite, CoFinite
      <3>2. IsFiniteSet(T \ S) /\ T \ S \in SUBSET Nat
        BY <1>2, FS_Difference
      <3> QED BY <3>1, <3>2 DEF IsVersionSet
    <2>3. CASE s = CoFinite(S) /\ t = CoFinite(T)
      <3>1. intersection(s, t) = CoFinite(S \cup T)
        BY <2>3 DEF intersection, Finite, CoFinite
      <3>2. IsFiniteSet(S \cup T) /\ S \cup T \in SUBSET Nat
        BY <1>1, <1>2, FS_Union
      <3> QED BY <3>1, <3>2 DEF IsVersionSet
    <2> QED BY <1>1, <1>2, <2>1, <2>2, <2>3
  <1> QED BY <1>3, <1>4

\* A finite set of positions leaves one out.
LEMMA SomePositionOutside ==
    ASSUME NEW S \in SUBSET Nat, IsFiniteSet(S)
    PROVE  \E v \in Nat : v \notin S
  <1> SUFFICES ASSUME Nat \subseteq S PROVE FALSE
    OBVIOUS
  <1> DEFINE n == Cardinality(S)
  <1>1. n \in Nat
    BY FS_CardinalityType
  <1>2. Cardinality(0..n) = n + 1
    BY <1>1, FS_Interval
  <1>3. Cardinality(0..n) <= n
    BY <1>1, FS_Subset
  <1> QED BY <1>1, <1>2, <1>3

\* Sets with the same members are equal, so comparing representations, as the
\* derived Eq does, compares sets.
THEOREM EqualityIsExtensional ==
    ASSUME NEW s, IsVersionSet(s), NEW t, IsVersionSet(t),
           \A v \in Nat : contains(s, v) <=> contains(t, v)
    PROVE  s = t
  <1>1. PICK S \in SUBSET Nat : IsFiniteSet(S) /\ s \in {Finite(S), CoFinite(S)}
    BY DEF IsVersionSet
  <1>2. PICK T \in SUBSET Nat : IsFiniteSet(T) /\ t \in {Finite(T), CoFinite(T)}
    BY DEF IsVersionSet
  <1>3. PICK v \in Nat : v \notin S \cup T
    BY <1>1, <1>2, FS_Union, SomePositionOutside
  <1>4. s.kind = t.kind
    BY <1>1, <1>2, <1>3 DEF contains, Finite, CoFinite
  <1>5. S = T
    <2>1. CASE s = Finite(S) /\ t = Finite(T)
      <3>1. \A u \in Nat : u \in S <=> u \in T
        BY <2>1 DEF contains, Finite
      <3> QED BY <3>1
    <2>2. CASE s = CoFinite(S) /\ t = CoFinite(T)
      <3>1. \A u \in Nat : u \in S <=> u \in T
        BY <2>2 DEF contains, CoFinite
      <3> QED BY <3>1
    <2> QED BY <1>1, <1>2, <1>4, <2>1, <2>2 DEF Finite, CoFinite
  <1> QED BY <1>1, <1>2, <1>4, <1>5 DEF Finite, CoFinite
=============================================================================
