---------------------------- MODULE VersionSets ----------------------------
(***************************************************************************)
(* The version sets the solver hands to PubGrub (DiscreteHashSet): a       *)
(* candidate is known by its position, and a set of positions is given by  *)
(* its members or by what is not in it.                                    *)
(***************************************************************************)
EXTENDS Naturals, FiniteSets

Finite(S) == [kind |-> "finite", set |-> S]
CoFinite(S) == [kind |-> "cofinite", set |-> S]

IsVersionSet(s) ==
    \E S \in SUBSET Nat : IsFiniteSet(S) /\ s \in {Finite(S), CoFinite(S)}

empty == Finite({})
singleton(v) == Finite({v})

complement(s) == IF s.kind = "finite" THEN CoFinite(s.set) ELSE Finite(s.set)

contains(s, v) == IF s.kind = "finite" THEN v \in s.set ELSE v \notin s.set

\* Faulty variant: two sets of exclusions are intersected like sets of members.
intersectionOfExcluded(s, t) ==
    IF s.kind = "finite" THEN Finite({v \in s.set : contains(t, v)})
    ELSE IF t.kind = "finite" THEN Finite(t.set \ s.set)
    ELSE CoFinite(s.set \cap t.set)

intersection(s, t) ==
    IF s.kind = "finite" THEN Finite({v \in s.set : contains(t, v)})
    ELSE IF t.kind = "finite" THEN Finite(t.set \ s.set)
    ELSE CoFinite(s.set \cup t.set)
=============================================================================
