---------------------------- MODULE MoveContract ----------------------------
(***************************************************************************)
(* What `try_move_files` promises its callers, as one step: every source   *)
(* arrives at its destination, or nothing changes and the error says so,   *)
(* or the error admits that the paths may be in an inconsistent state.     *)
(***************************************************************************)
EXTENDS Naturals, Sequences

CONSTANT Paths

VARIABLES
    moves,      \* the sequence of <<source, destination>> pairs
    paths,      \* paths[p]: what is at p, "nothing" when p does not exist
    result

vars == <<moves, paths, result>>

Contents == Paths \cup {"nothing", "partial"}

\* Where everything is once all the pairs of ms have been moved.
Moved(before, ms) ==
    [p \in Paths |->
        IF \E i \in DOMAIN ms : ms[i][2] = p
        THEN before[ms[CHOOSE i \in DOMAIN ms : ms[i][2] = p][1]]
        ELSE IF \E i \in DOMAIN ms : ms[i][1] = p THEN "nothing" ELSE before[p]]

Init ==
    /\ moves \in Seq(Paths \X Paths)
    /\ paths \in [Paths -> Contents]
    /\ result = "running"

Succeed == result' = "ok" /\ paths' = Moved(paths, moves)

Recover == result' = "recovered" /\ UNCHANGED paths

GiveUp == result' = "catastrophic" /\ paths' \in [Paths -> Contents]

Next ==
    /\ result = "running"
    /\ Succeed \/ Recover \/ GiveUp
    /\ UNCHANGED moves

Spec == Init /\ [][Next]_vars
=============================================================================
