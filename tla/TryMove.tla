------------------------------- MODULE TryMove -------------------------------
(***************************************************************************)
(* `try_move_files`: move several files or directories at once, through a  *)
(* temporary directory, undoing everything when a move fails.              *)
(*                                                                         *)
(* Three loops go forward (sources out of the way, destinations out of the *)
(* way, sources to destinations) and three go back.  One step of the model *)
(* is one `move_fs_item`.  A path on another device than the temporary     *)
(* directory cannot be renamed into it: it is copied and then deleted, and *)
(* an error may leave the copy half done or the original half deleted.     *)
(***************************************************************************)
EXTENDS Naturals, Sequences

CONSTANTS
    Paths,          \* the paths a caller may name; none lies inside another
    Directories,    \* TRUE: the items are non-empty directories, FALSE: files
    MaxMoves,       \* bound on the number of pairs
    MaxFaults       \* bound on the I/O errors of a call

ASSUME PathsAssumption ==
    /\ {"nothing", "partial"} \cap Paths = {}
    /\ ({"src", "trg"} \X (1 .. MaxMoves)) \cap Paths = {}
ASSUME DirectoriesAssumption == Directories \in BOOLEAN
ASSUME BoundsAssumption == MaxMoves \in Nat /\ MaxFaults \in Nat

VARIABLES
    moves,      \* the argument: a sequence of <<source, destination>> pairs
    remote,     \* the paths on another device than the temporary directory
    start,      \* start[p]: what was at path p at the call
    fs,         \* fs[a]: what is at place a now
    pc,         \* the loop being executed
    i,          \* its index
    result,     \* what the call returned
    faults      \* number of I/O errors so far

vars == <<moves, remote, start, fs, pc, i, result, faults>>

\* The names of the temporary directory: src_i and trg_i.
Slots == {"src", "trg"} \X (1 .. MaxMoves)

Places == Paths \cup Slots

\* The item that was at path p at the call is called p.
Contents == Paths \cup {"nothing", "partial"}

Results == {"running", "ok", "recovered", "catastrophic"}

Init ==
    /\ moves \in UNION {[1 .. n -> Paths \X Paths] : n \in 1 .. MaxMoves}
    /\ remote \in SUBSET Paths
    /\ start \in {f \in [Paths -> Contents] : \A p \in Paths : f[p] \in {p, "nothing"}}
    /\ fs = [a \in Places |-> IF a \in Paths THEN start[a] ELSE "nothing"]
    /\ pc = "takeSource"
    /\ i = 1
    /\ result = "running"
    /\ faults = 0

Exists(a) == fs[a] # "nothing"

\* `rename` of a directory, and `create_dir` of a copy, refuse a place that is
\* taken; a file is replaced.
Accepts(b) == Directories => ~Exists(b)

CanMove(a, b) == Exists(a) /\ Accepts(b)

Moved(a, b) == [fs EXCEPT ![b] = fs[a], ![a] = "nothing"]

\* What an I/O error during the move of a to b may leave behind: nothing has
\* happened; or, across devices, b holds a part of a, or b holds all of a and
\* a is still there, or (a directory) is partly deleted.
Broken(a, b) ==
    {fs} \cup
    IF CanMove(a, b) /\ {a, b} \cap remote # {}
    THEN {[fs EXCEPT ![b] = "partial"], [fs EXCEPT ![b] = fs[a]]} \cup
         (IF Directories THEN {[fs EXCEPT ![b] = fs[a], ![a] = "partial"]} ELSE {})
    ELSE {}

\* The temporary directory is deleted when the call returns.
Return(f, r) ==
    /\ fs' = [a \in Places |-> IF a \in Paths THEN f[a] ELSE "nothing"]
    /\ pc' = "done"
    /\ result' = r
    /\ UNCHANGED i

GoTo(f, loop) ==
    /\ fs' = f
    /\ pc' = loop
    /\ i' = 1
    /\ UNCHANGED result

\* The loop goes on with the next pair, or it is over and so continues with
\* `next` or returns it.
Continue(f, next) ==
    IF i < Len(moves)
    THEN fs' = f /\ i' = i + 1 /\ UNCHANGED <<pc, result>>
    ELSE IF next \in Results THEN Return(f, next) ELSE GoTo(f, next)

Abort(f, undo) == IF undo \in Results THEN Return(f, undo) ELSE GoTo(f, undo)

\* One `move_fs_item` of a loop, from a to b.
Move(a, b, next, undo) ==
    /\ UNCHANGED <<moves, remote, start>>
    /\ \/ /\ CanMove(a, b)
          /\ Continue(Moved(a, b), next)
          /\ UNCHANGED faults
       \/ /\ ~CanMove(a, b)
          /\ Abort(fs, undo)
          /\ UNCHANGED faults
       \/ /\ faults < MaxFaults
          /\ faults' = faults + 1
          /\ \E f \in Broken(a, b) : Abort(f, undo)

MoveIfPresent(a, b, next, undo) ==
    IF Exists(a)
    THEN Move(a, b, next, undo)
    ELSE Continue(fs, next) /\ UNCHANGED <<moves, remote, start, faults>>

\* Sources are moved out of the way.
TakeSource ==
    /\ pc = "takeSource"
    /\ Move(moves[i][1], <<"src", i>>, "takeTarget", "undoSource")

\* Destinations that exist are moved out of the way.
TakeTarget ==
    /\ pc = "takeTarget"
    /\ MoveIfPresent(moves[i][2], <<"trg", i>>, "place", "undoTarget")

\* Faulty variant: an error leaves the sources that were placed.
PlaceKeepsPlaced ==
    /\ pc = "place"
    /\ Move(<<"src", i>>, moves[i][2], "ok", "undoTarget")

\* Sources are moved to their destinations.
Place ==
    /\ pc = "place"
    /\ Move(<<"src", i>>, moves[i][2], "ok", "undoPlace")

\* Faulty variant: the old destinations are not put back.
UndoPlaceSkipsTargets ==
    /\ pc = "undoPlace"
    /\ MoveIfPresent(moves[i][2], <<"src", i>>, "undoSource", "catastrophic")

\* Recovery of a failed placement: destinations back to src_i.
UndoPlace ==
    /\ pc = "undoPlace"
    /\ MoveIfPresent(moves[i][2], <<"src", i>>, "undoTarget", "catastrophic")

\* Recovery: old destinations back to their paths.
UndoTarget ==
    /\ pc = "undoTarget"
    /\ MoveIfPresent(<<"trg", i>>, moves[i][2], "undoSource", "catastrophic")

\* Faulty variant: an error of the recovery is not reported.
UndoSourceQuiet ==
    /\ pc = "undoSource"
    /\ MoveIfPresent(<<"src", i>>, moves[i][1], "recovered", "recovered")

\* Recovery: sources back to their paths.
UndoSource ==
    /\ pc = "undoSource"
    /\ MoveIfPresent(<<"src", i>>, moves[i][1], "recovered", "catastrophic")

Next == TakeSource \/ TakeTarget \/ Place \/ UndoPlace \/ UndoTarget \/ UndoSource

Spec == Init /\ [][Next]_vars

-----------------------------------------------------------------------------
(* Properties *)

\* What the caller sees: the paths change when the call returns.
Contract == INSTANCE MoveContract WITH
    paths <- IF pc = "done" THEN [p \in Paths |-> fs[p]] ELSE start

\* A call returns Ok with every source at its destination, or RecoveredIO with
\* every path as it was at the call, or CatastrophicIO.
ImplementsContract == Contract!Spec

\* Until the call returns, and when it returns RecoveredIO, every item that was
\* there at the call is whole somewhere: a kill between any two moves, in either
\* direction, loses nothing.
NothingLost ==
    result \in {"running", "recovered"} =>
        \A p \in Paths : start[p] = p => \E a \in Places : fs[a] = p

\* The call of a careful caller: all sources exist, and no path is the source or
\* the destination of two pairs.
Careful ==
    /\ \A k \in DOMAIN moves : start[moves[k][1]] # "nothing"
    /\ \A j, k \in DOMAIN moves :
        moves[j][1] = moves[k][1] \/ moves[j][2] = moves[k][2] => j = k

\* On one device a single I/O error is always undone: a careful call never ends
\* in CatastrophicIO.
OneFaultIsUndone == remote = {} /\ Careful /\ faults <= 1 => result # "catastrophic"
=============================================================================
