---------------------------- MODULE TryMoveProofs ----------------------------
(***************************************************************************)
(* `try_move_files` keeps its contract, for any number of pairs, sources,  *)
(* destinations, devices and I/O errors, where a place that is taken is    *)
(* not replaced (Directories).                                             *)
(***************************************************************************)
EXTENDS TryMove, TLAPS

\* A leaf is Zenon's unless it names another prover.
USE Zenon

Pairs == 1 .. Len(moves)
Source(k) == moves[k][1]
Target(k) == moves[k][2]
Src(k) == <<"src", k>>
Trg(k) == <<"trg", k>>

IsSource(p) == \E k \in Pairs : Source(k) = p
IsTarget(p) == \E k \in Pairs : Target(k) = p

Loops == {"takeSource", "takeTarget", "place", "undoPlace", "undoTarget", "undoSource"}

-----------------------------------------------------------------------------
(* The inductive invariant: for each loop, what the files f are like when  *)
(* the loop has come to pair n.                                            *)

\* Every item is whole somewhere, and the slots of no pair are not used.
AllThere(f) ==
    /\ \A p \in Paths : start[p] = p => \E a \in Places : f[a] = p
    /\ \A k \in (1 .. MaxMoves) \ Pairs : f[Src(k)] = "nothing" /\ f[Trg(k)] = "nothing"

\* Forward, everything is where it should be by now.
TakingSources(f, n) ==
    /\ \A k \in Pairs : k < n => f[Src(k)] = Source(k) /\ start[Source(k)] = Source(k)
    /\ \A k \in Pairs : k >= n => f[Src(k)] = "nothing"
    /\ \A k \in Pairs : f[Trg(k)] = "nothing"
    /\ \A p \in Paths : f[p] = IF \E k \in Pairs : k < n /\ Source(k) = p
                               THEN "nothing" ELSE start[p]

TakingTargets(f, n) ==
    /\ \A k \in Pairs : f[Src(k)] = Source(k) /\ start[Source(k)] = Source(k)
    /\ \A k \in Pairs : f[Trg(k)] \in {"nothing", start[Target(k)]}
    /\ \A k \in Pairs : k >= n => f[Trg(k)] = "nothing"
    /\ \A p \in Paths : f[p] = IF IsSource(p) \/ \E k \in Pairs : k < n /\ Target(k) = p
                               THEN "nothing" ELSE start[p]

\* Paths that are no destination, while the sources are out of the way.
Others(f) == \A p \in Paths : ~IsTarget(p) => f[p] = IF IsSource(p) THEN "nothing" ELSE start[p]

Placing(f, n) ==
    /\ \A k \in Pairs : start[Source(k)] = Source(k)
    /\ \A k \in Pairs : f[Src(k)] = IF k < n THEN "nothing" ELSE Source(k)
    /\ \A k \in Pairs : f[Trg(k)] \in {"nothing", start[Target(k)]}
    /\ Others(f)
    /\ \A k \in Pairs : k < n => f[Target(k)] = Source(k)
    /\ \A k \in Pairs : f[Target(k)] # "nothing" =>
                            \E j \in Pairs : j < n /\ Target(j) = Target(k)

\* Backward, what an error may have left in two places, or in part, is in the
\* way of the move that would put it back.
First(k) == \A j \in Pairs : j < k => Target(j) # Target(k)

UndoingPlace(f, n) ==
    /\ \A k \in Pairs : f[Src(k)] \in {"nothing", start[Source(k)], "partial"}
    /\ \A k \in Pairs : f[Trg(k)] \in {"nothing", start[Target(k)]}
    /\ Others(f)
    /\ \A k \in Pairs : k < n => f[Target(k)] = "nothing"
    /\ \A k \in Pairs : f[Src(k)] = "partial" => k >= n /\ First(k) /\ f[Target(k)] # "nothing"
    /\ \A k \in Pairs : First(k) /\ f[Target(k)] # "nothing" /\ f[Src(k)] = "nothing"
                            => f[Target(k)] = start[Source(k)]

UndoingTargets(f, n) ==
    /\ \A k \in Pairs : f[Src(k)] \in {"nothing", start[Source(k)]}
    /\ \A k \in Pairs : f[Trg(k)] \in {"nothing", start[Target(k)], "partial"}
    /\ \A k \in Pairs : k < n => f[Trg(k)] = "nothing"
    /\ \A k \in Pairs : f[Trg(k)] = "partial" => f[Target(k)] # "nothing"
    /\ \A p \in Paths : f[p] \in {"nothing", start[p], "partial"}
    /\ \A p \in Paths : f[p] = "partial" =>
                            \E k \in Pairs : Target(k) = p /\ f[Trg(k)] # "nothing"

UndoingSources(f, n) ==
    /\ \A k \in Pairs : f[Src(k)] \in {"nothing", start[Source(k)], "partial"}
    /\ \A k \in Pairs : f[Trg(k)] = "nothing"
    /\ \A k \in Pairs : k < n => f[Src(k)] = "nothing"
    /\ \A k \in Pairs : f[Src(k)] = "partial" => f[Source(k)] # "nothing"
    /\ \A p \in Paths : f[p] \in {"nothing", start[p], "partial"}
    /\ \A p \in Paths : f[p] = "partial" =>
                            \E k \in Pairs : Source(k) = p /\ f[Src(k)] # "nothing"

Good(f, loop, n) ==
    /\ f \in [Places -> Contents] /\ loop \in Loops /\ n \in Pairs
    /\ AllThere(f)
    /\ loop = "takeSource" => TakingSources(f, n)
    /\ loop = "takeTarget" => TakingTargets(f, n)
    /\ loop = "place" => Placing(f, n)
    /\ loop = "undoPlace" => UndoingPlace(f, n)
    /\ loop = "undoTarget" => UndoingTargets(f, n)
    /\ loop = "undoSource" => UndoingSources(f, n)

\* What the call may come to.
Ended(f, r) ==
    /\ f \in [Places -> Contents] /\ r \in {"ok", "recovered", "catastrophic"}
    /\ r = "ok" => \A p \in Paths : f[p] = Contract!Moved(start, moves)[p]
    /\ r = "recovered" => \A p \in Paths : f[p] = start[p]

Arguments ==
    /\ Len(moves) \in 1 .. MaxMoves /\ moves \in [Pairs -> Paths \X Paths]
    /\ start \in [Paths -> Contents] /\ \A p \in Paths : start[p] \in {p, "nothing"}

MoveInv ==
    /\ Arguments
    /\ \/ result = "running" /\ Good(fs, pc, i)
       \/ pc = "done" /\ Ended(fs, result)

-----------------------------------------------------------------------------
(* Places and moves *)

LEMMA PairFacts ==
    ASSUME Arguments
    PROVE  /\ Len(moves) \in Nat /\ 1 \in Pairs
           /\ \A k \in Pairs : k \in Nat /\ 1 <= k /\ k <= Len(moves)
           /\ \A k \in Pairs : k < Len(moves) => k + 1 \in Pairs
           /\ \A j, k \in Pairs : j < k + 1 <=> j < k \/ j = k
  BY SMT, BoundsAssumption DEF Arguments, Pairs

LEMMA PlaceFacts ==
    ASSUME Arguments, NEW k \in Pairs
    PROVE  /\ Source(k) \in Paths /\ Target(k) \in Paths
           /\ Source(k) \in Places /\ Target(k) \in Places
           /\ Src(k) \in Places /\ Trg(k) \in Places
           /\ \A p \in Paths : Src(k) # p /\ Trg(k) # p
           /\ \A j \in Pairs : Src(k) # Trg(j)
           /\ \A j \in Pairs : (Src(j) = Src(k) => j = k) /\ (Trg(j) = Trg(k) => j = k)
  <1>1. Source(k) \in Paths /\ Target(k) \in Paths
    BY DEF Arguments, Source, Target
  <1>2. k \in 1 .. MaxMoves
    BY SMT, BoundsAssumption DEF Arguments, Pairs
  <1>3. Src(k) \in Slots /\ Trg(k) \in Slots
    BY <1>2 DEF Src, Trg, Slots
  <1>4. \A p \in Paths : Src(k) # p /\ Trg(k) # p
    BY <1>3, PathsAssumption DEF Slots
  <1> QED BY <1>1, <1>3, <1>4 DEF Places, Src, Trg

\* The slots of other pairs are places too, and no paths.
LEMMA SlotFacts ==
    ASSUME Arguments
    PROVE  /\ \A p \in Paths : p # "nothing" /\ p # "partial" /\ p \in Places
           /\ \A k \in (1 .. MaxMoves) \ Pairs :
                 /\ Src(k) \in Places /\ Trg(k) \in Places
                 /\ \A p \in Paths : Src(k) # p /\ Trg(k) # p
                 /\ \A j \in Pairs : /\ Src(k) # Trg(j) /\ Src(k) # Src(j)
                                     /\ Trg(k) # Trg(j) /\ Trg(k) # Src(j)
           /\ \A a \in Places : \/ a \in Paths
                                \/ \E k \in 1 .. MaxMoves : a = Src(k) \/ a = Trg(k)
  <1>1. ASSUME NEW k \in (1 .. MaxMoves) \ Pairs
        PROVE  /\ Src(k) \in Slots /\ Trg(k) \in Slots
               /\ \A p \in Paths : Src(k) # p /\ Trg(k) # p
    BY PathsAssumption DEF Src, Trg, Slots
  <1>2. ASSUME NEW k \in (1 .. MaxMoves) \ Pairs, NEW j \in Pairs
        PROVE  Src(k) # Trg(j) /\ Src(k) # Src(j) /\ Trg(k) # Trg(j) /\ Trg(k) # Src(j)
    BY DEF Src, Trg
  <1>3. ASSUME NEW a \in Slots
        PROVE  \E k \in 1 .. MaxMoves : a = Src(k) \/ a = Trg(k)
    BY SMT DEF Src, Trg, Slots
  <1> QED BY <1>1, <1>2, <1>3, PathsAssumption DEF Places

\* All of the item at a is now at b.
MovedTo(f, a, b) ==
    /\ f \in [Places -> Contents] /\ \A c \in Places : c # a /\ c # b => f[c] = fs[c]
    /\ fs[a] # "nothing" /\ fs[b] = "nothing"
    /\ f[a] = "nothing" /\ f[b] = fs[a]

\* What an error may leave of a move across devices.
HalfMoved(f, a, b) ==
    /\ f \in [Places -> Contents] /\ \A c \in Places : c # a /\ c # b => f[c] = fs[c]
    /\ fs[a] # "nothing" /\ fs[b] = "nothing"
    /\ \/ f[a] = fs[a] /\ f[b] \in {"partial", fs[a]}
       \/ f[a] = "partial" /\ f[b] = fs[a]

LEMMA MoveCases ==
    ASSUME Directories = TRUE, fs \in [Places -> Contents],
           NEW a \in Places, NEW b \in Places, a # b, NEW next, NEW undo,
           Move(a, b, next, undo)
    PROVE  /\ UNCHANGED <<moves, remote, start>>
           /\ \/ \E f : MovedTo(f, a, b) /\ Continue(f, next)
              \/ \E f : (f = fs \/ HalfMoved(f, a, b)) /\ Abort(f, undo)
  <1>1. Accepts(b) => fs[b] = "nothing"
    BY DEF Accepts, Exists
  <1>2. CASE CanMove(a, b) /\ Continue(Moved(a, b), next)
    <2> DEFINE f == Moved(a, b)
    <2>1. MovedTo(f, a, b)
      BY <1>1, <1>2 DEF MovedTo, Moved, CanMove, Exists, Contents
    <2>2. Continue(f, next)
      BY <1>2
    <2> HIDE DEF f
    <2> QED BY <2>1, <2>2 DEF Move
  <1>3. CASE Abort(fs, undo)
    BY <1>3 DEF Move
  <1>4. ASSUME NEW f \in Broken(a, b), Abort(f, undo)
        PROVE  f = fs \/ HalfMoved(f, a, b)
    <2>1. CASE f = fs
      BY <2>1
    <2>2. CASE CanMove(a, b)
               /\ f \in {[fs EXCEPT ![b] = "partial"], [fs EXCEPT ![b] = fs[a]],
                         [fs EXCEPT ![b] = fs[a], ![a] = "partial"]}
      BY <1>1, <2>2 DEF HalfMoved, CanMove, Exists, Contents
    <2> QED BY <2>1, <2>2, <1>4 DEF Broken
  <1>5. UNCHANGED <<moves, remote, start>>
    BY DEF Move
  <1> QED BY <1>2, <1>3, <1>4, <1>5 DEF Move

\* Neither a move nor half a move loses an item, or uses the slots of no pair.
LEMMA AllThereKept ==
    ASSUME Arguments, AllThere(fs), fs \in [Places -> Contents], NEW f,
           NEW a \in Places, NEW b \in Places, a # b,
           \A k \in (1 .. MaxMoves) \ Pairs : a # Src(k) /\ a # Trg(k) /\ b # Src(k) /\ b # Trg(k),
           MovedTo(f, a, b) \/ HalfMoved(f, a, b)
    PROVE  AllThere(f)
  <1>1. ASSUME NEW p \in Paths, start[p] = p
        PROVE  \E c \in Places : f[c] = p
    <2>1. PICK c \in Places : fs[c] = p
      BY <1>1 DEF AllThere
    <2>2. p # "nothing"
      BY SlotFacts
    <2>3. c # b
      BY <2>1, <2>2 DEF MovedTo, HalfMoved
    <2> QED BY <2>1, <2>3 DEF MovedTo, HalfMoved
  <1>2. ASSUME NEW k \in (1 .. MaxMoves) \ Pairs
        PROVE  f[Src(k)] = "nothing" /\ f[Trg(k)] = "nothing"
    BY SMT, SlotFacts DEF MovedTo, HalfMoved, AllThere
  <1> QED BY <1>1, <1>2 DEF AllThere

-----------------------------------------------------------------------------
(* How a step ends *)

LEMMA ReturnKeeps ==
    ASSUME Arguments, UNCHANGED <<moves, start>>, NEW f, NEW r, Ended(f, r), Return(f, r)
    PROVE  MoveInv'
  <1>1. /\ fs' = [a \in Places |-> IF a \in Paths THEN f[a] ELSE "nothing"]
        /\ pc' = "done" /\ result' = r
    BY DEF Return
  <1>2. fs' \in [Places -> Contents] /\ \A p \in Paths : fs'[p] = f[p]
    BY <1>1 DEF Ended, Contents, Places
  <1>3. Contract!Moved(start', moves') = Contract!Moved(start, moves)
    BY DEF Contract!Moved
  <1>4. Ended(fs, result)'
    BY <1>1, <1>2, <1>3 DEF Ended
  <1>5. Arguments'
    BY DEF Arguments, Pairs
  <1> QED BY <1>1, <1>4, <1>5 DEF MoveInv

LEMMA LoopKeeps ==
    ASSUME Arguments, UNCHANGED <<moves, start>>, result' = "running", Good(fs', pc', i')
    PROVE  MoveInv'
  <1>1. Arguments'
    BY DEF Arguments, Pairs
  <1>2. Good(fs, pc, i)'
    BY SMTT(40) DEF Good, AllThere, TakingSources, TakingTargets, Placing, UndoingPlace, UndoingTargets,
           UndoingSources, Others, First, IsSource, IsTarget, Pairs, Source, Target
  <1> QED BY <1>1, <1>2 DEF MoveInv

LEMMA AbortKeeps ==
    ASSUME Arguments, result = "running", UNCHANGED <<moves, start>>, NEW f, NEW undo,
           Abort(f, undo),
           \/ undo = "catastrophic" /\ Ended(f, undo)
           \/ undo \in Loops /\ Good(f, undo, 1)
    PROVE  MoveInv'
  <1>1. CASE undo = "catastrophic" /\ Ended(f, undo)
    BY <1>1, ReturnKeeps DEF Abort, Results
  <1>2. CASE undo \in Loops /\ Good(f, undo, 1)
    BY <1>2, LoopKeeps DEF Abort, GoTo, Results, Loops
  <1> QED BY <1>1, <1>2

LEMMA ContinueKeeps ==
    ASSUME Arguments, result = "running", UNCHANGED <<moves, start>>, NEW f, NEW next,
           Continue(f, next), i \in Pairs,
           i < Len(moves) => Good(f, pc, i + 1),
           i = Len(moves) => \/ next \in {"ok", "recovered"} /\ Ended(f, next)
                             \/ next \in Loops /\ Good(f, next, 1)
    PROVE  MoveInv'
  <1>1. CASE i < Len(moves)
    BY <1>1, LoopKeeps DEF Continue
  <1>2. CASE i = Len(moves)
    <2>1. CASE next \in {"ok", "recovered"} /\ Ended(f, next)
      BY SMT, <1>2, <2>1, ReturnKeeps DEF Continue, Results, Arguments
    <2>2. CASE next \in Loops /\ Good(f, next, 1)
      BY <1>2, <2>2, LoopKeeps DEF Continue, GoTo, Results, Loops, Arguments
    <2> QED BY <1>2, <2>1, <2>2
  <1> QED BY SMT, <1>1, <1>2, PairFacts

-----------------------------------------------------------------------------
(* The loops *)

LEMMA SourceTaken ==
    ASSUME Arguments, i \in Pairs, TakingSources(fs, i), fs \in [Places -> Contents],
           NEW f, MovedTo(f, Source(i), Src(i))
    PROVE  /\ i < Len(moves) => TakingSources(f, i + 1)
           /\ i = Len(moves) => TakingTargets(f, 1)
  <1>0. /\ Source(i) \in Paths /\ Source(i) \in Places /\ Src(i) \in Places
        /\ Src(i) # Source(i)
    BY PlaceFacts
  <1>1. start[Source(i)] = Source(i) /\ f[Src(i)] = Source(i)
    <2>1. fs[Source(i)] # "nothing" /\ f[Src(i)] = fs[Source(i)]
      BY DEF MovedTo
    <2> QED BY <1>0, <2>1 DEF TakingSources, Arguments
  <1>2. ASSUME NEW k \in Pairs, k < i
        PROVE  f[Src(k)] = Source(k) /\ start[Source(k)] = Source(k)
    <2>1. Src(k) # Src(i) /\ Src(k) # Source(i) /\ Src(k) \in Places
      BY SMT, <1>0, <1>2, PlaceFacts, PairFacts
    <2> QED BY <1>2, <2>1 DEF TakingSources, MovedTo
  <1>3. ASSUME NEW k \in Pairs
        PROVE  f[Trg(k)] = "nothing"
    <2>1. Trg(k) # Src(i) /\ Trg(k) # Source(i) /\ Trg(k) \in Places
      BY <1>0, PlaceFacts
    <2> QED BY <2>1 DEF TakingSources, MovedTo
  <1>4. ASSUME NEW k \in Pairs, k > i
        PROVE  f[Src(k)] = "nothing"
    <2>1. Src(k) # Src(i) /\ Src(k) # Source(i) /\ Src(k) \in Places
      BY SMT, <1>0, <1>4, PlaceFacts, PairFacts
    <2> QED BY SMT, <1>4, <2>1, PairFacts DEF TakingSources, MovedTo
  <1>5. ASSUME NEW p \in Paths
        PROVE  f[p] = IF \E k \in Pairs : k < i + 1 /\ Source(k) = p THEN "nothing" ELSE start[p]
    <2>1. p # Src(i) /\ p \in Places
      BY PlaceFacts, SlotFacts
    <2>2. CASE p = Source(i)
      BY <2>2, PairFacts DEF MovedTo
    <2>3. CASE p # Source(i)
      BY SMT, <2>1, <2>3, PairFacts DEF MovedTo, TakingSources
    <2> QED BY <2>2, <2>3
  <1>6. CASE i < Len(moves)
    <2>1. \A k \in Pairs : k < i + 1 => f[Src(k)] = Source(k) /\ start[Source(k)] = Source(k)
      BY <1>1, <1>2, PairFacts
    <2>2. \A k \in Pairs : k >= i + 1 => f[Src(k)] = "nothing"
      BY SMTT(40), <1>4, PairFacts
    <2> QED BY SMT, <1>3, <1>5, <1>6, <2>1, <2>2 DEF TakingSources
  <1>7. CASE i = Len(moves)
    <2>1. \A k \in Pairs : k < i \/ k = i
      BY SMT, <1>7, PairFacts
    <2>2. \A k \in Pairs : f[Src(k)] = Source(k) /\ start[Source(k)] = Source(k)
      BY <1>1, <1>2, <2>1
    <2>3. \A p \in Paths : f[p] = IF IsSource(p) THEN "nothing" ELSE start[p]
      BY <1>5, <2>1, PairFacts DEF IsSource
    <2>4. \A k \in Pairs : ~(k < 1)
      BY SMT, PairFacts
    <2> QED BY SMTT(40), <1>3, <1>7, <2>2, <2>3, <2>4, PairFacts DEF TakingTargets
  <1> QED BY <1>6, <1>7, PairFacts

\* A source that could not be taken is put back, if nothing is in its way.
LEMMA SourceNotTaken ==
    ASSUME Arguments, i \in Pairs, TakingSources(fs, i), fs \in [Places -> Contents],
           NEW f, f = fs \/ HalfMoved(f, Source(i), Src(i))
    PROVE  UndoingSources(f, 1)
  <1>0. /\ Source(i) \in Paths /\ Source(i) \in Places /\ Src(i) \in Places
        /\ Src(i) # Source(i)
    BY PlaceFacts
  <1>1. UndoingSources(fs, 1)
    <2>1. \A k \in Pairs : ~(k < 1) /\ (k < i \/ k >= i)
      BY SMTT(40), PairFacts
    <2>2. \A p \in Paths : fs[p] # "partial"
      BY SlotFacts DEF TakingSources, Arguments
    <2>3. \A k \in Pairs : fs[Src(k)] # "partial"
      BY SMT, <2>1, PlaceFacts, SlotFacts DEF TakingSources
    <2> QED BY <2>1, <2>2, <2>3 DEF TakingSources, UndoingSources
  <1>2. CASE HalfMoved(f, Source(i), Src(i))
    <2>1. fs[Source(i)] = start[Source(i)] /\ f[Source(i)] # "nothing"
      BY <1>0, <1>2 DEF HalfMoved, TakingSources
    <2>2. ASSUME NEW k \in Pairs
          PROVE  f[Trg(k)] = "nothing" /\ f[Src(k)] \in {"nothing", start[Source(k)], "partial"}
      <3>1. f[Trg(k)] = "nothing"
        BY SMTT(40), <1>0, <1>2, PlaceFacts DEF HalfMoved, TakingSources
      <3>2. CASE k = i
        BY <1>2, <2>1, <3>1, <3>2 DEF HalfMoved
      <3>3. CASE k # i
        BY SMT, <1>0, <1>1, <1>2, <3>3, PlaceFacts DEF HalfMoved, UndoingSources
      <3> QED BY <3>1, <3>2, <3>3
    <2>3. ASSUME NEW k \in Pairs, f[Src(k)] = "partial" PROVE f[Source(k)] # "nothing"
      <3>1. CASE k = i
        BY <2>1, <3>1
      <3>2. CASE k # i
        <4>1. f[Src(k)] = fs[Src(k)]
          BY <1>0, <1>2, <3>2, PlaceFacts DEF HalfMoved
        <4>2. fs[Source(k)] # "nothing"
          BY <1>1, <2>3, <4>1 DEF UndoingSources
        <4> QED BY <1>0, <1>2, <2>1, <4>2, PlaceFacts DEF HalfMoved
      <3> QED BY <3>1, <3>2
    <2>4. ASSUME NEW p \in Paths
          PROVE  /\ f[p] \in {"nothing", start[p], "partial"}
                 /\ f[p] = "partial" => p = Source(i) \/ fs[p] = "partial"
      BY SMT, <1>0, <1>1, <1>2, <2>1, PlaceFacts, SlotFacts DEF HalfMoved, UndoingSources
    <2>5. f[Source(i)] = "partial" => f[Src(i)] # "nothing"
      BY <1>2 DEF HalfMoved
    <2>6. \A p \in Paths : fs[p] # "partial"
      BY SlotFacts DEF TakingSources, Arguments
    <2>7. \A k \in Pairs : ~(k < 1)
      BY SMT, PairFacts
    <2> QED BY <2>2, <2>3, <2>4, <2>5, <2>6, <2>7 DEF UndoingSources
  <1> QED BY <1>1, <1>2

\* Nothing of the way back is in the way after a loop forward.
LEMMA TargetTaken ==
    ASSUME Arguments, i \in Pairs, TakingTargets(fs, i), fs \in [Places -> Contents],
           NEW f, \/ f = fs /\ fs[Target(i)] = "nothing"
                  \/ MovedTo(f, Target(i), Trg(i))
    PROVE  /\ i < Len(moves) => TakingTargets(f, i + 1)
           /\ i = Len(moves) => Placing(f, 1)
  <1>0. /\ Target(i) \in Paths /\ Target(i) \in Places /\ Trg(i) \in Places
        /\ Trg(i) # Target(i)
    BY PlaceFacts
  <1>1. fs[Target(i)] \in {"nothing", start[Target(i)]}
    BY <1>0 DEF TakingTargets
  <1>2. ASSUME NEW k \in Pairs
        PROVE  f[Src(k)] = Source(k) /\ start[Source(k)] = Source(k)
    BY SMT, <1>0, PlaceFacts DEF TakingTargets, MovedTo
  <1>3. ASSUME NEW k \in Pairs
        PROVE  f[Trg(k)] \in {"nothing", start[Target(k)]}
    <2>1. CASE k = i
      BY <1>1, <2>1 DEF TakingTargets, MovedTo
    <2>2. CASE k # i
      BY <1>0, <2>2, PlaceFacts DEF TakingTargets, MovedTo
    <2> QED BY <2>1, <2>2
  <1>4. ASSUME NEW k \in Pairs, k > i
        PROVE  f[Trg(k)] = "nothing"
    BY SMTT(40), <1>0, <1>4, PlaceFacts, PairFacts DEF TakingTargets, MovedTo
  <1>5. ASSUME NEW p \in Paths
        PROVE  f[p] = IF IsSource(p) \/ \E k \in Pairs : k < i + 1 /\ Target(k) = p
                      THEN "nothing" ELSE start[p]
    <2>1. p # Trg(i) /\ p \in Places
      BY PlaceFacts, SlotFacts
    <2>2. CASE p = Target(i)
      BY <2>2, PairFacts DEF MovedTo
    <2>3. CASE p # Target(i)
      BY SMTT(40), <2>1, <2>3, PairFacts DEF MovedTo, TakingTargets
    <2> QED BY <2>2, <2>3
  <1>6. CASE i < Len(moves)
    <2>1. \A k \in Pairs : k >= i + 1 => f[Trg(k)] = "nothing"
      BY SMTT(40), <1>4, PairFacts
    <2> QED BY SMT, <1>2, <1>3, <1>5, <1>6, <2>1 DEF TakingTargets
  <1>7. CASE i = Len(moves)
    <2>1. \A k \in Pairs : k < i + 1 /\ ~(k < 1)
      BY SMTT(40), <1>7, PairFacts
    <2>2. Others(f)
      BY <1>5 DEF Others, IsTarget
    <2>3. \A k \in Pairs : f[Target(k)] = "nothing"
      BY <1>5, <2>1, PlaceFacts
    <2> QED BY SMT, <1>2, <1>3, <1>7, <2>1, <2>2, <2>3 DEF Placing
  <1> QED BY <1>6, <1>7, PairFacts

\* A destination that could not be taken is in the way of its return.
LEMMA TargetNotTaken ==
    ASSUME Arguments, i \in Pairs, TakingTargets(fs, i), fs \in [Places -> Contents],
           NEW f, f = fs \/ HalfMoved(f, Target(i), Trg(i))
    PROVE  UndoingTargets(f, 1)
  <1>0. /\ Target(i) \in Paths /\ Target(i) \in Places /\ Trg(i) \in Places
        /\ Trg(i) # Target(i)
    BY PlaceFacts
  <1>1. \A p \in Paths :
            fs[p] \in {"nothing", start[p]} /\ fs[p] # "partial" /\ start[p] # "partial"
    BY SlotFacts DEF TakingTargets, Arguments
  <1>2. \A k \in Pairs : fs[Trg(k)] # "partial"
    BY SMTT(40), <1>1, PlaceFacts, SlotFacts DEF TakingTargets
  <1>3. \A k \in Pairs : ~(k < 1)
    BY SMT, PairFacts
  <1>4. CASE f = fs
    BY SMTT(40), <1>1, <1>2, <1>3, <1>4 DEF TakingTargets, UndoingTargets
  <1>5. CASE HalfMoved(f, Target(i), Trg(i))
    <2>1. f[Target(i)] # "nothing" /\ f[Trg(i)] # "nothing"
      BY <1>5 DEF HalfMoved
    <2>2. ASSUME NEW k \in Pairs
          PROVE  f[Src(k)] = start[Source(k)]
      BY SMT, <1>0, <1>5, PlaceFacts DEF HalfMoved, TakingTargets
    <2>3. ASSUME NEW k \in Pairs
          PROVE  /\ f[Trg(k)] \in {"nothing", start[Target(k)], "partial"}
                 /\ f[Trg(k)] = "partial" => f[Target(k)] # "nothing"
      <3>1. CASE k = i
        BY <1>0, <1>1, <1>5, <2>1, <3>1 DEF HalfMoved
      <3>2. CASE k # i
        BY SMTT(40), <1>0, <1>2, <1>5, <3>2, PlaceFacts DEF HalfMoved, TakingTargets
      <3> QED BY <3>1, <3>2
    <2>4. ASSUME NEW p \in Paths
          PROVE  /\ f[p] \in {"nothing", start[p], "partial"}
                 /\ f[p] = "partial" => p = Target(i)
      <3>1. p # Trg(i) /\ p \in Places
        BY PlaceFacts, SlotFacts
      <3> QED BY <1>0, <1>1, <1>5, <3>1 DEF HalfMoved
    <2> QED BY <1>3, <2>1, <2>2, <2>3, <2>4 DEF UndoingTargets
  <1> QED BY <1>4, <1>5

\* When the last source has been placed, every destination has its source.
LEMMA Placed ==
    ASSUME Arguments, i \in Pairs, Placing(fs, i), fs \in [Places -> Contents],
           NEW f, MovedTo(f, Src(i), Target(i))
    PROVE  /\ i < Len(moves) => Placing(f, i + 1)
           /\ i = Len(moves) => \A p \in Paths : f[p] = Contract!Moved(start, moves)[p]
  <1>0. /\ Target(i) \in Paths /\ Target(i) \in Places /\ Src(i) \in Places
        /\ Src(i) # Target(i) /\ ~(i < i)
    BY SMTT(40), PlaceFacts, PairFacts
  <1>1. f[Src(i)] = "nothing" /\ f[Target(i)] = Source(i) /\ fs[Target(i)] = "nothing"
    BY <1>0 DEF MovedTo, Placing
  <1>2. ASSUME NEW k \in Pairs
        PROVE  f[Src(k)] = IF k < i + 1 THEN "nothing" ELSE Source(k)
    <2>1. CASE k = i
      BY <1>1, <2>1, PairFacts
    <2>2. CASE k # i
      BY SMTT(40), <1>0, <2>2, PlaceFacts, PairFacts DEF MovedTo, Placing
    <2> QED BY <2>1, <2>2
  <1>3. ASSUME NEW k \in Pairs
        PROVE  f[Trg(k)] \in {"nothing", start[Target(k)]}
    BY SMT, <1>0, PlaceFacts DEF MovedTo, Placing
  <1>4. Others(f)
    <2>1. ASSUME NEW p \in Paths, ~IsTarget(p) PROVE f[p] = fs[p]
      BY <2>1, PlaceFacts, SlotFacts DEF MovedTo, IsTarget
    <2> QED BY <2>1 DEF Others, Placing
  <1>5. ASSUME NEW k \in Pairs, k < i + 1
        PROVE  f[Target(k)] = Source(k)
    <2>1. CASE k = i
      BY <1>1, <2>1
    <2>2. CASE k # i
      <3>1. fs[Target(k)] = Source(k) /\ Source(k) # "nothing"
        BY <1>5, <2>2, PairFacts, PlaceFacts, SlotFacts DEF Placing
      <3>2. Target(k) # Target(i) /\ Target(k) # Src(i) /\ Target(k) \in Places
        BY <1>1, <3>1, PlaceFacts
      <3> QED BY <3>1, <3>2 DEF MovedTo
    <2> QED BY <2>1, <2>2
  <1>6. ASSUME NEW k \in Pairs, f[Target(k)] # "nothing"
        PROVE  \E j \in Pairs : j < i + 1 /\ Target(j) = Target(k)
    <2>1. CASE Target(k) = Target(i)
      BY <2>1, PairFacts
    <2>2. CASE Target(k) # Target(i)
      <3>1. fs[Target(k)] # "nothing"
        BY <1>6, <2>2, PlaceFacts DEF MovedTo
      <3> QED BY <3>1, PairFacts DEF Placing
    <2> QED BY <2>1, <2>2
  <1>7. \A k \in Pairs : start[Source(k)] = Source(k)
    BY DEF Placing
  <1>8. i < Len(moves) => Placing(f, i + 1)
    BY <1>2, <1>3, <1>4, <1>5, <1>6, <1>7 DEF Placing
  <1>9. ASSUME i = Len(moves), NEW p \in Paths
        PROVE  f[p] = Contract!Moved(start, moves)[p]
    <2>1. DOMAIN moves = Pairs
      BY DEF Arguments
    <2>2. \A k \in Pairs : f[Target(k)] = start[Source(k)]
      BY SMTT(40), <1>5, <1>7, <1>9, PairFacts
    <2>3. CASE IsTarget(p)
      <3> DEFINE k == CHOOSE j \in DOMAIN moves : moves[j][2] = p
      <3>1. k \in Pairs /\ Target(k) = p
        BY <2>1, <2>3 DEF IsTarget, Target
      <3>2. Contract!Moved(start, moves)[p] = start[Source(k)]
        BY <2>1, <2>3 DEF Contract!Moved, IsTarget, Target, Source
      <3> QED BY <2>2, <3>1, <3>2
    <2>4. CASE ~IsTarget(p)
      BY <1>4, <2>1, <2>4 DEF Contract!Moved, Others, IsTarget, IsSource, Target, Source
    <2> QED BY <2>3, <2>4
  <1> QED BY <1>8, <1>9

\* What was placed is at the first pair with its destination; what was placed
\* in part has its source, or what is left of it, in the way.
LEMMA NotPlaced ==
    ASSUME Arguments, i \in Pairs, Placing(fs, i), fs \in [Places -> Contents],
           NEW f, f = fs \/ HalfMoved(f, Src(i), Target(i))
    PROVE  UndoingPlace(f, 1)
  <1>0. /\ Target(i) \in Paths /\ Target(i) \in Places /\ Src(i) \in Places
        /\ Src(i) # Target(i) /\ fs[Src(i)] = Source(i)
    BY SMT, PlaceFacts, PairFacts DEF Placing
  <1>1. \A k \in Pairs : ~(k < 1) /\ k >= 1
    BY SMTT(40), PairFacts
  <1>2. \A k \in Pairs : fs[Src(k)] # "partial" /\ fs[Src(k)] \in {"nothing", start[Source(k)]}
    BY SMTT(40), PlaceFacts, SlotFacts DEF Placing
  <1>3. ASSUME NEW k \in Pairs, fs[Src(k)] = "nothing"
        PROVE  k < i /\ fs[Target(k)] = start[Source(k)] /\ fs[Target(k)] # "nothing"
    <2>1. k < i
      BY SMTT(40), <1>3, PlaceFacts, SlotFacts DEF Placing
    <2> QED BY SMTT(40), <2>1, PlaceFacts, SlotFacts DEF Placing
  <1>4. CASE f = fs
    BY <1>1, <1>2, <1>3, <1>4 DEF Placing, UndoingPlace
  <1>5. CASE HalfMoved(f, Src(i), Target(i))
    <2>1. f[Src(i)] \in {start[Source(i)], "partial"} /\ f[Target(i)] # "nothing"
      BY <1>0, <1>5 DEF HalfMoved, Placing
    <2>2. First(i)
      <3> SUFFICES ASSUME NEW j \in Pairs, j < i, Target(j) = Target(i) PROVE FALSE
        BY DEF First
      <3> QED BY SMT, <1>5, PlaceFacts, SlotFacts DEF HalfMoved, Placing
    <2>3. ASSUME NEW k \in Pairs, k # i PROVE f[Src(k)] = fs[Src(k)]
      BY <1>0, <1>5, <2>3, PlaceFacts DEF HalfMoved
    <2>4. ASSUME NEW k \in Pairs
          PROVE  f[Trg(k)] \in {"nothing", start[Target(k)]}
      BY SMTT(40), <1>0, <1>5, PlaceFacts DEF HalfMoved, Placing
    <2>5. Others(f)
      <3>1. ASSUME NEW p \in Paths, ~IsTarget(p) PROVE f[p] = fs[p]
        BY <1>5, <3>1, PlaceFacts, SlotFacts DEF HalfMoved, IsTarget
      <3> QED BY <3>1 DEF Others, Placing
    <2>6. ASSUME NEW k \in Pairs, f[Src(k)] = "nothing" PROVE f[Target(k)] = start[Source(k)]
      <3>1. k # i
        BY <1>0, <1>5, <2>6, PlaceFacts, SlotFacts DEF HalfMoved
      <3>2. fs[Target(k)] = start[Source(k)] /\ fs[Target(k)] # "nothing"
        BY <1>3, <2>3, <2>6, <3>1
      <3> QED BY <1>5, <3>2, PlaceFacts DEF HalfMoved
    <2>7. ASSUME NEW k \in Pairs
          PROVE  /\ f[Src(k)] \in {"nothing", start[Source(k)], "partial"}
                 /\ f[Src(k)] = "partial" => First(k) /\ f[Target(k)] # "nothing"
      BY <1>2, <2>1, <2>2, <2>3
    <2> QED BY <1>1, <2>4, <2>5, <2>6, <2>7 DEF UndoingPlace
  <1> QED BY <1>4, <1>5

LEMMA PlaceUndone ==
    ASSUME Arguments, i \in Pairs, UndoingPlace(fs, i), fs \in [Places -> Contents],
           NEW f, \/ f = fs /\ fs[Target(i)] = "nothing"
                  \/ MovedTo(f, Target(i), Src(i))
    PROVE  /\ i < Len(moves) => UndoingPlace(f, i + 1)
           /\ i = Len(moves) => UndoingTargets(f, 1)
  <1>0. /\ Target(i) \in Paths /\ Target(i) \in Places /\ Src(i) \in Places
        /\ Src(i) # Target(i) /\ f[Target(i)] = "nothing"
    BY PlaceFacts DEF MovedTo
  <1>1. fs[Target(i)] # "nothing" => First(i)
    BY PairFacts DEF UndoingPlace, First
  <1>2. \/ f[Src(i)] = fs[Src(i)] /\ fs[Src(i)] # "partial"
        \/ f[Src(i)] = start[Source(i)]
    BY <1>1 DEF UndoingPlace, MovedTo
  <1>3. ASSUME NEW k \in Pairs, k # i PROVE f[Src(k)] = fs[Src(k)]
    BY <1>0, <1>3, PlaceFacts DEF MovedTo
  <1>4. ASSUME NEW k \in Pairs
        PROVE  f[Trg(k)] \in {"nothing", start[Target(k)]}
    BY <1>0, PlaceFacts DEF MovedTo, UndoingPlace
  <1>5. Others(f)
    <2>1. ASSUME NEW p \in Paths, ~IsTarget(p) PROVE f[p] = fs[p]
      BY <2>1, PlaceFacts, SlotFacts DEF MovedTo, IsTarget
    <2> QED BY <2>1 DEF Others, UndoingPlace
  <1>6. ASSUME NEW k \in Pairs
        PROVE  f[Target(k)] = IF Target(k) = Target(i) THEN "nothing" ELSE fs[Target(k)]
    BY <1>0, PlaceFacts DEF MovedTo
  <1>7. ASSUME NEW k \in Pairs, k < i + 1 PROVE f[Target(k)] = "nothing"
    BY <1>6, <1>7, PairFacts DEF UndoingPlace
  <1>8. ASSUME NEW k \in Pairs
        PROVE  f[Src(k)] \in {"nothing", start[Source(k)], "partial"}
    BY <1>2, <1>3 DEF UndoingPlace
  <1>9. ASSUME NEW k \in Pairs, f[Src(k)] = "partial"
        PROVE  k >= i + 1 /\ First(k) /\ f[Target(k)] # "nothing"
    <2>1. k # i
      <3>1. Source(i) \in Paths /\ start[Source(i)] # "partial"
        BY PlaceFacts, SlotFacts DEF Arguments
      <3> QED BY <1>2, <1>9, <3>1
    <2>2. k >= i /\ First(k) /\ fs[Target(k)] # "nothing"
      BY <1>3, <1>9, <2>1 DEF UndoingPlace
    <2>3. k > i /\ k >= i + 1
      BY SMTT(40), <2>1, <2>2, PairFacts
    <2>4. Target(k) # Target(i)
      BY <2>2, <2>3, PairFacts DEF First
    <2> QED BY <1>6, <2>2, <2>3, <2>4
  <1>10. ASSUME NEW k \in Pairs, First(k), f[Target(k)] # "nothing", f[Src(k)] = "nothing"
         PROVE  f[Target(k)] = start[Source(k)]
    <2>1. k # i /\ fs[Target(k)] # "nothing" /\ f[Target(k)] = fs[Target(k)]
      BY <1>0, <1>6, <1>10
    <2> QED BY <1>3, <1>10, <2>1 DEF UndoingPlace
  <1>11. i < Len(moves) => UndoingPlace(f, i + 1)
    BY <1>4, <1>5, <1>7, <1>8, <1>9, <1>10 DEF UndoingPlace
  <1>12. ASSUME i = Len(moves) PROVE UndoingTargets(f, 1)
    <2>1. \A k \in Pairs : k < i + 1 /\ ~(k < 1) /\ ~(k >= i + 1)
      BY SMTT(40), <1>12, PairFacts
    <2>2. ASSUME NEW k \in Pairs PROVE f[Trg(k)] # "partial"
      <3>1. Target(k) \in Paths /\ start[Target(k)] # "partial"
        BY PlaceFacts, SlotFacts DEF Arguments
      <3> QED BY <1>4, <3>1
    <2>3. ASSUME NEW p \in Paths PROVE f[p] \in {"nothing", start[p]}
      BY <1>5, <1>7, <2>1 DEF Others, IsTarget
    <2>4. \A p \in Paths : start[p] # "partial"
      BY SlotFacts DEF Arguments
    <2> QED BY <1>4, <1>8, <1>9, <2>1, <2>2, <2>3, <2>4 DEF UndoingTargets
  <1> QED BY <1>11, <1>12

LEMMA TargetReturned ==
    ASSUME Arguments, i \in Pairs, UndoingTargets(fs, i), fs \in [Places -> Contents],
           NEW f, \/ f = fs /\ fs[Trg(i)] = "nothing"
                  \/ MovedTo(f, Trg(i), Target(i))
    PROVE  /\ i < Len(moves) => UndoingTargets(f, i + 1)
           /\ i = Len(moves) => UndoingSources(f, 1)
  <1>0. /\ Target(i) \in Paths /\ Target(i) \in Places /\ Trg(i) \in Places
        /\ Trg(i) # Target(i) /\ f[Trg(i)] = "nothing"
    BY PlaceFacts DEF MovedTo
  <1>1. \/ f[Target(i)] = fs[Target(i)]
        \/ f[Target(i)] = start[Target(i)] /\ f[Target(i)] # "nothing"
    BY <1>0 DEF MovedTo, UndoingTargets
  <1>2. ASSUME NEW k \in Pairs, k # i PROVE f[Trg(k)] = fs[Trg(k)]
    BY <1>0, <1>2, PlaceFacts DEF MovedTo
  <1>3. ASSUME NEW k \in Pairs PROVE f[Src(k)] \in {"nothing", start[Source(k)]}
    BY SMTT(40), <1>0, PlaceFacts DEF MovedTo, UndoingTargets
  <1>4. ASSUME NEW p \in Paths, p # Target(i) PROVE f[p] = fs[p]
    BY <1>4, PlaceFacts, SlotFacts DEF MovedTo
  <1>5. \A p \in Paths : start[p] # "partial"
    BY SlotFacts DEF Arguments
  <1>6. ASSUME NEW k \in Pairs
        PROVE  /\ f[Trg(k)] \in {"nothing", start[Target(k)], "partial"}
               /\ k < i + 1 => f[Trg(k)] = "nothing"
    BY SMTT(40), <1>0, <1>2, PairFacts DEF UndoingTargets
  <1>7. ASSUME NEW k \in Pairs, f[Trg(k)] = "partial" PROVE f[Target(k)] # "nothing"
    <2>1. fs[Target(k)] # "nothing" /\ Target(k) \in Paths
      BY <1>0, <1>2, <1>7, PlaceFacts DEF UndoingTargets
    <2> QED BY <1>1, <1>4, <2>1
  <1>8. ASSUME NEW p \in Paths PROVE f[p] \in {"nothing", start[p], "partial"}
    BY <1>0, <1>1, <1>4 DEF UndoingTargets
  <1>9. ASSUME NEW p \in Paths, f[p] = "partial"
        PROVE  \E k \in Pairs : Target(k) = p /\ f[Trg(k)] # "nothing"
    <2>1. fs[p] = "partial"
      BY <1>0, <1>1, <1>4, <1>5, <1>9
    <2>2. PICK k \in Pairs : Target(k) = p /\ fs[Trg(k)] # "nothing"
      BY <2>1 DEF UndoingTargets
    <2>3. k # i
      BY <2>1, <2>2 DEF MovedTo
    <2> QED BY <1>2, <2>2, <2>3
  <1>10. i < Len(moves) => UndoingTargets(f, i + 1)
    BY <1>3, <1>6, <1>7, <1>8, <1>9 DEF UndoingTargets
  <1>11. ASSUME i = Len(moves) PROVE UndoingSources(f, 1)
    <2>1. \A k \in Pairs : f[Trg(k)] = "nothing" /\ ~(k < 1)
      BY SMTT(40), <1>6, <1>11, PairFacts
    <2>2. ASSUME NEW k \in Pairs PROVE f[Src(k)] # "partial"
      <3>1. Source(k) \in Paths
        BY PlaceFacts
      <3> QED BY <1>3, <1>5, <3>1
    <2>3. \A p \in Paths : f[p] # "partial"
      BY <1>9, <2>1
    <2> QED BY <1>3, <1>8, <2>1, <2>2, <2>3 DEF UndoingSources
  <1> QED BY <1>10, <1>11

\* When all slots are empty and nothing is lost, everything is where it was.
LEMMA SourceReturned ==
    ASSUME Arguments, i \in Pairs, UndoingSources(fs, i), fs \in [Places -> Contents],
           NEW f, AllThere(f), \/ f = fs /\ fs[Src(i)] = "nothing"
                               \/ MovedTo(f, Src(i), Source(i))
    PROVE  /\ i < Len(moves) => UndoingSources(f, i + 1)
           /\ i = Len(moves) => \A p \in Paths : f[p] = start[p]
  <1>0. /\ Source(i) \in Paths /\ Source(i) \in Places /\ Src(i) \in Places
        /\ Src(i) # Source(i) /\ f[Src(i)] = "nothing"
    BY PlaceFacts DEF MovedTo
  <1>1. \/ f[Source(i)] = fs[Source(i)]
        \/ f[Source(i)] = start[Source(i)] /\ f[Source(i)] # "nothing"
    BY <1>0 DEF MovedTo, UndoingSources
  <1>2. ASSUME NEW k \in Pairs, k # i PROVE f[Src(k)] = fs[Src(k)]
    BY <1>0, <1>2, PlaceFacts DEF MovedTo
  <1>3. ASSUME NEW k \in Pairs PROVE f[Trg(k)] = "nothing"
    BY SMTT(40), <1>0, PlaceFacts DEF MovedTo, UndoingSources
  <1>4. ASSUME NEW p \in Paths, p # Source(i) PROVE f[p] = fs[p]
    BY <1>4, PlaceFacts, SlotFacts DEF MovedTo
  <1>5. \A p \in Paths : start[p] # "partial"
    BY SlotFacts DEF Arguments
  <1>6. ASSUME NEW k \in Pairs
        PROVE  /\ f[Src(k)] \in {"nothing", start[Source(k)], "partial"}
               /\ k < i + 1 => f[Src(k)] = "nothing"
    BY SMTT(40), <1>0, <1>2, PairFacts DEF UndoingSources
  <1>7. ASSUME NEW k \in Pairs, f[Src(k)] = "partial" PROVE f[Source(k)] # "nothing"
    <2>1. fs[Source(k)] # "nothing" /\ Source(k) \in Paths
      BY <1>0, <1>2, <1>7, PlaceFacts DEF UndoingSources
    <2> QED BY <1>1, <1>4, <2>1
  <1>8. ASSUME NEW p \in Paths PROVE f[p] \in {"nothing", start[p], "partial"}
    BY <1>0, <1>1, <1>4 DEF UndoingSources
  <1>9. ASSUME NEW p \in Paths, f[p] = "partial"
        PROVE  \E k \in Pairs : Source(k) = p /\ f[Src(k)] # "nothing"
    <2>1. fs[p] = "partial"
      BY <1>0, <1>1, <1>4, <1>5, <1>9
    <2>2. PICK k \in Pairs : Source(k) = p /\ fs[Src(k)] # "nothing"
      BY <2>1 DEF UndoingSources
    <2>3. k # i
      BY <2>1, <2>2 DEF MovedTo
    <2> QED BY <1>2, <2>2, <2>3
  <1>10. i < Len(moves) => UndoingSources(f, i + 1)
    BY <1>3, <1>6, <1>7, <1>8, <1>9 DEF UndoingSources
  <1>11. ASSUME i = Len(moves), NEW p \in Paths PROVE f[p] = start[p]
    <2>1. \A k \in Pairs : f[Src(k)] = "nothing"
      BY SMT, <1>6, <1>11, PairFacts
    <2>2. \A q \in Paths : f[q] \in {"nothing", start[q]}
      BY <1>8, <1>9, <2>1
    <2>3. CASE start[p] = "nothing"
      BY <2>2, <2>3
    <2>4. CASE start[p] = p
      <3>1. PICK a \in Places : f[a] = p
        BY <2>4 DEF AllThere
      <3>2. p # "nothing"
        BY SlotFacts
      <3>3. \A k \in 1 .. MaxMoves : f[Src(k)] = "nothing" /\ f[Trg(k)] = "nothing"
        BY <1>3, <2>1 DEF AllThere
      <3>4. a \in Paths
        BY <3>1, <3>2, <3>3, SlotFacts
      <3> QED BY <2>2, <3>1, <3>2, <3>4 DEF Arguments
    <2> QED BY <2>3, <2>4 DEF Arguments
  <1> QED BY <1>10, <1>11

-----------------------------------------------------------------------------
(* The actions *)

LEMMA MoveInit == Init => MoveInv
  <1> SUFFICES ASSUME Init PROVE MoveInv
    OBVIOUS
  <1>1. Arguments
    BY SMT, BoundsAssumption DEF Init, Arguments, Pairs
  <1>2. fs \in [Places -> Contents] /\ \A p \in Paths : fs[p] = start[p]
    BY DEF Init, Places, Contents
  <1>3. \A k \in 1 .. MaxMoves : fs[Src(k)] = "nothing" /\ fs[Trg(k)] = "nothing"
    <2> SUFFICES ASSUME NEW k \in 1 .. MaxMoves
                 PROVE  fs[Src(k)] = "nothing" /\ fs[Trg(k)] = "nothing"
      OBVIOUS
    <2>1. Src(k) \in Slots /\ Trg(k) \in Slots
      BY DEF Src, Trg, Slots
    <2> QED BY <2>1, PathsAssumption DEF Init, Places, Slots
  <1>4. AllThere(fs)
    BY <1>1, <1>2, <1>3, SlotFacts DEF AllThere
  <1>5. TakingSources(fs, 1)
    <2>1. \A k \in Pairs : ~(k < 1) /\ k \in 1 .. MaxMoves
      BY SMTT(40), <1>1, PairFacts, BoundsAssumption DEF Arguments
    <2> QED BY <1>2, <1>3, <2>1 DEF TakingSources
  <1> QED BY <1>1, <1>2, <1>4, <1>5, PairFacts DEF Init, MoveInv, Good, Loops

\* The loop goes on with f, or is over.
GoesOn(f, next) ==
    /\ i < Len(moves) => Good(f, pc, i + 1)
    /\ i = Len(moves) => \/ next \in {"ok", "recovered"} /\ Ended(f, next)
                         \/ next \in Loops /\ Good(f, next, 1)

\* What is to be shown of the files f that an action leaves.
LEMMA ActionKeeps ==
    ASSUME Directories = TRUE, Arguments, result = "running", Good(fs, pc, i),
           NEW a \in Places, NEW b \in Places, a # b,
           \A k \in (1 .. MaxMoves) \ Pairs : a # Src(k) /\ a # Trg(k) /\ b # Src(k) /\ b # Trg(k),
           NEW next, NEW undo \in Loops \cup {"catastrophic"},
           \/ Move(a, b, next, undo)
           \/ MoveIfPresent(a, b, next, undo) /\ (fs[a] = "nothing" => GoesOn(fs, next)),
           \A f : AllThere(f) /\ MovedTo(f, a, b) => GoesOn(f, next),
           \A f \in [Places -> Contents] :
               undo \in Loops /\ AllThere(f) /\ (f = fs \/ HalfMoved(f, a, b)) => Good(f, undo, 1)
    PROVE  MoveInv'
  <1>1. fs \in [Places -> Contents] /\ AllThere(fs) /\ i \in Pairs
    BY DEF Good
  <1>2. ASSUME NEW f, MovedTo(f, a, b), Continue(f, next), UNCHANGED <<moves, start>>
        PROVE  MoveInv'
    <2>1. AllThere(f)
      BY <1>1, <1>2, AllThereKept
    <2> QED BY <1>1, <1>2, <2>1, ContinueKeeps DEF GoesOn
  <1>3. ASSUME NEW f, f = fs \/ HalfMoved(f, a, b), Abort(f, undo), UNCHANGED <<moves, start>>
        PROVE  MoveInv'
    <2>1. f \in [Places -> Contents] /\ AllThere(f)
      BY <1>1, <1>3, AllThereKept DEF HalfMoved
    <2>2. CASE undo \in Loops
      BY <1>3, <2>1, <2>2, AbortKeeps
    <2>3. CASE undo = "catastrophic"
      <3>1. Ended(f, undo)
        BY <2>1, <2>3 DEF Ended
      <3> QED BY <1>3, <2>3, <3>1, AbortKeeps
    <2> QED BY <2>2, <2>3
  <1>4. CASE Move(a, b, next, undo)
    BY <1>1, <1>2, <1>3, <1>4, MoveCases
  <1>5. CASE /\ fs[a] = "nothing" /\ Continue(fs, next) /\ UNCHANGED <<moves, start>>
             /\ GoesOn(fs, next)
    BY <1>1, <1>5, ContinueKeeps DEF GoesOn
  <1>6. CASE MoveIfPresent(a, b, next, undo) /\ (fs[a] = "nothing" => GoesOn(fs, next))
    <2>1. CASE fs[a] = "nothing"
      BY <1>5, <1>6, <2>1 DEF MoveIfPresent, Exists
    <2>2. CASE fs[a] # "nothing"
      BY <1>4, <1>6, <2>2 DEF MoveIfPresent, Exists
    <2> QED BY <2>1, <2>2
  <1> QED BY <1>4, <1>6

LEMMA ForwardKeeps ==
    ASSUME Directories = TRUE, MoveInv, TakeSource \/ TakeTarget \/ Place
    PROVE  MoveInv'
  <1>1. Arguments /\ result = "running" /\ Good(fs, pc, i)
    BY DEF MoveInv, TakeSource, TakeTarget, Place
  <1>2. fs \in [Places -> Contents] /\ AllThere(fs) /\ i \in Pairs
    BY <1>1 DEF Good
  <1>3. /\ Source(i) \in Places /\ Target(i) \in Places /\ Src(i) \in Places /\ Trg(i) \in Places
        /\ Source(i) # Src(i) /\ Target(i) # Trg(i) /\ Target(i) # Src(i)
        /\ Source(i) \in Paths /\ Target(i) \in Paths
    BY <1>1, <1>2, PlaceFacts
  <1>4. \A k \in (1 .. MaxMoves) \ Pairs :
            /\ Source(i) # Src(k) /\ Source(i) # Trg(k) /\ Target(i) # Src(k) /\ Target(i) # Trg(k)
            /\ Src(i) # Src(k) /\ Src(i) # Trg(k) /\ Trg(i) # Src(k) /\ Trg(i) # Trg(k)
    BY <1>1, <1>2, <1>3, SlotFacts
  <1>5. 1 \in Pairs /\ (i < Len(moves) => i + 1 \in Pairs)
    BY <1>1, <1>2, PairFacts
  <1>6. CASE TakeSource
    <2>1. pc = "takeSource" /\ TakingSources(fs, i)
      BY ZenonT(60), <1>1, <1>6 DEF TakeSource, Good
    <2>2. ASSUME NEW f, AllThere(f), MovedTo(f, Source(i), Src(i)) PROVE GoesOn(f, "takeTarget")
      BY <1>1, <1>2, <1>5, <2>1, <2>2, SourceTaken DEF GoesOn, Good, MovedTo, Loops
    <2>3. ASSUME NEW f \in [Places -> Contents], AllThere(f),
                 f = fs \/ HalfMoved(f, Source(i), Src(i))
          PROVE  Good(f, "undoSource", 1)
      BY <1>1, <1>2, <1>5, <2>1, <2>3, SourceNotTaken DEF Good, Loops
    <2>4. Move(Source(i), Src(i), "takeTarget", "undoSource")
      BY <1>6 DEF TakeSource, Source, Src
    <2> QED BY <1>1, <1>3, <1>4, <2>2, <2>3, <2>4, ActionKeeps DEF Loops
  <1>7. CASE TakeTarget
    <2>1. pc = "takeTarget" /\ TakingTargets(fs, i)
      BY ZenonT(60), <1>1, <1>7 DEF TakeTarget, Good
    <2>2. ASSUME NEW f \in [Places -> Contents], AllThere(f),
                 \/ f = fs /\ fs[Target(i)] = "nothing"
                 \/ MovedTo(f, Target(i), Trg(i))
          PROVE  GoesOn(f, "place")
      BY <1>1, <1>2, <1>5, <2>1, <2>2, TargetTaken DEF GoesOn, Good, Loops
    <2>3. ASSUME NEW f \in [Places -> Contents], AllThere(f),
                 f = fs \/ HalfMoved(f, Target(i), Trg(i))
          PROVE  Good(f, "undoTarget", 1)
      BY <1>1, <1>2, <1>5, <2>1, <2>3, TargetNotTaken DEF Good, Loops
    <2>4. MoveIfPresent(Target(i), Trg(i), "place", "undoTarget")
      BY <1>7 DEF TakeTarget, Target, Trg
    <2>5. \A f : AllThere(f) /\ MovedTo(f, Target(i), Trg(i)) => GoesOn(f, "place")
      BY <2>2 DEF MovedTo
    <2> QED BY <1>1, <1>2, <1>3, <1>4, <2>2, <2>3, <2>4, <2>5, ActionKeeps DEF Loops
  <1>8. CASE Place
    <2>1. pc = "place" /\ Placing(fs, i)
      BY ZenonT(60), <1>1, <1>8 DEF Place, Good
    <2>2. ASSUME NEW f, AllThere(f), MovedTo(f, Src(i), Target(i)) PROVE GoesOn(f, "ok")
      <3>1. f \in [Places -> Contents]
        BY <2>2 DEF MovedTo
      <3>2. /\ i < Len(moves) => Placing(f, i + 1)
            /\ i = Len(moves) => \A p \in Paths : f[p] = Contract!Moved(start, moves)[p]
        BY <1>1, <1>2, <2>1, <2>2, Placed
      <3> QED BY <1>5, <2>1, <2>2, <3>1, <3>2 DEF GoesOn, Good, Ended, Loops
    <2>3. ASSUME NEW f \in [Places -> Contents], AllThere(f),
                 f = fs \/ HalfMoved(f, Src(i), Target(i))
          PROVE  Good(f, "undoPlace", 1)
      BY <1>1, <1>2, <1>5, <2>1, <2>3, NotPlaced DEF Good, Loops
    <2>4. Move(Src(i), Target(i), "ok", "undoPlace")
      BY <1>8 DEF Place, Target, Src
    <2> QED BY <1>1, <1>3, <1>4, <2>2, <2>3, <2>4, ActionKeeps DEF Loops
  <1> QED BY <1>6, <1>7, <1>8

LEMMA BackwardKeeps ==
    ASSUME Directories = TRUE, MoveInv, UndoPlace \/ UndoTarget \/ UndoSource
    PROVE  MoveInv'
  <1>1. Arguments /\ result = "running" /\ Good(fs, pc, i)
    BY DEF MoveInv, UndoPlace, UndoTarget, UndoSource
  <1>2. fs \in [Places -> Contents] /\ AllThere(fs) /\ i \in Pairs
    BY <1>1 DEF Good
  <1>3. /\ Source(i) \in Places /\ Target(i) \in Places /\ Src(i) \in Places /\ Trg(i) \in Places
        /\ Source(i) # Src(i) /\ Target(i) # Trg(i) /\ Target(i) # Src(i)
        /\ Source(i) \in Paths /\ Target(i) \in Paths
    BY <1>1, <1>2, PlaceFacts
  <1>4. \A k \in (1 .. MaxMoves) \ Pairs :
            /\ Source(i) # Src(k) /\ Source(i) # Trg(k) /\ Target(i) # Src(k) /\ Target(i) # Trg(k)
            /\ Src(i) # Src(k) /\ Src(i) # Trg(k) /\ Trg(i) # Src(k) /\ Trg(i) # Trg(k)
    BY <1>1, <1>2, <1>3, SlotFacts
  <1>5. 1 \in Pairs /\ (i < Len(moves) => i + 1 \in Pairs)
    BY <1>1, <1>2, PairFacts
  <1>6. CASE UndoPlace
    <2>1. pc = "undoPlace" /\ UndoingPlace(fs, i)
      BY ZenonT(60), <1>1, <1>6 DEF UndoPlace, Good
    <2>2. ASSUME NEW f \in [Places -> Contents], AllThere(f),
                 \/ f = fs /\ fs[Target(i)] = "nothing"
                 \/ MovedTo(f, Target(i), Src(i))
          PROVE  GoesOn(f, "undoTarget")
      BY <1>1, <1>2, <1>5, <2>1, <2>2, PlaceUndone DEF GoesOn, Good, Loops
    <2>3. MoveIfPresent(Target(i), Src(i), "undoTarget", "catastrophic")
      BY <1>6 DEF UndoPlace, Target, Src
    <2>4. \A f : AllThere(f) /\ MovedTo(f, Target(i), Src(i)) => GoesOn(f, "undoTarget")
      BY <2>2 DEF MovedTo
    <2> QED BY SMT, <1>1, <1>2, <1>3, <1>4, <2>2, <2>3, <2>4, ActionKeeps DEF Loops
  <1>7. CASE UndoTarget
    <2>1. pc = "undoTarget" /\ UndoingTargets(fs, i)
      BY ZenonT(60), <1>1, <1>7 DEF UndoTarget, Good
    <2>2. ASSUME NEW f \in [Places -> Contents], AllThere(f),
                 \/ f = fs /\ fs[Trg(i)] = "nothing"
                 \/ MovedTo(f, Trg(i), Target(i))
          PROVE  GoesOn(f, "undoSource")
      BY <1>1, <1>2, <1>5, <2>1, <2>2, TargetReturned DEF GoesOn, Good, Loops
    <2>3. MoveIfPresent(Trg(i), Target(i), "undoSource", "catastrophic")
      BY <1>7 DEF UndoTarget, Target, Trg
    <2>4. \A f : AllThere(f) /\ MovedTo(f, Trg(i), Target(i)) => GoesOn(f, "undoSource")
      BY <2>2 DEF MovedTo
    <2> QED BY SMTT(40), <1>1, <1>2, <1>3, <1>4, <2>2, <2>3, <2>4, ActionKeeps DEF Loops
  <1>8. CASE UndoSource
    <2>1. pc = "undoSource" /\ UndoingSources(fs, i)
      BY ZenonT(60), <1>1, <1>8 DEF UndoSource, Good
    <2>2. ASSUME NEW f \in [Places -> Contents], AllThere(f),
                 \/ f = fs /\ fs[Src(i)] = "nothing"
                 \/ MovedTo(f, Src(i), Source(i))
          PROVE  GoesOn(f, "recovered")
      <3>1. /\ i < Len(moves) => UndoingSources(f, i + 1)
            /\ i = Len(moves) => \A p \in Paths : f[p] = start[p]
        BY <1>1, <1>2, <2>1, <2>2, SourceReturned
      <3> QED BY <1>5, <2>1, <2>2, <3>1 DEF GoesOn, Good, Ended, Loops
    <2>3. MoveIfPresent(Src(i), Source(i), "recovered", "catastrophic")
      BY <1>8 DEF UndoSource, Source, Src
    <2>4. \A f : AllThere(f) /\ MovedTo(f, Src(i), Source(i)) => GoesOn(f, "recovered")
      BY <2>2 DEF MovedTo
    <2> QED BY SMT, <1>1, <1>2, <1>3, <1>4, <2>2, <2>3, <2>4, ActionKeeps DEF Loops
  <1> QED BY <1>6, <1>7, <1>8

LEMMA MoveNext ==
    ASSUME Directories = TRUE, MoveInv, [Next]_vars
    PROVE  MoveInv'
  <1>1. CASE UNCHANGED vars
    <2>1. UNCHANGED <<moves, start, fs, pc, i, result>>
      BY <1>1 DEF vars
    <2>2. Arguments' /\ Contract!Moved(start', moves') = Contract!Moved(start, moves)
      BY <2>1 DEF MoveInv, Arguments, Pairs, Contract!Moved
    <2>3. CASE result = "running" /\ Good(fs, pc, i)
      BY <2>1, <2>3, LoopKeeps DEF MoveInv
    <2>4. CASE pc = "done" /\ Ended(fs, result)
      BY <2>1, <2>2, <2>4 DEF MoveInv, Ended
    <2> QED BY <2>3, <2>4 DEF MoveInv
  <1> QED BY <1>1, ForwardKeeps, BackwardKeeps DEF Next

LEMMA MoveInvariant ==
    ASSUME Directories = TRUE
    PROVE  Spec => []MoveInv
  <1>1. MoveInv /\ [Next]_vars => MoveInv'
    BY MoveNext
  <1> QED BY <1>1, MoveInit, PTL DEF Spec

LEMMA NextKeepsArguments ==
    ASSUME Next
    PROVE  UNCHANGED <<moves, remote, start>> /\ pc \in Loops
  <1>1. /\ pc \in Loops
        /\ \E a, b, next, undo : Move(a, b, next, undo) \/ MoveIfPresent(a, b, next, undo)
    <2>1. CASE TakeSource \/ Place
      BY <2>1 DEF TakeSource, Place, Loops
    <2>2. CASE TakeTarget \/ UndoPlace
      BY <2>2 DEF TakeTarget, UndoPlace, Loops
    <2>3. CASE UndoTarget \/ UndoSource
      BY <2>3 DEF UndoTarget, UndoSource, Loops
    <2> QED BY <2>1, <2>2, <2>3 DEF Next
  <1> QED BY SMTT(40), <1>1 DEF MoveIfPresent, Move

-----------------------------------------------------------------------------
(* A careful call on one device: nothing is ever in the way of its recovery *)

Forward == {"takeSource", "takeTarget", "place"}
Backward == {"undoPlace", "undoTarget", "undoSource"}

\* Of the two places of a move back, one is empty.
Free(f, loop) ==
    /\ loop \in {"takeTarget", "place", "undoPlace", "undoTarget"} =>
          \A k \in Pairs : f[Trg(k)] # "nothing" => ~IsSource(Target(k))
    /\ loop = "undoPlace" =>
          \A k \in Pairs : f[Target(k)] # "nothing" => f[Src(k)] = "nothing"
    /\ loop = "undoTarget" =>
          \A k \in Pairs : /\ f[Trg(k)] # "nothing" => f[Target(k)] = "nothing"
                           /\ f[Source(k)] = "nothing"
    /\ loop = "undoSource" =>
          \A k \in Pairs : f[Src(k)] # "nothing" => f[Source(k)] = "nothing"

FaultInv ==
    remote = {} /\ Careful =>
        /\ faults \in Nat
        /\ pc \in Forward => faults = 0
        /\ pc \in Backward => faults >= 1
        /\ pc \in Loops => Free(fs, pc)
        /\ result = "catastrophic" => faults >= 2

\* The pairs of a careful call do not meet.
Distinct ==
    \A j, k \in Pairs : Source(j) = Source(k) \/ Target(j) = Target(k) => j = k

LEMMA CarefulFacts ==
    ASSUME Arguments, Careful
    PROVE  /\ \A k \in Pairs : start[Source(k)] # "nothing"
           /\ Distinct
  BY DEF Careful, Distinct, Arguments, Source, Target

\* An error on one device has no effect.
LEMMA MoveCasesHere ==
    ASSUME Directories = TRUE, remote = {}, fs \in [Places -> Contents],
           NEW a \in Places, NEW b \in Places, a # b, NEW next, NEW undo,
           Move(a, b, next, undo), fs[a] # "nothing", fs[b] = "nothing"
    PROVE  \/ \E f : MovedTo(f, a, b) /\ Continue(f, next) /\ faults' = faults
           \/ Abort(fs, undo) /\ faults' = faults + 1
  <1>1. CanMove(a, b)
    BY DEF CanMove, Exists, Accepts
  <1>2. CASE CanMove(a, b) /\ Continue(Moved(a, b), next) /\ UNCHANGED faults
    <2> DEFINE f == Moved(a, b)
    <2>1. MovedTo(f, a, b)
      BY DEF MovedTo, Moved, Contents
    <2>2. Continue(f, next) /\ faults' = faults
      BY <1>2
    <2> HIDE DEF f
    <2> QED BY <2>1, <2>2
  <1>3. Broken(a, b) = {fs}
    BY DEF Broken
  <1>4. CASE faults' = faults + 1 /\ \E f \in Broken(a, b) : Abort(f, undo)
    BY <1>3, <1>4
  <1> QED BY <1>1, <1>2, <1>4 DEF Move

\* What is to be shown of an action for FaultInv.
LEMMA FaultStep ==
    ASSUME Directories = TRUE, Arguments, fs \in [Places -> Contents], FaultInv,
           result = "running", remote = {}, Careful, i \in Pairs, pc \in Loops,
           UNCHANGED <<moves, remote, start>>,
           NEW a \in Places, NEW b \in Places, a # b, NEW next, NEW undo,
           \/ Move(a, b, next, undo) /\ fs[a] # "nothing"
           \/ /\ MoveIfPresent(a, b, next, undo)
              /\ fs[a] = "nothing" /\ i = Len(moves) => Free(fs, next),
           fs[a] # "nothing" => fs[b] = "nothing",
           \A f : MovedTo(f, a, b) => Free(f, pc) /\ (i = Len(moves) => Free(f, next)),
           \/ pc \in Forward /\ next \in Forward \cup {"ok"} /\ undo \in Backward /\ Free(fs, undo)
           \/ pc \in Backward /\ next \in Backward \cup {"recovered"} /\ undo = "catastrophic"
    PROVE  FaultInv'
  <1>1. faults \in Nat /\ (pc \in Forward => faults = 0) /\ (pc \in Backward => faults >= 1)
        /\ Free(fs, pc)
    BY DEF FaultInv
  <1>2. ASSUME NEW f, NEW loop, Free(f, loop), fs' = f, pc' = loop
        PROVE  Free(fs, pc)'
    BY ZenonT(60), <1>2 DEF Free, IsSource, Pairs, Source, Target
  <1>3. ASSUME NEW f, Free(f, pc), i = Len(moves) => Free(f, next), Continue(f, next),
               faults' = faults
        PROVE  FaultInv'
    <2>1. CASE i < Len(moves)
      <3>1. fs' = f /\ pc' = pc /\ result' = result
        BY <1>3, <2>1 DEF Continue
      <3> QED BY <1>1, <1>2, <1>3, <3>1 DEF FaultInv
    <2>2. CASE i = Len(moves) /\ next \in {"ok", "recovered"}
      <3>1. pc' = "done" /\ result' = next
        BY SMTT(40), <1>3, <2>2, PairFacts DEF Continue, Return, Results
      <3> QED BY <1>1, <1>3, <2>2, <3>1 DEF FaultInv, Forward, Backward, Loops
    <2>3. CASE i = Len(moves) /\ next \in Forward \cup Backward
      <3>1. fs' = f /\ pc' = next /\ result' = result
        BY SMTT(40), <1>3, <2>3, PairFacts DEF Continue, GoTo, Results, Forward, Backward
      <3>2. pc \in Forward <=> next \in Forward
        BY <2>3 DEF Forward, Backward
      <3> QED BY <1>1, <1>2, <1>3, <2>3, <3>1, <3>2 DEF FaultInv, Forward, Backward
    <2> QED BY SMTT(40), <2>1, <2>2, <2>3, PairFacts
  <1>4. ASSUME Abort(fs, undo), faults' = faults + 1 PROVE FaultInv'
    <2>1. CASE undo = "catastrophic"
      <3>1. pc' = "done" /\ result' = undo /\ faults >= 1
        BY <1>1, <1>4, <2>1 DEF Abort, Return, Results, Forward, Backward
      <3> QED BY SMTT(40), <1>1, <1>4, <3>1 DEF FaultInv, Forward, Backward, Loops
    <2>2. CASE undo \in Backward /\ Free(fs, undo)
      <3>1. fs' = fs /\ pc' = undo /\ result' = result
        BY <1>4, <2>2 DEF Abort, GoTo, Results, Backward
      <3> QED BY SMTT(40), <1>1, <1>2, <1>4, <2>2, <3>1 DEF FaultInv, Forward, Backward
    <2> QED BY <2>1, <2>2
  <1>5. CASE Move(a, b, next, undo) /\ fs[a] # "nothing"
    BY <1>3, <1>4, <1>5, MoveCasesHere
  <1>6. CASE /\ MoveIfPresent(a, b, next, undo) /\ fs[a] = "nothing"
             /\ i = Len(moves) => Free(fs, next)
    <2>1. Continue(fs, next) /\ faults' = faults
      BY <1>6 DEF MoveIfPresent, Exists
    <2> QED BY <1>1, <1>3, <1>6, <2>1
  <1>7. CASE MoveIfPresent(a, b, next, undo) /\ fs[a] # "nothing"
    BY <1>5, <1>7 DEF MoveIfPresent, Exists
  <1> QED BY <1>5, <1>6, <1>7

LEMMA FaultForward ==
    ASSUME Directories = TRUE, MoveInv, FaultInv, remote = {}, Careful,
           UNCHANGED <<moves, remote, start>>, TakeSource \/ TakeTarget \/ Place
    PROVE  FaultInv'
  <1>1. Arguments /\ result = "running" /\ Good(fs, pc, i)
    BY DEF MoveInv, TakeSource, TakeTarget, Place
  <1>2. fs \in [Places -> Contents] /\ i \in Pairs /\ pc \in Loops /\ Free(fs, pc)
    BY <1>1 DEF Good, FaultInv
  <1>3. /\ Source(i) \in Places /\ Target(i) \in Places /\ Src(i) \in Places /\ Trg(i) \in Places
        /\ Source(i) # Src(i) /\ Target(i) # Trg(i) /\ Target(i) # Src(i)
        /\ Source(i) \in Paths /\ Target(i) \in Paths
    BY <1>1, <1>2, PlaceFacts
  <1>4. Distinct /\ \A k \in Pairs : start[Source(k)] # "nothing"
    BY <1>1, CarefulFacts
  <1>5. \A k \in Pairs : k < i \/ k = i \/ k > i
    BY SMTT(40), <1>1, <1>2, PairFacts
  <1>6. CASE TakeSource
    <2>1. pc = "takeSource" /\ TakingSources(fs, i)
      BY <1>1, <1>6 DEF TakeSource, Good
    <2>2. fs[Source(i)] # "nothing" /\ fs[Src(i)] = "nothing"
      BY SMT, <1>1, <1>2, <1>3, <1>4, <2>1, PairFacts DEF TakingSources, Distinct
    <2>3. ASSUME NEW f, MovedTo(f, Source(i), Src(i)) PROVE Free(f, pc) /\ Free(f, "takeTarget")
      <3>1. ASSUME NEW k \in Pairs PROVE f[Trg(k)] = "nothing"
        BY SMT, <1>1, <1>2, <1>3, <2>1, <2>3, PlaceFacts DEF MovedTo, TakingSources
      <3> QED BY <2>1, <3>1 DEF Free
    <2>4. Free(fs, "undoSource")
      <3>1. ASSUME NEW k \in Pairs, fs[Src(k)] # "nothing" PROVE fs[Source(k)] = "nothing"
        <4>1. k < i /\ Source(k) \in Paths
          BY SMTT(40), <1>1, <1>2, <1>5, <2>1, <3>1, PairFacts, PlaceFacts DEF TakingSources
        <4> QED BY <2>1, <4>1 DEF TakingSources
      <3> QED BY <3>1 DEF Free
    <2>5. Move(Source(i), Src(i), "takeTarget", "undoSource")
      BY <1>6 DEF TakeSource, Source, Src
    <2> QED BY <1>1, <1>2, <1>3, <2>1, <2>2, <2>3, <2>4, <2>5, FaultStep DEF Forward, Backward
  <1>7. CASE TakeTarget
    <2>1. pc = "takeTarget" /\ TakingTargets(fs, i)
      BY ZenonT(60), <1>1, <1>7 DEF TakeTarget, Good
    <2>2. fs[Trg(i)] = "nothing"
      BY SMTT(40), <1>1, <1>2, <2>1, PairFacts DEF TakingTargets
    <2>3. ASSUME NEW f, MovedTo(f, Target(i), Trg(i)) PROVE Free(f, pc) /\ Free(f, "place")
      <3>1. ~IsSource(Target(i))
        BY <1>3, <2>1, <2>3 DEF MovedTo, TakingTargets
      <3>2. ASSUME NEW k \in Pairs, k # i PROVE f[Trg(k)] = fs[Trg(k)]
        BY <1>1, <1>2, <1>3, <2>3, <3>2, PlaceFacts DEF MovedTo
      <3> QED BY <1>2, <2>1, <3>1, <3>2 DEF Free
    <2>4. Free(fs, "place")
      BY <1>2, <2>1 DEF Free
    <2>5. Free(fs, "undoTarget")
      <3>1. ASSUME NEW k \in Pairs, fs[Trg(k)] # "nothing" PROVE fs[Target(k)] = "nothing"
        <4>1. k < i /\ Target(k) \in Paths
          BY SMTT(40), <1>1, <1>2, <1>5, <2>1, <3>1, PairFacts, PlaceFacts DEF TakingTargets
        <4> QED BY <2>1, <4>1 DEF TakingTargets
      <3>2. ASSUME NEW k \in Pairs PROVE fs[Source(k)] = "nothing"
        BY <1>1, <2>1, PlaceFacts DEF TakingTargets, IsSource
      <3> QED BY <1>2, <2>1, <3>1, <3>2 DEF Free
    <2>6. MoveIfPresent(Target(i), Trg(i), "place", "undoTarget")
      BY <1>7 DEF TakeTarget, Target, Trg
    <2> QED BY <1>1, <1>2, <1>3, <2>1, <2>2, <2>3, <2>4, <2>5, <2>6, FaultStep
            DEF Forward, Backward
  <1>8. CASE Place
    <2>1. pc = "place" /\ Placing(fs, i)
      BY <1>1, <1>8 DEF Place, Good
    <2>2. fs[Src(i)] # "nothing"
      BY SMTT(40), <1>1, <1>2, <1>3, <2>1, PairFacts, SlotFacts DEF Placing
    <2>3. ASSUME NEW k \in Pairs, fs[Target(k)] # "nothing" PROVE k < i /\ fs[Src(k)] = "nothing"
      BY SMT, <1>4, <2>1, <2>3 DEF Placing, Distinct
    <2>4. fs[Target(i)] = "nothing"
      BY SMTT(40), <1>1, <1>2, <2>3, PairFacts
    <2>5. ASSUME NEW f, MovedTo(f, Src(i), Target(i)) PROVE Free(f, pc) /\ Free(f, "ok")
      <3>1. ASSUME NEW k \in Pairs PROVE f[Trg(k)] = fs[Trg(k)]
        BY <1>1, <1>2, <1>3, <2>5, PlaceFacts DEF MovedTo
      <3> QED BY <1>2, <2>1, <3>1 DEF Free
    <2>6. Free(fs, "undoPlace")
      BY <1>2, <2>1, <2>3 DEF Free
    <2>7. Move(Src(i), Target(i), "ok", "undoPlace")
      BY <1>8 DEF Place, Target, Src
    <2> QED BY <1>1, <1>2, <1>3, <2>1, <2>2, <2>4, <2>5, <2>6, <2>7, FaultStep
            DEF Forward, Backward
  <1> QED BY <1>6, <1>7, <1>8

LEMMA FaultBackward ==
    ASSUME Directories = TRUE, MoveInv, FaultInv, remote = {}, Careful,
           UNCHANGED <<moves, remote, start>>, UndoPlace \/ UndoTarget \/ UndoSource
    PROVE  FaultInv'
  <1>1. Arguments /\ result = "running" /\ Good(fs, pc, i)
    BY DEF MoveInv, UndoPlace, UndoTarget, UndoSource
  <1>2. fs \in [Places -> Contents] /\ i \in Pairs /\ pc \in Loops /\ Free(fs, pc)
    BY <1>1 DEF Good, FaultInv
  <1>3. /\ Source(i) \in Places /\ Target(i) \in Places /\ Src(i) \in Places /\ Trg(i) \in Places
        /\ Source(i) # Src(i) /\ Target(i) # Trg(i) /\ Target(i) # Src(i)
        /\ Source(i) \in Paths /\ Target(i) \in Paths
    BY <1>1, <1>2, PlaceFacts
  <1>4. Distinct
    BY <1>1, CarefulFacts
  <1>5. \A k \in Pairs : i = Len(moves) => k < i \/ k = i
    BY SMTT(40), <1>1, <1>2, PairFacts
  <1>6. CASE UndoPlace
    <2>1. pc = "undoPlace" /\ UndoingPlace(fs, i)
      BY <1>1, <1>6 DEF UndoPlace, Good
    <2>2. fs[Target(i)] # "nothing" => fs[Src(i)] = "nothing"
      BY <1>2, <2>1 DEF Free
    <2>3. ASSUME NEW f, \/ f = fs /\ fs[Target(i)] = "nothing"
                        \/ MovedTo(f, Target(i), Src(i))
          PROVE  Free(f, pc) /\ (i = Len(moves) => Free(f, "undoTarget"))
      <3>1. ASSUME NEW k \in Pairs
            PROVE  /\ f[Trg(k)] = fs[Trg(k)]
                   /\ f[Target(k)] = IF k = i THEN "nothing" ELSE fs[Target(k)]
                   /\ k # i => f[Src(k)] = fs[Src(k)]
        BY <1>1, <1>2, <1>3, <1>4, <2>3, PlaceFacts DEF MovedTo, Distinct
      <3>2. Free(f, pc)
        BY SMTT(40), <1>2, <2>1, <3>1 DEF Free
      <3>3. ASSUME i = Len(moves) PROVE Free(f, "undoTarget")
        <4>1. \A k \in Pairs : f[Target(k)] = "nothing"
          BY <1>5, <2>1, <3>1, <3>3 DEF UndoingPlace
        <4>2. ASSUME NEW k \in Pairs PROVE f[Source(k)] = "nothing"
          <5>1. Source(k) \in Paths /\ Source(k) \in Places /\ IsSource(Source(k))
            BY <1>1, PlaceFacts DEF IsSource
          <5>2. CASE IsTarget(Source(k))
            BY <4>1, <5>2 DEF IsTarget
          <5>3. CASE ~IsTarget(Source(k))
            <6>1. fs[Source(k)] = "nothing"
              BY <2>1, <5>1, <5>3 DEF UndoingPlace, Others
            <6>2. Source(k) # Target(i) /\ Source(k) # Src(i)
              BY <1>1, <1>2, <5>1, <5>3, PlaceFacts DEF IsTarget
            <6> QED BY <2>3, <5>1, <6>1, <6>2 DEF MovedTo
          <5> QED BY <5>2, <5>3
        <4> QED BY <1>2, <2>1, <3>1, <4>1, <4>2 DEF Free
      <3> QED BY <3>2, <3>3
    <2>4. MoveIfPresent(Target(i), Src(i), "undoTarget", "catastrophic")
      BY <1>6 DEF UndoPlace, Target, Src
    <2> QED BY <1>1, <1>2, <1>3, <2>1, <2>2, <2>3, <2>4, FaultStep DEF Forward, Backward
  <1>7. CASE UndoTarget
    <2>1. pc = "undoTarget" /\ UndoingTargets(fs, i)
      BY <1>1, <1>7 DEF UndoTarget, Good
    <2>2. fs[Trg(i)] # "nothing" => fs[Target(i)] = "nothing" /\ ~IsSource(Target(i))
      BY <1>2, <2>1 DEF Free
    <2>3. ASSUME NEW f, \/ f = fs /\ fs[Trg(i)] = "nothing"
                        \/ MovedTo(f, Trg(i), Target(i))
          PROVE  Free(f, pc) /\ Free(f, "undoSource")
      <3>1. ASSUME NEW k \in Pairs
            PROVE  /\ f[Trg(k)] = IF k = i THEN "nothing" ELSE fs[Trg(k)]
                   /\ k # i => f[Target(k)] = fs[Target(k)]
        BY <1>1, <1>2, <1>3, <1>4, <2>3, PlaceFacts DEF MovedTo, Distinct
      <3>2. ASSUME NEW k \in Pairs PROVE f[Source(k)] = "nothing"
        <4>1. fs[Source(k)] = "nothing"
          BY <1>2, <2>1 DEF Free
        <4>2. fs[Trg(i)] # "nothing" => Source(k) # Target(i)
          BY <2>2 DEF IsSource
        <4> QED BY <1>1, <1>2, <2>3, <4>1, <4>2, PlaceFacts DEF MovedTo
      <3> QED BY SMTT(40), <1>2, <2>1, <3>1, <3>2 DEF Free
    <2>4. MoveIfPresent(Trg(i), Target(i), "undoSource", "catastrophic")
      BY <1>7 DEF UndoTarget, Target, Trg
    <2> QED BY <1>1, <1>2, <1>3, <2>1, <2>2, <2>3, <2>4, FaultStep DEF Forward, Backward
  <1>8. CASE UndoSource
    <2>1. pc = "undoSource"
      BY <1>8 DEF UndoSource
    <2>2. fs[Src(i)] # "nothing" => fs[Source(i)] = "nothing"
      BY <1>2, <2>1 DEF Free
    <2>3. ASSUME NEW f, f = fs \/ MovedTo(f, Src(i), Source(i))
          PROVE  Free(f, pc) /\ Free(f, "recovered")
      <3>1. ASSUME NEW k \in Pairs, k # i
            PROVE  f[Src(k)] = fs[Src(k)] /\ f[Source(k)] = fs[Source(k)]
        BY <1>1, <1>2, <1>3, <1>4, <2>3, <3>1, PlaceFacts DEF MovedTo, Distinct
      <3>2. f = fs \/ f[Src(i)] = "nothing"
        BY <2>3 DEF MovedTo
      <3> QED BY <1>2, <2>1, <3>1, <3>2 DEF Free
    <2>4. MoveIfPresent(Src(i), Source(i), "recovered", "catastrophic")
      BY <1>8 DEF UndoSource, Source, Src
    <2> QED BY <1>1, <1>2, <1>3, <2>1, <2>2, <2>3, <2>4, FaultStep DEF Forward, Backward
  <1> QED BY <1>6, <1>7, <1>8

-----------------------------------------------------------------------------
(* Results *)

\* However many items `try_move_files` moves, over whatever devices, and
\* however often a move fails: until it returns, and when it says it has
\* recovered, every item is whole somewhere.
THEOREM NothingIsLost ==
    ASSUME Directories = TRUE
    PROVE  Spec => []NothingLost
  <1>1. MoveInv => NothingLost
    <2> SUFFICES ASSUME MoveInv, result \in {"running", "recovered"},
                        NEW p \in Paths, start[p] = p
                 PROVE  \E a \in Places : fs[a] = p
      BY DEF NothingLost
    <2>1. CASE result = "running"
      BY <2>1 DEF MoveInv, Good, AllThere, Ended
    <2>2. CASE result = "recovered"
      BY <2>2 DEF MoveInv, Ended, Places
    <2> QED BY <2>1, <2>2
  <1> QED BY <1>1, MoveInvariant, PTL

\* `try_move_files` implements its contract: seen from its callers, all sources
\* arrive at their destinations, or nothing changes, or the error is
\* CatastrophicIO.
THEOREM MoveImplementsContract ==
    ASSUME Directories = TRUE
    PROVE  Spec => ImplementsContract
  <1>1. Init => Contract!Init
    <2> SUFFICES ASSUME Init PROVE Contract!Init
      OBVIOUS
    <2>1. moves \in Seq(Paths \X Paths)
      BY SMT, BoundsAssumption DEF Init
    <2>2. pc # "done" /\ result = "running" /\ start \in [Paths -> Contents]
      BY DEF Init
    <2> QED BY <2>1, <2>2 DEF Contract!Init, Contract!Contents, Contents
  <1>2. ASSUME MoveInv, MoveInv', [Next]_vars
        PROVE  [Contract!Next]_(Contract!vars)
    <2>1. CASE UNCHANGED vars
      BY <2>1 DEF vars, Contract!vars
    <2>2. CASE Next
      <3>1. UNCHANGED <<moves, start>> /\ pc # "done"
        BY <2>2, NextKeepsArguments DEF Loops
      <3>2. result = "running"
        BY <1>2, <3>1 DEF MoveInv
      <3>3. CASE pc' # "done"
        <4>1. result' = "running"
          BY <1>2, <3>3 DEF MoveInv
        <4> QED BY <3>1, <3>2, <3>3, <4>1 DEF Contract!vars
      <3>4. CASE pc' = "done"
        <4>1. Ended(fs', result')
          <5>1. Ended(fs, result)'
            BY <1>2, <3>4 DEF MoveInv, Good, Loops
          <5>2. Contract!Moved(start', moves') = Contract!Moved(start, moves)
            BY <3>1 DEF Contract!Moved
          <5> QED BY <3>1, <5>1, <5>2 DEF Ended
        <4> DEFINE after == [p \in Paths |-> fs'[p]]
        <4>2. CASE result' = "ok"
          <5>1. after = Contract!Moved(start, moves)
            BY <4>1, <4>2 DEF Ended, Contract!Moved
          <5> QED BY <3>1, <3>2, <3>4, <4>2, <5>1 DEF Contract!Next, Contract!Succeed
        <4>3. CASE result' = "recovered"
          <5>1. after = start
            BY <1>2, <4>1, <4>3 DEF Ended, MoveInv, Arguments
          <5> QED BY <3>1, <3>2, <3>4, <4>3, <5>1 DEF Contract!Next, Contract!Recover
        <4>4. CASE result' = "catastrophic"
          <5>1. after \in [Paths -> Contract!Contents]
            BY <4>1 DEF Ended, Contract!Contents, Contents, Places
          <5> QED BY <3>1, <3>2, <3>4, <4>4, <5>1 DEF Contract!Next, Contract!GiveUp
        <4> QED BY <4>1, <4>2, <4>3, <4>4 DEF Ended
      <3> QED BY <3>3, <3>4
    <2> QED BY <1>2, <2>1, <2>2
  <1> QED BY <1>1, <1>2, MoveInvariant, PTL DEF Spec, ImplementsContract, Contract!Spec

\* On one device, a call whose sources exist and whose pairs do not meet
\* recovers from any single I/O error, however many items it moves.
THEOREM SingleFaultsAreUndone ==
    ASSUME Directories = TRUE
    PROVE  Spec => []OneFaultIsUndone
  <1>1. Init => FaultInv
    <2> SUFFICES ASSUME Init PROVE FaultInv
      OBVIOUS
    <2>1. pc = "takeSource" /\ faults = 0 /\ result = "running"
      BY DEF Init
    <2> QED BY <2>1 DEF FaultInv, Free, Forward, Backward
  <1>2. ASSUME MoveInv, FaultInv, [Next]_vars
        PROVE  FaultInv'
    <2>1. CASE UNCHANGED vars
      <3>1. UNCHANGED <<moves, remote, start, fs, pc, result, faults>>
        BY <2>1 DEF vars
      <3>2. Free(fs, pc)' <=> Free(fs, pc)
        BY SMTT(40), <3>1 DEF Free, IsSource, Pairs, Source, Target
      <3>3. Careful' <=> Careful
        BY SMT, <3>1 DEF Careful
      <3> QED BY <1>2, <3>1, <3>2, <3>3 DEF FaultInv
    <2>2. CASE Next
      <3>1. UNCHANGED <<moves, remote, start>>
        BY <2>2, NextKeepsArguments
      <3>2. (remote = {} /\ Careful) <=> (remote = {} /\ Careful)'
        BY <3>1 DEF Careful
      <3>3. CASE remote = {} /\ Careful
        BY <1>2, <2>2, <3>1, <3>3, FaultForward, FaultBackward DEF Next
      <3>4. CASE ~(remote = {} /\ Careful)
        BY <3>2, <3>4 DEF FaultInv
      <3> QED BY <3>3, <3>4
    <2> QED BY <1>2, <2>1, <2>2
  <1>3. FaultInv => OneFaultIsUndone
    BY SMT DEF FaultInv, OneFaultIsUndone
  <1> QED BY <1>1, <1>2, <1>3, MoveInvariant, PTL DEF Spec
=============================================================================
