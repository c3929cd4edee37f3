-------------------------- MODULE SyncEngineProofs --------------------------
(***************************************************************************)
(* Theorems about SyncEngine for every number of processes and callers,    *)
(* every batch size, window, head lag and chain length, and any number of  *)
(* exceptions and crashes.                                                 *)
(***************************************************************************)
EXTENDS SyncEngine, TLAPS

(* Clamping a refused batch neither loses nor invents a block: the gap and *)
(* what is still asked partition the batch, and the gap is below the floor.*)
LEMMA ClampPartitions ==
    ASSUME NEW f \in Nat, NEW t \in Nat, NEW floor \in Nat
    PROVE  LET clamped == clampRangeToFloor(Span(f, t), floor)
           IN  /\ clamped.range \in [from : Nat, to : Nat]
               /\ clamped.gap \in [from : Nat, to : Nat]
               /\ Blocks(Span(f, t)) = Blocks(clamped.gap) \cup Blocks(clamped.range)
               /\ \A b \in Blocks(clamped.gap) : b < floor
               /\ clamped.range = NoBlocks => clamped.gap = Span(f, t)
               /\ clamped.range # NoBlocks =>
                    \A b \in f .. clamped.range.from - 1 : b \in Blocks(clamped.gap)
BY DEF clampRangeToFloor, Span, NoBlocks, Blocks

(* Halving a range splits it exactly, and each half is shorter. *)
LEMMA SplitPartitions ==
    ASSUME NEW f \in Nat, NEW t \in Nat, f < t
    PROVE  LET halves == splitRange(Span(f, t))
           IN  /\ Blocks(halves[1]) \cup Blocks(halves[2]) = f .. t
               /\ Blocks(halves[1]) \cap Blocks(halves[2]) = {}
               /\ halves[1].to - halves[1].from < t - f
               /\ halves[2].to - halves[2].from < t - f
<1> DEFINE mid == f + (t - f) \div 2
<1>1. mid \in Nat /\ f <= mid /\ mid < t
  OBVIOUS
<1>2. splitRange(Span(f, t)) = << Span(f, mid), Span(mid + 1, t) >>
  BY DEF splitRange, Span
<1> HIDE DEF mid
<1> QED
  BY <1>1, <1>2 DEF Span, Blocks

(* The provider's floor is a block number. *)
LEMMA FloorType ==
    ASSUME NEW h \in Nat, NEW l \in Nat
    PROVE  queryableFloor(h, l) \in Nat \ {0}
BY DEF queryableFloor, Greatest

(* The batch of a call is a range of naturals that starts at its cursor. *)
LEMMA BatchType ==
    ASSUME TypeOK, NEW c \in Calls
    PROVE  /\ Batch(c) \in [from : Nat, to : Nat]
           /\ Batch(c).from = cursor[c]
           /\ Batch(c) = Span(cursor[c], Batch(c).to)
BY SyncAssumption DEF TypeOK, Batch, Span, Least

(* Where a run starts is a block number, and so are the ends of its gap. *)
LEMMA ResolveType ==
    ASSUME NEW n \in Nat, NEW s \in Nat, NEW h \in Nat, NEW l \in Nat
    PROVE  /\ resolveStartBlock(n, s, h, l).from \in Nat
           /\ resolveStartBlock(n, s, h, l).gap \in [from : Nat, to : Nat]
<1> DEFINE floor == queryableFloor(h, l)
<1>1. floor \in Nat \ {0}
  BY FloorType
<1>2. CASE n > 0 \/ s > 0
  BY <1>2 DEF resolveStartBlock, Span, NoBlocks, Least
<1>3. CASE n = 0 /\ s = 0
  <2>1. resolveStartBlock(n, s, h, l)
          = [from |-> floor,
             gap  |-> IF floor > 1 THEN Span(1, floor - 1) ELSE NoBlocks]
    BY <1>3 DEF resolveStartBlock
  <2> HIDE DEF floor
  <2> QED
    BY <1>1, <2>1 DEF Span, NoBlocks
<1> QED
  BY <1>2, <1>3

(* Merging two gaps covers both. *)
LEMMA MergeCovers ==
    ASSUME NEW a \in [from : Nat, to : Nat], NEW b \in [from : Nat, to : Nat]
    PROVE  /\ mergeGap(a, b) \in [from : Nat, to : Nat]
           /\ Blocks(a) \cup Blocks(b) \subseteq Blocks(mergeGap(a, b))
BY DEF mergeGap, Blocks, NoBlocks, Span, Least, Greatest

-----------------------------------------------------------------------------
(* Type correctness. *)

LEMMA InitTypeOK == Init => TypeOK
BY SyncAssumption DEF Init, TypeOK, Running, Stopped, NoBlocks, Span

(* The pieces of a run keep the types. *)
LEMMA ThrowsTypeOK ==
    ASSUME TypeOK, NEW c \in Calls, Throws(c)
    PROVE  /\ inFlight' \subseteq Processes
           /\ pc' \in [Calls -> Running \cup Stopped]
           /\ head' \in [Calls -> Nat]
           /\ from' \in [Calls -> Nat]
           /\ cursor' \in [Calls -> Nat]
           /\ gap' \in [Calls -> [from : Nat, to : Nat]]
BY DEF TypeOK, Throws, Forget, Goto, Release, Stopped, NoBlocks, Span

LEMMA LoopAtTypeOK ==
    ASSUME TypeOK, NEW c \in Calls, NEW next, NEW lastBlock, LoopAt(c, next, lastBlock)
    PROVE  /\ inFlight' \subseteq Processes
           /\ pc' \in [Calls -> Running \cup Stopped]
           /\ pc'[c] \in {"returned", "fetch"}
BY DEF TypeOK, LoopAt, Goto, Release, Running, Stopped

LEMMA FinishBatchTypeOK ==
    ASSUME TypeOK, NEW c \in Calls, FinishBatch(c)
    PROVE  /\ checkpoint' \in Nat
           /\ cursor' \in [Calls -> Nat]
           /\ inFlight' \subseteq Processes
           /\ pc' \in [Calls -> Running \cup Stopped]
<1>1. Batch(c).to \in Nat
  BY BatchType
<1>2. /\ inFlight' \subseteq Processes
      /\ pc' \in [Calls -> Running \cup Stopped]
  BY LoopAtTypeOK DEF FinishBatch
<1>3. /\ checkpoint' = Batch(c).to
      /\ cursor' = [cursor EXCEPT ![c] = Batch(c).to + 1]
  BY DEF FinishBatch
<1>4. cursor \in [Calls -> Nat]
  BY DEF TypeOK
<1> QED
  BY <1>1, <1>2, <1>3, <1>4

LEMMA StepTypeOK == TypeOK /\ [Next]_vars => TypeOK'
<1> SUFFICES ASSUME TypeOK, [Next]_vars PROVE TypeOK'
  OBVIOUS
<1>1. ASSUME NEW c \in Calls, Start(c) PROVE TypeOK'
  <2>1. inFlight' \subseteq Processes
    BY <1>1, SyncAssumption DEF TypeOK, Start
  <2>2. pc' \in [Calls -> Running \cup Stopped]
    BY <1>1 DEF TypeOK, Start, Goto, Running
  <2>3. /\ head' \in [Calls -> Nat]
        /\ from' \in [Calls -> Nat]
        /\ cursor' \in [Calls -> Nat]
        /\ gap' \in [Calls -> [from : Nat, to : Nat]]
    BY <1>1 DEF TypeOK, Start, Forget, NoBlocks, Span
  <2> QED
    BY <1>1, <2>1, <2>2, <2>3 DEF TypeOK, Start, store
<1>2. ASSUME NEW c \in Calls, ReadHead(c) PROVE TypeOK'
  <2>1. PICK h \in Greatest(0, chain - HeadLag) .. chain :
            head' = [head EXCEPT ![c] = h]
    BY <1>2 DEF ReadHead
  <2>2. h \in Nat
    BY <2>1, SyncAssumption DEF TypeOK, Greatest
  <2> QED
    BY <1>2, <2>1, <2>2 DEF TypeOK, ReadHead, Goto, Running, store
<1>3. ASSUME NEW c \in Calls, ReadCheckpoint(c) PROVE TypeOK'
  <2> DEFINE resolved == resolveStartBlock(checkpoint, ConfiguredStart, head[c],
                                           Lookback)
  <2>1. resolved.from \in Nat /\ resolved.gap \in [from : Nat, to : Nat]
    BY ResolveType, SyncAssumption DEF TypeOK
  <2>2. /\ from' = [from EXCEPT ![c] = resolved.from]
        /\ cursor' = [cursor EXCEPT ![c] = resolved.from]
        /\ gap' = [gap EXCEPT ![c] = resolved.gap]
        /\ \/ Goto(c, "startGap") /\ UNCHANGED inFlight
           \/ LoopAt(c, resolved.from, head[c])
        /\ UNCHANGED << chain, store, head, faults >>
    BY <1>3 DEF ReadCheckpoint
  <2> HIDE DEF resolved
  <2>3. inFlight' \subseteq Processes /\ pc' \in [Calls -> Running \cup Stopped]
    BY <2>2, LoopAtTypeOK DEF TypeOK, Goto, Running
  <2> QED
    BY <2>1, <2>2, <2>3 DEF TypeOK, store
<1>4. ASSUME NEW c \in Calls, PersistStartGap(c) PROVE TypeOK'
  <2>1. inFlight' \subseteq Processes /\ pc' \in [Calls -> Running \cup Stopped]
    BY <1>4, LoopAtTypeOK DEF PersistStartGap
  <2>2. gap[c] \in [from : Nat, to : Nat] /\ Blocks(gap[c]) \subseteq Nat
    BY DEF TypeOK, Blocks
  <2>3. gapRecord' \in [from : Nat, to : Nat] /\ reported' \subseteq Nat
    BY <1>4, <2>2 DEF TypeOK, PersistStartGap, RecordGap
  <2> QED
    BY <1>4, <2>1, <2>3 DEF TypeOK, PersistStartGap, locals
<1>5. ASSUME NEW c \in Calls, Fetch(c) \/ FetchRefused(c) PROVE TypeOK'
  BY <1>5 DEF TypeOK, Fetch, FetchRefused, Goto, Running, store, locals
<1>6. ASSUME NEW c \in Calls, Clamp(c) PROVE TypeOK'
  <2> DEFINE floor == queryableFloor(head[c], Lookback)
             clamped == clampRangeToFloor(Batch(c), floor)
  <2>1. floor \in Nat
    BY FloorType, SyncAssumption DEF TypeOK
  <2>2. /\ clamped.range \in [from : Nat, to : Nat]
        /\ clamped.gap \in [from : Nat, to : Nat]
    <3>1. Batch(c) = Span(cursor[c], Batch(c).to) /\ Batch(c).to \in Nat
      BY BatchType
    <3> QED
      BY <2>1, <3>1, ClampPartitions DEF TypeOK
  <2>3. mergeGap(gap[c], clamped.gap) \in [from : Nat, to : Nat]
    BY <2>2, MergeCovers DEF TypeOK
  <2>4. Blocks(clamped.gap) \subseteq Nat
    BY <2>2 DEF Blocks
  <2>5. /\ \/ /\ gap' = [gap EXCEPT ![c] = mergeGap(@, clamped.gap)]
              /\ RecordGap(clamped.gap)
           \/ UNCHANGED << gap, gapRecord, reported >>
        /\ \/ Goto(c, "skip") /\ UNCHANGED cursor
           \/ /\ Goto(c, "fetch")
              /\ cursor' = [cursor EXCEPT ![c] = clamped.range.from]
        /\ UNCHANGED << chain, checkpoint, indexed, inFlight, head, from, faults >>
    BY <1>6 DEF Clamp
  <2> HIDE DEF clamped
  <2>6. /\ gap' \in [Calls -> [from : Nat, to : Nat]]
        /\ gapRecord' \in [from : Nat, to : Nat]
        /\ reported' \subseteq Nat
    BY <2>2, <2>3, <2>4, <2>5 DEF TypeOK, RecordGap
  <2>7. pc' \in [Calls -> Running \cup Stopped] /\ cursor' \in [Calls -> Nat]
    BY <2>2, <2>5 DEF TypeOK, Goto, Running
  <2> QED
    BY <2>5, <2>6, <2>7 DEF TypeOK
<1>7. ASSUME NEW c \in Calls, Skip(c) \/ Commit(c) PROVE TypeOK'
  <2>1. FinishBatch(c) /\ UNCHANGED << chain, gapRecord, indexed, reported, faults >>
    BY <1>7 DEF Skip, Commit
  <2>2. UNCHANGED << head, from, gap >>
    BY <2>1 DEF FinishBatch
  <2> QED
    BY <2>1, <2>2, FinishBatchTypeOK DEF TypeOK
<1>8. ASSUME NEW c \in Calls, Persist(c) PROVE TypeOK'
  <2>1. Blocks(Batch(c)) \subseteq Nat
    BY BatchType DEF Blocks
  <2> QED
    BY <1>8, <2>1 DEF TypeOK, Persist, Goto, Running, locals
<1>9. ASSUME NEW c \in Calls, PersistPoison(c) \/ PersistFails(c) PROVE TypeOK'
  <2>1. Blocks(Batch(c)) \subseteq Nat
    BY BatchType DEF Blocks
  <2>2. Throws(c) /\ UNCHANGED << chain, checkpoint, gapRecord, reported >>
    BY <1>9 DEF PersistPoison, PersistFails
  <2>3. indexed' \subseteq Nat /\ faults' \in Nat
    <3>1. CASE PersistPoison(c)
      BY <3>1, <2>1 DEF PersistPoison, TypeOK
    <3>2. CASE PersistFails(c)
      <4>1. PICK stored \in SUBSET (Blocks(Batch(c)) \ PoisonBlocks) :
                indexed' = indexed \cup stored
        BY <3>2 DEF PersistFails
      <4>2. faults' = faults + 1
        BY <3>2 DEF PersistFails
      <4>3. stored \subseteq Nat
        BY <2>1, <4>1
      <4>4. indexed \subseteq Nat /\ faults \in Nat
        BY DEF TypeOK
      <4>5. indexed' \subseteq Nat
        BY <4>1, <4>3, <4>4
      <4> QED
        BY <4>2, <4>4, <4>5
    <3> QED
      BY <1>9, <3>1, <3>2
  <2> QED
    BY <2>2, <2>3, ThrowsTypeOK DEF TypeOK
<1>10. ASSUME NEW c \in Calls, Throw(c) PROVE TypeOK'
  <2>1. Throws(c) /\ faults' = faults + 1 /\ UNCHANGED << chain, store >>
    BY <1>10 DEF Throw
  <2> QED
    BY <2>1, ThrowsTypeOK DEF TypeOK, store
<1>11. ASSUME NEW p \in Processes, Crash(p) PROVE TypeOK'
  BY <1>11 DEF TypeOK, Crash, Stopped, store, NoBlocks, Span
<1>12. ASSUME Mine PROVE TypeOK'
  BY <1>12 DEF TypeOK, Mine, store, locals
<1>13. ASSUME UNCHANGED vars PROVE TypeOK'
  BY <1>13 DEF TypeOK, vars, store, locals
<1> QED
  BY <1>1, <1>2, <1>3, <1>4, <1>5, <1>6, <1>7, <1>8, <1>9, <1>10, <1>11,
     <1>12, <1>13 DEF Next, Step

(* Every reachable state of the engine is well typed. *)
THEOREM TypeCorrect == Spec => []TypeOK
BY InitTypeOK, StepTypeOK, PTL DEF Spec

-----------------------------------------------------------------------------
(* No silent loss.  NoSilentLoss is not inductive: it says nothing of what *)
(* a call in the middle of a run will write to the checkpoint.  The        *)
(* inductive invariant adds what each call's cursor and batch stand for.   *)

InLoop == {"fetch", "planLimit", "skip", "process", "commit"}

CursorSound ==
    \A c \in Calls :
        /\ pc[c] \in InLoop =>
            \A b \in FirstBlock .. cursor[c] - 1 : b \in Accounted
        /\ pc[c] = "startGap" =>
            \A b \in FirstBlock .. cursor[c] - 1 :
                b \in Accounted \cup Blocks(gap[c])
        /\ pc[c] = "startGap" => cursor[c] = from[c]
        /\ pc[c] = "skip" => Blocks(Batch(c)) \subseteq reported
        /\ pc[c] = "commit" => Blocks(Batch(c)) \subseteq indexed

IInv == TypeOK /\ NoSilentLoss /\ CursorSound

LEMMA FirstBlockType == FirstBlock \in Nat \ {0}
BY SyncAssumption DEF FirstBlock, Greatest

LEMMA InitIInv == Init => IInv
<1> SUFFICES ASSUME Init PROVE IInv
  OBVIOUS
<1>1. TypeOK
  BY InitTypeOK
<1>2. NoSilentLoss
  BY FirstBlockType DEF Init, NoSilentLoss
<1>3. CursorSound
  BY DEF Init, CursorSound, InLoop
<1> QED
  BY <1>1, <1>2, <1>3 DEF IInv

(* Accounted only grows.                                                   *)
LEMMA AccountedGrows ==
    ASSUME IInv, [Next]_vars
    PROVE  indexed \subseteq indexed' /\ reported \subseteq reported'
<1>1. ASSUME NEW c \in Calls, Clamp(c) PROVE reported \subseteq reported'
  BY <1>1 DEF Clamp, RecordGap
<1>2. ASSUME NEW c \in Calls, PersistFails(c) PROVE indexed \subseteq indexed'
  BY <1>2 DEF PersistFails
<1> QED
  BY <1>1, <1>2
  DEF Next, Step, Start, ReadHead, ReadCheckpoint, PersistStartGap, Fetch,
      FetchRefused, Clamp, Skip, Persist, PersistPoison, PersistFails, Commit,
      Throw, Crash, Mine, RecordGap, vars, store

(* What a step of one call leaves untouched in another call.               *)
Untouched(d) ==
    /\ pc'[d] = pc[d]
    /\ head'[d] = head[d]
    /\ from'[d] = from[d]
    /\ cursor'[d] = cursor[d]
    /\ gap'[d] = gap[d]

(* The part of CursorSound that is about one call. *)
CallSound(d) ==
    /\ pc[d] \in InLoop =>
        \A b \in FirstBlock .. cursor[d] - 1 : b \in Accounted
    /\ pc[d] = "startGap" =>
        \A b \in FirstBlock .. cursor[d] - 1 :
            b \in Accounted \cup Blocks(gap[d])
    /\ pc[d] = "startGap" => cursor[d] = from[d]
    /\ pc[d] = "skip" => Blocks(Batch(d)) \subseteq reported
    /\ pc[d] = "commit" => Blocks(Batch(d)) \subseteq indexed

LEMMA CursorSoundPerCall == CursorSound <=> \A d \in Calls : CallSound(d)
BY DEF CursorSound, CallSound

(* A call that a step leaves alone stays sound. *)
LEMMA UntouchedStaysSound ==
    ASSUME NEW d \in Calls, CallSound(d), Untouched(d),
           indexed \subseteq indexed', reported \subseteq reported'
    PROVE  CallSound(d)'
<1>1. Batch(d)' = Batch(d)
  BY DEF Batch, Untouched
<1>2. /\ pc[d] = pc'[d]
      /\ cursor[d] = cursor'[d]
      /\ from[d] = from'[d]
      /\ gap[d] = gap'[d]
  BY DEF Untouched
<1>3. Accounted \subseteq Accounted'
  BY DEF Accounted
<1> QED
  BY <1>1, <1>2, <1>3 DEF CallSound, InLoop

(* A call that is not inside the loop, nor about to enter it, claims nothing. *)
LEMMA OutsideIsSound ==
    ASSUME NEW d \in Calls, pc'[d] \in {"idle", "returned", "head", "checkpoint"}
    PROVE  CallSound(d)'
BY DEF CallSound, InLoop

(* A step of one call leaves the locals of the others alone. *)
LEMMA OthersUntouched ==
    ASSUME TypeOK, NEW c \in Calls, NEW d \in Calls, d # c,
           Start(c) \/ Step(c) \/ PersistFails(c) \/ Throw(c)
    PROVE  Untouched(d)
<1> USE DEF Untouched, Goto, Forget, Throws, locals, TypeOK
<1>1. CASE Start(c)
  BY <1>1 DEF Start
<1>2. CASE ReadHead(c)
  BY <1>2 DEF ReadHead
<1>3. CASE ReadCheckpoint(c)
  BY <1>3 DEF ReadCheckpoint, LoopAt
<1>4. CASE PersistStartGap(c)
  BY <1>4 DEF PersistStartGap, LoopAt
<1>5. CASE Fetch(c) \/ FetchRefused(c)
  BY <1>5 DEF Fetch, FetchRefused
<1>6. CASE Clamp(c)
  BY <1>6 DEF Clamp
<1>7. CASE Skip(c) \/ Commit(c)
  BY <1>7 DEF Skip, Commit, FinishBatch, LoopAt
<1>8. CASE Persist(c)
  BY <1>8 DEF Persist
<1>9. CASE PersistPoison(c) \/ PersistFails(c) \/ Throw(c)
  BY <1>9 DEF PersistPoison, PersistFails, Throw
<1> QED
  BY <1>1, <1>2, <1>3, <1>4, <1>5, <1>6, <1>7, <1>8, <1>9 DEF Step

(* Moving the checkpoint to the end of a batch that is accounted for.      *)
LEMMA FinishBatchSound ==
    ASSUME IInv, NEW c \in Calls, FinishBatch(c),
           pc[c] \in {"skip", "commit"}, UNCHANGED << indexed, reported >>
    PROVE  NoSilentLoss' /\ CallSound(c)'
<1> DEFINE t == Batch(c).to
<1>1. t \in Nat /\ Batch(c) = Span(cursor[c], t) /\ cursor[c] \in Nat
  BY BatchType DEF IInv, TypeOK
<1>2. Blocks(Batch(c)) = cursor[c] .. t
  BY <1>1 DEF Blocks, Span
<1>3. \A b \in cursor[c] .. t : b \in Accounted
  BY <1>2 DEF IInv, CursorSound, Accounted
<1>4. \A b \in FirstBlock .. cursor[c] - 1 : b \in Accounted
  BY DEF IInv, CursorSound, InLoop
<1>5. \A b \in FirstBlock .. t : b \in Accounted
  BY <1>1, <1>3, <1>4, FirstBlockType
<1>6. Accounted' = Accounted
  BY DEF Accounted
<1>7. checkpoint' = t /\ cursor' = [cursor EXCEPT ![c] = t + 1]
  BY DEF FinishBatch
<1>8. NoSilentLoss'
  BY <1>5, <1>6, <1>7 DEF NoSilentLoss, FirstBlock
<1>9. pc'[c] \in {"returned", "fetch"}
  BY LoopAtTypeOK DEF FinishBatch, IInv
<1>10. cursor'[c] - 1 = t
  BY <1>1, <1>7 DEF IInv, TypeOK
<1>11. CallSound(c)'
  BY <1>5, <1>6, <1>9, <1>10 DEF CallSound, InLoop, FirstBlock
<1> QED
  BY <1>8, <1>11

(* Reading the checkpoint: all below the start is covered by the previous  *)
(* checkpoint, or is to be recorded as the gap of a first run.             *)
LEMMA ReadCheckpointSound ==
    ASSUME IInv, NEW c \in Calls, ReadCheckpoint(c)
    PROVE  CallSound(c)'
<1> DEFINE resolved == resolveStartBlock(checkpoint, ConfiguredStart, head[c],
                                         Lookback)
<1>1. resolved.from \in Nat /\ resolved.gap \in [from : Nat, to : Nat]
  BY ResolveType, SyncAssumption DEF IInv, TypeOK
<1>2. \A b \in FirstBlock .. resolved.from - 1 :
          b \in Accounted \/ (resolved.gap # NoBlocks /\ b \in Blocks(resolved.gap))
  <2>1. CASE checkpoint > 0
    <3>1. resolved.from = checkpoint + 1
      BY <2>1 DEF resolveStartBlock
    <3> QED
      BY <3>1 DEF IInv, NoSilentLoss, TypeOK
  <2>2. CASE checkpoint = 0 /\ ConfiguredStart > 0
    <3>1. resolved.from <= ConfiguredStart
      BY <2>2, SyncAssumption DEF resolveStartBlock, Least, IInv, TypeOK
    <3>2. FirstBlock >= ConfiguredStart
      BY SyncAssumption DEF FirstBlock, Greatest
    <3> QED
      BY <1>1, <3>1, <3>2, FirstBlockType, SyncAssumption
  <2>3. CASE checkpoint = 0 /\ ConfiguredStart = 0
    <3> DEFINE floor == queryableFloor(head[c], Lookback)
    <3>1. floor \in Nat \ {0}
      BY FloorType, SyncAssumption DEF IInv, TypeOK
    <3>2. resolved = [from |-> floor,
                      gap  |-> IF floor > 1 THEN Span(1, floor - 1) ELSE NoBlocks]
      BY <2>3 DEF resolveStartBlock
    <3> HIDE DEF floor, resolved
    <3>3. CASE floor > 1
      <4>1. resolved.from = floor /\ resolved.gap = Span(1, floor - 1)
        BY <3>2, <3>3
      <4> QED
        BY <3>1, <3>3, <4>1, FirstBlockType DEF Span, NoBlocks, Blocks
    <3>4. CASE floor = 1
      BY <3>1, <3>2, <3>4, FirstBlockType
    <3> QED
      BY <3>1, <3>3, <3>4
  <2> QED
    BY <2>1, <2>2, <2>3, SyncAssumption DEF IInv, TypeOK
<1>3. /\ from'[c] = resolved.from
      /\ cursor'[c] = resolved.from
      /\ gap'[c] = resolved.gap
  BY DEF ReadCheckpoint, IInv, TypeOK
<1>4. Accounted' = Accounted
  BY DEF ReadCheckpoint, Accounted, store
<1>5. \/ resolved.gap # NoBlocks /\ pc'[c] = "startGap"
      \/ resolved.gap = NoBlocks /\ pc'[c] \in {"returned", "fetch"}
  BY LoopAtTypeOK DEF ReadCheckpoint, Goto, IInv, TypeOK
<1> HIDE DEF resolved
<1>6. FirstBlock' = FirstBlock
  BY DEF FirstBlock
<1>7. CASE resolved.gap # NoBlocks /\ pc'[c] = "startGap"
  BY <1>2, <1>3, <1>4, <1>6, <1>7 DEF CallSound, InLoop
<1>8. CASE resolved.gap = NoBlocks /\ pc'[c] \in {"returned", "fetch"}
  BY <1>2, <1>3, <1>4, <1>6, <1>8 DEF CallSound, InLoop
<1> QED
  BY <1>5, <1>7, <1>8

(* Clamping: what the cursor passes over has just been recorded. *)
LEMMA ClampSound ==
    ASSUME IInv, NEW c \in Calls, Clamp(c)
    PROVE  CallSound(c)'
<1> DEFINE floor == queryableFloor(head[c], Lookback)
           t == Batch(c).to
           clamped == clampRangeToFloor(Span(cursor[c], t), floor)
<1>1. floor \in Nat
  BY FloorType, SyncAssumption DEF IInv, TypeOK
<1>2. t \in Nat /\ Batch(c) = Span(cursor[c], t) /\ cursor[c] \in Nat
  BY BatchType DEF IInv, TypeOK
<1>3. /\ clamped.range \in [from : Nat, to : Nat]
      /\ clamped.gap \in [from : Nat, to : Nat]
      /\ clamped.range = NoBlocks => clamped.gap = Span(cursor[c], t)
      /\ clamped.range # NoBlocks =>
            \A b \in cursor[c] .. clamped.range.from - 1 : b \in Blocks(clamped.gap)
  BY <1>1, <1>2, ClampPartitions
<1>4. /\ clamped.gap # NoBlocks => reported' = reported \cup Blocks(clamped.gap)
      /\ clamped.gap = NoBlocks => reported' = reported
      /\ clamped.range = NoBlocks => pc'[c] = "skip" /\ cursor' = cursor
      /\ clamped.range # NoBlocks =>
            pc'[c] = "fetch" /\ cursor'[c] = clamped.range.from
      /\ indexed' = indexed /\ head' = head
  BY <1>2 DEF Clamp, RecordGap, Goto, IInv, TypeOK
<1> HIDE DEF clamped
<1>5. Blocks(clamped.gap) \subseteq reported'
  BY <1>4 DEF Blocks, NoBlocks, Span
<1>6. \A b \in FirstBlock .. cursor[c] - 1 : b \in Accounted'
  <2>1. pc[c] \in InLoop
    BY DEF Clamp, InLoop
  <2>2. Accounted \subseteq Accounted'
    BY <1>4 DEF Accounted
  <2> QED
    BY <2>1, <2>2 DEF IInv, CursorSound
<1>7. CASE clamped.range = NoBlocks
  <2>1. Batch(c)' = Batch(c)
    BY <1>4, <1>7 DEF Batch
  <2>2. Blocks(Batch(c)') \subseteq reported'
    BY <1>2, <1>3, <1>5, <1>7, <2>1
  <2> QED
    BY <1>4, <1>6, <1>7, <2>2 DEF CallSound, InLoop, FirstBlock
<1>8. CASE clamped.range # NoBlocks
  <2>1. \A b \in FirstBlock .. cursor'[c] - 1 : b \in Accounted'
    <3>1. \A b \in cursor[c] .. clamped.range.from - 1 : b \in Accounted'
      BY <1>3, <1>5, <1>8 DEF Accounted
    <3> QED
      BY <1>2, <1>3, <1>4, <1>6, <1>8, <3>1, FirstBlockType
  <2> QED
    BY <1>4, <1>8, <2>1 DEF CallSound, InLoop, FirstBlock
<1> QED
  BY <1>7, <1>8

(* A step of a call keeps that call sound and the checkpoint covered. *)
LEMMA CallStepSound ==
    ASSUME IInv, [Next]_vars, NEW c \in Calls,
           Start(c) \/ Step(c) \/ PersistFails(c) \/ Throw(c)
    PROVE  NoSilentLoss' /\ CallSound(c)'
<1>1. /\ indexed \subseteq indexed'
      /\ reported \subseteq reported'
      /\ Accounted \subseteq Accounted'
      /\ FirstBlock' = FirstBlock
  BY AccountedGrows DEF Accounted, FirstBlock
<1>2. ASSUME checkpoint' = checkpoint PROVE NoSilentLoss'
  BY <1>1, <1>2 DEF IInv, NoSilentLoss
<1>3. ASSUME Throws(c) PROVE CallSound(c)'
  <2>1. pc'[c] = "idle"
    BY <1>3 DEF Throws, Goto, IInv, TypeOK
  <2> QED
    BY <2>1, OutsideIsSound
<1>4. CASE Start(c)
  <2>1. pc'[c] = "head" /\ checkpoint' = checkpoint
    BY <1>4 DEF Start, Goto, IInv, TypeOK, store
  <2> QED
    BY <1>2, <2>1, OutsideIsSound
<1>5. CASE ReadHead(c)
  <2>1. pc'[c] = "checkpoint" /\ checkpoint' = checkpoint
    BY <1>5 DEF ReadHead, Goto, IInv, TypeOK, store
  <2> QED
    BY <1>2, <2>1, OutsideIsSound
<1>6. CASE ReadCheckpoint(c)
  <2>1. checkpoint' = checkpoint
    BY <1>6 DEF ReadCheckpoint, store
  <2> QED
    BY <1>2, <1>6, <2>1, ReadCheckpointSound
<1>7. CASE PersistStartGap(c)
  <2>1. /\ checkpoint' = checkpoint
        /\ cursor' = cursor
        /\ reported' = reported \cup Blocks(gap[c])
        /\ indexed' = indexed
        /\ LoopAt(c, from[c], head[c])
    BY <1>7 DEF PersistStartGap, RecordGap, locals
  <2>2. pc'[c] \in {"returned", "fetch"}
    BY <2>1, LoopAtTypeOK DEF IInv
  <2>3. \A b \in FirstBlock .. cursor[c] - 1 : b \in Accounted'
    BY <1>7, <2>1 DEF PersistStartGap, IInv, CursorSound, Accounted
  <2>4. CallSound(c)'
    BY <1>1, <2>1, <2>2, <2>3 DEF CallSound, InLoop
  <2> QED
    BY <1>2, <2>1, <2>4
<1>8. CASE Fetch(c) \/ FetchRefused(c)
  <2>1. /\ checkpoint' = checkpoint
        /\ cursor' = cursor
        /\ pc[c] \in InLoop
        /\ pc'[c] \in {"process", "planLimit"}
    BY <1>8 DEF Fetch, FetchRefused, Goto, IInv, TypeOK, store, locals, InLoop
  <2>2. CallSound(c)'
    BY <1>1, <2>1 DEF CallSound, IInv, CursorSound, InLoop
  <2> QED
    BY <1>2, <2>1, <2>2
<1>9. CASE Clamp(c)
  <2>1. checkpoint' = checkpoint
    BY <1>9 DEF Clamp
  <2> QED
    BY <1>2, <1>9, <2>1, ClampSound
<1>10. CASE Skip(c) \/ Commit(c)
  BY <1>10, FinishBatchSound DEF Skip, Commit
<1>11. CASE Persist(c)
  <2>1. /\ checkpoint' = checkpoint
        /\ cursor' = cursor
        /\ head' = head
        /\ pc[c] \in InLoop
        /\ pc'[c] = "commit"
        /\ indexed' = indexed \cup Blocks(Batch(c))
    BY <1>11 DEF Persist, Goto, IInv, TypeOK, locals, InLoop
  <2>2. Batch(c)' = Batch(c)
    BY <2>1 DEF Batch
  <2>3. \A b \in FirstBlock .. cursor[c] - 1 : b \in Accounted'
    BY <1>1, <2>1 DEF IInv, CursorSound
  <2>4. CallSound(c)'
    BY <1>1, <2>1, <2>2, <2>3 DEF CallSound, InLoop
  <2> QED
    BY <1>2, <2>1, <2>4
<1>12. CASE PersistPoison(c) \/ PersistFails(c)
  <2>1. checkpoint' = checkpoint /\ Throws(c)
    BY <1>12 DEF PersistPoison, PersistFails
  <2> QED
    BY <1>2, <1>3, <2>1
<1>13. CASE Throw(c)
  <2>1. checkpoint' = checkpoint /\ Throws(c)
    BY <1>13 DEF Throw, store
  <2> QED
    BY <1>2, <1>3, <2>1
<1> QED
  BY <1>4, <1>5, <1>6, <1>7, <1>8, <1>9, <1>10, <1>11, <1>12, <1>13 DEF Step

LEMMA StepIInv == IInv /\ [Next]_vars => IInv'
<1> SUFFICES ASSUME IInv, [Next]_vars PROVE IInv'
  OBVIOUS
<1>1. TypeOK'
  BY StepTypeOK DEF IInv
<1>2. /\ indexed \subseteq indexed'
      /\ reported \subseteq reported'
  BY AccountedGrows
<1>3. ASSUME NEW c \in Calls, Start(c) \/ Step(c) \/ PersistFails(c) \/ Throw(c)
      PROVE  NoSilentLoss' /\ CursorSound'
  <2>1. NoSilentLoss' /\ CallSound(c)'
    BY <1>3, CallStepSound
  <2>2. ASSUME NEW d \in Calls, d # c PROVE CallSound(d)'
    <3>1. Untouched(d)
      BY <1>3, <2>2, OthersUntouched DEF IInv
    <3>2. CallSound(d)
      BY CursorSoundPerCall DEF IInv
    <3> QED
      BY <1>2, <3>1, <3>2, UntouchedStaysSound
  <2>3. \A d \in Calls : CallSound(d)'
    BY <2>1, <2>2
  <2> QED
    BY <2>1, <2>3 DEF CursorSound, CallSound
<1>4. ASSUME checkpoint' = checkpoint,
             \A d \in Calls : Untouched(d) \/ pc'[d] = "idle"
      PROVE  NoSilentLoss' /\ CursorSound'
  <2>1. NoSilentLoss'
    BY <1>2, <1>4 DEF IInv, NoSilentLoss, Accounted, FirstBlock
  <2>2. ASSUME NEW d \in Calls PROVE CallSound(d)'
    <3>1. CallSound(d)
      BY CursorSoundPerCall DEF IInv
    <3>2. CASE Untouched(d)
      BY <1>2, <3>1, <3>2, UntouchedStaysSound
    <3>3. CASE pc'[d] = "idle"
      BY <3>3, OutsideIsSound
    <3> QED
      BY <1>4, <3>2, <3>3
  <2> QED
    BY <2>1, <2>2 DEF CursorSound, CallSound
<1>5. ASSUME NEW p \in Processes, Crash(p) PROVE NoSilentLoss' /\ CursorSound'
  BY <1>4, <1>5 DEF Crash, Untouched, store
<1>6. ASSUME Mine \/ UNCHANGED vars PROVE NoSilentLoss' /\ CursorSound'
  BY <1>4, <1>6 DEF Mine, Untouched, vars, store, locals
<1>7. NoSilentLoss' /\ CursorSound'
  BY <1>3, <1>5, <1>6 DEF Next
<1> QED
  BY <1>1, <1>7 DEF IInv

(* No run, exception, crash or overlap of runs loses a block silently: a   *)
(* block at or below the checkpoint is stored or was recorded as a gap.    *)
THEOREM NoSilentLossHolds == Spec => []NoSilentLoss
<1>1. IInv => NoSilentLoss
  BY DEF IInv
<1> QED
  BY InitIInv, StepIInv, <1>1, PTL DEF Spec

(* The engine implements the abstract index ledger, for every value of the *)
(* constants: its checkpoint only ever names a block with no hole below it.*)
THEOREM EngineImplementsLedger == Spec => ImplementsLedger
<1>1. Init => Ledger!LedgerInit
  BY DEF Init, Ledger!LedgerInit, Accounted
<1>2. IInv /\ IInv' /\ [Next]_vars => [Ledger!LedgerNext]_(Ledger!ledgerVars)
  <2> SUFFICES ASSUME IInv, IInv', [Next]_vars
               PROVE  Ledger!Account \/ Ledger!MoveCheckpoint
    BY DEF Ledger!LedgerNext
  <2>1. Accounted \subseteq Accounted'
    BY AccountedGrows DEF Accounted
  <2>2. CASE checkpoint' = checkpoint
    BY <2>1, <2>2 DEF Ledger!Account
  <2>3. CASE checkpoint' # checkpoint
    <3>1. PICK c \in Calls : Skip(c) \/ Commit(c)
      BY <2>3
      DEF Next, Step, Start, ReadHead, ReadCheckpoint, PersistStartGap, Fetch,
          FetchRefused, Clamp, Persist, PersistPoison, PersistFails, Throw,
          Crash, Mine, vars, store
    <3>2. Accounted' = Accounted
      BY <3>1 DEF Skip, Commit, Accounted
    <3>3. checkpoint' \in Nat /\ \A b \in FirstBlock .. checkpoint' : b \in Accounted
      BY <3>2 DEF IInv, TypeOK, NoSilentLoss, FirstBlock
    <3> QED
      BY <3>2, <3>3 DEF Ledger!MoveCheckpoint, Ledger!Complete
  <2> QED
    BY <2>2, <2>3
<1> QED
  BY <1>1, <1>2, InitIInv, StepIInv, PTL
  DEF Spec, ImplementsLedger, Ledger!LedgerSpec

-----------------------------------------------------------------------------
(* What one run knows of itself: its head was the chain's, what it has     *)
(* moved past is stored or in its gap, a first run's gap is below its own  *)
(* window, and a batch about to be skipped is in the gap.                  *)
RunSound(d) ==
    /\ head[d] <= chain
    /\ pc[d] \in InLoop \cup {"startGap", "returned"} =>
          \A b \in from[d] .. cursor[d] - 1 : b \in indexed \/ b \in Blocks(gap[d])
    /\ pc[d] = "startGap" =>
          \A b \in Blocks(gap[d]) : b < queryableFloor(head[d], Lookback)
    /\ pc[d] = "skip" => Blocks(Batch(d)) \subseteq Blocks(gap[d])

RangeInv == IInv /\ NothingRecentGivenUp /\ \A c \in Calls : RunSound(c)

(* A higher head has no lower floor. *)
LEMMA FloorMonotone ==
    ASSUME NEW h \in Nat, NEW k \in Nat, h <= k, NEW l \in Nat
    PROVE  queryableFloor(h, l) <= queryableFloor(k, l)
BY DEF queryableFloor, Greatest

(* A call a step leaves alone. *)
LEMMA UntouchedRuns ==
    ASSUME NEW d \in Calls, RunSound(d), Untouched(d), TypeOK, TypeOK',
           indexed \subseteq indexed', chain <= chain'
    PROVE  RunSound(d)'
<1>1. Batch(d)' = Batch(d)
  BY DEF Batch, Untouched
<1>2. /\ pc[d] = pc'[d] /\ cursor[d] = cursor'[d] /\ from[d] = from'[d]
      /\ gap[d] = gap'[d] /\ head'[d] = head[d]
  BY DEF Untouched
<1>3. head'[d] <= chain'
  BY <1>2 DEF RunSound, TypeOK
<1> QED
  BY <1>1, <1>2, <1>3 DEF RunSound, InLoop

(* A call that is over, or has read nothing yet. *)
LEMMA ForgottenRuns ==
    ASSUME NEW c \in Calls, TypeOK, Forget(c), pc'[c] \in {"idle", "head"}, chain' = chain
    PROVE  RunSound(c)'
<1>1. head'[c] = 0
  BY DEF Forget, TypeOK
<1>2. head'[c] <= chain'
  BY <1>1 DEF TypeOK
<1> QED
  BY <1>2 DEF RunSound, InLoop

(* The chain grows only. *)
LEMMA ChainGrows == ASSUME TypeOK, [Next]_vars PROVE chain <= chain'
<1>1. chain \in Nat
  BY DEF TypeOK
<1>2. chain' = chain \/ chain' = chain + 1
  BY DEF Next, Step, Start, ReadHead, ReadCheckpoint, PersistStartGap, Fetch,
         FetchRefused, Clamp, Skip, Persist, PersistPoison, PersistFails, Commit,
         Throw, Crash, Mine, vars
<1> QED
  BY <1>1, <1>2

(* What is reported is recent neither now nor later. *)
LEMMA GivenUpStays ==
    ASSUME TypeOK, TypeOK', NothingRecentGivenUp, chain <= chain',
           \A b \in reported' : b \in reported \/ b < queryableFloor(chain, Lookback)
    PROVE  NothingRecentGivenUp'
<1>1. queryableFloor(chain, Lookback) <= queryableFloor(chain', Lookback)
  BY FloorMonotone, SyncAssumption DEF TypeOK
<1>2. queryableFloor(chain, Lookback) \in Nat /\ queryableFloor(chain', Lookback) \in Nat
  BY FloorType, SyncAssumption DEF TypeOK
<1>3. \A b \in reported' : b \in Nat /\ b < queryableFloor(chain, Lookback)
  BY DEF TypeOK, NothingRecentGivenUp
<1> QED
  BY <1>1, <1>2, <1>3 DEF NothingRecentGivenUp

LEMMA ReadCheckpointRuns ==
    ASSUME RangeInv, NEW c \in Calls, ReadCheckpoint(c)
    PROVE  RunSound(c)'
<1> DEFINE resolved == resolveStartBlock(checkpoint, ConfiguredStart, head[c], Lookback)
<1>0. TypeOK /\ RunSound(c)
  BY DEF RangeInv, IInv
<1>1. resolved.from \in Nat
  BY <1>0, ResolveType, SyncAssumption DEF TypeOK
<1>2. resolved.gap # NoBlocks
        => \A b \in Blocks(resolved.gap) : b < queryableFloor(head[c], Lookback)
  <2> DEFINE floor == queryableFloor(head[c], Lookback)
  <2>1. floor \in Nat \ {0}
    BY <1>0, FloorType, SyncAssumption DEF TypeOK
  <2>2. resolved.gap = NoBlocks \/ resolved.gap = Span(1, floor - 1)
    BY DEF resolveStartBlock
  <2> HIDE DEF resolved, floor
  <2>3. \A b \in Blocks(Span(1, floor - 1)) : b < floor
    BY <2>1 DEF Span, Blocks
  <2> QED
    BY <2>2, <2>3 DEF floor
<1>3. /\ from'[c] = resolved.from /\ cursor'[c] = resolved.from /\ gap'[c] = resolved.gap
      /\ head' = head /\ chain' = chain
  BY <1>0 DEF ReadCheckpoint, TypeOK
<1>4. \/ resolved.gap # NoBlocks /\ pc'[c] = "startGap"
      \/ pc'[c] \in {"returned", "fetch"}
  BY <1>0, LoopAtTypeOK DEF ReadCheckpoint, Goto, TypeOK
<1> HIDE DEF resolved
<1>5. \A b \in from'[c] .. cursor'[c] - 1 : FALSE
  BY <1>1, <1>3
<1> QED
  BY <1>0, <1>2, <1>3, <1>4, <1>5 DEF RunSound, InLoop

LEMMA ClampRuns ==
    ASSUME RangeInv, NEW c \in Calls, Clamp(c)
    PROVE  /\ RunSound(c)'
           /\ \A b \in reported' : b \in reported \/ b < queryableFloor(chain, Lookback)
<1> DEFINE floor == queryableFloor(head[c], Lookback)
           t == Batch(c).to
           clamped == clampRangeToFloor(Span(cursor[c], t), floor)
           merged == mergeGap(gap[c], clamped.gap)
<1>0. TypeOK /\ RunSound(c) /\ pc[c] = "planLimit"
  BY DEF RangeInv, IInv, Clamp
<1>1. floor \in Nat
  BY <1>0, FloorType, SyncAssumption DEF TypeOK
<1>2. t \in Nat /\ Batch(c) = Span(cursor[c], t) /\ cursor[c] \in Nat /\ from[c] \in Nat
      /\ gap[c] \in [from : Nat, to : Nat]
  BY <1>0, BatchType DEF TypeOK
<1>3. /\ clamped.range \in [from : Nat, to : Nat]
      /\ clamped.gap \in [from : Nat, to : Nat]
      /\ \A b \in Blocks(clamped.gap) : b < floor
      /\ clamped.range = NoBlocks => clamped.gap = Span(cursor[c], t)
      /\ clamped.range # NoBlocks =>
            \A b \in cursor[c] .. clamped.range.from - 1 : b \in Blocks(clamped.gap)
  BY <1>1, <1>2, ClampPartitions
<1>4. Blocks(gap[c]) \cup Blocks(clamped.gap) \subseteq Blocks(merged)
  BY <1>2, <1>3, MergeCovers
<1>5. /\ clamped.gap # NoBlocks => gap'[c] = merged /\ reported' = reported \cup Blocks(clamped.gap)
      /\ clamped.gap = NoBlocks => gap'[c] = gap[c] /\ reported' = reported
      /\ clamped.range = NoBlocks => pc'[c] = "skip" /\ cursor' = cursor
      /\ clamped.range # NoBlocks => pc'[c] = "fetch" /\ cursor'[c] = clamped.range.from
      /\ indexed' = indexed /\ head' = head /\ from' = from /\ chain' = chain
  BY <1>0, <1>2 DEF Clamp, RecordGap, Goto, TypeOK
<1> HIDE DEF clamped, merged
<1>6. Blocks(gap[c]) \cup Blocks(clamped.gap) \subseteq Blocks(gap'[c])
  BY <1>4, <1>5 DEF Blocks, NoBlocks, Span
<1>7. \A b \in reported' : b \in reported \/ b < queryableFloor(chain, Lookback)
  <2>1. floor <= queryableFloor(chain, Lookback)
    BY <1>0, FloorMonotone, SyncAssumption DEF TypeOK, RunSound
  <2>2. queryableFloor(chain, Lookback) \in Nat
    BY <1>0, FloorType, SyncAssumption DEF TypeOK
  <2>3. Blocks(clamped.gap) \subseteq Nat
    BY <1>3 DEF Blocks
  <2> HIDE DEF floor
  <2> QED
    BY <1>1, <1>3, <1>5, <2>1, <2>2, <2>3
<1>8. \A b \in from[c] .. cursor[c] - 1 : b \in indexed' \/ b \in Blocks(gap'[c])
  BY <1>0, <1>5, <1>6 DEF RunSound, InLoop
<1>9. RunSound(c)'
  <2>1. head'[c] <= chain'
    BY <1>0, <1>5 DEF RunSound
  <2>2. CASE clamped.range = NoBlocks
    <3>1. Batch(c)' = Batch(c)
      BY <1>5, <2>2 DEF Batch
    <3>2. Blocks(Batch(c)') \subseteq Blocks(gap'[c])
      BY <1>2, <1>3, <1>6, <2>2, <3>1
    <3> QED
      BY <1>5, <1>8, <2>1, <2>2, <3>2 DEF RunSound
  <2>3. CASE clamped.range # NoBlocks
    <3>1. \A b \in cursor[c] .. clamped.range.from - 1 : b \in Blocks(gap'[c])
      BY <1>3, <1>6, <2>3
    <3>2. \A b \in from'[c] .. cursor'[c] - 1 : b \in indexed' \/ b \in Blocks(gap'[c])
      BY <1>2, <1>3, <1>5, <1>8, <2>3, <3>1
    <3> QED
      BY <1>5, <2>1, <2>3, <3>2 DEF RunSound
  <2> QED
    BY <2>2, <2>3
<1> QED
  BY <1>7, <1>9

(* The end of a batch that is stored, or given up as part of the gap. *)
LEMMA FinishBatchRuns ==
    ASSUME RangeInv, NEW c \in Calls, Skip(c) \/ Commit(c)
    PROVE  RunSound(c)'
<1> DEFINE t == Batch(c).to
<1>0. TypeOK /\ RunSound(c) /\ CursorSound /\ pc[c] \in {"skip", "commit"} /\ FinishBatch(c)
      /\ UNCHANGED << chain, indexed, head, from, gap >>
  BY DEF RangeInv, IInv, Skip, Commit, FinishBatch
<1>1. t \in Nat /\ Batch(c) = Span(cursor[c], t) /\ cursor[c] \in Nat /\ from[c] \in Nat
  BY <1>0, BatchType DEF TypeOK
<1>2. \A b \in cursor[c] .. t : b \in indexed \/ b \in Blocks(gap[c])
  <2>1. Blocks(Batch(c)) = cursor[c] .. t
    BY <1>1 DEF Blocks, Span
  <2> QED
    BY <1>0, <2>1 DEF RunSound, CursorSound
<1>3. \A b \in from[c] .. cursor[c] - 1 : b \in indexed \/ b \in Blocks(gap[c])
  BY <1>0 DEF RunSound, InLoop
<1>4. cursor'[c] = t + 1 /\ pc'[c] \in {"returned", "fetch"}
  BY <1>0, LoopAtTypeOK DEF FinishBatch, TypeOK
<1> HIDE DEF t
<1>5. \A b \in from[c] .. cursor'[c] - 1 : b \in indexed \/ b \in Blocks(gap[c])
  BY <1>1, <1>2, <1>3, <1>4
<1> QED
  BY <1>0, <1>4, <1>5 DEF RunSound, InLoop

(* A step of a call, for the call itself and for what is given up. *)
LEMMA CallStepRuns ==
    ASSUME RangeInv, TypeOK', NEW c \in Calls,
           Start(c) \/ Step(c) \/ PersistFails(c) \/ Throw(c)
    PROVE  /\ RunSound(c)'
           /\ \A b \in reported' : b \in reported \/ b < queryableFloor(chain, Lookback)
<1> DEFINE Kept == \A b \in reported' : b \in reported \/ b < queryableFloor(chain, Lookback)
<1>0. TypeOK /\ RunSound(c) /\ CursorSound
  BY DEF RangeInv, IInv
<1>k. reported' = reported => Kept
  OBVIOUS
<1>1. CASE Start(c)
  <2>1. Forget(c) /\ pc'[c] = "head" /\ chain' = chain /\ reported' = reported
    BY <1>0, <1>1 DEF Start, Goto, TypeOK, store
  <2> QED
    BY <1>0, <1>k, <2>1, ForgottenRuns
<1>2. CASE ReadHead(c)
  <2>1. PICK h \in Greatest(0, chain - HeadLag) .. chain : head' = [head EXCEPT ![c] = h]
    BY <1>2 DEF ReadHead
  <2>2. h <= chain
    BY <1>0, <2>1, SyncAssumption DEF TypeOK, Greatest
  <2>3. head'[c] = h /\ chain' = chain /\ pc'[c] = "checkpoint" /\ reported' = reported
    BY <1>0, <1>2, <2>1 DEF ReadHead, Goto, TypeOK, store
  <2> QED
    BY <1>k, <2>2, <2>3 DEF RunSound, InLoop
<1>3. CASE ReadCheckpoint(c)
  <2>1. reported' = reported
    BY <1>3 DEF ReadCheckpoint, store
  <2> QED
    BY <1>3, <1>k, <2>1, ReadCheckpointRuns
<1>4. CASE PersistStartGap(c)
  <2>1. /\ pc[c] = "startGap" /\ UNCHANGED << chain, indexed, locals >>
        /\ reported' = reported \cup Blocks(gap[c])
        /\ pc'[c] \in {"returned", "fetch"}
    BY <1>0, <1>4, LoopAtTypeOK DEF PersistStartGap, RecordGap
  <2>2. Kept
    <3>1. queryableFloor(head[c], Lookback) <= queryableFloor(chain, Lookback)
      BY <1>0, FloorMonotone, SyncAssumption DEF TypeOK, RunSound
    <3>2. queryableFloor(chain, Lookback) \in Nat /\ queryableFloor(head[c], Lookback) \in Nat
      BY <1>0, FloorType, SyncAssumption DEF TypeOK
    <3>3. \A b \in Blocks(gap[c]) : b \in Nat /\ b < queryableFloor(head[c], Lookback)
      BY <1>0, <2>1 DEF RunSound, TypeOK, Blocks
    <3>4. \A b \in Blocks(gap[c]) : b < queryableFloor(chain, Lookback)
      BY <3>1, <3>2, <3>3
    <3> QED
      BY <2>1, <3>4
  <2>3. RunSound(c)'
    BY <1>0, <2>1 DEF RunSound, InLoop, locals
  <2> QED
    BY <2>2, <2>3
<1>5. CASE Fetch(c) \/ FetchRefused(c)
  <2>1. /\ pc[c] = "fetch" /\ pc'[c] \in {"process", "planLimit"}
        /\ UNCHANGED << chain, indexed, reported, locals >>
    BY <1>0, <1>5 DEF Fetch, FetchRefused, Goto, TypeOK, store
  <2> QED
    BY <1>0, <1>k, <2>1 DEF RunSound, InLoop, locals
<1>6. CASE Clamp(c)
  BY <1>6, ClampRuns
<1>7. CASE Skip(c) \/ Commit(c)
  <2>1. reported' = reported
    BY <1>7 DEF Skip, Commit
  <2> QED
    BY <1>7, <1>k, <2>1, FinishBatchRuns
<1>8. CASE Persist(c)
  <2>1. /\ pc[c] = "process" /\ pc'[c] = "commit" /\ UNCHANGED << chain, reported, locals >>
        /\ indexed \subseteq indexed'
    BY <1>0, <1>8 DEF Persist, Goto, TypeOK
  <2> QED
    BY <1>0, <1>k, <2>1 DEF RunSound, InLoop, locals
<1>9. CASE PersistPoison(c) \/ PersistFails(c) \/ Throw(c)
  <2>1. Throws(c) /\ chain' = chain /\ reported' = reported
    BY <1>9 DEF PersistPoison, PersistFails, Throw, store
  <2>2. Forget(c) /\ pc'[c] = "idle"
    BY <1>0, <2>1 DEF Throws, Goto, TypeOK
  <2> QED
    BY <1>0, <1>k, <2>1, <2>2, ForgottenRuns
<1> QED
  BY <1>1, <1>2, <1>3, <1>4, <1>5, <1>6, <1>7, <1>8, <1>9 DEF Step

LEMMA StepRangeInv == RangeInv /\ [Next]_vars => RangeInv'
<1> SUFFICES ASSUME RangeInv, [Next]_vars PROVE RangeInv'
  OBVIOUS
<1>1. IInv' /\ TypeOK /\ TypeOK'
  BY StepIInv DEF RangeInv, IInv
<1>2. indexed \subseteq indexed' /\ chain <= chain'
  BY <1>1, AccountedGrows, ChainGrows DEF RangeInv
<1>3. ASSUME NEW c \in Calls, Start(c) \/ Step(c) \/ PersistFails(c) \/ Throw(c)
      PROVE  NothingRecentGivenUp' /\ \A d \in Calls : RunSound(d)'
  <2>1. /\ RunSound(c)'
        /\ \A b \in reported' : b \in reported \/ b < queryableFloor(chain, Lookback)
    BY <1>1, <1>3, CallStepRuns
  <2>2. ASSUME NEW d \in Calls, d # c PROVE RunSound(d)'
    <3>1. Untouched(d)
      BY <1>1, <1>3, <2>2, OthersUntouched
    <3> QED
      BY <1>1, <1>2, <3>1, UntouchedRuns DEF RangeInv
  <2>3. NothingRecentGivenUp'
    BY <1>1, <1>2, <2>1, GivenUpStays DEF RangeInv
  <2> QED
    BY <2>1, <2>2, <2>3
<1>4. ASSUME reported' = reported,
             \A d \in Calls : Untouched(d) \/ (pc'[d] = "idle" /\ head'[d] = 0)
      PROVE  NothingRecentGivenUp' /\ \A d \in Calls : RunSound(d)'
  <2>1. NothingRecentGivenUp'
    BY <1>1, <1>2, <1>4, GivenUpStays DEF RangeInv
  <2>2. ASSUME NEW d \in Calls PROVE RunSound(d)'
    <3>1. CASE Untouched(d)
      BY <1>1, <1>2, <3>1, UntouchedRuns DEF RangeInv
    <3>2. CASE pc'[d] = "idle" /\ head'[d] = 0
      <4>1. head'[d] <= chain'
        BY <1>1, <3>2 DEF TypeOK
      <4> QED
        BY <3>2, <4>1 DEF RunSound, InLoop
    <3> QED
      BY <1>4, <3>1, <3>2
  <2> QED
    BY <2>1, <2>2
<1>5. ASSUME NEW p \in Processes, Crash(p)
      PROVE  NothingRecentGivenUp' /\ \A d \in Calls : RunSound(d)'
  BY <1>4, <1>5 DEF Crash, Untouched, store
<1>6. ASSUME Mine \/ UNCHANGED vars
      PROVE  NothingRecentGivenUp' /\ \A d \in Calls : RunSound(d)'
  BY <1>4, <1>6 DEF Mine, Untouched, vars, store, locals
<1>7. NothingRecentGivenUp' /\ \A d \in Calls : RunSound(d)'
  BY <1>3, <1>5, <1>6 DEF Next
<1> QED
  BY <1>1, <1>7 DEF RangeInv

LEMMA RangeInvariant == Spec => []RangeInv
<1>1. Init => RangeInv
  <2> SUFFICES ASSUME Init PROVE RangeInv
    OBVIOUS
  <2>1. IInv
    BY InitIInv
  <2>2. NothingRecentGivenUp /\ \A c \in Calls : RunSound(c)
    BY SyncAssumption DEF Init, NothingRecentGivenUp, RunSound, InLoop
  <2> QED
    BY <2>1, <2>2 DEF RangeInv
<1> QED
  BY <1>1, StepRangeInv, PTL DEF Spec

(* Whatever the other runs, exceptions and crashes do, what a run has      *)
(* moved past is stored or lies in the gap it returns, and no block of the *)
(* last safeLookbackBlocks is given up, however far the head a run has     *)
(* read lags behind the chain.                                             *)
THEOREM RunsKeepTheirRanges == Spec => []RunKeepsItsRange
<1>1. RangeInv => RunAccountsForItsRange
  <2> SUFFICES ASSUME RangeInv, NEW c \in Calls, pc[c] \notin {"idle", "head", "checkpoint"},
                      NEW b \in from[c] .. cursor[c] - 1
               PROVE  b \in indexed \/ b \in Blocks(gap[c])
    BY DEF RunAccountsForItsRange
  <2>1. pc[c] \in InLoop \cup {"startGap", "returned"}
    BY DEF RangeInv, IInv, TypeOK, Running, Stopped, InLoop
  <2> QED
    BY <2>1 DEF RangeInv, RunSound
<1>2. RangeInv => RunKeepsItsRange
  BY <1>1 DEF RangeInv, RunKeepsItsRange
<1> QED
  BY <1>2, RangeInvariant, PTL

-----------------------------------------------------------------------------
(* The checkpoint of a single process.  The in-flight set keeps the runs   *)
(* of a process apart, so between reading the checkpoint and moving it a   *)
(* run is the only one that writes it.                                     *)

(* A running call holds its process's label, and holds it alone. *)
LabelHeld ==
    /\ \A c \in Calls : pc[c] \in Running => ProcessOf[c] \in inFlight
    /\ \A c, d \in Calls :
        pc[c] \in Running /\ pc[d] \in Running /\ ProcessOf[c] = ProcessOf[d] => c = d

(* A run in its loop stands at or past the checkpoint, inside its range. *)
Ahead(c) ==
    /\ pc[c] \in InLoop \cup {"startGap"} => checkpoint <= cursor[c]
    /\ pc[c] \in InLoop => cursor[c] <= head[c]
    /\ pc[c] = "startGap" => cursor[c] = from[c]

(* How a step of a call moves it and the label. *)
LEMMA CallMovesLabel ==
    ASSUME TypeOK, NEW c \in Calls,
           Start(c) \/ Step(c) \/ PersistFails(c) \/ Throw(c)
    PROVE  \/ /\ pc[c] \in Stopped /\ pc'[c] \in Running
              /\ ProcessOf[c] \notin inFlight /\ inFlight' = inFlight \cup {ProcessOf[c]}
           \/ /\ pc[c] \in Running /\ pc'[c] \in Running
              /\ inFlight' = inFlight
           \/ /\ pc[c] \in Running /\ pc'[c] \in Stopped
              /\ inFlight' = inFlight \ {ProcessOf[c]}
<1> USE DEF TypeOK, Goto, Running, Stopped
<1>1. CASE Start(c)
  BY <1>1 DEF Start
<1>2. CASE ReadHead(c)
  BY <1>2 DEF ReadHead
<1>3. CASE ReadCheckpoint(c)
  BY <1>3 DEF ReadCheckpoint, LoopAt, Release
<1>4. CASE PersistStartGap(c)
  BY <1>4 DEF PersistStartGap, LoopAt, Release
<1>5. CASE Fetch(c) \/ FetchRefused(c)
  BY <1>5 DEF Fetch, FetchRefused
<1>6. CASE Clamp(c)
  BY <1>6 DEF Clamp
<1>7. CASE Skip(c) \/ Commit(c)
  BY <1>7 DEF Skip, Commit, FinishBatch, LoopAt, Release
<1>8. CASE Persist(c)
  BY <1>8 DEF Persist
<1>9. CASE PersistPoison(c) \/ PersistFails(c) \/ Throw(c)
  BY <1>9 DEF PersistPoison, PersistFails, Throw, Throws, Release
<1> QED
  BY <1>1, <1>2, <1>3, <1>4, <1>5, <1>6, <1>7, <1>8, <1>9 DEF Step

LEMMA CallKeepsLabel ==
    ASSUME TypeOK, LabelHeld, NEW c \in Calls,
           Start(c) \/ Step(c) \/ PersistFails(c) \/ Throw(c)
    PROVE  LabelHeld'
<1>1. \A d \in Calls : d # c => pc'[d] = pc[d]
  BY OthersUntouched DEF Untouched
<1>2. \A s : ~ (s \in Running /\ s \in Stopped)
  BY DEF Running, Stopped
<1> HIDE DEF Running, Stopped
<1> QED
  BY <1>1, <1>2, CallMovesLabel DEF LabelHeld

LEMMA StepLabelHeld ==
    ASSUME TypeOK, LabelHeld, [Next]_vars
    PROVE  LabelHeld'
<1>1. ASSUME NEW c \in Calls, Start(c) \/ Step(c) \/ PersistFails(c) \/ Throw(c)
      PROVE  LabelHeld'
  BY <1>1, CallKeepsLabel
<1>2. ASSUME NEW p \in Processes, Crash(p) PROVE LabelHeld'
  <2>1. /\ inFlight' = inFlight \ {p}
        /\ \A c \in Calls : IF ProcessOf[c] = p THEN pc'[c] = "idle" ELSE pc'[c] = pc[c]
    BY <1>2 DEF Crash
  <2>2. "idle" \notin Running
    BY DEF Running
  <2> QED
    BY <2>1, <2>2 DEF LabelHeld
<1>3. CASE Mine \/ UNCHANGED vars
  BY <1>3 DEF Mine, vars, LabelHeld
<1> QED
  BY <1>1, <1>2, <1>3 DEF Next

(* The batch of a run that is ahead ends at or past the checkpoint. *)
LEMMA BatchAhead ==
    ASSUME TypeOK, NEW c \in Calls, Ahead(c), pc[c] \in InLoop
    PROVE  /\ cursor[c] <= Batch(c).to /\ checkpoint <= Batch(c).to
           /\ Batch(c).to <= head[c]
BY SyncAssumption DEF TypeOK, Ahead, Batch, Span, Least

(* A step of a run that stays ahead moves the checkpoint on, if at all. *)
LEMMA CallAhead ==
    ASSUME TypeOK, NEW c \in Calls, Ahead(c),
           Start(c) \/ Step(c) \/ PersistFails(c) \/ Throw(c)
    PROVE  Ahead(c)' /\ checkpoint' >= checkpoint
           /\ (checkpoint' # checkpoint => pc[c] \in Running)
<1>0. checkpoint >= checkpoint
  BY DEF TypeOK
<1>1. ASSUME pc'[c] \in {"idle", "returned", "head", "checkpoint"} PROVE Ahead(c)'
  BY <1>1 DEF Ahead, InLoop
<1>2. CASE Start(c)
  BY <1>0, <1>1, <1>2 DEF Start, Goto, store, TypeOK
<1>3. CASE ReadHead(c)
  BY <1>0, <1>1, <1>3 DEF ReadHead, Goto, store, TypeOK
<1>4. CASE ReadCheckpoint(c)
  <2> DEFINE resolved == resolveStartBlock(checkpoint, ConfiguredStart, head[c], Lookback)
  <2>1. resolved.from \in Nat /\ checkpoint <= resolved.from
    <3>1. resolved.from \in Nat
      BY ResolveType, SyncAssumption DEF TypeOK
    <3>2. checkpoint > 0 => resolved.from = checkpoint + 1
      BY DEF resolveStartBlock
    <3> HIDE DEF resolved
    <3> QED
      BY <3>1, <3>2 DEF TypeOK
  <2>2. /\ from'[c] = resolved.from /\ cursor'[c] = resolved.from
        /\ head' = head /\ checkpoint' = checkpoint
        /\ \/ pc'[c] = "startGap"
           \/ LoopAt(c, resolved.from, head[c])
    BY <1>4 DEF ReadCheckpoint, store, TypeOK, Goto
  <2> HIDE DEF resolved
  <2>3. CASE pc'[c] = "startGap"
    BY <1>0, <2>1, <2>2, <2>3 DEF Ahead, InLoop
  <2>4. CASE LoopAt(c, resolved.from, head[c])
    <3>1. \/ pc'[c] = "returned"
          \/ pc'[c] = "fetch" /\ resolved.from <= head[c]
      BY <2>1, <2>4 DEF LoopAt, Goto, TypeOK
    <3> QED
      BY <1>0, <1>1, <2>1, <2>2, <3>1 DEF Ahead
  <2> QED
    BY <2>2, <2>3, <2>4
<1>5. CASE PersistStartGap(c)
  <2>1. /\ pc[c] = "startGap" /\ LoopAt(c, from[c], head[c])
        /\ UNCHANGED << checkpoint, locals >>
    BY <1>5 DEF PersistStartGap
  <2>2. \/ pc'[c] = "returned"
        \/ pc'[c] = "fetch" /\ from[c] <= head[c]
    BY <2>1 DEF LoopAt, Goto, TypeOK
  <2> QED
    BY <1>0, <1>1, <2>1, <2>2 DEF Ahead, InLoop, locals
<1>6. CASE Fetch(c) \/ FetchRefused(c) \/ Persist(c)
  <2>1. pc[c] \in InLoop /\ pc'[c] \in InLoop \ {"startGap"} /\ UNCHANGED << checkpoint, locals >>
    BY <1>6 DEF Fetch, FetchRefused, Persist, Goto, TypeOK, InLoop, store, locals
  <2> QED
    BY <1>0, <2>1 DEF Ahead, locals, InLoop
<1>7. CASE Clamp(c)
  <2> DEFINE floor == queryableFloor(head[c], Lookback)
             t == Batch(c).to
             clamped == clampRangeToFloor(Span(cursor[c], t), floor)
  <2>1. floor \in Nat
    BY FloorType, SyncAssumption DEF TypeOK
  <2>2. t \in Nat /\ Batch(c) = Span(cursor[c], t) /\ cursor[c] \in Nat /\ head[c] \in Nat
    BY BatchType DEF TypeOK
  <2>3. /\ pc[c] = "planLimit" /\ checkpoint' = checkpoint /\ head' = head
        /\ \/ pc'[c] = "skip" /\ cursor' = cursor
           \/ /\ clamped.range # NoBlocks /\ pc'[c] = "fetch"
              /\ cursor'[c] = clamped.range.from
    BY <1>7, <2>2 DEF Clamp, Goto, TypeOK
  <2>4. cursor[c] <= t /\ t <= head[c]
    BY <2>3, BatchAhead DEF InLoop
  <2>5. clamped.range # NoBlocks => cursor[c] <= clamped.range.from /\ clamped.range.from <= t
    BY <2>1, <2>2, <2>4 DEF clampRangeToFloor, Span, NoBlocks
  <2>6. clamped.range \in [from : Nat, to : Nat]
    BY <2>1, <2>2, ClampPartitions
  <2> HIDE DEF clamped, t
  <2>7. checkpoint <= cursor[c] /\ cursor[c] <= head[c] /\ checkpoint \in Nat
    BY <2>3 DEF Ahead, InLoop, TypeOK
  <2>8. checkpoint <= cursor'[c] /\ cursor'[c] <= head[c]
    BY <2>2, <2>3, <2>4, <2>5, <2>6, <2>7
  <2> QED
    BY <1>0, <2>3, <2>8 DEF Ahead
<1>8. CASE Skip(c) \/ Commit(c)
  <2> DEFINE t == Batch(c).to
  <2>1. pc[c] \in {"skip", "commit"} /\ FinishBatch(c)
    BY <1>8 DEF Skip, Commit
  <2>2. /\ checkpoint' = t /\ cursor'[c] = t + 1 /\ head' = head
        /\ LoopAt(c, t + 1, head[c])
    BY <2>1 DEF FinishBatch, TypeOK
  <2>3. t \in Nat /\ checkpoint <= t
    BY <2>1, BatchType, BatchAhead DEF InLoop
  <2> HIDE DEF t
  <2>4. \/ pc'[c] = "returned"
        \/ pc'[c] = "fetch" /\ t + 1 <= head[c]
    BY <2>2, <2>3 DEF LoopAt, Goto, TypeOK
  <2>5. Ahead(c)'
    BY <1>1, <2>2, <2>3, <2>4 DEF Ahead
  <2> QED
    BY <2>1, <2>2, <2>3, <2>5 DEF Running, TypeOK
<1>9. CASE PersistPoison(c) \/ PersistFails(c) \/ Throw(c)
  <2>1. Goto(c, "idle") /\ checkpoint' = checkpoint
    BY <1>9 DEF PersistPoison, PersistFails, Throw, Throws, store
  <2>2. pc'[c] = "idle"
    BY <2>1 DEF Goto, TypeOK
  <2> QED
    BY <1>0, <1>1, <2>1, <2>2
<1> QED
  BY <1>2, <1>3, <1>4, <1>5, <1>6, <1>7, <1>8, <1>9 DEF Step

AheadInv == TypeOK /\ LabelHeld /\ \A c \in Calls : Ahead(c)

LEMMA StepAhead ==
    ASSUME \A p, q \in Processes : p = q, AheadInv, [Next]_vars
    PROVE  AheadInv' /\ checkpoint' >= checkpoint
<1>0. TypeOK /\ LabelHeld /\ checkpoint >= checkpoint
  BY DEF AheadInv, TypeOK
<1>1. TypeOK' /\ LabelHeld'
  BY <1>0, StepTypeOK, StepLabelHeld
<1>2. ASSUME NEW c \in Calls, Start(c) \/ Step(c) \/ PersistFails(c) \/ Throw(c)
      PROVE  (\A d \in Calls : Ahead(d)') /\ checkpoint' >= checkpoint
  <2>1. /\ Ahead(c)' /\ checkpoint' >= checkpoint
        /\ checkpoint' # checkpoint => pc[c] \in Running
    BY <1>0, <1>2, CallAhead DEF AheadInv
  <2>2. ASSUME NEW d \in Calls, d # c PROVE Ahead(d)'
    <3>1. Untouched(d) /\ Ahead(d)
      BY <1>0, <1>2, <2>2, OthersUntouched DEF AheadInv
    <3>2. CASE checkpoint' = checkpoint
      <4>1. /\ pc'[d] = pc[d] /\ cursor'[d] = cursor[d]
            /\ from'[d] = from[d] /\ head'[d] = head[d]
        BY <3>1 DEF Untouched
      <4> QED
        BY <3>1, <3>2, <4>1 DEF Ahead
    <3>3. CASE checkpoint' # checkpoint
      <4>1. ProcessOf[c] = ProcessOf[d]
        BY SyncAssumption
      <4>2. pc[d] \notin Running
        BY <1>0, <2>1, <2>2, <3>3, <4>1 DEF LabelHeld
      <4>3. pc'[d] \notin InLoop \cup {"startGap"}
        BY <3>1, <4>2 DEF Untouched, Running, InLoop
      <4> QED
        BY <4>3 DEF Ahead
    <3> QED
      BY <3>2, <3>3
  <2> QED
    BY <2>1, <2>2
<1>3. ASSUME checkpoint' = checkpoint,
             \A d \in Calls : Untouched(d) \/ pc'[d] = "idle"
      PROVE  (\A d \in Calls : Ahead(d)') /\ checkpoint' >= checkpoint
  <2>1. ASSUME NEW d \in Calls PROVE Ahead(d)'
    <3>1. CASE pc'[d] = "idle"
      BY <3>1 DEF Ahead, InLoop
    <3>2. CASE Untouched(d)
      <4>1. /\ pc'[d] = pc[d] /\ cursor'[d] = cursor[d]
            /\ from'[d] = from[d] /\ head'[d] = head[d] /\ Ahead(d)
        BY <3>2 DEF Untouched, AheadInv
      <4> QED
        BY <1>3, <4>1 DEF Ahead
    <3> QED
      BY <1>3, <3>1, <3>2
  <2> QED
    BY <1>0, <1>3, <2>1
<1>4. ASSUME NEW p \in Processes, Crash(p)
      PROVE  (\A d \in Calls : Ahead(d)') /\ checkpoint' >= checkpoint
  BY <1>3, <1>4 DEF Crash, Untouched, store
<1>5. ASSUME Mine \/ UNCHANGED vars
      PROVE  (\A d \in Calls : Ahead(d)') /\ checkpoint' >= checkpoint
  BY <1>3, <1>5 DEF Mine, Untouched, vars, store, locals
<1>6. (\A d \in Calls : Ahead(d)') /\ checkpoint' >= checkpoint
  BY <1>2, <1>4, <1>5 DEF Next
<1> QED
  BY <1>1, <1>6 DEF AheadInv

(* A backend of one process never moves the checkpoint back, whatever      *)
(* triggers overlap, whatever they throw and however often it restarts.    *)
THEOREM OneProcessMovesOn ==
    ASSUME \A p, q \in Processes : p = q
    PROVE  Spec => CheckpointNeverMovesBack
<1>1. Init => AheadInv
  <2> SUFFICES ASSUME Init PROVE AheadInv
    OBVIOUS
  <2>1. \A c \in Calls : pc[c] = "idle"
    BY DEF Init
  <2>2. LabelHeld /\ \A c \in Calls : Ahead(c)
    BY <2>1 DEF LabelHeld, Ahead, Running, InLoop
  <2> QED
    BY <2>2, InitTypeOK DEF AheadInv
<1>2. AheadInv /\ [Next]_vars => AheadInv' /\ checkpoint' >= checkpoint
  BY StepAhead
<1>3. AheadInv /\ [Next]_vars => [checkpoint' >= checkpoint]_checkpoint
  BY <1>2
<1> QED
  BY <1>1, <1>2, <1>3, PTL DEF Spec, CheckpointNeverMovesBack
=============================================================================
