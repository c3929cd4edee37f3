--------------------------- MODULE RewardsProofs ---------------------------
(***************************************************************************)
(* Theorems about the way from a task to its reward.  MerkleRebuild, for   *)
(* any number of participants, tasks, rebuilds, approvals and failures: no *)
(* root reaches the contract before its proofs are saved, or overpays.     *)
(* TaskReward, the middleware of ApiGate, the pages of AdminPages and      *)
(* TelegramLink (with TaskCards) and FraudScan, for any users and bounds.  *)
(***************************************************************************)
EXTENDS MerkleRebuild, TaskReward, AdminPages, TelegramLink, FraudScan, SumLemmas, SequenceTheorems

(* An allocation is a natural number. *)
LEMMA AllocationType ==
    ASSUME NEW n \in Nat
    PROVE  calculateAllocation(n) \in Nat
BY RebuildAssumption DEF calculateAllocation

LEMMA FunctionIsSeq ==
    ASSUME NEW S, NEW n \in Nat, NEW f \in [1 .. n -> S]
    PROVE  f \in Seq(S)
BY SeqDef

(* A snapshot is a sequence of leaves. *)
LEMMA TreeType ==
    ASSUME TypeOK, NEW order \in Orders(Eligible)
    PROVE  TreeOf(order) \in Seq(Leaf)
<1>1. IsFiniteSet(Eligible)
  BY FS_Subset, RebuildAssumption DEF Eligible, Active
<1>2. PICK n \in Nat : order \in [1 .. n -> Eligible]
  BY <1>1, FS_CardinalityType DEF Orders
<1>3. TreeOf(order) \in [1 .. n -> Leaf]
  BY <1>2 DEF TreeOf, Eligible, Active, Leaf, TypeOK
<1> QED
  BY <1>3, FunctionIsSeq

(* Calls that end leave everything well typed. *)
LEMMA LeaveType ==
    ASSUME TypeOK, NEW gone \in SUBSET Callers, Leave(gone)
    PROVE  /\ pc' \in [Callers -> Labels]
           /\ seen' \in [Callers -> [Participants -> Nat]]
           /\ todo' \in [Callers -> SUBSET Participants]
           /\ tree' \in [Rebuilders -> Seq(Leaf)]
           /\ task' \in [Approvers -> Tasks \cup {None}]
           /\ \A a \in Approvers : At(a, "reward")' => task'[a] \in Tasks
           /\ mempool' \in Seq([root : Seq(Leaf), owner : Rebuilders \cup {None}])
           /\ abandoned' \in BOOLEAN
<1> DEFINE Tx == [root : Seq(Leaf), owner : Rebuilders \cup {None}]
<1>1. /\ pc' \in [Callers -> Labels]
      /\ seen' \in [Callers -> [Participants -> Nat]]
      /\ todo' \in [Callers -> SUBSET Participants]
  BY RebuildAssumption DEF Leave, TypeOK, Labels
<1>2. tree' \in [Rebuilders -> Seq(Leaf)]
  BY DEF Leave, TypeOK, NoTree
<1>3. /\ task' \in [Approvers -> Tasks \cup {None}]
      /\ \A a \in Approvers : At(a, "reward")' => task'[a] \in Tasks
      /\ abandoned' \in BOOLEAN
  BY DEF Leave, TypeOK, At, Callers
<1> HIDE DEF Tx
<1>4. PICK n \in Nat : mempool \in [1 .. n -> Tx]
  <2>1. mempool \in Seq(Tx)
    BY DEF TypeOK, Tx
  <2> QED
    BY <2>1, LenProperties
<1>5. mempool' \in [1 .. n -> Tx]
  <2>1. mempool' = [i \in 1 .. n |-> IF mempool[i].owner \in gone
                                     THEN [mempool[i] EXCEPT !.owner = None]
                                     ELSE mempool[i]]
    BY <1>4 DEF Leave
  <2>2. \A i \in 1 .. n : [mempool[i] EXCEPT !.owner = None] \in Tx
    BY <1>4 DEF Tx
  <2> QED
    BY <1>4, <2>1, <2>2
<1>6. mempool' \in Seq(Tx)
  BY <1>5, FunctionIsSeq
<1> QED
  BY <1>1, <1>2, <1>3, <1>6 DEF Tx

LEMMA InitTypeOK == Init => TypeOK
<1> SUFFICES ASSUME Init PROVE TypeOK
  OBVIOUS
<1> USE RebuildAssumption DEF Init
<1>1. \A S : << >> \in Seq(S)
  OBVIOUS
<1>2. rows \subseteq Seq(Leaf) /\ chainRoot \in Seq(Leaf)
      /\ mempool \in Seq([root : Seq(Leaf), owner : Rebuilders \cup {None}])
  BY <1>1 DEF NoTree
<1>3. tree \in [Rebuilders -> Seq(Leaf)]
  BY <1>1 DEF NoTree
<1>4. /\ points \in [Participants -> Nat]
      /\ allocation \in [Participants -> Nat]
      /\ dirty \subseteq Participants /\ updatedSince \subseteq Participants
      /\ active \subseteq rows /\ proved \subseteq rows
      /\ seen \in [Callers -> [Participants -> Nat]]
      /\ todo \in [Callers -> SUBSET Participants]
  OBVIOUS
<1>5. /\ pc \in [Callers -> Labels]
      /\ task \in [Approvers -> Tasks \cup {None}]
      /\ \A a \in Approvers : At(a, "reward") => task[a] \in Tasks
  BY DEF Labels, At, Callers
<1>6. /\ everCompleted \in BOOLEAN /\ claimedSince \in BOOLEAN
      /\ abandoned \in BOOLEAN /\ overlapped \in BOOLEAN
      /\ unapproved \subseteq Tasks /\ blocked \subseteq Participants
  BY Zenon
<1>7. faults \in 0 .. MaxFaults
  OBVIOUS
<1> HIDE DEF Init
<1> QED
  BY <1>2, <1>3, <1>4, <1>5, <1>6, <1>7, Zenon DEF TypeOK

-----------------------------------------------------------------------------
USE DEF participantRows, jobRows, rootRows, airdrop, locals

LEMMA RecalculationTypeOK ==
    ASSUME TypeOK, NEW c \in Callers, recalculateAllocations(c)
    PROVE  TypeOK'
<1>1. CASE ReadParticipants(c)
  BY <1>1 DEF TypeOK, ReadParticipants, Active, Goto, Labels, At
<1>2. CASE UpdateAllocation(c)
  <2>1. PICK p \in todo[c] :
          /\ allocation' = [allocation EXCEPT ![p] = calculateAllocation(seen[c][p])]
          /\ dirty' = dirty \ {p}
          /\ updatedSince' = updatedSince \cup {p}
          /\ todo' = [todo EXCEPT ![c] = @ \ {p}]
    BY <1>2 DEF UpdateAllocation
  <2>2. p \in Participants
    BY <2>1 DEF TypeOK
  <2>3. calculateAllocation(seen[c][p]) \in Nat
    BY <2>2, AllocationType DEF TypeOK
  <2>4. /\ allocation' \in [Participants -> Nat]
        /\ dirty' \subseteq Participants /\ updatedSince' \subseteq Participants
        /\ todo' \in [Callers -> SUBSET Participants]
    BY <2>1, <2>2, <2>3 DEF TypeOK
  <2>5. \A a \in Approvers : At(a, "reward")' => task'[a] \in Tasks
    BY <1>2 DEF TypeOK, UpdateAllocation, At
  <2>6. UNCHANGED << points, jobRows, rootRows, airdrop, pc, seen, tree, task,
                     unapproved, abandoned, overlapped, faults, blocked >>
    BY <1>2 DEF UpdateAllocation
  <2> QED
    BY <2>4, <2>5, <2>6 DEF TypeOK
<1>3. CASE Recalculated(c)
  <2>1. CASE c \in Rebuilders
    <3>1. /\ Goto(c, "select")
          /\ seen' = [seen EXCEPT ![c] = InitialPoints]
          /\ UNCHANGED << participantRows, jobRows, rootRows, airdrop, todo, tree,
                          task, unapproved, abandoned, overlapped, faults, blocked >>
      BY <1>3, <2>1 DEF Recalculated
    <3>2. /\ pc' \in [Callers -> Labels]
          /\ \A a \in Approvers : At(a, "reward")' => task'[a] \in Tasks
      BY <3>1 DEF TypeOK, Goto, Labels, At, Callers
    <3>3. seen' \in [Callers -> [Participants -> Nat]]
      BY <3>1, RebuildAssumption DEF TypeOK
    <3> QED
      BY <3>1, <3>2, <3>3 DEF TypeOK
  <2>2. CASE c \notin Rebuilders
    <3>1. Leave({c})
      BY <1>3, <2>2 DEF Recalculated
    <3> QED
      BY <1>3, <3>1, LeaveType DEF TypeOK, Recalculated
  <2> QED
    BY <2>1, <2>2
<1> QED
  BY <1>1, <1>2, <1>3 DEF recalculateAllocations

LEMMA ApprovalTypeOK ==
    ASSUME TypeOK, NEW a \in Approvers, approveTask(a)
    PROVE  TypeOK'
<1> USE DEF Callers
<1>1. CASE ReadPoints(a)
  BY <1>1 DEF TypeOK, ReadPoints, Goto, Labels, At
<1>2. CASE distributeReward(a)
  <2>1. UserOf[task[a]] \in Participants /\ PointsOf[task[a]] \in Nat
    BY <1>2, RebuildAssumption DEF distributeReward, TypeOK
  <2> QED
    BY SMTT(20), <1>2, <2>1 DEF TypeOK, distributeReward, Goto, Labels, At
<1>3. CASE recalculateAllocations(a)
  BY <1>3, RecalculationTypeOK
<1> QED
  BY <1>1, <1>2, <1>3 DEF approveTask

-----------------------------------------------------------------------------
(* The steps of a rebuild, of the environment, and any step. *)

LEMMA SnapshotTypeOK ==
    ASSUME TypeOK, NEW r \in Rebuilders, Select(r) \/ NothingToSelect(r)
    PROVE  TypeOK'
<1> USE DEF Callers
<1>1. CASE Select(r)
  <2>1. PICK order \in Orders(Eligible) : tree' = [tree EXCEPT ![r] = TreeOf(order)]
    BY <1>1 DEF Select
  <2>2. TreeOf(order) \in Seq(Leaf)
    BY TreeType
  <2>3. tree' \in [Rebuilders -> Seq(Leaf)]
    BY <2>1, <2>2 DEF TypeOK
  <2> QED
    BY <1>1, <2>3 DEF TypeOK, Select, Goto, Labels, At
<1>2. CASE NothingToSelect(r)
  <2>1. Leave({r})
    BY <1>2 DEF NothingToSelect
  <2> QED
    BY <1>2, <2>1, LeaveType DEF TypeOK, NothingToSelect
<1> QED
  BY <1>1, <1>2

(* Where a rebuild stands tells whether its root has a row, and its proofs. *)
HasRow == {"deactivateAndActivate", "activate", "saveProofs", "readRoot", "push",
           "wait", "complete"}
HasProofs == {"readRoot", "push"}

Advance ==
    \A r \in Rebuilders :
        /\ pc[r] \in HasRow => tree[r] \in rows
        /\ pc[r] \in HasProofs => tree[r] \in proved

LEMMA RootTypeOK ==
    ASSUME TypeOK, Advance, NEW r \in Rebuilders,
           \/ FindRoot(r) \/ DeactivateAll(r) \/ Activate(r)
           \/ CreateRoot(r) \/ CreateRootTwice(r) \/ saveMerkleProofs(r)
    PROVE  TypeOK'
<1> USE DEF Callers
<1>t. \A label \in Labels \ {"reward"} : Goto(r, label) /\ UNCHANGED task =>
        /\ pc' \in [Callers -> Labels]
        /\ \A a \in Approvers : At(a, "reward")' => task'[a] \in Tasks
  BY DEF TypeOK, Goto, At
<1>1. CASE FindRoot(r)
  BY <1>1 DEF TypeOK, FindRoot, Goto, Labels, At
<1>2. CASE DeactivateAll(r)
  <2>1. \E label \in Labels \ {"reward"} : Goto(r, label)
    BY <1>2 DEF DeactivateAll, Labels
  <2> QED
    BY <1>2, <2>1, <1>t DEF TypeOK, DeactivateAll
<1>3. CASE Activate(r)
  <2>1. Goto(r, "saveProofs") /\ "saveProofs" \in Labels \ {"reward"}
    BY <1>3 DEF Activate, Labels
  <2>2. tree[r] \in rows
    BY <1>3 DEF Activate, At, Advance, HasRow
  <2> QED
    BY <1>3, <2>1, <2>2, <1>t DEF TypeOK, Activate
<1>4. CASE CreateRoot(r)
  <2>1. Goto(r, "saveProofs") /\ "saveProofs" \in Labels \ {"reward"}
    BY <1>4 DEF CreateRoot, Labels
  <2> QED
    BY ZenonT(40), <1>4, <2>1, <1>t DEF TypeOK, CreateRoot
<1>5. CASE CreateRootTwice(r)
  <2>1. Leave({r})
    BY <1>5 DEF CreateRootTwice
  <2> QED
    BY <1>5, <2>1, LeaveType DEF TypeOK, CreateRootTwice
<1>6. CASE saveMerkleProofs(r)
  <2>1. Goto(r, "readRoot") /\ "readRoot" \in Labels \ {"reward"}
    BY <1>6 DEF saveMerkleProofs, Labels
  <2>2. tree[r] \in rows
    BY <1>6 DEF saveMerkleProofs, At, Advance, HasRow
  <2> QED
    BY <1>6, <2>1, <2>2, <1>t DEF TypeOK, saveMerkleProofs
<1> QED
  BY <1>1, <1>2, <1>3, <1>4, <1>5, <1>6

LEMMA PushTypeOK ==
    ASSUME TypeOK, NEW r \in Rebuilders,
           \/ Start(r) \/ getCurrentMerkleRoot(r)
           \/ Push(r) \/ Waited(r) \/ Complete(r)
    PROVE  TypeOK'
<1> USE DEF Callers
<1>1. CASE Start(r)
  BY <1>1 DEF TypeOK, Start, Goto, Labels, At
<1>2. CASE getCurrentMerkleRoot(r)
  BY <1>2 DEF TypeOK, getCurrentMerkleRoot, Goto, Labels, At
<1>3. CASE Push(r)
  <2>1. [root |-> tree[r], owner |-> r] \in [root : Seq(Leaf), owner : Rebuilders \cup {None}]
    BY DEF TypeOK
  <2>2. mempool' \in Seq([root : Seq(Leaf), owner : Rebuilders \cup {None}])
    BY <1>3, <2>1, AppendProperties DEF Push, TypeOK
  <2> QED
    BY <1>3, <2>2 DEF TypeOK, Push, Goto, Labels, At
<1>4. CASE Waited(r)
  BY <1>4 DEF TypeOK, Waited, Goto, Labels, At
<1>5. CASE Complete(r)
  <2>1. Leave({r})
    BY <1>5 DEF Complete
  <2> QED
    BY <1>5, <2>1, LeaveType DEF TypeOK, Complete
<1> QED
  BY <1>1, <1>2, <1>3, <1>4, <1>5

LEMMA EnvironmentTypeOK ==
    ASSUME TypeOK, Fail \/ Mine \/ RecordClaim \/ \E p \in Participants : Block(p)
    PROVE  TypeOK'
<1>1. CASE Fail
  <2>1. PICK gone \in SUBSET {c \in Callers : ~ At(c, "idle")} : Leave(gone)
    BY <1>1 DEF Fail
  <2>2. gone \in SUBSET Callers
    OBVIOUS
  <2>3. faults' \in 0 .. MaxFaults
    BY <1>1, RebuildAssumption DEF Fail, TypeOK
  <2> QED
    BY <1>1, <2>1, <2>2, <2>3, LeaveType DEF TypeOK, Fail
<1>2. CASE Mine
  <2>1. Head(mempool) \in [root : Seq(Leaf), owner : Rebuilders \cup {None}]
    BY <1>2, HeadTailProperties DEF Mine, TypeOK
  <2>2. mempool' \in Seq([root : Seq(Leaf), owner : Rebuilders \cup {None}])
    BY <1>2, HeadTailProperties DEF Mine, TypeOK
  <2> QED
    BY <1>2, <2>1, <2>2 DEF TypeOK, Mine, At
<1>3. CASE RecordClaim
  BY <1>3 DEF TypeOK, RecordClaim, At
<1>4. CASE \E p \in Participants : Block(p)
  BY <1>4 DEF TypeOK, Block, At
<1> QED
  BY <1>1, <1>2, <1>3, <1>4

-----------------------------------------------------------------------------
(* What a rebuild knows of its root stays true whatever the others do. *)

RowsOnlyGrow == rows \subseteq rows' /\ proved \subseteq proved'

LEMMA LeaveAdvance ==
    ASSUME TypeOK, Advance, RowsOnlyGrow, NEW gone, Leave(gone)
    PROVE  Advance'
BY DEF TypeOK, Advance, RowsOnlyGrow, Leave, HasRow, HasProofs, Callers

LEMMA GotoAdvance ==
    ASSUME TypeOK, Advance, RowsOnlyGrow,
           NEW c \in Callers, NEW label, Goto(c, label),
           \A r \in Rebuilders \ {c} : tree'[r] = tree[r],
           c \in Rebuilders =>
               /\ label \in HasRow => tree'[c] \in rows'
               /\ label \in HasProofs => tree'[c] \in proved'
    PROVE  Advance'
BY DEF TypeOK, Advance, RowsOnlyGrow, Goto, Callers

LEMMA RebuildAdvance ==
    ASSUME TypeOK, Advance, NEW r \in Rebuilders,
           Start(r) \/ rebuildAndSync(r)
    PROVE  Advance'
<1> USE DEF Callers, At, HasRow, HasProofs
<1>1. CASE Start(r)
  <2>1. Goto(r, "recalculate") /\ RowsOnlyGrow
    BY <1>1 DEF Start, RowsOnlyGrow
  <2> QED
    BY <1>1, <2>1, GotoAdvance DEF Start
<1>2. CASE ReadParticipants(r)
  <2>1. Goto(r, "allocate") /\ RowsOnlyGrow
    BY <1>2 DEF ReadParticipants, RowsOnlyGrow
  <2> QED
    BY <1>2, <2>1, GotoAdvance DEF ReadParticipants
<1>3. CASE UpdateAllocation(r)
  BY <1>3 DEF UpdateAllocation, Advance
<1>4. CASE Recalculated(r)
  <2>1. Goto(r, "select") /\ RowsOnlyGrow
    BY <1>4 DEF Recalculated, RowsOnlyGrow
  <2> QED
    BY <1>4, <2>1, GotoAdvance DEF Recalculated
<1>5. CASE Select(r)
  <2>1. Goto(r, "findRoot") /\ RowsOnlyGrow
    BY <1>5 DEF Select, RowsOnlyGrow
  <2>2. \A q \in Rebuilders \ {r} : tree'[q] = tree[q]
    BY <1>5 DEF Select, TypeOK
  <2> QED
    BY <2>1, <2>2, GotoAdvance
<1>6. CASE NothingToSelect(r)
  BY <1>6, LeaveAdvance DEF NothingToSelect, RowsOnlyGrow
<1>7. CASE FindRoot(r)
  <2>1. PICK label \in {"saveProofs", "deactivateAndActivate", "deactivateAndCreate"} :
          /\ Goto(r, label)
          /\ label # "deactivateAndCreate" => tree[r] \in rows
    BY <1>7 DEF FindRoot, TypeOK
  <2>2. UNCHANGED << tree, rows, proved >>
    BY <1>7 DEF FindRoot
  <2> QED
    BY <2>1, <2>2, GotoAdvance DEF RowsOnlyGrow
<1>8. CASE DeactivateAll(r)
  <2>1. UNCHANGED << tree, rows, proved >>
    BY <1>8 DEF DeactivateAll
  <2>2. CASE At(r, "deactivateAndActivate") /\ Goto(r, "activate")
    <3>1. tree[r] \in rows
      BY <2>2 DEF Advance
    <3> QED
      BY <2>1, <2>2, <3>1, GotoAdvance DEF RowsOnlyGrow
  <2>3. CASE At(r, "deactivateAndCreate") /\ Goto(r, "create")
    BY <2>1, <2>3, GotoAdvance DEF RowsOnlyGrow
  <2> QED
    BY <1>8, <2>2, <2>3 DEF DeactivateAll
<1>9. CASE Activate(r)
  <2>1. Goto(r, "saveProofs") /\ RowsOnlyGrow /\ tree[r] \in rows
    BY <1>9 DEF Activate, RowsOnlyGrow, Advance
  <2> QED
    BY <1>9, <2>1, GotoAdvance DEF Activate
<1>10. CASE CreateRoot(r)
  <2>1. Goto(r, "saveProofs") /\ RowsOnlyGrow /\ tree[r] \in rows'
    BY <1>10 DEF CreateRoot, RowsOnlyGrow
  <2> QED
    BY <1>10, <2>1, GotoAdvance DEF CreateRoot
<1>11. CASE CreateRootTwice(r)
  BY <1>11, LeaveAdvance DEF CreateRootTwice, RowsOnlyGrow
<1>12. CASE saveMerkleProofs(r)
  <2>1. Goto(r, "readRoot") /\ RowsOnlyGrow /\ tree[r] \in rows' /\ tree[r] \in proved'
    BY <1>12 DEF saveMerkleProofs, RowsOnlyGrow, Advance
  <2> QED
    BY <1>12, <2>1, GotoAdvance DEF saveMerkleProofs
<1>13. CASE getCurrentMerkleRoot(r)
  <2>1. PICK label \in {"complete", "push"} : Goto(r, label)
    BY <1>13 DEF getCurrentMerkleRoot
  <2>2. tree[r] \in rows /\ tree[r] \in proved
    BY <1>13 DEF getCurrentMerkleRoot, Advance
  <2> QED
    BY <1>13, <2>1, <2>2, GotoAdvance DEF getCurrentMerkleRoot, RowsOnlyGrow
<1>14. CASE Push(r)
  <2>1. Goto(r, "wait") /\ RowsOnlyGrow /\ tree[r] \in rows
    BY <1>14 DEF Push, RowsOnlyGrow, Advance
  <2> QED
    BY <1>14, <2>1, GotoAdvance DEF Push
<1>15. CASE Waited(r)
  <2>1. Goto(r, "complete") /\ RowsOnlyGrow /\ tree[r] \in rows
    BY <1>15 DEF Waited, RowsOnlyGrow, Advance
  <2> QED
    BY <1>15, <2>1, GotoAdvance DEF Waited
<1>16. CASE Complete(r)
  BY <1>16, LeaveAdvance DEF Complete, RowsOnlyGrow
<1> QED
  BY <1>1, <1>2, <1>3, <1>4, <1>5, <1>6, <1>7, <1>8, <1>9, <1>10, <1>11, <1>12,
     <1>13, <1>14, <1>15, <1>16 DEF rebuildAndSync, recalculateAllocations

LEMMA ApprovalAdvance ==
    ASSUME TypeOK, Advance, NEW a \in Approvers, approveTask(a)
    PROVE  Advance'
<1> USE RebuildAssumption DEF Callers
<1>1. CASE ReadPoints(a)
  <2>1. Goto(a, "reward") /\ RowsOnlyGrow
    BY <1>1 DEF ReadPoints, RowsOnlyGrow
  <2> QED
    BY <1>1, <2>1, GotoAdvance DEF ReadPoints
<1>2. CASE distributeReward(a)
  <2>1. Goto(a, "recalculate") /\ RowsOnlyGrow
    BY <1>2 DEF distributeReward, RowsOnlyGrow
  <2> QED
    BY <1>2, <2>1, GotoAdvance DEF distributeReward
<1>3. CASE ReadParticipants(a)
  <2>1. Goto(a, "allocate") /\ RowsOnlyGrow
    BY <1>3 DEF ReadParticipants, RowsOnlyGrow
  <2> QED
    BY <1>3, <2>1, GotoAdvance DEF ReadParticipants
<1>4. CASE UpdateAllocation(a)
  BY <1>4 DEF UpdateAllocation, Advance
<1>5. CASE Recalculated(a)
  BY <1>5, LeaveAdvance DEF Recalculated, RowsOnlyGrow
<1> QED
  BY <1>1, <1>2, <1>3, <1>4, <1>5 DEF approveTask, recalculateAllocations

LEMMA EnvironmentAdvance ==
    ASSUME TypeOK, Advance, Fail \/ Mine \/ RecordClaim \/ \E p \in Participants : Block(p)
    PROVE  Advance'
<1>1. CASE Fail
  BY <1>1, LeaveAdvance DEF Fail, RowsOnlyGrow
<1>2. CASE Mine
  BY <1>2 DEF Mine, Advance
<1>3. CASE RecordClaim
  BY <1>3 DEF RecordClaim, Advance
<1>4. CASE \E p \in Participants : Block(p)
  BY <1>4 DEF Block, Advance
<1> QED
  BY <1>1, <1>2, <1>3, <1>4

-----------------------------------------------------------------------------
(* Proofs are never taken back, a transaction is sent only after they are   *)
(* saved, and neither a failure nor mining changes what was sent.           *)

LEMMA SameMempool ==
    ASSUME PublishedRootsHaveProofs, proved \subseteq proved', UNCHANGED airdrop
    PROVE  PublishedRootsHaveProofs'
BY DEF PublishedRootsHaveProofs

LEMMA LeaveKeepsPublished ==
    ASSUME TypeOK, PublishedRootsHaveProofs, proved \subseteq proved',
           UNCHANGED chainRoot, NEW gone, Leave(gone)
    PROVE  PublishedRootsHaveProofs'
<1>1. DOMAIN mempool' = DOMAIN mempool
  BY DEF Leave
<1>2. ASSUME NEW i \in DOMAIN mempool
      PROVE  mempool'[i].root = mempool[i].root
  <2>1. mempool[i] \in [root : Seq(Leaf), owner : Rebuilders \cup {None}]
    BY ZenonT(40), ElementOfSeq, LenProperties DEF TypeOK
  <2>2. mempool'[i] \in {mempool[i], [mempool[i] EXCEPT !.owner = None]}
    BY DEF Leave
  <2> QED
    BY <2>1, <2>2
<1> QED
  BY <1>1, <1>2 DEF PublishedRootsHaveProofs

LEMMA RebuildPublished ==
    ASSUME TypeOK, Advance, PublishedRootsHaveProofs,
           NEW r \in Rebuilders, Start(r) \/ rebuildAndSync(r)
    PROVE  PublishedRootsHaveProofs'
<1>1. CASE Push(r)
  <2>1. tree[r] \in proved
    BY <1>1 DEF Push, At, Advance, HasProofs
  <2>2. /\ Len(mempool') = Len(mempool) + 1
        /\ DOMAIN mempool' = 1 .. Len(mempool')
        /\ \A i \in 1 .. Len(mempool) : mempool'[i] = mempool[i]
        /\ mempool'[Len(mempool) + 1] = [root |-> tree[r], owner |-> r]
    BY <1>1, AppendProperties DEF Push, TypeOK
  <2>3. \A i \in DOMAIN mempool' : mempool'[i].root \in proved
    <3>1. Len(mempool) \in Nat /\ DOMAIN mempool = 1 .. Len(mempool)
      BY LenProperties DEF TypeOK
    <3>2. ASSUME NEW i \in DOMAIN mempool'
          PROVE  mempool'[i].root \in proved
      <4>1. CASE i \in 1 .. Len(mempool)
        BY <2>2, <3>1, <4>1 DEF PublishedRootsHaveProofs
      <4>2. CASE i = Len(mempool) + 1
        BY <2>1, <2>2, <4>2
      <4> QED
        BY <2>2, <3>1, <3>2, <4>1, <4>2
    <3> QED
      BY <3>2
  <2> QED
    BY <1>1, <2>3 DEF PublishedRootsHaveProofs, Push
<1>2. CASE NothingToSelect(r) \/ CreateRootTwice(r) \/ Complete(r)
  <2>1. Leave({r}) /\ UNCHANGED << proved, chainRoot >>
    BY <1>2 DEF NothingToSelect, CreateRootTwice, Complete
  <2> QED
    BY <2>1, LeaveKeepsPublished
<1>3. CASE \/ Start(r) \/ ReadParticipants(r) \/ UpdateAllocation(r)
           \/ Recalculated(r) \/ Select(r) \/ FindRoot(r) \/ DeactivateAll(r)
           \/ Activate(r) \/ CreateRoot(r) \/ saveMerkleProofs(r)
           \/ getCurrentMerkleRoot(r) \/ Waited(r)
  <2>1. proved \subseteq proved' /\ UNCHANGED airdrop
    BY <1>3 DEF Start, ReadParticipants, UpdateAllocation, Recalculated, Select,
         FindRoot, DeactivateAll, Activate, CreateRoot, saveMerkleProofs,
         getCurrentMerkleRoot, Waited
  <2> QED
    BY <2>1, SameMempool
<1> QED
  BY <1>1, <1>2, <1>3 DEF rebuildAndSync, recalculateAllocations

LEMMA OthersPublished ==
    ASSUME TypeOK, PublishedRootsHaveProofs,
           \/ \E a \in Approvers : approveTask(a)
           \/ Fail \/ Mine \/ RecordClaim \/ \E p \in Participants : Block(p)
    PROVE  PublishedRootsHaveProofs'
<1>1. ASSUME NEW a \in Approvers, approveTask(a)
      PROVE  PublishedRootsHaveProofs'
  <2>1. CASE Recalculated(a)
    <3>1. Leave({a}) /\ UNCHANGED << proved, chainRoot >>
      BY <2>1, RebuildAssumption DEF Recalculated
    <3> QED
      BY <3>1, LeaveKeepsPublished
  <2>2. CASE \/ ReadPoints(a) \/ distributeReward(a)
             \/ ReadParticipants(a) \/ UpdateAllocation(a)
    <3>1. UNCHANGED << proved, airdrop >>
      BY <2>2 DEF ReadPoints, distributeReward, ReadParticipants, UpdateAllocation
    <3> QED
      BY <3>1, SameMempool
  <2> QED
    BY <1>1, <2>1, <2>2 DEF approveTask, recalculateAllocations
<1>2. CASE Fail
  <2>1. PICK gone : Leave(gone)
    BY <1>2 DEF Fail
  <2>2. UNCHANGED << proved, chainRoot >>
    BY <1>2 DEF Fail
  <2> QED
    BY <2>1, <2>2, LeaveKeepsPublished
<1>3. CASE Mine
  <2>1. /\ Head(mempool) = mempool[1] /\ 1 \in DOMAIN mempool
        /\ Len(mempool') = Len(mempool) - 1
        /\ DOMAIN mempool' = 1 .. Len(mempool')
        /\ \A i \in 1 .. Len(mempool') : mempool'[i] = mempool[i + 1]
        /\ DOMAIN mempool = 1 .. Len(mempool)
    BY <1>3, HeadTailProperties, LenProperties, EmptySeq DEF Mine, TypeOK
  <2>2. \A i \in DOMAIN mempool' : i + 1 \in DOMAIN mempool
    BY <2>1, LenProperties DEF TypeOK
  <2> QED
    BY <1>3, <2>1, <2>2 DEF Mine, PublishedRootsHaveProofs
<1>4. CASE RecordClaim \/ \E p \in Participants : Block(p)
  BY <1>4, SameMempool DEF RecordClaim, Block
<1> QED
  BY <1>1, <1>2, <1>3, <1>4

-----------------------------------------------------------------------------
(* The inductive invariant. *)
IInv == TypeOK /\ Advance /\ PublishedRootsHaveProofs

LEMMA InitIInv == Init => IInv
<1> SUFFICES ASSUME Init PROVE IInv
  OBVIOUS
<1>1. TypeOK
  BY InitTypeOK
<1>2. Advance
  BY DEF Init, Advance, HasRow, HasProofs, Callers
<1>3. PublishedRootsHaveProofs
  BY EmptySeq DEF Init, PublishedRootsHaveProofs
<1> QED
  BY <1>1, <1>2, <1>3 DEF IInv

LEMMA StepIInv == IInv /\ [Next]_vars => IInv'
<1> SUFFICES ASSUME IInv, [Next]_vars PROVE IInv'
  OBVIOUS
<1> USE DEF IInv
<1>1. ASSUME NEW a \in Approvers, approveTask(a) PROVE IInv'
  BY <1>1, ApprovalTypeOK, ApprovalAdvance, OthersPublished
<1>2. ASSUME NEW r \in Rebuilders, Start(r) \/ rebuildAndSync(r) PROVE IInv'
  <2>1. TypeOK'
    <3>1. CASE recalculateAllocations(r)
      BY <3>1, RecalculationTypeOK DEF Callers
    <3> QED
      BY <1>2, <3>1, SnapshotTypeOK, RootTypeOK, PushTypeOK DEF rebuildAndSync
  <2> QED
    BY <1>2, <2>1, RebuildAdvance, RebuildPublished
<1>3. CASE Fail \/ Mine \/ RecordClaim \/ \E p \in Participants : Block(p)
  BY <1>3, EnvironmentTypeOK, EnvironmentAdvance, OthersPublished
<1>4. CASE UNCHANGED vars
  BY <1>4 DEF vars, TypeOK, Advance, PublishedRootsHaveProofs, At
<1> QED
  BY <1>1, <1>2, <1>3, <1>4 DEF Next

(* The types hold in every state, and a root that is active, or has its     *)
(* proofs saved, has its MerkleRoot row.                                    *)
THEOREM RebuildTypeCorrect == Spec => []TypeOK
<1>1. IInv => TypeOK
  BY DEF IInv
<1> QED
  BY <1>1, InitIInv, StepIInv, PTL DEF Spec

(* No root is on chain, or on its way there, before its proofs are saved,   *)
(* however many rebuilds, approvals, exceptions and crashes there are.      *)
THEOREM PublishedRootsHaveProofsHolds == Spec => []PublishedRootsHaveProofs
<1>1. IInv => PublishedRootsHaveProofs
  BY DEF IInv
<1> QED
  BY <1>1, InitIInv, StepIInv, PTL DEF Spec

-----------------------------------------------------------------------------
(* No root pays more than the points are worth.  The argument: points only  *)
(* grow, so what was allocated, read or put in a tree when they were fewer  *)
(* stays covered.  Two admins that reward one participant at once lose one  *)
(* of the two sums, and points then shrink: approvals come one at a time.   *)

OneApprover == \A a, b \in Approvers : a = b

PointsGrow == \A p \in Participants : points[p] <= points'[p]

PointsInv ==
    /\ \A p \in Participants : InitialPoints[p] <= points[p]
    /\ \A c \in Callers : \A p \in Participants : seen[c][p] <= points[p]
    /\ \A a \in Approvers : At(a, "reward") => seen[a] = points

AllocationInv ==
    \A p \in Participants : allocation[p] * TOKENS_PER_POINT <= points[p]

Covered(t, pts) ==
    \A leaf \in Leaves(t) : leaf.amount * TOKENS_PER_POINT <= pts[leaf.user]

Trees == {chainRoot} \cup {mempool[i].root : i \in DOMAIN mempool}
             \cup {tree[r] : r \in Rebuilders}

TreesInv == \A t \in Trees : Covered(t, points)

(* What is worth n points takes no more than n points. *)
LEMMA AllocationIsCovered ==
    ASSUME NEW n \in Nat
    PROVE  calculateAllocation(n) * TOKENS_PER_POINT <= n
BY RebuildAssumption DEF calculateAllocation

LEMMA LeavePoints ==
    ASSUME TypeOK, PointsInv, NEW gone, Leave(gone), UNCHANGED points
    PROVE  PointsInv' /\ PointsGrow
<1>1. \A c \in Callers : seen'[c] \in {seen[c], InitialPoints}
  BY DEF Leave
<1>2. \A a \in Approvers : At(a, "reward")' => At(a, "reward") /\ seen'[a] = seen[a]
  BY DEF Leave, At, Callers
<1>3. points' = points /\ \A p \in Participants : points[p] \in Nat
  BY DEF TypeOK
<1> QED
  BY <1>1, <1>2, <1>3 DEF PointsInv, PointsGrow

(* A step that reads and writes no points and rewards nobody. *)
LEMMA OtherPoints ==
    ASSUME TypeOK, PointsInv, UNCHANGED << points, seen >>,
           \A a \in Approvers : At(a, "reward")' => At(a, "reward")
    PROVE  PointsInv' /\ PointsGrow
<1>1. \A p \in Participants : points[p] \in Nat
  BY DEF TypeOK
<1> QED
  BY <1>1 DEF PointsInv, PointsGrow

LEMMA RecalculationPoints ==
    ASSUME TypeOK, PointsInv, NEW c \in Callers, recalculateAllocations(c)
    PROVE  PointsInv' /\ PointsGrow
<1>0. /\ points \in [Participants -> Nat] /\ pc \in [Callers -> Labels]
      /\ seen \in [Callers -> [Participants -> Nat]]
  BY DEF TypeOK
<1>1. CASE ReadParticipants(c)
  <2>1. /\ points' = points /\ pc' = [pc EXCEPT ![c] = "allocate"]
        /\ seen' = [seen EXCEPT ![c] = points]
    BY <1>1 DEF ReadParticipants, Goto
  <2>2. \A a \in Approvers : At(a, "reward")' => At(a, "reward")
    BY <1>0, <2>1 DEF At, Callers
  <2>3. \A d \in Callers : seen'[d] \in {seen[d], points}
    BY <1>0, <2>1
  <2>4. \A a \in Approvers : At(a, "reward")' => seen'[a] = points'
    BY <1>0, <2>1, <2>2, <2>3 DEF PointsInv, Callers
  <2> QED
    BY <1>0, <2>1, <2>3, <2>4 DEF PointsInv, PointsGrow
<1>2. CASE UpdateAllocation(c)
  BY <1>2, OtherPoints DEF UpdateAllocation, At
<1>3. CASE Recalculated(c)
  <2>1. CASE c \in Rebuilders
    <3>1. /\ points' = points /\ pc' = [pc EXCEPT ![c] = "select"]
          /\ seen' = [seen EXCEPT ![c] = InitialPoints]
      BY <1>3, <2>1 DEF Recalculated, Goto
    <3>2. \A a \in Approvers : At(a, "reward")' => At(a, "reward") /\ a # c
      BY <1>0, <3>1 DEF At, Callers
    <3>3. \A d \in Callers : seen'[d] = IF d = c THEN InitialPoints ELSE seen[d]
      BY <1>0, <3>1
    <3>4. \A a \in Approvers : At(a, "reward")' => seen'[a] = points'
      BY <3>1, <3>2, <3>3 DEF PointsInv, Callers
    <3> QED
      BY <1>0, <3>1, <3>3, <3>4 DEF PointsInv, PointsGrow
  <2>2. CASE c \notin Rebuilders
    BY <1>3, <2>2, LeavePoints DEF Recalculated
  <2> QED
    BY <2>1, <2>2
<1> QED
  BY <1>1, <1>2, <1>3 DEF recalculateAllocations

LEMMA ApprovalPoints ==
    ASSUME TypeOK, PointsInv, OneApprover, NEW a \in Approvers, approveTask(a)
    PROVE  PointsInv' /\ PointsGrow
<1>0. /\ points \in [Participants -> Nat] /\ pc \in [Callers -> Labels]
      /\ seen \in [Callers -> [Participants -> Nat]] /\ a \in Callers
      /\ \A b \in Approvers : b = a
  BY DEF TypeOK, Callers, OneApprover
<1>1. CASE ReadPoints(a)
  <2>1. points' = points /\ seen' = [seen EXCEPT ![a] = points]
    BY <1>1 DEF ReadPoints
  <2>2. \A d \in Callers : seen'[d] = IF d = a THEN points ELSE seen[d]
    BY <1>0, <2>1
  <2> QED
    BY <1>0, <2>1, <2>2 DEF PointsInv, PointsGrow
<1>2. CASE distributeReward(a)
  <2> DEFINE p == UserOf[task[a]]
             worth == PointsOf[task[a]]
  <2>1. p \in Participants /\ worth \in Nat /\ seen[a] = points
    BY <1>2, RebuildAssumption DEF distributeReward, TypeOK, PointsInv
  <2>2. /\ points' = [points EXCEPT ![p] = points[p] + worth] /\ seen' = seen
        /\ pc' = [pc EXCEPT ![a] = "recalculate"]
    BY <1>2, <2>1 DEF distributeReward, Goto
  <2>3. \A b \in Approvers : ~ At(b, "reward")'
    BY <1>0, <2>2 DEF At
  <2> HIDE DEF p, worth
  <2>4. \A q \in Participants : points[q] \in Nat /\ points'[q] \in Nat /\ points[q] <= points'[q]
    BY <1>0, <2>1, <2>2
  <2>5. /\ \A q \in Participants : InitialPoints[q] \in Nat
        /\ \A d \in Callers : \A q \in Participants : seen[d][q] \in Nat
    BY <1>0, RebuildAssumption
  <2>6. \A q \in Participants : InitialPoints[q] <= points'[q]
    BY <2>4, <2>5 DEF PointsInv
  <2>7. \A d \in Callers : \A q \in Participants : seen'[d][q] <= points'[q]
    BY <2>2, <2>4, <2>5 DEF PointsInv
  <2> QED
    BY <2>3, <2>4, <2>6, <2>7 DEF PointsInv, PointsGrow
<1>3. CASE recalculateAllocations(a)
  BY <1>0, <1>3, RecalculationPoints
<1> QED
  BY <1>1, <1>2, <1>3 DEF approveTask

LEMMA PointsStep ==
    ASSUME TypeOK, PointsInv, OneApprover, [Next]_vars
    PROVE  PointsInv' /\ PointsGrow
<1>0. pc \in [Callers -> Labels] /\ Rebuilders \cap Approvers = {} /\ Rebuilders \subseteq Callers
  BY RebuildAssumption DEF TypeOK, Callers
<1>1. ASSUME NEW a \in Approvers, approveTask(a) PROVE PointsInv' /\ PointsGrow
  BY <1>1, ApprovalPoints
<1>2. ASSUME NEW r \in Rebuilders, Start(r) \/ rebuildAndSync(r)
      PROVE  PointsInv' /\ PointsGrow
  <2>1. CASE recalculateAllocations(r)
    BY <1>0, <2>1, RecalculationPoints
  <2>2. CASE NothingToSelect(r) \/ CreateRootTwice(r) \/ Complete(r)
    <3>1. Leave({r}) /\ points' = points
      BY <2>2 DEF NothingToSelect, CreateRootTwice, Complete
    <3> QED
      BY <3>1, LeavePoints
  <2>3. CASE \/ Start(r) \/ Select(r) \/ FindRoot(r) \/ DeactivateAll(r)
             \/ Activate(r) \/ CreateRoot(r) \/ saveMerkleProofs(r)
             \/ getCurrentMerkleRoot(r) \/ Push(r) \/ Waited(r)
    <3>1. /\ UNCHANGED << points, seen >>
          /\ \E label \in Labels : pc' = [pc EXCEPT ![r] = label]
      BY <2>3 DEF Start, Select, FindRoot, DeactivateAll, Activate, CreateRoot,
           saveMerkleProofs, getCurrentMerkleRoot, Push, Waited, Goto, Labels
    <3>2. \A a \in Approvers : pc'[a] = pc[a]
      BY <1>0, <3>1 DEF Callers
    <3> QED
      BY <3>1, <3>2, OtherPoints DEF At
  <2> QED
    BY <1>2, <2>1, <2>2, <2>3 DEF rebuildAndSync
<1>3. CASE Fail
  BY <1>3, LeavePoints DEF Fail
<1>4. CASE Mine \/ RecordClaim \/ (\E p \in Participants : Block(p)) \/ UNCHANGED vars
  BY <1>4, OtherPoints DEF Mine, RecordClaim, Block, vars, At
<1> QED
  BY <1>1, <1>2, <1>3, <1>4 DEF Next

(* An update is computed from points that were read, which have only grown. *)
LEMMA AllocationStep ==
    ASSUME TypeOK, PointsInv, AllocationInv, PointsGrow, TypeOK', [Next]_vars
    PROVE  AllocationInv'
<1>0. /\ points \in [Participants -> Nat] /\ points' \in [Participants -> Nat]
      /\ allocation \in [Participants -> Nat]
      /\ seen \in [Callers -> [Participants -> Nat]]
      /\ Rebuilders \subseteq Callers /\ Approvers \subseteq Callers
      /\ TOKENS_PER_POINT \in Nat
  BY RebuildAssumption DEF TypeOK, Callers
<1>1. CASE allocation' = allocation
  BY <1>0, <1>1 DEF AllocationInv, PointsGrow
<1>2. ASSUME NEW c \in Callers, UpdateAllocation(c) PROVE AllocationInv'
  <2>1. PICK p \in todo[c] :
          allocation' = [allocation EXCEPT ![p] = calculateAllocation(seen[c][p])]
    BY <1>2 DEF UpdateAllocation
  <2>2. p \in Participants /\ points' = points
    BY <1>2, <2>1 DEF TypeOK, UpdateAllocation
  <2>3. /\ calculateAllocation(seen[c][p]) \in Nat
        /\ calculateAllocation(seen[c][p]) * TOKENS_PER_POINT <= seen[c][p]
    BY <1>0, <2>2, AllocationType, AllocationIsCovered
  <2>4. seen[c][p] <= points[p] /\ seen[c][p] \in Nat /\ points[p] \in Nat
    BY <1>0, <2>2 DEF PointsInv
  <2>5. allocation'[p] * TOKENS_PER_POINT <= points[p]
    <3>1. allocation'[p] = calculateAllocation(seen[c][p])
      BY <1>0, <2>1, <2>2
    <3> QED
      BY <1>0, <2>3, <2>4, <3>1
  <2>6. \A q \in Participants \ {p} : allocation'[q] = allocation[q]
    BY <1>0, <2>1
  <2> QED
    BY <2>2, <2>5, <2>6 DEF AllocationInv
<1>3. \/ allocation' = allocation
      \/ \E c \in Callers : UpdateAllocation(c)
  BY <1>0 DEF Next, approveTask, rebuildAndSync, recalculateAllocations, ReadPoints,
       distributeReward, ReadParticipants, Recalculated, Start, Select,
       NothingToSelect, FindRoot, DeactivateAll, Activate, CreateRoot,
       CreateRootTwice, saveMerkleProofs, getCurrentMerkleRoot, Push, Waited,
       Complete, Fail, Mine, RecordClaim, Block, vars
<1> QED
  BY <1>1, <1>2, <1>3

(* What may become of the trees: none but a snapshot is new. *)

NoNewTree == Trees' \subseteq Trees \cup {NoTree}

MempoolType == mempool \in Seq([root : Seq(Leaf), owner : Rebuilders \cup {None}])

LEMMA MempoolProperties ==
    ASSUME TypeOK
    PROVE  /\ MempoolType /\ Len(mempool) \in Nat
           /\ DOMAIN mempool = 1 .. Len(mempool)
           /\ \A i \in DOMAIN mempool :
                mempool[i] \in [root : Seq(Leaf), owner : Rebuilders \cup {None}]
BY ElementOfSeq, LenProperties DEF TypeOK, MempoolType

LEMMA LeaveMempool ==
    ASSUME TypeOK, NEW gone, Leave(gone)
    PROVE  /\ DOMAIN mempool' = DOMAIN mempool
           /\ \A i \in DOMAIN mempool :
                /\ mempool'[i].root = mempool[i].root
                /\ mempool[i].owner \notin gone => mempool'[i] = mempool[i]
<1>1. DOMAIN mempool' = DOMAIN mempool
  BY DEF Leave
<1>2. ASSUME NEW i \in DOMAIN mempool
      PROVE  /\ mempool'[i].root = mempool[i].root
             /\ mempool[i].owner \notin gone => mempool'[i] = mempool[i]
  <2>1. mempool[i] \in [root : Seq(Leaf), owner : Rebuilders \cup {None}]
    BY MempoolProperties
  <2>2. mempool'[i] = IF mempool[i].owner \in gone
                      THEN [mempool[i] EXCEPT !.owner = None] ELSE mempool[i]
    BY DEF Leave
  <2> QED
    BY <2>1, <2>2
<1> QED
  BY <1>1, <1>2

LEMMA LeaveTrees ==
    ASSUME TypeOK, NEW gone, Leave(gone), UNCHANGED chainRoot
    PROVE  NoNewTree
<1>1. \A r \in Rebuilders : tree'[r] \in {tree[r], NoTree}
  BY DEF Leave
<1> QED
  BY <1>1, LeaveMempool DEF NoNewTree, Trees

LEMMA PushTrees ==
    ASSUME TypeOK, NEW r \in Rebuilders, Push(r)
    PROVE  NoNewTree
<1>1. /\ DOMAIN mempool' = 1 .. Len(mempool) + 1
      /\ \A i \in 1 .. Len(mempool) : mempool'[i] = mempool[i]
      /\ mempool'[Len(mempool) + 1] = [root |-> tree[r], owner |-> r]
      /\ UNCHANGED << chainRoot, tree >>
  BY AppendProperties DEF Push, TypeOK
<1>2. ASSUME NEW i \in DOMAIN mempool' PROVE mempool'[i].root \in Trees
  <2>1. CASE i \in 1 .. Len(mempool)
    BY <1>1, <2>1, MempoolProperties DEF Trees
  <2>2. CASE i = Len(mempool) + 1
    BY <1>1, <2>2 DEF Trees
  <2> QED
    BY <1>1, <1>2, <2>1, <2>2, MempoolProperties
<1> QED
  BY <1>1, <1>2 DEF NoNewTree, Trees

LEMMA MineTrees ==
    ASSUME TypeOK, Mine
    PROVE  /\ chainRoot' = mempool[1].root /\ 1 \in DOMAIN mempool
           /\ Len(mempool') = Len(mempool) - 1
           /\ DOMAIN mempool' = 1 .. Len(mempool')
           /\ \A i \in DOMAIN mempool' :
                mempool'[i] = mempool[i + 1] /\ i + 1 \in DOMAIN mempool
           /\ NoNewTree
<1>1. /\ Head(mempool) = mempool[1] /\ 1 \in DOMAIN mempool
      /\ Len(mempool') = Len(mempool) - 1
      /\ DOMAIN mempool' = 1 .. Len(mempool')
      /\ \A i \in 1 .. Len(mempool') : mempool'[i] = mempool[i + 1]
      /\ DOMAIN mempool = 1 .. Len(mempool)
  BY HeadTailProperties, LenProperties, EmptySeq DEF Mine, TypeOK
<1>2. \A i \in DOMAIN mempool' : i + 1 \in DOMAIN mempool
  BY <1>1, LenProperties DEF TypeOK
<1>3. chainRoot' = mempool[1].root /\ tree' = tree
  BY <1>1 DEF Mine
<1> QED
  BY <1>1, <1>2, <1>3 DEF NoNewTree, Trees

(* A snapshot holds what is allocated. *)
LEMMA SnapshotIsCovered ==
    ASSUME TypeOK, AllocationInv, NEW order \in Orders(Eligible)
    PROVE  Covered(TreeOf(order), points)
<1>1. IsFiniteSet(Eligible)
  BY FS_Subset, RebuildAssumption DEF Eligible, Active
<1>2. PICK n \in Nat : order \in [1 .. n -> Eligible]
  BY <1>1, FS_CardinalityType DEF Orders
<1> QED
  BY <1>2 DEF Covered, Leaves, TreeOf, Eligible, Active, AllocationInv

LEMMA TreesStep ==
    ASSUME TypeOK, AllocationInv, [Next]_vars
    PROVE  \A t \in Trees' : t \in Trees \cup {NoTree} \/ Covered(t, points)
<1>0. Rebuilders \subseteq Callers /\ Rebuilders \cap Approvers = {}
  BY RebuildAssumption DEF Callers
<1>1. ASSUME NEW gone, Leave(gone), UNCHANGED chainRoot PROVE NoNewTree
  BY <1>1, LeaveTrees
<1>2. CASE UNCHANGED << airdrop, tree >>
  BY <1>2 DEF Trees
<1>3. ASSUME NEW r \in Rebuilders, Select(r)
      PROVE  \A t \in Trees' : t \in Trees \cup {NoTree} \/ Covered(t, points)
  <2>1. PICK order \in Orders(Eligible) : tree' = [tree EXCEPT ![r] = TreeOf(order)]
    BY <1>3 DEF Select
  <2>2. UNCHANGED airdrop
    BY <1>3 DEF Select
  <2>3. \A q \in Rebuilders : tree'[q] \in {tree[q], TreeOf(order)}
    BY <2>1 DEF TypeOK
  <2> QED
    BY <2>2, <2>3, SnapshotIsCovered DEF Trees
<1>4. ASSUME NEW r \in Rebuilders, Push(r) PROVE NoNewTree
  BY <1>4, PushTrees
<1>5. CASE Mine
  BY <1>5, MineTrees DEF NoNewTree
<1>6. \/ \E gone : Leave(gone) /\ UNCHANGED chainRoot
      \/ UNCHANGED << airdrop, tree >>
      \/ \E r \in Rebuilders : Select(r) \/ Push(r)
      \/ Mine
  BY ZenonT(40), <1>0 DEF Next, approveTask, rebuildAndSync, recalculateAllocations, ReadPoints,
       distributeReward, ReadParticipants, UpdateAllocation, Recalculated, Start,
       NothingToSelect, FindRoot, DeactivateAll, Activate, CreateRoot,
       CreateRootTwice, saveMerkleProofs, getCurrentMerkleRoot, Waited,
       Complete, Fail, RecordClaim, Block, vars
<1>7. CASE NoNewTree
  BY <1>7 DEF NoNewTree
<1>8. CASE \E gone : Leave(gone) /\ UNCHANGED chainRoot
  BY <1>1, <1>7, <1>8
<1>9. CASE \E r \in Rebuilders : Select(r) \/ Push(r)
  BY <1>3, <1>4, <1>7, <1>9
<1> QED
  BY <1>2, <1>5, <1>6, <1>7, <1>8, <1>9

OverpayInv == TypeOK /\ Advance /\ PublishedRootsHaveProofs
                 /\ PointsInv /\ AllocationInv /\ TreesInv

LEMMA OverpayInit == Init => OverpayInv
<1> SUFFICES ASSUME Init PROVE OverpayInv
  OBVIOUS
<1>1. IInv
  BY InitIInv
<1>2. PointsInv
  BY RebuildAssumption DEF Init, PointsInv, At, Callers
<1>3. AllocationInv
  BY RebuildAssumption DEF Init, AllocationInv
<1>4. TreesInv
  BY DEF Init, TreesInv, Trees, Covered, Leaves, NoTree
<1> QED
  BY <1>1, <1>2, <1>3, <1>4 DEF IInv, OverpayInv

LEMMA OverpayStep ==
    ASSUME OneApprover, OverpayInv, [Next]_vars
    PROVE  OverpayInv'
<1>1. IInv'
  BY StepIInv DEF IInv, OverpayInv
<1>2. PointsInv' /\ PointsGrow
  BY PointsStep DEF OverpayInv
<1>3. AllocationInv'
  BY <1>1, <1>2, AllocationStep DEF IInv, OverpayInv
<1>4. TreesInv'
  <2>1. ASSUME NEW t \in Trees' PROVE Covered(t, points')
    <3>1. t \in Seq(Leaf)
      <4>1. /\ chainRoot' \in Seq(Leaf)
            /\ \A r \in Rebuilders : tree'[r] \in Seq(Leaf)
            /\ mempool' \in Seq([root : Seq(Leaf), owner : Rebuilders \cup {None}])
        BY <1>1 DEF IInv, TypeOK
      <4>2. \A i \in DOMAIN mempool' : mempool'[i].root \in Seq(Leaf)
        <5>1. \A i \in DOMAIN mempool' :
                mempool'[i] \in [root : Seq(Leaf), owner : Rebuilders \cup {None}]
          BY <4>1, ElementOfSeq, LenProperties
        <5> QED
          BY <5>1
      <4> QED
        BY <2>1, <4>1, <4>2 DEF Trees
    <3>2. Covered(t, points)
      <4>1. Covered(NoTree, points)
        BY DEF Covered, Leaves, NoTree
      <4> QED
        BY <2>1, <4>1, TreesStep DEF OverpayInv, TreesInv
    <3>3. \A leaf \in Leaves(t) : leaf \in Leaf
      BY <3>1, ElementOfSeq, LenProperties DEF Leaves
    <3>4. /\ points \in [Participants -> Nat] /\ points' \in [Participants -> Nat]
          /\ TOKENS_PER_POINT \in Nat
      BY <1>1, RebuildAssumption DEF IInv, TypeOK, OverpayInv
    <3> QED
      BY <1>2, <3>2, <3>3, <3>4 DEF Covered, PointsGrow, Leaf
  <2> QED
    BY <2>1 DEF TreesInv
<1> QED
  BY <1>1, <1>2, <1>3, <1>4 DEF IInv, OverpayInv

(* When approvals come one at a time, no root that is on chain, or on its   *)
(* way there, ever gives a participant more than the points are worth,      *)
(* whatever rebuilds, exceptions and crashes overlap: allocations are       *)
(* computed from points read earlier, and points only grow.                 *)
THEOREM NoRootOverpaysHolds ==
    ASSUME OneApprover
    PROVE  Spec => []NoRootOverpays
<1>1. OverpayInv /\ [Next]_vars => OverpayInv'
  BY OverpayStep
<1>2. OverpayInv => NoRootOverpays
  BY DEF OverpayInv, TreesInv, Trees, Covered, NoRootOverpays
<1> QED
  BY <1>1, <1>2, OverpayInit, PTL DEF Spec

-----------------------------------------------------------------------------
(* A rebuild that runs alone and is never left with a transaction on its    *)
(* way: what holds at each of its stages.  Its transaction is the only one, *)
(* its root the only one that is active; and while it is past its snapshot  *)
(* every ACTIVE participant with points has been updated, so that the cron  *)
(* would not skip as long as there is one.                                  *)

Busy(r) == ~ At(r, "idle")

Rooted == {"findRoot", "deactivateAndActivate", "deactivateAndCreate", "activate",
           "create", "saveProofs", "readRoot", "push", "wait", "complete"}
RootActive == {"saveProofs", "readRoot", "push", "wait", "complete"}
RootProved == {"readRoot", "push", "wait", "complete"}

HavePoints == {p \in Active : points[p] > 0}

Stage(r) ==
    /\ At(r, "allocate") => HavePoints \subseteq todo[r] \cup updatedSince
    /\ pc[r] \in Rooted \cup {"select"} => HavePoints \subseteq updatedSince
    /\ pc[r] \in {"activate", "create"} => active = {}
    /\ pc[r] \in RootActive => active = {tree[r]}
    /\ pc[r] \in RootProved => tree[r] \in proved
    /\ At(r, "wait") /\ mempool = << >> => chainRoot = tree[r]
    /\ At(r, "complete") => chainRoot = tree[r]

OneBusy == \A r, s \in Rebuilders : Busy(r) /\ Busy(s) => r = s

Sent ==
    \A i \in DOMAIN mempool :
        /\ i = 1
        /\ mempool[i].owner \in Rebuilders
        /\ At(mempool[i].owner, "wait")
        /\ mempool[i].root = tree[mempool[i].owner]

OneActive == \A t, u \in active : t = u

SkipSync ==
    \/ ~ everCompleted \/ HavePoints \subseteq updatedSince
    \/ active = {chainRoot} /\ chainRoot \in proved

Lone ==
    /\ OneBusy
    /\ \A r \in Rebuilders : Stage(r)
    /\ Sent
    /\ OneActive
    /\ SkipSync

(* What a step of r comes down to, when the others are idle.                *)
OnlyBusy(r) == \A s \in Rebuilders \ {r} : At(s, "idle")

LEMMA IdleStage ==
    ASSUME NEW r \in Rebuilders, At(r, "idle")'
    PROVE  Stage(r)'
BY DEF At, Stage, Rooted, RootActive, RootProved

LEMMA LoneOf ==
    ASSUME NEW r \in Rebuilders,
           OnlyBusy(r)', Stage(r)', Sent', OneActive', SkipSync'
    PROVE  Lone'
<1>1. \A s \in Rebuilders : Stage(s)'
  BY IdleStage DEF OnlyBusy
<1>2. OneBusy'
  BY DEF OneBusy, OnlyBusy, Busy
<1> QED
  BY <1>1, <1>2 DEF Lone

LEMMA OnlySent ==
    ASSUME TypeOK, Sent, NEW r \in Rebuilders, OnlyBusy(r)
    PROVE  /\ ~ At(r, "wait") => mempool = << >>
           /\ \A i \in DOMAIN mempool :
                i = 1 /\ mempool[i].owner = r /\ mempool[i].root = tree[r]
           /\ mempool # << >> => 1 \in DOMAIN mempool /\ Len(mempool) = 1
<1>1. \A i \in DOMAIN mempool : mempool[i].owner = r
  BY DEF Sent, OnlyBusy, At
<1>2. DOMAIN mempool = {} => mempool = << >>
  BY MempoolProperties, EmptySeq DEF MempoolType
<1>3. ~ At(r, "wait") => DOMAIN mempool = {}
  BY <1>1 DEF Sent
<1>4. ASSUME mempool # << >> PROVE 1 \in DOMAIN mempool /\ Len(mempool) = 1
  <2>1. Len(mempool) \in Nat /\ DOMAIN mempool = 1 .. Len(mempool) /\ DOMAIN mempool # {}
    BY <1>2, <1>4, MempoolProperties
  <2>2. Len(mempool) \in DOMAIN mempool
    BY <2>1
  <2> QED
    BY <2>1, <2>2 DEF Sent
<1> QED
  BY <1>1, <1>2, <1>3, <1>4 DEF Sent

(* The moves of a rebuild among the stages that leave the roots alone.      *)
LEMMA StartLone ==
    ASSUME TypeOK, Lone, NEW r \in Rebuilders, Start(r), ~ overlapped'
    PROVE  Lone'
<1>0. pc \in [Callers -> Labels] /\ r \in Callers /\ Rebuilders \subseteq Callers
  BY DEF TypeOK, Callers
<1>1. OnlyBusy(r) /\ At(r, "idle") /\ pc' = [pc EXCEPT ![r] = "recalculate"]
  BY DEF Start, OnlyBusy, Goto
<1>2. OnlyBusy(r)' /\ pc'[r] = "recalculate"
  BY <1>0, <1>1 DEF OnlyBusy, At
<1>3. mempool' = << >>
  BY <1>1, OnlySent DEF Start, Lone, At
<1>4. Sent'
  BY <1>3 DEF Sent
<1>5. Stage(r)'
  BY <1>2 DEF Stage, At, Rooted, RootActive, RootProved
<1>6. OneActive' /\ SkipSync'
  BY DEF Start, Lone, OneActive, SkipSync, HavePoints, Active
<1> QED
  BY <1>2, <1>4, <1>5, <1>6, LoneOf

LEMMA AloneWhenBusy ==
    ASSUME TypeOK, Lone, NEW r \in Rebuilders, Busy(r)
    PROVE  /\ OnlyBusy(r) /\ Stage(r) /\ OneActive /\ SkipSync /\ Sent
           /\ ~ At(r, "wait") => mempool = << >>
<1>1. OnlyBusy(r) /\ Sent
  BY DEF Lone, OneBusy, Busy, OnlyBusy
<1>2. ~ At(r, "wait") => mempool = << >>
  BY <1>1, OnlySent
<1> QED
  BY <1>1, <1>2 DEF Lone

LEMMA MovedAlone ==
    ASSUME TypeOK, NEW r \in Rebuilders, OnlyBusy(r), NEW label, Goto(r, label)
    PROVE  OnlyBusy(r)' /\ pc'[r] = label
BY DEF TypeOK, Callers, OnlyBusy, At, Goto

LEMMA RecalculateLone ==
    ASSUME TypeOK, Lone, NEW r \in Rebuilders, recalculateAllocations(r)
    PROVE  Lone'
<1>1. CASE ReadParticipants(r)
  <2>1. Goto(r, "allocate") /\ At(r, "recalculate") /\ Busy(r)
    BY <1>1 DEF ReadParticipants, At, Busy
  <2>2. /\ OnlyBusy(r) /\ mempool = << >> /\ OneActive /\ SkipSync
        /\ OnlyBusy(r)' /\ pc'[r] = "allocate"
    BY <2>1, AloneWhenBusy, MovedAlone DEF At
  <2>3. todo'[r] = HavePoints /\ UNCHANGED << points, blocked >>
    BY <1>1 DEF ReadParticipants, HavePoints, Active, TypeOK, Callers
  <2>4. Stage(r)'
    BY <2>2, <2>3 DEF Stage, At, Rooted, RootActive, RootProved, HavePoints, Active
  <2>5. Sent' /\ OneActive' /\ SkipSync'
    BY <1>1, <2>2, <2>3 DEF ReadParticipants, Sent, OneActive, SkipSync, HavePoints, Active
  <2> QED
    BY <2>2, <2>4, <2>5, LoneOf
<1>2. CASE UpdateAllocation(r)
  <2>1. At(r, "allocate") /\ Busy(r) /\ pc' = pc
    BY <1>2 DEF UpdateAllocation, At, Busy
  <2>2. OnlyBusy(r) /\ Stage(r) /\ mempool = << >> /\ OneActive /\ SkipSync
    BY <2>1, AloneWhenBusy DEF At
  <2>3. PICK p \in todo[r] :
          /\ updatedSince' = updatedSince \cup {p}
          /\ todo' = [todo EXCEPT ![r] = @ \ {p}]
    BY <1>2 DEF UpdateAllocation
  <2>4. UNCHANGED << points, blocked >> /\ todo'[r] = todo[r] \ {p}
    BY <1>2, <2>3 DEF UpdateAllocation, TypeOK, Callers
  <2>5. Stage(r)'
    BY <2>1, <2>2, <2>3, <2>4 DEF Stage, At, Rooted, RootActive, RootProved, HavePoints, Active
  <2>6. Sent' /\ OneActive' /\ SkipSync'
    BY <1>2, <2>2, <2>3, <2>4 DEF UpdateAllocation, Sent, OneActive, SkipSync, HavePoints, Active
  <2> QED
    BY <2>1, <2>2, <2>5, <2>6, LoneOf DEF OnlyBusy, At
<1>3. CASE Recalculated(r)
  <2>1. Goto(r, "select") /\ At(r, "allocate") /\ Busy(r) /\ todo[r] = {}
    BY <1>3 DEF Recalculated, At, Busy
  <2>2. /\ OnlyBusy(r) /\ Stage(r) /\ mempool = << >> /\ OneActive /\ SkipSync
        /\ OnlyBusy(r)' /\ pc'[r] = "select"
    BY <2>1, AloneWhenBusy, MovedAlone DEF At
  <2>3. UNCHANGED << participantRows, jobRows, rootRows, airdrop, todo, tree, blocked >>
    BY <1>3 DEF Recalculated
  <2>4. Stage(r)'
    BY <2>1, <2>2, <2>3 DEF Stage, At, Rooted, RootActive, RootProved, HavePoints, Active
  <2>5. Sent' /\ OneActive' /\ SkipSync'
    BY <2>2, <2>3 DEF Sent, OneActive, SkipSync, HavePoints, Active
  <2> QED
    BY <2>2, <2>4, <2>5, LoneOf
<1> QED
  BY <1>1, <1>2, <1>3 DEF recalculateAllocations

LEMMA SelectLone ==
    ASSUME TypeOK, Lone, NEW r \in Rebuilders, Select(r)
    PROVE  Lone'
<1>1. Goto(r, "findRoot") /\ At(r, "select") /\ Busy(r)
  BY DEF Select, At, Busy
<1>2. /\ OnlyBusy(r) /\ Stage(r) /\ mempool = << >> /\ OneActive /\ SkipSync
      /\ OnlyBusy(r)' /\ pc'[r] = "findRoot"
  BY <1>1, AloneWhenBusy, MovedAlone DEF At
<1>3. UNCHANGED << participantRows, jobRows, rootRows, airdrop, blocked >>
  BY DEF Select
<1>4. HavePoints \subseteq updatedSince
  BY <1>1, <1>2 DEF Stage, At
<1>5. Stage(r)'
  BY <1>2, <1>3, <1>4 DEF Stage, At, Rooted, RootActive, RootProved, HavePoints, Active
<1>6. Sent' /\ OneActive' /\ SkipSync'
  BY <1>2, <1>3 DEF Sent, OneActive, SkipSync, HavePoints, Active
<1> QED
  BY <1>2, <1>5, <1>6, LoneOf

(* The stages that write the database and send the root.                    *)
LEMMA RootLone ==
    ASSUME TypeOK, Lone, NEW r \in Rebuilders,
           \/ FindRoot(r) \/ DeactivateAll(r) \/ Activate(r)
           \/ CreateRoot(r) \/ saveMerkleProofs(r)
    PROVE  Lone'
<1>1. /\ Busy(r) /\ pc[r] \in Rooted /\ ~ At(r, "wait")
      /\ \E label \in Rooted : Goto(r, label)
  BY DEF FindRoot, DeactivateAll, Activate, CreateRoot, saveMerkleProofs, At, Busy, Rooted
<1>2. /\ OnlyBusy(r) /\ Stage(r) /\ mempool = << >> /\ OneActive
      /\ HavePoints \subseteq updatedSince
  BY <1>1, AloneWhenBusy DEF Stage
<1>3. OnlyBusy(r)'
  BY <1>1, <1>2, MovedAlone
<1>4. UNCHANGED << participantRows, airdrop, tree, blocked >>
  BY DEF FindRoot, DeactivateAll, Activate, CreateRoot, saveMerkleProofs
<1>5. Sent' /\ SkipSync'
  BY <1>2, <1>4 DEF Sent, SkipSync, HavePoints, Active
<1>6. Stage(r)' /\ OneActive'
  <2>1. CASE FindRoot(r)
    <3>1. pc'[r] = IF tree[r] \in active THEN "saveProofs"
                   ELSE IF tree[r] \in rows THEN "deactivateAndActivate"
                   ELSE "deactivateAndCreate"
      BY <2>1, <1>2, MovedAlone DEF FindRoot
    <3>2. active' = active
      BY <2>1 DEF FindRoot
    <3> QED
      BY <1>2, <1>4, <3>1, <3>2
         DEF Stage, At, Rooted, RootActive, RootProved, HavePoints, Active, OneActive
  <2>2. CASE DeactivateAll(r)
    <3>1. pc'[r] \in {"activate", "create"} /\ active' = {}
      BY <2>2, <1>2, MovedAlone DEF DeactivateAll
    <3> QED
      BY <1>2, <1>4, <3>1 DEF Stage, At, Rooted, RootActive, RootProved, HavePoints, Active, OneActive
  <2>3. CASE Activate(r) \/ CreateRoot(r)
    <3>1. /\ pc'[r] = "saveProofs" /\ active' = active \cup {tree[r]}
          /\ pc[r] \in {"activate", "create"}
      BY <2>3, <1>2, MovedAlone DEF Activate, CreateRoot, At
    <3> QED
      BY <1>2, <1>4, <3>1 DEF Stage, At, Rooted, RootActive, RootProved, HavePoints, Active, OneActive
  <2>4. CASE saveMerkleProofs(r)
    <3>1. /\ pc'[r] = "readRoot" /\ active' = active /\ pc[r] = "saveProofs"
          /\ proved' = proved \cup {tree[r]}
      BY <2>4, <1>2, MovedAlone DEF saveMerkleProofs, At
    <3> QED
      BY <1>2, <1>4, <3>1 DEF Stage, At, Rooted, RootActive, RootProved, HavePoints, Active, OneActive
  <2> QED
    BY <2>1, <2>2, <2>3, <2>4
<1> QED
  BY <1>3, <1>5, <1>6, LoneOf

LEMMA PushLone ==
    ASSUME TypeOK, Lone, NEW r \in Rebuilders,
           getCurrentMerkleRoot(r) \/ Push(r) \/ Waited(r)
    PROVE  Lone'
<1>1. /\ Busy(r) /\ pc[r] \in Rooted
      /\ \E label \in Rooted : Goto(r, label)
  BY DEF getCurrentMerkleRoot, Push, Waited, At, Busy, Rooted
<1>2. /\ OnlyBusy(r) /\ Stage(r) /\ OneActive /\ Sent /\ SkipSync
      /\ HavePoints \subseteq updatedSince /\ (~ At(r, "wait") => mempool = << >>)
  BY <1>1, AloneWhenBusy DEF Stage
<1>3. OnlyBusy(r)'
  BY <1>1, <1>2, MovedAlone
<1>4. UNCHANGED << participantRows, rootRows, jobRows, chainRoot, tree, blocked >>
  BY DEF getCurrentMerkleRoot, Push, Waited
<1>5. SkipSync' /\ OneActive'
  BY <1>2, <1>4 DEF SkipSync, HavePoints, Active, OneActive
<1>6. CASE getCurrentMerkleRoot(r)
  <2>1. /\ pc'[r] = IF chainRoot = tree[r] THEN "complete" ELSE "push"
        /\ pc[r] = "readRoot" /\ mempool' = mempool
    BY <1>2, <1>6, MovedAlone DEF getCurrentMerkleRoot, At
  <2>2. Stage(r)'
    BY <1>2, <1>4, <2>1 DEF Stage, At, Rooted, RootActive, RootProved, HavePoints, Active
  <2>3. Sent'
    BY <1>2, <2>1 DEF Sent, At
  <2> QED
    BY <1>3, <1>5, <2>2, <2>3, LoneOf
<1>7. CASE Push(r)
  <2>1. /\ pc'[r] = "wait" /\ pc[r] = "push" /\ mempool = << >>
        /\ mempool' = Append(mempool, [root |-> tree[r], owner |-> r])
    BY <1>2, <1>7, MovedAlone DEF Push, At
  <2>2. /\ mempool' # << >> /\ DOMAIN mempool' = {1}
        /\ mempool'[1].owner = r /\ mempool'[1].root = tree[r]
    BY <2>1
  <2>3. Stage(r)'
    BY <1>2, <1>4, <2>1, <2>2 DEF Stage, At, Rooted, RootActive, RootProved, HavePoints, Active
  <2>4. Sent'
    BY <1>4, <2>1, <2>2 DEF Sent, At
  <2> QED
    BY <1>3, <1>5, <2>3, <2>4, LoneOf
<1>8. CASE Waited(r)
  <2>1. /\ pc'[r] = "complete" /\ pc[r] = "wait" /\ mempool' = mempool
        /\ \A i \in DOMAIN mempool : mempool[i].owner # r
    BY <1>2, <1>8, MovedAlone DEF Waited, At
  <2>2. mempool = << >>
    BY <1>2, <2>1, OnlySent
  <2>3. Stage(r)'
    BY <1>2, <1>4, <2>1, <2>2 DEF Stage, At, Rooted, RootActive, RootProved, HavePoints, Active
  <2>4. Sent'
    BY <2>1, <2>2 DEF Sent
  <2> QED
    BY <1>3, <1>5, <2>3, <2>4, LoneOf
<1> QED
  BY <1>6, <1>7, <1>8

(* Calls that end, with nothing of theirs on its way.                       *)
LEMMA NothingLeft ==
    ASSUME TypeOK, NEW gone, Leave(gone), ~ abandoned'
    PROVE  mempool' = mempool
<1>1. \A i \in DOMAIN mempool : mempool[i].owner \notin gone
  BY DEF Leave
<1>2. mempool' = [i \in DOMAIN mempool |-> mempool[i]]
  BY <1>1 DEF Leave
<1>3. mempool = [i \in DOMAIN mempool |-> mempool[i]]
  BY MempoolProperties DEF MempoolType
<1> QED
  BY <1>2, <1>3

LEMMA LeaveLone ==
    ASSUME TypeOK, Lone, NEW gone, Leave(gone), ~ abandoned',
           UNCHANGED << participantRows, jobRows, rootRows, chainRoot, blocked >>
    PROVE  Lone'
<1>1. mempool' = mempool
  BY NothingLeft
<1>2. ASSUME NEW r \in Rebuilders
      PROVE  \/ r \in gone /\ pc'[r] = "idle"
             \/ r \notin gone /\ pc'[r] = pc[r] /\ tree'[r] = tree[r] /\ todo'[r] = todo[r]
  BY DEF Leave, Callers
<1>3. \A r \in Rebuilders : Stage(r)'
  <2>1. ASSUME NEW r \in Rebuilders PROVE Stage(r)'
    <3>1. CASE pc'[r] = "idle"
      BY <3>1, IdleStage DEF At
    <3>2. CASE pc'[r] = pc[r] /\ tree'[r] = tree[r] /\ todo'[r] = todo[r]
      <4>1. Stage(r)
        BY DEF Lone
      <4> QED
        BY <1>1, <3>2, <4>1 DEF Stage, At, HavePoints, Active
    <3> QED
      BY <1>2, <3>1, <3>2
  <2> QED
    BY <2>1
<1>4. OneBusy'
  BY <1>2 DEF Lone, OneBusy, Busy, At
<1>5. Sent'
  <2>1. \A i \in DOMAIN mempool : mempool[i].owner \notin gone
    BY DEF Leave
  <2> QED
    BY <1>1, <1>2, <2>1 DEF Lone, Sent, At
<1>6. OneActive' /\ SkipSync'
  BY DEF Lone, OneActive, SkipSync, HavePoints, Active
<1> QED
  BY <1>3, <1>4, <1>5, <1>6 DEF Lone

(* When the job is completed the root is active, proved and on chain.       *)
LEMMA CompleteLone ==
    ASSUME TypeOK, Lone, NEW r \in Rebuilders, Complete(r), ~ abandoned'
    PROVE  Lone'
<1>1. Busy(r) /\ pc[r] = "complete" /\ Leave({r})
  BY DEF Complete, Busy, At
<1>2. OnlyBusy(r) /\ Stage(r) /\ OneActive /\ mempool = << >>
  BY <1>1, AloneWhenBusy DEF At
<1>3. active = {tree[r]} /\ tree[r] \in proved /\ chainRoot = tree[r]
  BY <1>1, <1>2 DEF Stage, At, RootActive, RootProved
<1>4. mempool' = << >>
  BY <1>1, <1>2, NothingLeft
<1>5. OnlyBusy(r)' /\ At(r, "idle")'
  BY <1>1, <1>2 DEF Leave, OnlyBusy, At, Callers
<1>6. Stage(r)'
  BY <1>5, IdleStage
<1>7. Sent' /\ OneActive' /\ SkipSync'
  BY <1>2, <1>3, <1>4 DEF Complete, Sent, OneActive, SkipSync
<1> QED
  BY <1>5, <1>6, <1>7, LoneOf

(* A step that is no rebuild's: roots, transactions and stages stay.        *)
LEMMA OtherLone ==
    ASSUME TypeOK, Lone,
           UNCHANGED << rootRows, airdrop, tree, everCompleted >>,
           \A r \in Rebuilders : pc'[r] = pc[r] /\ todo'[r] = todo[r],
           HavePoints' \subseteq HavePoints \cup (updatedSince' \ updatedSince),
           updatedSince \subseteq updatedSince'
    PROVE  Lone'
<1>1. \A r \in Rebuilders : Stage(r)'
  <2>1. ASSUME NEW r \in Rebuilders PROVE Stage(r)'
    <3>1. Stage(r)
      BY DEF Lone
    <3>2. pc'[r] = pc[r] /\ todo'[r] = todo[r]
      OBVIOUS
    <3> QED
      BY <3>1, <3>2 DEF Stage, At
  <2> QED
    BY <2>1
<1>2. OneBusy' /\ Sent'
  BY DEF Lone, OneBusy, Busy, Sent, At
<1>3. OneActive' /\ SkipSync'
  BY DEF Lone, OneActive, SkipSync
<1> QED
  BY <1>1, <1>2, <1>3 DEF Lone

LEMMA ApprovalLone ==
    ASSUME TypeOK, Lone, NEW a \in Approvers, approveTask(a), ~ abandoned'
    PROVE  Lone'
<1>0. /\ pc \in [Callers -> Labels] /\ todo \in [Callers -> SUBSET Participants]
      /\ a \in Callers /\ Rebuilders \subseteq Callers /\ a \notin Rebuilders
      /\ points \in [Participants -> Nat]
  BY RebuildAssumption DEF TypeOK, Callers
<1>1. CASE ReadPoints(a) \/ ReadParticipants(a)
  <2>1. /\ UNCHANGED << participantRows, jobRows, rootRows, airdrop, tree, blocked >>
        /\ \E label \in Labels : pc' = [pc EXCEPT ![a] = label]
        /\ todo' = todo \/ \E T : todo' = [todo EXCEPT ![a] = T]
    BY <1>1 DEF ReadPoints, ReadParticipants, Goto, Labels
  <2>2. \A r \in Rebuilders : pc'[r] = pc[r] /\ todo'[r] = todo[r]
    BY <1>0, <2>1
  <2>3. HavePoints' = HavePoints
    BY <2>1 DEF HavePoints, Active
  <2> QED
    BY <2>1, <2>2, <2>3, OtherLone
<1>2. CASE distributeReward(a)
  <2> DEFINE p == UserOf[task[a]]
  <2>1. /\ points' = [points EXCEPT ![p] = seen[a][p] + PointsOf[task[a]]]
        /\ updatedSince' = updatedSince \cup {p}
        /\ pc' = [pc EXCEPT ![a] = "recalculate"]
        /\ UNCHANGED << allocation, jobRows, rootRows, airdrop, tree, todo, blocked >>
    BY <1>2 DEF distributeReward, Goto
  <2> HIDE DEF p
  <2>2. \A r \in Rebuilders : pc'[r] = pc[r] /\ todo'[r] = todo[r]
    BY <1>0, <2>1
  <2>3. \A q \in Participants \ {p} : points'[q] = points[q]
    BY <1>0, <2>1
  <2>4. \A r \in Rebuilders : Stage(r)'
    <3>1. ASSUME NEW r \in Rebuilders PROVE Stage(r)'
      <4>1. Stage(r)
        BY DEF Lone
      <4>2. HavePoints' \subseteq HavePoints \cup {p}
        BY <2>1, <2>3 DEF HavePoints, Active
      <4> QED
        BY <2>1, <2>2, <4>1, <4>2 DEF Stage, At
    <3> QED
      BY <3>1
  <2>5. OneBusy' /\ Sent'
    BY <2>1, <2>2 DEF Lone, OneBusy, Busy, Sent, At
  <2>6. OneActive' /\ SkipSync'
    <3>1. HavePoints' \subseteq HavePoints \cup {p}
      BY <2>1, <2>3 DEF HavePoints, Active
    <3> QED
      BY <2>1, <3>1 DEF Lone, OneActive, SkipSync
  <2> QED
    BY <2>4, <2>5, <2>6 DEF Lone
<1>3. CASE UpdateAllocation(a)
  <2>1. PICK p \in todo[a] :
          /\ updatedSince' = updatedSince \cup {p}
          /\ todo' = [todo EXCEPT ![a] = @ \ {p}]
    BY <1>3 DEF UpdateAllocation
  <2>2. UNCHANGED << points, jobRows, rootRows, airdrop, pc, tree, blocked >>
    BY <1>3 DEF UpdateAllocation
  <2>3. \A r \in Rebuilders : pc'[r] = pc[r] /\ todo'[r] = todo[r]
    BY <1>0, <2>1, <2>2
  <2>4. HavePoints' = HavePoints
    BY <2>2 DEF HavePoints, Active
  <2> QED
    BY <2>1, <2>2, <2>3, <2>4, OtherLone
<1>4. CASE Recalculated(a)
  <2>1. Leave({a}) /\ UNCHANGED << participantRows, jobRows, rootRows, chainRoot, blocked >>
    BY <1>0, <1>4 DEF Recalculated
  <2> QED
    BY <2>1, LeaveLone
<1> QED
  BY <1>1, <1>2, <1>3, <1>4 DEF approveTask, recalculateAllocations

(* The only transaction is the one its rebuild waits for.                   *)
LEMMA MineLone ==
    ASSUME TypeOK, TypeOK', Lone, Mine
    PROVE  Lone'
<1>1. PICK r \in Rebuilders : At(r, "wait")
  BY MineTrees DEF Lone, Sent
<1>2. /\ OnlyBusy(r) /\ Stage(r) /\ Sent /\ OneActive
  BY <1>1, AloneWhenBusy DEF At, Busy
<1>3. chainRoot' = tree[r] /\ Len(mempool') = 0
  BY <1>2, MineTrees, OnlySent DEF Mine
<1>4. mempool' = << >>
  BY <1>3, EmptySeq DEF TypeOK
<1>5. UNCHANGED << participantRows, jobRows, rootRows, pc, locals, blocked >>
  BY DEF Mine
<1>6. OnlyBusy(r)' /\ (HavePoints \subseteq updatedSince)'
  BY <1>1, <1>2, <1>5 DEF OnlyBusy, At, Stage, Rooted, HavePoints, Active
<1>7. Stage(r)'
  BY <1>1, <1>2, <1>3, <1>5 DEF Stage, At, Rooted, RootActive, RootProved, HavePoints, Active
<1>8. Sent' /\ OneActive' /\ SkipSync'
  BY <1>2, <1>4, <1>5, <1>6 DEF Sent, OneActive, SkipSync
<1> QED
  BY <1>6, <1>7, <1>8, LoneOf

LoneInv == IInv /\ (~ overlapped /\ ~ abandoned => Lone)

LEMMA LoneInit == Init => LoneInv
<1> SUFFICES ASSUME Init PROVE LoneInv
  OBVIOUS
<1>1. IInv
  BY InitIInv
<1>2. OneBusy /\ \A r \in Rebuilders : Stage(r)
  BY DEF Init, OneBusy, Busy, At, Stage, Rooted, RootActive, RootProved, Callers
<1>3. Sent /\ OneActive /\ SkipSync
  BY DEF Init, Sent, OneActive, SkipSync
<1> QED
  BY <1>1, <1>2, <1>3 DEF LoneInv, Lone

LEMMA LoneStep == LoneInv /\ [Next]_vars => LoneInv'
<1> SUFFICES ASSUME LoneInv, [Next]_vars, ~ overlapped', ~ abandoned' PROVE Lone'
  BY StepIInv DEF LoneInv
<1>0. TypeOK /\ TypeOK'
  BY StepIInv DEF LoneInv, IInv
<1>1. ~ overlapped /\ ~ abandoned
  <2>1. \/ UNCHANGED << overlapped, abandoned >>
        \/ UNCHANGED overlapped /\ \E gone : Leave(gone)
        \/ UNCHANGED abandoned /\ \E r \in Rebuilders : Start(r)
    BY ZenonT(40) DEF Next, approveTask, rebuildAndSync, recalculateAllocations, ReadPoints,
       distributeReward, ReadParticipants, UpdateAllocation, Recalculated, Start, Select,
       NothingToSelect, FindRoot, DeactivateAll, Activate, CreateRoot,
       CreateRootTwice, saveMerkleProofs, getCurrentMerkleRoot, Push, Waited,
       Complete, Fail, Mine, RecordClaim, Block, vars
  <2>2. (\E gone : Leave(gone)) => (abandoned => abandoned')
    BY Zenon DEF Leave
  <2>3. (\E r \in Rebuilders : Start(r)) => (overlapped => overlapped')
    BY Zenon DEF Start
  <2>4. CASE UNCHANGED << overlapped, abandoned >>
    BY <2>4
  <2>5. CASE UNCHANGED overlapped /\ \E gone : Leave(gone)
    BY <2>2, <2>5, Zenon
  <2>6. CASE UNCHANGED abandoned /\ \E r \in Rebuilders : Start(r)
    BY <2>3, <2>6, Zenon
  <2> QED
    BY <2>1, <2>4, <2>5, <2>6
<1>2. Lone
  BY <1>1 DEF LoneInv
<1>3. ASSUME NEW a \in Approvers, approveTask(a) PROVE Lone'
  BY <1>0, <1>2, <1>3, ApprovalLone
<1>4. ASSUME NEW r \in Rebuilders, Start(r) \/ rebuildAndSync(r) PROVE Lone'
  <2>1. CASE NothingToSelect(r) \/ CreateRootTwice(r)
    <3>1. Leave({r}) /\ UNCHANGED << participantRows, jobRows, rootRows, chainRoot, blocked >>
      BY <2>1 DEF NothingToSelect, CreateRootTwice
    <3> QED
      BY <1>0, <1>2, <3>1, LeaveLone
  <2> QED
    BY <1>0, <1>2, <1>4, <2>1, StartLone, RecalculateLone, SelectLone, RootLone,
       PushLone, CompleteLone DEF rebuildAndSync
<1>5. CASE Fail
  <2>1. PICK gone : Leave(gone)
    BY <1>5 DEF Fail
  <2>2. UNCHANGED << participantRows, jobRows, rootRows, chainRoot, blocked >>
    BY <1>5 DEF Fail
  <2> QED
    BY <1>0, <1>2, <2>1, <2>2, LeaveLone
<1>6. CASE Mine
  BY <1>0, <1>2, <1>6, MineLone
<1>7. CASE RecordClaim \/ \E p \in Participants : Block(p)
  BY <1>0, <1>2, <1>7, OtherLone DEF RecordClaim, Block, HavePoints, Active
<1>8. CASE UNCHANGED vars
  BY <1>0, <1>2, <1>8, OtherLone DEF vars, HavePoints, Active
<1> QED
  BY <1>3, <1>4, <1>5, <1>6, <1>7, <1>8 DEF Next

(* As long as no two rebuilds were ever under way at once and none was left *)
(* with its transaction on its way, the cron skips a rebuild while an       *)
(* ACTIVE user has points only when the one active root is the one on       *)
(* chain, with its proofs, whatever reviewers approve and whoever is        *)
(* blocked meanwhile and wherever rebuilds fail.                            *)
THEOREM LoneSkipMeansInSyncHolds == Spec => []LoneSkipMeansInSync
<1>1. LoneInv => LoneSkipMeansInSync
  BY DEF LoneInv, Lone, SkipSync, HavePoints, Active, isRebuildNeeded, LoneSkipMeansInSync
<1> QED
  BY <1>1, LoneInit, LoneStep, PTL DEF Spec

-----------------------------------------------------------------------------
(* The rewards of one user (TaskReward).  A call that advances becomes      *)
(* another request; the rest of the calls stay what they were.              *)

TaskRequest == [at : {"idle", "submit", "reject", "toggle"} \cup ApprovalLabels,
                task : TaskIds, worth : Nat, read : ParticipantRow]

Moved(c, label, row) ==
    [at |-> label, task |-> request[c].task, worth |-> request[c].worth, read |-> row]

Becomes(c, new) ==
    /\ request' \in [TaskCallers -> TaskRequest]
    /\ request'[c] = new
    /\ \A d \in TaskCallers \ {c} : request'[d] = request[d]

LEMMA RequestType ==
    ASSUME TaskTypeOK, NEW c \in TaskCallers
    PROVE  /\ request[c] \in TaskRequest
           /\ NoRequest \in TaskRequest /\ NoParticipant \in ParticipantRow
           /\ request[c].worth \in Nat /\ request[c].task \in TaskIds
           /\ request[c].read \in ParticipantRow
<1>1. request[c] \in TaskRequest
  BY DEF TaskTypeOK, TaskRequest
<1>2. NoParticipant \in ParticipantRow
  BY DEF NoParticipant, ParticipantRow
<1>3. (CHOOSE t \in TaskIds : TRUE) \in TaskIds
  BY TaskAssumption
<1>4. NoRequest \in TaskRequest
  BY <1>2, <1>3 DEF NoRequest, Asked, TaskRequest
<1> QED
  BY <1>1, <1>2, <1>4 DEF TaskRequest

LEMMA StepMoves ==
    ASSUME TaskTypeOK, NEW c \in TaskCallers,
           NEW label \in {"idle", "submit", "reject", "toggle"} \cup ApprovalLabels,
           Step(c, label)
    PROVE  Becomes(c, Moved(c, label, request[c].read))
BY DEF TaskTypeOK, Step, Becomes, Moved, TaskRequest

LEMMA ProceedMoves ==
    ASSUME TaskTypeOK, NEW c \in TaskCallers, NEW label \in ApprovalLabels,
           NEW row \in ParticipantRow,
           request' = [request EXCEPT ![c].at = label, ![c].read = row]
    PROVE  Becomes(c, Moved(c, label, row))
<1> DEFINE old == request[c]
<1>1. /\ request \in [TaskCallers -> TaskRequest] /\ old \in TaskRequest
      /\ Moved(c, label, row) \in TaskRequest
  BY RequestType DEF TaskTypeOK, TaskRequest, Moved
<1>2. /\ DOMAIN request' = TaskCallers /\ request' = [d \in TaskCallers |-> request'[d]]
      /\ \A d \in TaskCallers \ {c} : request'[d] = request[d]
      /\ request'[c] = [[old EXCEPT !.at = label] EXCEPT !.read = row]
  BY <1>1
<1>3. request'[c] = Moved(c, label, row)
  BY <1>1, <1>2 DEF Moved, TaskRequest
<1> HIDE DEF old
<1>4. ASSUME NEW d \in TaskCallers PROVE request'[d] \in TaskRequest
  BY <1>1, <1>2, <1>3
<1> QED
  BY <1>2, <1>3, <1>4 DEF Becomes

LEMMA NewRequest ==
    ASSUME TaskTypeOK, NEW c \in TaskCallers, NEW new \in TaskRequest,
           request' = [request EXCEPT ![c] = new]
    PROVE  Becomes(c, new)
BY DEF TaskTypeOK, Becomes, TaskRequest

LEMMA DoneMoves ==
    ASSUME TaskTypeOK, NEW c \in TaskCallers, Done(c)
    PROVE  Becomes(c, NoRequest)
BY RequestType, NewRequest DEF Done

LEMMA AskedMoves ==
    ASSUME TaskTypeOK, NEW c \in TaskCallers, NEW t \in TaskIds, NEW w \in Nat,
           NEW label \in {"submit", "verify", "reject", "toggle"},
           request' = [request EXCEPT ![c] = Asked(label, t, w)]
    PROVE  Becomes(c, Asked(label, t, w))
<1>1. NoParticipant \in ParticipantRow
  BY DEF NoParticipant, ParticipantRow
<1>2. Asked(label, t, w) \in TaskRequest
  BY <1>1 DEF Asked, TaskRequest, ApprovalLabels
<1> QED
  BY <1>2, NewRequest

RequestOK ==
    /\ request \in [TaskCallers -> TaskRequest]
    /\ request[user].at \in {"idle", "submit"}
    /\ \A c \in Reviewers : request[c].at \in ApprovalLabels => request[c].worth \in Worths

LEMMA BecomesOK ==
    ASSUME TaskTypeOK, NEW c \in TaskCallers, NEW new, Becomes(c, new),
           c = user => new.at \in {"idle", "submit"},
           c \in Reviewers /\ new.at \in ApprovalLabels => new.worth \in Worths
    PROVE  RequestOK'
BY DEF TaskTypeOK, Becomes, RequestOK, TaskCallers

RowsOK ==
    /\ tasks \in [TaskIds -> [exists : BOOLEAN, active : BOOLEAN, points : Worths]]
    /\ record \in [TaskIds -> TaskRecord \cup {NoRecord}]
    /\ participant \in ParticipantRow
    /\ \A t \in TaskIds : record[t] # NoRecord => tasks[t].exists
    /\ banned \in BOOLEAN
    /\ submits \in 0..MaxSubmits /\ edits \in 0..MaxUpsets /\ mishaps \in 0..MaxUpsets
    /\ paid \in [TaskIds -> Seq(Worths)] /\ lost \subseteq TaskIds /\ raced \in BOOLEAN

LEMMA TypeParts == TaskTypeOK <=> RequestOK /\ RowsOK
BY DEF TaskTypeOK, RequestOK, RowsOK, TaskRequest

LEMMA TaskInitType == TaskInit => TaskTypeOK
<1> SUFFICES ASSUME TaskInit PROVE TaskTypeOK
  OBVIOUS
<1>1. NoRequest \in TaskRequest /\ NoRequest.at = "idle"
  <2>1. (CHOOSE t \in TaskIds : TRUE) \in TaskIds
    BY TaskAssumption
  <2> QED
    BY <2>1 DEF NoRequest, Asked, TaskRequest, NoParticipant, ParticipantRow
<1>2. RequestOK
  BY <1>1, TaskAssumption DEF TaskInit, RequestOK, TaskCallers, ApprovalLabels, RewardLabels
<1>3. /\ tasks \in [TaskIds -> [exists : BOOLEAN, active : BOOLEAN, points : Worths]]
      /\ \A t \in TaskIds : record[t] = NoRecord
  <2>1. PICK w \in [TaskIds -> FirstWorths] :
          tasks = [t \in TaskIds |-> [exists |-> TRUE, active |-> TRUE, points |-> w[t]]]
    BY DEF TaskInit
  <2>2. \A t \in TaskIds : [exists |-> TRUE, active |-> TRUE, points |-> w[t]]
                             \in [exists : BOOLEAN, active : BOOLEAN, points : Worths]
    BY TaskAssumption
  <2> QED
    BY <2>1, <2>2 DEF TaskInit
<1>4. participant \in ParticipantRow /\ record \in [TaskIds -> TaskRecord \cup {NoRecord}]
  BY DEF TaskInit, NoParticipant, ParticipantRow
<1>5. paid \in [TaskIds -> Seq(Worths)]
  BY EmptySeq DEF TaskInit
<1>6. /\ submits \in 0..MaxSubmits /\ edits \in 0..MaxUpsets /\ mishaps \in 0..MaxUpsets
      /\ lost \subseteq TaskIds
  BY TaskAssumption DEF TaskInit
<1>7. raced \in BOOLEAN /\ banned \in BOOLEAN
  BY Zenon DEF TaskInit
<1> QED
  BY <1>2, <1>3, <1>4, <1>5, <1>6, <1>7, TypeParts DEF RowsOK

(* The calls move: what each of them becomes, in one line per step. *)
LEMMA ReviewerMoves ==
    ASSUME TaskTypeOK, NEW c \in Reviewers
    PROVE  /\ \A t \in TaskIds :
                /\ Approve(c, t) => Becomes(c, Asked("verify", t, tasks[t].points))
                /\ Reject(c, t) => Becomes(c, Asked("reject", t, 0))
                /\ Toggle(c, t) => \E w \in {0, 1} : Becomes(c, Asked("toggle", t, w))
           /\ Verify(c) => \/ Becomes(c, NoRequest)
                           \/ Becomes(c, Moved(c, "reward", request[c].read))
           /\ RewardReadsRecord(c) => \/ Becomes(c, NoRequest)
                                      \/ Becomes(c, Moved(c, "participant", request[c].read))
           /\ RewardReadsParticipant(c) => Becomes(c, Moved(c, "commit", participant))
           /\ RewardCommits(c) => \/ Becomes(c, NoRequest)
                                  \/ Becomes(c, Moved(c, "recalculate", NoParticipant))
           /\ RecalculateReads(c) => \/ Becomes(c, Moved(c, "allocate", participant))
                                     \/ banned /\ Becomes(c, Moved(c, "finish", NoParticipant))
           /\ RecalculateWrites(c) => Becomes(c, Moved(c, "finish", NoParticipant))
           /\ Finish(c) \/ WriteRejection(c) \/ WriteToggle(c) => Becomes(c, NoRequest)
<1>0. /\ c \in TaskCallers /\ NoParticipant \in ParticipantRow /\ participant \in ParticipantRow
      /\ \A t \in TaskIds : tasks[t].points \in Nat
  BY RequestType, TaskAssumption DEF TaskCallers, TaskTypeOK
<1>1. ASSUME NEW t \in TaskIds
      PROVE  /\ Approve(c, t) => Becomes(c, Asked("verify", t, tasks[t].points))
             /\ Reject(c, t) => Becomes(c, Asked("reject", t, 0))
             /\ Toggle(c, t) => \E w \in {0, 1} : Becomes(c, Asked("toggle", t, w))
  <2>1. Approve(c, t) => Becomes(c, Asked("verify", t, tasks[t].points))
    BY <1>0, AskedMoves DEF Approve
  <2>2. Reject(c, t) => Becomes(c, Asked("reject", t, 0))
    BY <1>0, AskedMoves DEF Reject
  <2>3. ASSUME Toggle(c, t)
        PROVE  \E w \in {0, 1} : Becomes(c, Asked("toggle", t, w))
    <3>1. PICK w \in {0, 1} : request' = [request EXCEPT ![c] = Asked("toggle", t, w)]
      BY <2>3 DEF Toggle
    <3> QED
      BY <1>0, <3>1, AskedMoves
  <2> QED
    BY <2>1, <2>2, <2>3
<1>2. Verify(c) => \/ Becomes(c, NoRequest)
                   \/ Becomes(c, Moved(c, "reward", request[c].read))
  BY <1>0, StepMoves, DoneMoves DEF Verify, ApprovalLabels
<1>3. RewardReadsRecord(c) => \/ Becomes(c, NoRequest)
                              \/ Becomes(c, Moved(c, "participant", request[c].read))
  BY <1>0, StepMoves, DoneMoves DEF RewardReadsRecord, ApprovalLabels, RewardLabels
<1>4. RewardReadsParticipant(c) => Becomes(c, Moved(c, "commit", participant))
  BY <1>0, ProceedMoves DEF RewardReadsParticipant, ApprovalLabels, RewardLabels
<1>5. RewardCommits(c) => \/ Becomes(c, NoRequest)
                          \/ Becomes(c, Moved(c, "recalculate", NoParticipant))
  BY <1>0, ProceedMoves, DoneMoves DEF RewardCommits, Proceed, ApprovalLabels
<1>6. RecalculateReads(c) => \/ Becomes(c, Moved(c, "allocate", participant))
                             \/ banned /\ Becomes(c, Moved(c, "finish", NoParticipant))
  BY <1>0, ProceedMoves DEF RecalculateReads, Proceed, ApprovalLabels
<1>7. RecalculateWrites(c) => Becomes(c, Moved(c, "finish", NoParticipant))
  BY <1>0, ProceedMoves DEF RecalculateWrites, Proceed, ApprovalLabels
<1>8. Finish(c) \/ WriteRejection(c) \/ WriteToggle(c) => Becomes(c, NoRequest)
  BY <1>0, DoneMoves DEF Finish, WriteRejection, WriteToggle
<1> QED
  BY <1>1, <1>2, <1>3, <1>4, <1>5, <1>6, <1>7, <1>8

LEMMA TaskRequestStep ==
    ASSUME TaskTypeOK, [TaskNext]_taskVars
    PROVE  RequestOK'
<1>0. /\ user \in TaskCallers /\ Reviewers \subseteq TaskCallers /\ user \notin Reviewers
      /\ NoRequest.at = "idle" /\ "idle" \notin ApprovalLabels
  BY TaskAssumption DEF TaskCallers, NoRequest, Asked, ApprovalLabels, RewardLabels
<1>1. CASE UNCHANGED request
  BY <1>1, TypeParts DEF RequestOK
<1>2. ASSUME NEW c \in TaskCallers, Becomes(c, NoRequest) PROVE RequestOK'
  BY <1>0, <1>2, BecomesOK
<1>3. ASSUME NEW t \in TaskIds, Submit(t) PROVE RequestOK'
  <2>1. Becomes(user, Asked("submit", t, 0))
    BY <1>0, <1>3, AskedMoves DEF Submit
  <2> QED
    BY <1>0, <2>1, BecomesOK DEF Asked
<1>4. ASSUME NEW c \in Reviewers, NEW t \in TaskIds, Approve(c, t) \/ Reject(c, t) \/ Toggle(c, t)
      PROVE  RequestOK'
  <2>1. \/ Becomes(c, Asked("verify", t, tasks[t].points))
        \/ \E w \in {0, 1} : Becomes(c, Asked("toggle", t, w)) \/ Becomes(c, Asked("reject", t, w))
    BY <1>4, ReviewerMoves
  <2>2. tasks[t].points \in Worths
    BY DEF TaskTypeOK
  <2> QED
    BY <1>0, <2>1, <2>2, BecomesOK DEF Asked, ApprovalLabels, RewardLabels
<1>5. ASSUME NEW c \in Reviewers, NEW label \in ApprovalLabels, NEW row,
             Becomes(c, Moved(c, label, row)), request[c].at \in ApprovalLabels
      PROVE  RequestOK'
  <2>1. request[c].worth \in Worths
    BY <1>5 DEF TaskTypeOK
  <2> QED
    BY <1>0, <1>5, <2>1, BecomesOK DEF Moved
<1>6. ASSUME NEW c \in Reviewers,
             \/ Verify(c) \/ RewardReadsRecord(c) \/ RewardReadsParticipant(c)
             \/ RewardCommits(c) \/ RecalculateReads(c) \/ RecalculateWrites(c)
      PROVE  RequestOK'
  <2>1. request[c].at \in ApprovalLabels
    BY <1>6 DEF Verify, RewardReadsRecord, RewardReadsParticipant, RewardCommits,
         RecalculateReads, RecalculateWrites, AtStep, ApprovalLabels, RewardLabels
  <2>2. \/ Becomes(c, NoRequest)
        \/ \E label \in ApprovalLabels : \E row : Becomes(c, Moved(c, label, row))
    BY <1>6, ReviewerMoves DEF ApprovalLabels, RewardLabels
  <2> QED
    BY <1>0, <1>2, <1>5, <2>1, <2>2
<1>7. ASSUME NEW c \in Reviewers, Finish(c) \/ WriteRejection(c) \/ WriteToggle(c)
      PROVE  RequestOK'
  BY <1>0, <1>2, <1>7, ReviewerMoves
<1>8. ASSUME NEW c \in TaskCallers, Abandon(c) PROVE RequestOK'
  BY <1>2, <1>8, DoneMoves DEF Abandon
<1>9. CASE UpsertSubmission
  BY <1>0, <1>2, <1>9, DoneMoves DEF UpsertSubmission
<1>10. ASSUME NEW t \in TaskIds, DeleteTask(t) \/ \E w \in Worths : UpdateTask(t, w)
       PROVE  UNCHANGED request
  BY <1>10 DEF DeleteTask, UpdateTask
<1>11. BanUser \/ UNCHANGED taskVars => UNCHANGED request
  BY DEF BanUser, taskVars
<1> QED
  BY <1>1, <1>3, <1>4, <1>6, <1>7, <1>8, <1>9, <1>10, <1>11 DEF TaskNext

(* The user's rows. *)
LEMMA WorthOfReviewer ==
    ASSUME TaskTypeOK, NEW c \in Reviewers
    PROVE  /\ request[c].task \in TaskIds /\ request[c].read \in ParticipantRow
           /\ request[c].at \in ApprovalLabels => request[c].worth \in Worths
BY RequestType DEF TaskTypeOK, TaskCallers

LEMMA StatusType ==
    ASSUME RowsOK, NEW t \in TaskIds, NEW s \in {"REVIEW", "VERIFIED", "REJECTED"},
           record' = [record EXCEPT ![t].status = s]
    PROVE  /\ record' \in [TaskIds -> TaskRecord \cup {NoRecord}]
           /\ record'[t] = [status |-> s, given |-> record[t].given, points |-> record[t].points]
           /\ \A u \in TaskIds \ {t} : record'[u] = record[u]
<1> DEFINE new == [status |-> s, given |-> record[t].given, points |-> record[t].points]
<1>1. /\ record \in [TaskIds -> TaskRecord \cup {NoRecord}]
      /\ record[t] \in TaskRecord \cup {NoRecord}
  BY DEF RowsOK
<1>2. new = [record[t] EXCEPT !.status = s]
  BY <1>1 DEF TaskRecord, NoRecord
<1>3. new \in TaskRecord
  <2>1. CASE record[t] \in TaskRecord
    BY <2>1 DEF TaskRecord
  <2>2. CASE record[t] = NoRecord
    <3>1. new = [status |-> s, given |-> FALSE, points |-> 0]
      BY <2>2 DEF NoRecord
    <3> HIDE DEF new
    <3> QED
      BY <3>1 DEF TaskRecord
  <2> QED
    BY <1>1, <2>1, <2>2
<1> HIDE DEF new
<1>4. record' = [record EXCEPT ![t] = new]
  BY <1>2
<1>5. record'[t] = new /\ record' \in [TaskIds -> TaskRecord \cup {NoRecord}]
  BY <1>1, <1>3, <1>4
<1> QED
  BY <1>1, <1>4, <1>5 DEF new

LEMMA TaskRowsStep ==
    ASSUME TaskTypeOK, [TaskNext]_taskVars
    PROVE  RowsOK'
<1> USE TaskAssumption DEF Counters, Books
<1>0. RowsOK
  BY TypeParts
<1>1. ASSUME NEW t \in TaskIds, Submit(t) PROVE RowsOK'
  BY <1>0, <1>1 DEF RowsOK, Submit
<1>2. CASE UpsertSubmission
  <2> DEFINE t == request[user].task
  <2>1. /\ UNCHANGED << tasks, lost, edits, submits, mishaps, banned, participant, paid, raced >>
        /\ \/ record' = record
           \/ /\ tasks[t].exists
              /\ \E s \in {"REVIEW", "VERIFIED"} : record' = [record EXCEPT ![t].status = s]
    BY <1>2 DEF UpsertSubmission, Ask
  <2>2. t \in TaskIds
    BY RequestType DEF TaskCallers
  <2>3. record' \in [TaskIds -> TaskRecord \cup {NoRecord}]
    BY <1>0, <2>1, <2>2, StatusType DEF RowsOK
  <2>4. \A u \in TaskIds : record'[u] # NoRecord => tasks[u].exists
    BY <1>0, <2>1, <2>2 DEF RowsOK
  <2> QED
    BY <1>0, <2>1, <2>3, <2>4 DEF RowsOK
<1>3. ASSUME NEW c \in Reviewers, NEW t \in TaskIds, Approve(c, t) \/ Reject(c, t) PROVE RowsOK'
  BY <1>0, <1>3 DEF RowsOK, Approve, Reject
<1>4. ASSUME NEW c \in Reviewers, Verify(c) \/ WriteRejection(c) PROVE RowsOK'
  <2> DEFINE t == request[c].task
  <2>1. /\ UNCHANGED << tasks, lost, edits, submits, mishaps, banned, participant, paid, raced >>
        /\ \/ record' = record
           \/ /\ record[t] # NoRecord
              /\ \E s \in {"VERIFIED", "REJECTED"} : record' = [record EXCEPT ![t].status = s]
    BY <1>4 DEF Verify, WriteRejection, Ask
  <2>2. t \in TaskIds
    BY WorthOfReviewer
  <2>3. record' \in [TaskIds -> TaskRecord \cup {NoRecord}]
    BY <1>0, <2>1, <2>2, StatusType DEF RowsOK
  <2>4. \A u \in TaskIds : record'[u] # NoRecord => tasks[u].exists
    BY <1>0, <2>1, <2>2 DEF RowsOK
  <2> QED
    BY <1>0, <2>1, <2>3, <2>4 DEF RowsOK
<1>5. ASSUME NEW c \in Reviewers, RewardReadsRecord(c) PROVE RowsOK'
  <2>1. raced' \in BOOLEAN
    BY <1>5, Zenon DEF RewardReadsRecord
  <2>2. lost' \subseteq TaskIds
    BY <1>0, <1>5, WorthOfReviewer DEF RewardReadsRecord, Ask, RowsOK
  <2> QED
    BY <1>0, <1>5, <2>1, <2>2 DEF RowsOK, RewardReadsRecord
<1>6. ASSUME NEW c \in Reviewers, RewardReadsParticipant(c) PROVE RowsOK'
  BY <1>0, <1>6 DEF RowsOK, RewardReadsParticipant
<1>7. ASSUME NEW c \in Reviewers, RewardCommits(c) PROVE RowsOK'
  <2> DEFINE t == request[c].task
             worth == request[c].worth
             row == request[c].read
  <2>1. /\ t \in TaskIds /\ worth \in Worths /\ row.points + worth \in Nat
        /\ participant \in ParticipantRow
    <3>1. request[c].at \in ApprovalLabels
      BY <1>7 DEF RewardCommits, AtStep, ApprovalLabels, RewardLabels
    <3>2. t \in TaskIds /\ row \in ParticipantRow /\ worth \in Worths
      BY <3>1, WorthOfReviewer
    <3> HIDE DEF t, row, worth
    <3>3. row.points + worth \in Nat
      BY <3>2 DEF ParticipantRow
    <3> QED
      BY <1>0, <3>2, <3>3 DEF RowsOK
  <2>2. UNCHANGED << tasks, raced, edits, submits, mishaps, banned >>
    BY <1>7 DEF RewardCommits
  <2>3. CASE lost' = lost \cup {t} /\ UNCHANGED << record, participant, paid >>
    BY <1>0, <2>1, <2>2, <2>3 DEF RowsOK
  <2>4. CASE /\ record[t] # NoRecord
             /\ participant' = [participant EXCEPT !.exists = TRUE, !.points = row.points + worth]
             /\ record' = [record EXCEPT ![t].given = TRUE, ![t].points = worth]
             /\ paid' = [paid EXCEPT ![t] = Append(@, worth)]
             /\ UNCHANGED lost
    <3>1. participant' \in ParticipantRow
      BY <2>1, <2>4 DEF ParticipantRow
    <3>2. paid' \in [TaskIds -> Seq(Worths)]
      BY <1>0, <2>1, <2>4, AppendProperties DEF RowsOK
    <3>3. [[record[t] EXCEPT !.given = TRUE] EXCEPT !.points = worth] \in TaskRecord
      BY <1>0, <2>1, <2>4 DEF RowsOK, TaskRecord
    <3>4. /\ record' \in [TaskIds -> TaskRecord \cup {NoRecord}]
          /\ \A u \in TaskIds : record'[u] # NoRecord => record[u] # NoRecord
      BY <1>0, <2>1, <2>4, <3>3 DEF RowsOK
    <3> QED
      BY <1>0, <2>2, <2>4, <3>1, <3>2, <3>4 DEF RowsOK
  <2> QED
    BY <1>7, <2>3, <2>4 DEF RewardCommits, Ask
<1>8. ASSUME NEW c \in Reviewers, RecalculateReads(c) PROVE RowsOK'
  <2>1. raced' \in BOOLEAN
    <3>1. raced' = raced \/ raced' = (raced \/ \E d \in TaskCallers : AtStep(d, "allocate"))
      BY <1>8, Zenon DEF RecalculateReads
    <3>2. CASE raced' = (raced \/ \E d \in TaskCallers : AtStep(d, "allocate"))
      BY <3>2, Zenon
    <3> QED
      BY <1>0, <3>1, <3>2, Zenon DEF RowsOK
  <2> QED
    BY <1>0, <1>8, <2>1 DEF RowsOK, RecalculateReads
<1>9. ASSUME NEW c \in Reviewers, RecalculateWrites(c) PROVE RowsOK'
  <2>1. participant' \in ParticipantRow
    BY <1>0, <1>9, WorthOfReviewer DEF RowsOK, RecalculateWrites, Ask, ParticipantRow
  <2> QED
    BY <1>0, <1>9, <2>1 DEF RowsOK, RecalculateWrites
<1>10. ASSUME NEW c \in Reviewers, Finish(c) PROVE RowsOK'
  <2> DEFINE t == request[c].task
             worth == request[c].worth
  <2>1. t \in TaskIds /\ worth \in Worths
    BY <1>10, WorthOfReviewer DEF Finish, AtStep, ApprovalLabels
  <2>2. /\ UNCHANGED << tasks, lost, edits, submits, mishaps, banned, participant, paid, raced >>
        /\ \/ record' = record
           \/ /\ record[t] # NoRecord
              /\ record' = [record EXCEPT ![t].given = TRUE, ![t].points = worth]
    BY <1>10 DEF Finish, Ask
  <2>3. record[t] # NoRecord =>
          [[record[t] EXCEPT !.given = TRUE] EXCEPT !.points = worth] \in TaskRecord
    BY <1>0, <2>1 DEF RowsOK, TaskRecord
  <2>4. /\ record' \in [TaskIds -> TaskRecord \cup {NoRecord}]
        /\ \A u \in TaskIds : record'[u] # NoRecord => record[u] # NoRecord
    BY ZenonT(40), <1>0, <2>1, <2>2, <2>3 DEF RowsOK
  <2> QED
    BY <1>0, <2>2, <2>4 DEF RowsOK
<1>11. ASSUME NEW t \in TaskIds, DeleteTask(t) \/ \E w \in Worths : UpdateTask(t, w)
       PROVE  RowsOK'
  <2>1. /\ edits' \in 0..MaxUpsets /\ mishaps' = mishaps /\ submits' = submits /\ banned' = banned
        /\ UNCHANGED << participant, paid, raced, lost >>
    BY <1>0, <1>11 DEF RowsOK, DeleteTask, UpdateTask, Edit
  <2>2. CASE DeleteTask(t)
    <3>1. /\ tasks' = [tasks EXCEPT ![t].exists = FALSE]
          /\ record' = [record EXCEPT ![t] = NoRecord]
      BY <2>2 DEF DeleteTask
    <3>2. [tasks[t] EXCEPT !.exists = FALSE]
             \in [exists : BOOLEAN, active : BOOLEAN, points : Worths]
      BY <1>0 DEF RowsOK
    <3>3. tasks' \in [TaskIds -> [exists : BOOLEAN, active : BOOLEAN, points : Worths]]
      BY <1>0, <3>1, <3>2 DEF RowsOK
    <3>4. /\ record' \in [TaskIds -> TaskRecord \cup {NoRecord}]
          /\ \A u \in TaskIds : record'[u] # NoRecord => record[u] # NoRecord /\ u # t
          /\ \A u \in TaskIds \ {t} : tasks'[u] = tasks[u]
      BY <1>0, <3>1 DEF RowsOK
    <3> QED
      BY <1>0, <2>1, <3>3, <3>4 DEF RowsOK
  <2>3. ASSUME NEW w \in Worths, UpdateTask(t, w) PROVE RowsOK'
    <3>1. tasks' = [tasks EXCEPT ![t].points = w] /\ record' = record
      BY <2>3 DEF UpdateTask
    <3>2. [tasks[t] EXCEPT !.points = w]
             \in [exists : BOOLEAN, active : BOOLEAN, points : Worths]
      BY <1>0 DEF RowsOK
    <3>3. /\ tasks' \in [TaskIds -> [exists : BOOLEAN, active : BOOLEAN, points : Worths]]
          /\ \A u \in TaskIds : tasks'[u].exists = tasks[u].exists
      BY <1>0, <3>1, <3>2 DEF RowsOK
    <3> QED
      BY <1>0, <2>1, <3>1, <3>3 DEF RowsOK
  <2> QED
    BY <1>11, <2>2, <2>3
<1>12. ASSUME NEW c \in Reviewers, WriteToggle(c) PROVE RowsOK'
  <2> DEFINE t == request[c].task
  <2>1. /\ UNCHANGED << record, lost, edits, submits, mishaps, banned, participant, paid, raced >>
        /\ \/ tasks' = tasks
           \/ \E on \in BOOLEAN : tasks' = [tasks EXCEPT ![t].active = on]
    BY <1>12 DEF WriteToggle, Ask
  <2>2. t \in TaskIds
    BY WorthOfReviewer
  <2>3. \A on \in BOOLEAN : [tasks[t] EXCEPT !.active = on]
             \in [exists : BOOLEAN, active : BOOLEAN, points : Worths]
    BY <1>0, <2>2 DEF RowsOK
  <2>4. /\ tasks' \in [TaskIds -> [exists : BOOLEAN, active : BOOLEAN, points : Worths]]
        /\ \A u \in TaskIds : tasks'[u].exists = tasks[u].exists
    <3>1. CASE tasks' = tasks
      BY <1>0, <3>1 DEF RowsOK
    <3>2. ASSUME NEW on \in BOOLEAN, tasks' = [tasks EXCEPT ![t].active = on]
          PROVE  /\ tasks' \in [TaskIds -> [exists : BOOLEAN, active : BOOLEAN, points : Worths]]
                 /\ \A u \in TaskIds : tasks'[u].exists = tasks[u].exists
      <4> DEFINE new == [tasks[t] EXCEPT !.active = on]
      <4>1. /\ tasks' = [tasks EXCEPT ![t] = new] /\ new.exists = tasks[t].exists
            /\ new \in [exists : BOOLEAN, active : BOOLEAN, points : Worths]
        BY <1>0, <2>2, <2>3, <3>2 DEF RowsOK
      <4> HIDE DEF new
      <4> QED
        BY <1>0, <2>2, <4>1 DEF RowsOK
    <3> QED
      BY <2>1, <3>1, <3>2
  <2> QED
    BY <1>0, <2>1, <2>4 DEF RowsOK
<1>13. ASSUME NEW c \in Reviewers, NEW t \in TaskIds, Toggle(c, t) PROVE RowsOK'
  BY <1>0, <1>13 DEF RowsOK, Toggle, Edit
<1>14. ASSUME NEW c \in TaskCallers, Abandon(c) PROVE RowsOK'
  BY <1>0, <1>14, RequestType DEF RowsOK, Abandon, Ask
<1>15. CASE BanUser \/ UNCHANGED taskVars
  BY <1>0, <1>15 DEF RowsOK, BanUser, taskVars
<1> QED
  BY <1>1, <1>2, <1>3, <1>4, <1>5, <1>6, <1>7, <1>8, <1>9, <1>10, <1>11, <1>12,
     <1>13, <1>14, <1>15 DEF TaskNext

LEMMA TaskTypeStep ==
    ASSUME TaskTypeOK, [TaskNext]_taskVars
    PROVE  TaskTypeOK'
<1>1. RequestOK' /\ RowsOK'
  BY TaskRequestStep, TaskRowsStep
<1> QED
  BY <1>1 DEF TaskTypeOK, RequestOK, RowsOK, TaskRequest

-----------------------------------------------------------------------------
(* A VERIFIED record that was not paid has an explanation: a step keeps it, *)
(* or makes one.                                                            *)

Unpaid(t) == record[t].status = "VERIFIED" /\ ~ record[t].given

Paying(c) == AtStep(c, "reward") \/ InReward(c)

LEMMA ExplanationKept ==
    ASSUME UnpaidIsExplained, lost \subseteq lost',
           \A t \in TaskIds : Unpaid(t)' => Unpaid(t) \/ t \in AutoTasks \cup lost',
           \A d \in Reviewers : Paying(d) =>
               \/ Paying(d)' /\ request'[d].task = request[d].task
               \/ request[d].task \in lost'
               \/ \E t \in TaskIds : t = request[d].task /\ ~ Unpaid(t)'
    PROVE  UnpaidIsExplained'
<1>1. ASSUME NEW t \in TaskIds, Unpaid(t)'
      PROVE  \/ t \in AutoTasks \cup lost'
             \/ \E d \in Reviewers : request'[d].task = t /\ Paying(d)'
  <2>1. CASE t \in AutoTasks \cup lost'
    BY <2>1
  <2>2. CASE t \notin AutoTasks \cup lost'
    <3>1. Unpaid(t) /\ t \notin lost
      BY <1>1, <2>2
    <3>2. PICK d \in Reviewers : request[d].task = t /\ Paying(d)
      BY <2>2, <3>1 DEF UnpaidIsExplained, Unpaid, Paying, Ask
    <3>3. Paying(d)' /\ request'[d].task = t
      BY <1>1, <2>2, <3>2
    <3> QED
      BY <3>3
  <2> QED
    BY <2>1, <2>2
<1> QED
  BY <1>1 DEF UnpaidIsExplained, Unpaid, Paying, Ask

LEMMA GivenType ==
    ASSUME RowsOK, NEW t \in TaskIds, NEW w \in Worths, record[t] # NoRecord,
           record' = [record EXCEPT ![t].given = TRUE, ![t].points = w]
    PROVE  /\ record'[t] = [status |-> record[t].status, given |-> TRUE, points |-> w]
           /\ record'[t] # NoRecord
           /\ \A u \in TaskIds \ {t} : record'[u] = record[u]
<1> DEFINE new == [status |-> record[t].status, given |-> TRUE, points |-> w]
           old == record[t]
<1>1. /\ record \in [TaskIds -> TaskRecord \cup {NoRecord}] /\ old \in TaskRecord
  BY DEF RowsOK
<1>2. /\ record'[t] = [[old EXCEPT !.given = TRUE] EXCEPT !.points = w]
      /\ \A u \in TaskIds \ {t} : record'[u] = record[u]
  BY <1>1
<1>3. record'[t] = new
  BY <1>1, <1>2 DEF TaskRecord
<1>4. new.status # "none"
  BY <1>1 DEF TaskRecord
<1>5. NoRecord.status = "none"
  BY DEF NoRecord
<1> QED
  BY <1>2, <1>3, <1>4, <1>5

LEMMA GivenIsPaid ==
    ASSUME RowsOK, NEW t \in TaskIds, NEW w \in Worths, record[t] # NoRecord,
           record' = [record EXCEPT ![t].given = TRUE, ![t].points = w]
    PROVE  /\ ~ Unpaid(t)'
           /\ \A u \in TaskIds : Unpaid(u)' => Unpaid(u)
<1>1. /\ record'[t] = [status |-> record[t].status, given |-> TRUE, points |-> w]
      /\ \A u \in TaskIds \ {t} : record'[u] = record[u]
  BY GivenType
<1>2. record'[t].given
  BY <1>1
<1>3. ~ Unpaid(t)'
  BY <1>2, Zenon DEF Unpaid
<1>4. \A u \in TaskIds \ {t} : Unpaid(u)' => Unpaid(u)
  BY <1>1 DEF Unpaid
<1> QED
  BY <1>3, <1>4

LEMMA ExplainedStep ==
    ASSUME TaskTypeOK, UnpaidIsExplained, [TaskNext]_taskVars
    PROVE  UnpaidIsExplained'
<1> USE DEF Counters, Books
<1>0. /\ RowsOK /\ Reviewers \subseteq TaskCallers
      /\ user \in TaskCallers /\ user \notin Reviewers
  BY TypeParts, TaskAssumption DEF TaskCallers
<1>1. ASSUME NEW c \in TaskCallers, NEW new, Becomes(c, new), UNCHANGED << record, lost >>,
             c \in Reviewers => ~ Paying(c)
      PROVE  UnpaidIsExplained'
  BY <1>0, <1>1, ExplanationKept DEF Becomes, Paying, AtStep, InReward, Unpaid
<1>2. ASSUME NEW c \in TaskCallers, NEW new, Becomes(c, new), UNCHANGED lost,
             c \in Reviewers => ~ Paying(c),
             NEW t \in TaskIds, NEW s \in {"REVIEW", "VERIFIED", "REJECTED"},
             record' = [record EXCEPT ![t].status = s], s = "VERIFIED" => t \in AutoTasks
      PROVE  UnpaidIsExplained'
  <2>1. \A u \in TaskIds : Unpaid(u)' => Unpaid(u) \/ u \in AutoTasks
    BY <1>0, <1>2, StatusType DEF Unpaid
  <2>2. \A d \in Reviewers : Paying(d) => Paying(d)' /\ request'[d].task = request[d].task
    BY <1>0, <1>2 DEF Becomes, Paying, AtStep, InReward
  <2> QED
    BY <1>2, <2>1, <2>2, ExplanationKept
<1>3. ASSUME NEW t \in TaskIds, Submit(t) PROVE UnpaidIsExplained'
  <2>1. Becomes(user, Asked("submit", t, 0))
    BY <1>0, <1>3, AskedMoves DEF Submit
  <2> QED
    BY <1>0, <1>1, <1>3, <2>1 DEF Submit
<1>4. CASE UpsertSubmission
  <2> DEFINE t == request[user].task
  <2>1. Becomes(user, NoRequest) /\ UNCHANGED lost /\ t \in TaskIds
    BY <1>0, <1>4, DoneMoves, RequestType DEF UpsertSubmission
  <2>2. \/ record' = record
        \/ \E s \in {"REVIEW", "VERIFIED"} :
              /\ record' = [record EXCEPT ![t].status = s]
              /\ s = "VERIFIED" => t \in AutoTasks
    BY <1>4 DEF UpsertSubmission, Ask
  <2> HIDE DEF t
  <2> QED
    BY <1>0, <1>1, <1>2, <2>1, <2>2
<1>5. ASSUME NEW c \in Reviewers, NEW t \in TaskIds, Approve(c, t) \/ Reject(c, t) \/ Toggle(c, t)
      PROVE  UnpaidIsExplained'
  <2>1. ~ Paying(c) /\ UNCHANGED << record, lost >> /\ \E new : Becomes(c, new)
    BY <1>5, ReviewerMoves
       DEF Approve, Reject, Toggle, Edit, Paying, AtStep, InReward, RewardLabels
  <2> QED
    BY <1>0, <1>1, <2>1
<1>6. ASSUME NEW c \in Reviewers, Verify(c) PROVE UnpaidIsExplained'
  <2> DEFINE t == request[c].task
  <2>1. ~ Paying(c) /\ UNCHANGED lost /\ t \in TaskIds
    BY <1>6, WorthOfReviewer DEF Verify, Paying, AtStep, InReward, RewardLabels
  <2>2. CASE Becomes(c, NoRequest) /\ record' = record
    BY <1>0, <1>1, <2>1, <2>2
  <2>3. CASE /\ Becomes(c, Moved(c, "reward", request[c].read))
             /\ record' = [record EXCEPT ![t].status = "VERIFIED"]
    <3>1. \A u \in TaskIds \ {t} : Unpaid(u)' => Unpaid(u)
      BY <1>0, <2>1, <2>3, StatusType DEF Unpaid
    <3>2. Paying(c)' /\ request'[c].task = t
      BY <2>3 DEF Becomes, Moved, Paying, AtStep
    <3>3. \A d \in Reviewers : Paying(d) => Paying(d)' /\ request'[d].task = request[d].task
      BY <1>0, <2>1, <2>3 DEF Becomes, Paying, AtStep, InReward
    <3> HIDE DEF t
    <3>4. \A u \in TaskIds : Unpaid(u)' =>
            \/ u \in AutoTasks \cup lost'
            \/ \E d \in Reviewers : request'[d].task = u /\ Paying(d)'
      <4>1. ASSUME NEW u \in TaskIds, Unpaid(u)'
            PROVE  \/ u \in AutoTasks \cup lost'
                   \/ \E d \in Reviewers : request'[d].task = u /\ Paying(d)'
        <5>1. CASE u = t
          BY <3>2, <5>1
        <5>2. CASE u # t
          <6>1. Unpaid(u)
            BY <3>1, <4>1, <5>2
          <6> QED
            BY <2>1, <3>3, <6>1 DEF UnpaidIsExplained, Unpaid, Paying, Ask, AtStep, InReward
        <5> QED
          BY <5>1, <5>2
      <4> QED
        BY <4>1
    <3> QED
      BY <3>4 DEF UnpaidIsExplained, Unpaid, Paying, Ask, AtStep, InReward
  <2>4. \/ Becomes(c, NoRequest) /\ record' = record
        \/ /\ Becomes(c, Moved(c, "reward", request[c].read))
           /\ record' = [record EXCEPT ![t].status = "VERIFIED"]
    BY <1>0, <1>6, StepMoves, DoneMoves DEF Verify, Ask, ApprovalLabels
  <2> QED
    BY <2>2, <2>3, <2>4
<1>7. ASSUME NEW c \in Reviewers, RewardReadsRecord(c) \/ RewardReadsParticipant(c)
      PROVE  UnpaidIsExplained'
  <2> DEFINE t == request[c].task
  <2>1. record' = record /\ lost \subseteq lost' /\ t \in TaskIds
    BY <1>7, WorthOfReviewer DEF RewardReadsRecord, RewardReadsParticipant
  <2>2. \/ /\ \/ Becomes(c, Moved(c, "participant", request[c].read))
              \/ Becomes(c, Moved(c, "commit", participant))
        \/ Becomes(c, NoRequest) /\ (record[t].given \/ t \in lost')
    BY <1>0, <1>7, ReviewerMoves, StepMoves, DoneMoves
       DEF RewardReadsRecord, RewardReadsParticipant, Ask, ApprovalLabels, RewardLabels
  <2>3. \/ Paying(c)' /\ request'[c].task = t
        \/ ~ Unpaid(t) \/ t \in lost'
    BY <2>2 DEF Becomes, Moved, Paying, AtStep, InReward, RewardLabels, Unpaid
  <2>4. \A d \in Reviewers \ {c} : request'[d] = request[d]
    BY <1>0, <2>2 DEF Becomes
  <2>5. \A u \in TaskIds : Unpaid(u)' <=> Unpaid(u)
    BY <2>1 DEF Unpaid
  <2>6. \A d \in Reviewers : Paying(d) =>
            \/ Paying(d)' /\ request'[d].task = request[d].task
            \/ request[d].task \in lost'
            \/ \E u \in TaskIds : u = request[d].task /\ ~ Unpaid(u)'
    <3>1. ASSUME NEW d \in Reviewers \ {c}, Paying(d)
          PROVE  Paying(d)' /\ request'[d].task = request[d].task
      BY <2>4, <3>1 DEF Paying, AtStep, InReward
    <3> QED
      BY <2>1, <2>3, <2>5, <3>1
  <2> QED
    BY <2>1, <2>5, <2>6, ExplanationKept
<1>8. ASSUME NEW c \in Reviewers, RewardCommits(c) PROVE UnpaidIsExplained'
  <2> DEFINE t == request[c].task
             worth == request[c].worth
  <2>1. /\ t \in TaskIds /\ lost \subseteq lost'
        /\ \A d \in Reviewers \ {c} : request'[d] = request[d]
    BY <1>0, <1>8, WorthOfReviewer, ReviewerMoves DEF RewardCommits, Becomes
  <2>2. \/ t \in lost' /\ record' = record
        \/ /\ record[t] # NoRecord /\ worth \in Worths
           /\ record' = [record EXCEPT ![t].given = TRUE, ![t].points = worth]
    BY <1>8, WorthOfReviewer DEF RewardCommits, Ask, AtStep, ApprovalLabels, RewardLabels
  <2> HIDE DEF worth
  <2>3. /\ \A u \in TaskIds : Unpaid(u)' => Unpaid(u)
        /\ t \in lost' \/ (\E u \in TaskIds : u = t /\ ~ Unpaid(u)')
    <3>1. CASE t \in lost' /\ record' = record
      BY <3>1 DEF Unpaid
    <3>2. CASE /\ record[t] # NoRecord /\ worth \in Worths
               /\ record' = [record EXCEPT ![t].given = TRUE, ![t].points = worth]
      BY <1>0, <2>1, <3>2, GivenIsPaid
    <3> QED
      BY <2>2, <3>1, <3>2
  <2>4. \A d \in Reviewers \ {c} :
            Paying(d) => Paying(d)' /\ request'[d].task = request[d].task
    BY <2>1 DEF Paying, AtStep, InReward
  <2> QED
    BY <2>1, <2>3, <2>4, ExplanationKept
<1>9. ASSUME NEW c \in Reviewers, RecalculateReads(c) \/ RecalculateWrites(c)
      PROVE  UnpaidIsExplained'
  <2>1. ~ Paying(c) /\ UNCHANGED << record, lost >> /\ \E new : Becomes(c, new)
    BY <1>9, ReviewerMoves
       DEF RecalculateReads, RecalculateWrites, Paying, AtStep, InReward, RewardLabels
  <2> QED
    BY <1>0, <1>1, <2>1
<1>10. ASSUME NEW c \in Reviewers, Finish(c) PROVE UnpaidIsExplained'
  <2> DEFINE t == request[c].task
             worth == request[c].worth
  <2>1. /\ t \in TaskIds /\ lost' = lost /\ ~ Paying(c)
        /\ \A d \in Reviewers \ {c} : request'[d] = request[d]
    BY <1>0, <1>10, WorthOfReviewer, ReviewerMoves
       DEF Finish, Becomes, Paying, AtStep, InReward, RewardLabels
  <2>2. \/ record' = record
        \/ /\ record[t] # NoRecord /\ worth \in Worths
           /\ record' = [record EXCEPT ![t].given = TRUE, ![t].points = worth]
    BY <1>10, WorthOfReviewer DEF Finish, Ask, AtStep, ApprovalLabels
  <2> HIDE DEF t, worth
  <2>3. \A u \in TaskIds : Unpaid(u)' => Unpaid(u)
    <3>1. CASE record' = record
      BY <3>1 DEF Unpaid
    <3>2. CASE /\ record[t] # NoRecord /\ worth \in Worths
               /\ record' = [record EXCEPT ![t].given = TRUE, ![t].points = worth]
      BY <1>0, <2>1, <3>2, GivenIsPaid
    <3> QED
      BY <2>2, <3>1, <3>2
  <2> QED
    BY <2>1, <2>3, ExplanationKept DEF Paying, AtStep, InReward
<1>11. ASSUME NEW c \in Reviewers, WriteRejection(c) \/ WriteToggle(c) PROVE UnpaidIsExplained'
  <2> DEFINE t == request[c].task
  <2>1. t \in TaskIds /\ lost' = lost /\ ~ Paying(c) /\ Becomes(c, NoRequest)
    BY <1>11, WorthOfReviewer, ReviewerMoves
       DEF WriteRejection, WriteToggle, Paying, AtStep, InReward, RewardLabels
  <2>2. record' = record \/ record' = [record EXCEPT ![t].status = "REJECTED"]
    BY <1>11 DEF WriteRejection, WriteToggle, Ask
  <2> HIDE DEF t
  <2> QED
    BY <1>0, <1>1, <1>2, <2>1, <2>2
<1>12. ASSUME NEW t \in TaskIds, DeleteTask(t) \/ \E w \in Worths : UpdateTask(t, w)
       PROVE  UnpaidIsExplained'
  <2>1. /\ UNCHANGED << request, lost >>
        /\ record' = record \/ record' = [record EXCEPT ![t] = NoRecord]
    BY <1>12 DEF DeleteTask, UpdateTask
  <2>2. \A u \in TaskIds : Unpaid(u)' => Unpaid(u)
    <3>1. \A u \in TaskIds : record'[u] = record[u] \/ record'[u] = NoRecord
      BY <1>0, <2>1 DEF RowsOK
    <3>2. NoRecord.status # "VERIFIED"
      BY DEF NoRecord
    <3> QED
      BY <3>1, <3>2 DEF Unpaid
  <2> QED
    BY <2>1, <2>2, ExplanationKept DEF Paying, AtStep, InReward
<1>13. ASSUME NEW c \in TaskCallers, Abandon(c) PROVE UnpaidIsExplained'
  <2>1. /\ record' = record /\ lost \subseteq lost'
        /\ \A d \in Reviewers \ {c} : request'[d] = request[d]
        /\ c \in Reviewers /\ Paying(c) => request[c].task \in lost'
    BY <1>0, <1>13, DoneMoves DEF Abandon, Becomes, Paying, Ask
  <2> QED
    BY <2>1, ExplanationKept DEF Unpaid, Paying, AtStep, InReward
<1>14. CASE BanUser \/ UNCHANGED taskVars
  BY <1>14, ExplanationKept DEF BanUser, taskVars, Unpaid, Paying, AtStep, InReward
<1> QED
  BY <1>3, <1>4, <1>5, <1>6, <1>7, <1>8, <1>9, <1>10, <1>11, <1>12, <1>13, <1>14
     DEF TaskNext

-----------------------------------------------------------------------------
(* As long as no two rewards overlapped: what a call in its reward, or past *)
(* its commit, knows of the payments, and the sum of what the tasks paid.   *)

AfterCommit == {"recalculate", "allocate", "finish"}

Total == SumFunction([t \in TaskIds |-> PaidBy(t)])

RowAgrees(t) ==
    /\ paid[t] = << >> \/ \E w \in Worths : paid[t] = << w >>
    /\ tasks[t].exists /\ record[t] = NoRecord => paid[t] = << >>
    /\ record[t] # NoRecord =>
          /\ record[t].given <=> paid[t] # << >>
          /\ record[t].points = PaidBy(t)

CallAgrees(c) ==
    /\ InReward(c) => paid[request[c].task] = << >>
    /\ AtStep(c, "commit") =>
          /\ request[c].read.points = participant.points
          /\ request[c].read.exists = participant.exists
    /\ request[c].at \in AfterCommit => paid[request[c].task] = << request[c].worth >>

OneInReward == \A c, d \in Reviewers : InReward(c) /\ InReward(d) => c = d

PaidInv ==
    /\ \A t \in TaskIds : RowAgrees(t)
    /\ \A c \in Reviewers : CallAgrees(c)
    /\ OneInReward
    /\ participant.points = Total

(* The allocation is as good as the points that recalculations have read.   *)
AllocatedInv ==
    /\ \A c, d \in Reviewers : AtStep(c, "allocate") /\ AtStep(d, "allocate") => c = d
    /\ \A c \in Reviewers : AtStep(c, "allocate") =>
          \/ request[c].read.points = participant.points
          \/ \E d \in Reviewers : AtStep(d, "recalculate")
    /\ \/ participant.allocation = participant.points
       \/ \E d \in Reviewers : AtStep(d, "recalculate") \/ AtStep(d, "allocate")

(* Nothing is allocated for points that nobody earned.                      *)
BoundedInv ==
    /\ participant.allocation <= participant.points
    /\ \A c \in Reviewers : AtStep(c, "allocate") => request[c].read.points <= participant.points

LEMMA TotalKept ==
    ASSUME UNCHANGED paid
    PROVE  Total' = Total
BY DEF Total, PaidBy

(* What a step that pays nothing does to the record of a task, to a call.   *)
RowMoves(t) ==
    \/ /\ record'[t] = NoRecord
       /\ tasks'[t].exists => tasks[t].exists /\ record[t] = NoRecord
    \/ /\ record'[t] # NoRecord /\ (record[t] = NoRecord => tasks[t].exists)
       /\ record'[t].given = record[t].given /\ record'[t].points = record[t].points

CallMoves(d) ==
    \/ request'[d] = request[d]
    \/ request'[d].at \notin RewardLabels \cup AfterCommit
    \/ /\ request[d].at \in AfterCommit /\ request'[d].at \in AfterCommit
       /\ request'[d].task = request[d].task /\ request'[d].worth = request[d].worth
    \/ /\ InReward(d) /\ AtStep(d, "commit")' /\ request'[d].task = request[d].task
       /\ request'[d].read.points = participant.points
       /\ request'[d].read.exists = participant.exists

LEMMA RowKept ==
    ASSUME NEW t \in TaskIds, RowAgrees(t), RowsOK, UNCHANGED paid,
           RowMoves(t)
    PROVE  RowAgrees(t)'
<1>1. PaidBy(t)' = PaidBy(t)
  BY DEF PaidBy
<1>2. CASE record'[t] = NoRecord /\ (tasks'[t].exists => tasks[t].exists /\ record[t] = NoRecord)
  BY <1>1, <1>2 DEF RowAgrees
<1>3. CASE /\ record'[t] # NoRecord /\ (record[t] = NoRecord => tasks[t].exists)
           /\ record'[t].given = record[t].given /\ record'[t].points = record[t].points
  <2>1. CASE record[t] = NoRecord
    <3>1. paid[t] = << >> /\ PaidBy(t) = 0 /\ record'[t].points = 0 /\ ~ record'[t].given
      BY <1>3, <2>1 DEF RowAgrees, NoRecord, PaidBy
    <3> QED
      BY <1>1, <3>1 DEF RowAgrees
  <2>2. CASE record[t] # NoRecord
    BY <1>1, <1>3, <2>2 DEF RowAgrees
  <2> QED
    BY <2>1, <2>2
<1> QED
  BY <1>2, <1>3 DEF RowMoves

LEMMA PaidKept ==
    ASSUME RowsOK, PaidInv, UNCHANGED paid,
           participant'.points = participant.points,
           participant'.exists = participant.exists,
           \A t \in TaskIds : RowMoves(t), \A d \in Reviewers : CallMoves(d)
    PROVE  PaidInv'
<1>1. \A t \in TaskIds : RowAgrees(t)'
  BY RowKept DEF PaidInv
<1>2. \A d \in Reviewers : CallAgrees(d)' /\ (InReward(d)' => InReward(d))
  <2>1. ASSUME NEW d \in Reviewers PROVE CallAgrees(d)' /\ (InReward(d)' => InReward(d))
    <3>1. CallAgrees(d)
      BY DEF PaidInv
    <3>2. CASE request'[d] = request[d]
      BY <3>1, <3>2 DEF CallAgrees, InReward, AtStep
    <3>3. CASE request'[d].at \notin RewardLabels \cup AfterCommit
      BY <3>3 DEF CallAgrees, InReward, AtStep, RewardLabels
    <3>4. CASE /\ request[d].at \in AfterCommit /\ request'[d].at \in AfterCommit
               /\ request'[d].task = request[d].task /\ request'[d].worth = request[d].worth
      BY <3>1, <3>4 DEF CallAgrees, InReward, AtStep, RewardLabels, AfterCommit
    <3>5. CASE /\ InReward(d) /\ AtStep(d, "commit")' /\ request'[d].task = request[d].task
               /\ request'[d].read.points = participant.points
               /\ request'[d].read.exists = participant.exists
      BY <3>1, <3>5 DEF CallAgrees, InReward, AtStep, RewardLabels, AfterCommit
    <3> QED
      BY <3>2, <3>3, <3>4, <3>5 DEF CallMoves
  <2> QED
    BY <2>1
<1>3. OneInReward'
  BY <1>2 DEF PaidInv, OneInReward
<1>4. participant'.points = Total'
  BY TotalKept DEF PaidInv
<1> QED
  BY <1>1, <1>2, <1>3, <1>4 DEF PaidInv

LEMMA AllocatedKept ==
    ASSUME AllocatedInv, UNCHANGED participant,
           \A d \in Reviewers :
               \/ request'[d] = request[d]
               \/ /\ request[d].at \notin {"recalculate", "allocate"}
                  /\ request'[d].at # "allocate"
    PROVE  AllocatedInv'
<1>1. \A d \in Reviewers :
        /\ AtStep(d, "recalculate") => AtStep(d, "recalculate")'
        /\ AtStep(d, "allocate") => AtStep(d, "allocate")'
        /\ AtStep(d, "allocate")' => AtStep(d, "allocate") /\ request'[d].read = request[d].read
  BY DEF AtStep
<1> QED
  BY <1>1 DEF AllocatedInv

(* The reward itself: three steps of one call. *)
LEMMA ReadsRecordPaid ==
    ASSUME TaskTypeOK, PaidInv, NEW c \in Reviewers, RewardReadsRecord(c), ~ raced'
    PROVE  PaidInv'
<1> DEFINE t == request[c].task
<1>0. RowsOK /\ Reviewers \subseteq TaskCallers /\ t \in TaskIds
  BY TypeParts, WorthOfReviewer DEF TaskCallers
<1>1. \A d \in Reviewers : ~ InReward(d)
  BY <1>0, Zenon DEF RewardReadsRecord
<1>2. UNCHANGED << tasks, record, participant, paid >>
  BY DEF RewardReadsRecord
<1>3. CASE Becomes(c, NoRequest)
  <2>1. \A d \in Reviewers : CallMoves(d)
    BY <1>0, <1>3 DEF Becomes, CallMoves, NoRequest, Asked, RewardLabels, AfterCommit
  <2>2. \A u \in TaskIds : RowMoves(u)
    BY <1>2 DEF RowMoves
  <2> QED
    BY <1>0, <1>2, <2>1, <2>2, PaidKept
<1>4. CASE Rewardable(record[t]) /\ Becomes(c, Moved(c, "participant", request[c].read))
  <2>1. paid[t] = << >>
    <3>1. RowAgrees(t) /\ ~ record[t].given /\ record[t] # NoRecord
      BY <1>0, <1>4 DEF PaidInv, Rewardable, NoRecord
    <3> QED
      BY <3>1 DEF RowAgrees
  <2>2. \A u \in TaskIds : RowAgrees(u)'
    BY <1>2 DEF PaidInv, RowAgrees, PaidBy
  <2>3. request'[c].at = "participant" /\ request'[c].task = t
    BY <1>4 DEF Becomes, Moved
  <2>4. \A d \in Reviewers \ {c} : request'[d] = request[d]
    BY <1>0, <1>4 DEF Becomes
  <2> HIDE DEF t
  <2>5. \A d \in Reviewers : CallAgrees(d)'
    BY <1>2, <2>1, <2>3, <2>4 DEF PaidInv, CallAgrees, InReward, AtStep, RewardLabels, AfterCommit
  <2>6. OneInReward'
    BY <1>1, <2>4 DEF OneInReward, InReward
  <2>7. participant'.points = Total'
    BY <1>2, TotalKept DEF PaidInv
  <2> QED
    BY <2>2, <2>5, <2>6, <2>7 DEF PaidInv
<1> QED
  BY <1>0, <1>3, <1>4, StepMoves, DoneMoves
     DEF RewardReadsRecord, Ask, ApprovalLabels, RewardLabels

(* The record of a task that has paid, after the payment. *)
LEMMA RowPaid ==
    ASSUME NEW t \in TaskIds, NEW w \in Worths, NEW s,
           record'[t] = [status |-> s, given |-> TRUE, points |-> w], s # "none",
           paid'[t] = << w >>
    PROVE  RowAgrees(t)'
<1>1. paid'[t] # << >> /\ paid'[t][1] = w
  BY Z3
<1>2. record'[t].given /\ record'[t].points = w /\ record'[t].status = s
  OBVIOUS
<1>3. record'[t] # NoRecord
  BY <1>2 DEF NoRecord
<1>4. PaidBy(t)' = w
  BY <1>1 DEF PaidBy
<1>5. record'[t].given <=> paid'[t] # << >>
  BY <1>1, <1>2, Zenon
<1>6. \E v \in Worths : paid'[t] = << v >>
  OBVIOUS
<1> QED
  BY <1>2, <1>3, <1>4, <1>5, <1>6 DEF RowAgrees

LEMMA CommitPaid ==
    ASSUME TaskTypeOK, PaidInv, NEW c \in Reviewers, RewardCommits(c)
    PROVE  PaidInv'
<1>a. PICK t, worth, row :
          t = request[c].task /\ worth = request[c].worth /\ row = request[c].read
  OBVIOUS
<1>0. /\ RowsOK /\ Reviewers \subseteq TaskCallers /\ t \in TaskIds
      /\ worth \in Worths /\ worth \in Nat
  <2>1. request[c].at \in ApprovalLabels
    BY DEF RewardCommits, AtStep, ApprovalLabels, RewardLabels
  <2> QED
    BY <1>a, <2>1, TypeParts, WorthOfReviewer, TaskAssumption DEF TaskCallers
<1>1. /\ InReward(c) /\ paid[t] = << >>
      /\ row.points = participant.points /\ row.exists = participant.exists
  BY <1>a DEF RewardCommits, PaidInv, CallAgrees, InReward, AtStep, RewardLabels
<1>2. CASE Done(c) /\ UNCHANGED << record, participant, paid >>
  <2>1. Becomes(c, NoRequest) /\ tasks' = tasks
    BY <1>0, <1>2, DoneMoves DEF RewardCommits
  <2>2. \A d \in Reviewers : CallMoves(d)
    BY <1>0, <2>1 DEF Becomes, CallMoves, NoRequest, Asked, RewardLabels, AfterCommit
  <2>3. \A u \in TaskIds : RowMoves(u)
    BY <1>2, <2>1 DEF RowMoves
  <2> QED
    BY <1>0, <1>2, <2>2, <2>3, PaidKept
<1>3. CASE /\ record[t] # NoRecord
           /\ participant' = [participant EXCEPT !.exists = TRUE, !.points = row.points + worth]
           /\ record' = [record EXCEPT ![t].given = TRUE, ![t].points = worth]
           /\ paid' = [paid EXCEPT ![t] = Append(@, worth)]
           /\ Proceed(c, "recalculate")
  <2>1. /\ paid'[t] = << worth >> /\ \A u \in TaskIds \ {t} : paid'[u] = paid[u]
        /\ paid' \in [TaskIds -> Seq(Worths)]
    <3>1. paid \in [TaskIds -> Seq(Worths)] /\ Append(paid[t], worth) = << worth >>
      BY <1>0, <1>1 DEF RowsOK
    <3>2. << worth >> \in Seq(Worths)
      BY <1>0
    <3> QED
      BY <1>0, <1>3, <3>1, <3>2
  <2>2. /\ record'[t] = [status |-> record[t].status, given |-> TRUE, points |-> worth]
        /\ record[t].status # "none"
        /\ \A u \in TaskIds \ {t} : record'[u] = record[u]
    <3>1. record[t] \in TaskRecord
      BY <1>0, <1>3 DEF RowsOK
    <3>2. record[t].status # "none"
      BY <3>1 DEF TaskRecord
    <3> QED
      BY <1>0, <1>3, <3>2, GivenType
  <2>3. tasks' = tasks
    BY DEF RewardCommits
  <2>4. \A u \in TaskIds : RowAgrees(u)'
    <3>1. RowAgrees(t)'
      BY <1>0, <2>1, <2>2, RowPaid
    <3>2. ASSUME NEW u \in TaskIds \ {t} PROVE RowAgrees(u)'
      <4>1. RowAgrees(u) /\ paid'[u] = paid[u] /\ record'[u] = record[u] /\ tasks'[u] = tasks[u]
        BY <2>1, <2>2, <2>3 DEF PaidInv
      <4> QED
        BY <4>1 DEF RowAgrees, PaidBy
    <3> QED
      BY <3>1, <3>2
  <2>5. /\ request'[c].at = "recalculate" /\ request'[c].task = t /\ request'[c].worth = worth
        /\ \A d \in Reviewers \ {c} : request'[d] = request[d] /\ ~ InReward(d)
    <3>1. NoParticipant \in ParticipantRow
      BY DEF NoParticipant, ParticipantRow
    <3>2. Becomes(c, Moved(c, "recalculate", NoParticipant))
      BY <1>0, <1>3, <3>1, ProceedMoves DEF Proceed, ApprovalLabels
    <3>3. \A d \in Reviewers \ {c} : ~ InReward(d)
      BY <1>1 DEF PaidInv, OneInReward
    <3> QED
      BY <1>0, <1>a, <3>2, <3>3 DEF Becomes, Moved
  <2>6. \A d \in Reviewers : CallAgrees(d)' /\ ~ InReward(d)'
    <3>1. CallAgrees(c)' /\ ~ InReward(c)'
      BY <2>1, <2>5 DEF CallAgrees, InReward, AtStep, RewardLabels
    <3>2. ASSUME NEW d \in Reviewers \ {c} PROVE CallAgrees(d)' /\ ~ InReward(d)'
      <4>1. CallAgrees(d) /\ request[d].task \in TaskIds
        BY WorthOfReviewer DEF PaidInv
      <4>2. request[d].at \in AfterCommit => request[d].task # t
        <5>1. \A w : << w >> # << >>
          BY Z3
        <5> QED
          BY <1>1, <4>1, <5>1 DEF CallAgrees
      <4> QED
        BY <2>1, <2>5, <4>1, <4>2 DEF CallAgrees, InReward, AtStep, RewardLabels, AfterCommit
    <3> QED
      BY <3>1, <3>2
  <2>7. participant'.points = Total'
    <3> DEFINE f == [u \in TaskIds |-> PaidBy(u)]
               g == [u \in TaskIds |-> PaidBy(u)']
    <3>1. f \in [TaskIds -> Nat]
      <4>1. \A w : << w >>[1] = w /\ << w >> # << >>
        BY Z3
      <4>2. ASSUME NEW u \in TaskIds PROVE PaidBy(u) \in Nat
        <5>1. paid[u] = << >> \/ \E w \in Worths : paid[u] = << w >>
          BY DEF PaidInv, RowAgrees
        <5> QED
          BY <4>1, <5>1, TaskAssumption DEF PaidBy
      <4> QED
        BY <4>2
    <3>2. f[t] = 0 /\ g[t] = f[t] + worth
      <4>1. PaidBy(t) = 0
        BY <1>1 DEF PaidBy
      <4>2. paid'[t] # << >> /\ paid'[t][1] = worth
        BY <2>1, Z3
      <4>3. PaidBy(t)' = worth
        BY <4>2 DEF PaidBy
      <4> QED
        BY <1>0, <4>1, <4>3
    <3>3. \A u \in TaskIds \ {t} : g[u] = f[u]
      BY <2>1 DEF PaidBy
    <3>4. g \in [TaskIds -> Nat]
      <4>1. \A u \in TaskIds : PaidBy(u)' \in Nat
        BY <1>0, <3>1, <3>2, <3>3
      <4> QED
        BY <4>1
    <3>5. Total = SumFunction(f) /\ Total' = SumFunction(g)
      BY DEF Total
    <3> HIDE DEF f, g
    <3>6. SumFunction(g) = SumFunction(f) + worth
      BY <1>0, <3>1, <3>2, <3>3, <3>4, TotalOfChange, TaskAssumption
    <3>7. participant'.points = participant.points + worth
      BY <1>0, <1>1, <1>3 DEF RowsOK, ParticipantRow
    <3> QED
      BY <3>5, <3>6, <3>7 DEF PaidInv
  <2> QED
    BY <2>4, <2>6, <2>7 DEF PaidInv, OneInReward
<1> QED
  BY <1>2, <1>3, <1>a DEF RewardCommits, Ask

(* Every other step pays nothing. *)
LEMMA CallsMove ==
    ASSUME NEW c \in TaskCallers, NEW new, Becomes(c, new),
           new.at \notin RewardLabels \cup AfterCommit
    PROVE  \A d \in Reviewers : CallMoves(d)
BY DEF Becomes, CallMoves, TaskCallers

LEMMA StatusMoves ==
    ASSUME RowsOK, tasks' = tasks, NEW t \in TaskIds, NEW s \in {"REVIEW", "VERIFIED", "REJECTED"},
           record[t] = NoRecord => tasks[t].exists,
           record' = [record EXCEPT ![t].status = s]
    PROVE  \A u \in TaskIds : RowMoves(u)
<1>1. /\ record'[t] = [status |-> s, given |-> record[t].given, points |-> record[t].points]
      /\ \A u \in TaskIds \ {t} : record'[u] = record[u]
  BY StatusType
<1>2. record'[t].status = s /\ NoRecord.status = "none"
  BY <1>1 DEF NoRecord
<1>3. RowMoves(t)
  BY <1>1, <1>2 DEF RowMoves
<1>4. \A u \in TaskIds \ {t} : RowMoves(u)
  BY <1>1 DEF RowMoves, RowsOK
<1> QED
  BY <1>3, <1>4

LEMMA FinishPaid ==
    ASSUME TaskTypeOK, PaidInv, NEW c \in Reviewers, Finish(c)
    PROVE  PaidInv'
<1>a. PICK t, worth : t = request[c].task /\ worth = request[c].worth
  OBVIOUS
<1>0. RowsOK /\ t \in TaskIds /\ worth \in Worths /\ request[c].at = "finish" /\ c \in TaskCallers
  <2>1. request[c].at = "finish"
    BY DEF Finish, AtStep
  <2> QED
    BY <1>a, <2>1, TypeParts, WorthOfReviewer DEF TaskCallers, ApprovalLabels
<1>1. /\ UNCHANGED << tasks, participant, paid >> /\ Becomes(c, NoRequest)
  BY <1>0, ReviewerMoves DEF Finish, Books
<1>2. \A d \in Reviewers : CallMoves(d)
  BY <1>0, <1>1, CallsMove DEF NoRequest, Asked, RewardLabels, AfterCommit
<1>3. CASE record' = record
  <2>1. \A u \in TaskIds : RowMoves(u)
    BY <1>1, <1>3 DEF RowMoves
  <2> QED
    BY <1>0, <1>1, <1>2, <2>1, PaidKept
<1>4. CASE /\ record[t] # NoRecord
           /\ record' = [record EXCEPT ![t].given = TRUE, ![t].points = worth]
  <2>1. paid[t] = << worth >> /\ RowAgrees(t)
    BY <1>0, <1>a DEF PaidInv, CallAgrees, AfterCommit
  <2>2. paid[t] # << >> /\ paid[t][1] = worth
    BY <2>1, Z3
  <2>3. record[t].points = worth
    BY <1>4, <2>1, <2>2 DEF RowAgrees, PaidBy
  <2>4. record[t].given = TRUE
    <3>1. record[t].given
      BY <1>4, <2>1, <2>2, Zenon DEF RowAgrees
    <3>2. record[t].given \in BOOLEAN
      BY <1>0, <1>4 DEF RowsOK, TaskRecord
    <3> QED
      BY <3>1, <3>2
  <2>5. /\ record'[t] = [status |-> record[t].status, given |-> TRUE, points |-> worth]
        /\ record'[t] # NoRecord /\ \A u \in TaskIds \ {t} : record'[u] = record[u]
    BY <1>0, <1>4, GivenType
  <2>6. \A u \in TaskIds : RowMoves(u)
    <3>1. record'[t].given = TRUE /\ record'[t].points = worth
      BY <2>5
    <3>2. record'[t].given = record[t].given /\ record'[t].points = record[t].points
      BY <2>3, <2>4, <3>1
    <3>3. RowMoves(t)
      BY <1>4, <2>5, <3>2 DEF RowMoves
    <3>4. ASSUME NEW u \in TaskIds \ {t} PROVE RowMoves(u)
      <4>1. record'[u] = record[u] /\ tasks' = tasks
        BY <1>1, <2>5
      <4> QED
        BY <4>1 DEF RowMoves
    <3> QED
      BY <3>3, <3>4
  <2> QED
    BY <1>0, <1>1, <1>2, <2>6, PaidKept
<1> QED
  BY <1>3, <1>4, <1>a DEF Finish, Ask

LEMMA PaidStep ==
    ASSUME TaskTypeOK, PaidInv, [TaskNext]_taskVars, ~ raced'
    PROVE  PaidInv'
<1> USE DEF Counters, Books
<1>0. /\ RowsOK /\ Reviewers \subseteq TaskCallers
      /\ user \in TaskCallers /\ user \notin Reviewers
      /\ NoRequest.at \notin RewardLabels \cup AfterCommit
  BY TypeParts, TaskAssumption
     DEF TaskCallers, NoRequest, Asked, RewardLabels, AfterCommit
<1>1. ASSUME NEW c \in TaskCallers, NEW new, Becomes(c, new),
             new.at \notin RewardLabels \cup AfterCommit,
             UNCHANGED << participant, paid >>, \A u \in TaskIds : RowMoves(u)
      PROVE  PaidInv'
  BY <1>0, <1>1, CallsMove, PaidKept
<1>2. UNCHANGED << record, tasks >> => \A u \in TaskIds : RowMoves(u)
  <2>1. ASSUME UNCHANGED << record, tasks >>, NEW u \in TaskIds PROVE RowMoves(u)
    <3>1. CASE record[u] = NoRecord
      BY <2>1, <3>1 DEF RowMoves
    <3>2. CASE record[u] # NoRecord
      BY <2>1, <3>2 DEF RowMoves
    <3> QED
      BY <3>1, <3>2
  <2> QED
    BY <2>1
<1>3. ASSUME NEW t \in TaskIds, Submit(t) PROVE PaidInv'
  <2>1. Becomes(user, Asked("submit", t, 0))
    BY <1>0, <1>3, AskedMoves DEF Submit
  <2>2. Asked("submit", t, 0).at \notin RewardLabels \cup AfterCommit
    BY DEF Asked, RewardLabels, AfterCommit
  <2> QED
    BY <1>0, <1>1, <1>2, <1>3, <2>1, <2>2 DEF Submit
<1>4. CASE UpsertSubmission
  <2>a. PICK t : t = request[user].task
    OBVIOUS
  <2>1. Becomes(user, NoRequest) /\ UNCHANGED << tasks, participant, paid >> /\ t \in TaskIds
    BY <1>0, <1>4, <2>a, DoneMoves, RequestType DEF UpsertSubmission
  <2>2. \/ record' = record
        \/ tasks[t].exists /\ \E s \in {"REVIEW", "VERIFIED"} : record' = [record EXCEPT ![t].status = s]
    BY <1>4, <2>a DEF UpsertSubmission, Ask
  <2>3. \A u \in TaskIds : RowMoves(u)
    BY <1>0, <1>2, <2>1, <2>2, StatusMoves
  <2> QED
    BY <1>0, <1>1, <2>1, <2>3
<1>5. ASSUME NEW c \in Reviewers, NEW t \in TaskIds, Approve(c, t) \/ Reject(c, t) \/ Toggle(c, t)
      PROVE  PaidInv'
  <2>1. \E new : Becomes(c, new) /\ new.at \notin RewardLabels \cup AfterCommit
    <3>1. \E label \in {"verify", "reject", "toggle"} : \E w : Becomes(c, Asked(label, t, w))
      BY <1>5, ReviewerMoves
    <3>2. \A label \in {"verify", "reject", "toggle"} : \A w :
             Asked(label, t, w).at \notin RewardLabels \cup AfterCommit
      BY DEF Asked, RewardLabels, AfterCommit
    <3> QED
      BY <3>1, <3>2
  <2> QED
    BY <1>0, <1>1, <1>2, <1>5, <2>1 DEF Approve, Reject, Toggle, Edit
<1>6. ASSUME NEW c \in Reviewers, Verify(c) \/ WriteRejection(c) PROVE PaidInv'
  <2>a. PICK t : t = request[c].task
    OBVIOUS
  <2>1. /\ UNCHANGED << tasks, participant, paid >> /\ t \in TaskIds
        /\ \E new : Becomes(c, new) /\ new.at \notin RewardLabels \cup AfterCommit
    <3>1. Becomes(c, NoRequest) \/ Becomes(c, Moved(c, "reward", request[c].read))
      BY <1>6, ReviewerMoves
    <3>2. Moved(c, "reward", request[c].read).at \notin RewardLabels \cup AfterCommit
      BY DEF Moved, RewardLabels, AfterCommit
    <3>3. UNCHANGED << tasks, participant, paid >> /\ t \in TaskIds
      BY <1>6, <2>a, WorthOfReviewer DEF Verify, WriteRejection
    <3> QED
      BY <1>0, <3>1, <3>2, <3>3
  <2>2. \/ record' = record
        \/ /\ record[t] # NoRecord
           /\ \E s \in {"VERIFIED", "REJECTED"} : record' = [record EXCEPT ![t].status = s]
    BY <1>6, <2>a DEF Verify, WriteRejection, Ask
  <2>3. \A u \in TaskIds : RowMoves(u)
    BY <1>0, <1>2, <2>1, <2>2, StatusMoves
  <2> QED
    BY <1>0, <1>1, <2>1, <2>3
<1>7. ASSUME NEW c \in Reviewers, RewardReadsParticipant(c) PROVE PaidInv'
  <2>1. /\ UNCHANGED << tasks, record, participant, paid >>
        /\ Becomes(c, Moved(c, "commit", participant)) /\ InReward(c)
    BY <1>7, ReviewerMoves DEF RewardReadsParticipant, InReward, AtStep, RewardLabels
  <2>2. \A d \in Reviewers : CallMoves(d)
    BY <2>1 DEF CallMoves, Becomes, Moved, AtStep, TaskCallers
  <2> QED
    BY <1>0, <1>2, <2>1, <2>2, PaidKept
<1>8. ASSUME NEW c \in Reviewers, RecalculateReads(c) \/ RecalculateWrites(c) PROVE PaidInv'
  <2>1. /\ UNCHANGED << tasks, record, paid >> /\ request[c].at \in AfterCommit
        /\ \E label \in AfterCommit : \E row : Becomes(c, Moved(c, label, row))
    BY <1>8, ReviewerMoves DEF RecalculateReads, RecalculateWrites, AtStep, AfterCommit
  <2>2. participant'.points = participant.points /\ participant'.exists = participant.exists
    BY <1>0, <1>8 DEF RecalculateReads, RecalculateWrites, RowsOK, ParticipantRow
  <2>3. \A d \in Reviewers : CallMoves(d)
    BY <2>1 DEF CallMoves, Becomes, Moved, TaskCallers
  <2> QED
    BY <1>0, <1>2, <2>1, <2>2, <2>3, PaidKept
<1>9. ASSUME NEW c \in Reviewers, WriteToggle(c) PROVE PaidInv'
  <2>a. PICK t : t = request[c].task
    OBVIOUS
  <2>1. /\ Becomes(c, NoRequest) /\ UNCHANGED << record, participant, paid >> /\ t \in TaskIds
    BY <1>9, <2>a, ReviewerMoves, WorthOfReviewer DEF WriteToggle
  <2>2. \A u \in TaskIds : tasks'[u].exists = tasks[u].exists
    BY <1>0, <1>9, <2>a, <2>1 DEF WriteToggle, Ask, RowsOK
  <2>3. \A u \in TaskIds : RowMoves(u)
    BY <1>0, <2>1, <2>2 DEF RowMoves, RowsOK
  <2> QED
    BY <1>0, <1>1, <2>1, <2>3
<1>10. ASSUME NEW t \in TaskIds, DeleteTask(t) \/ \E w \in Worths : UpdateTask(t, w)
       PROVE  PaidInv'
  <2>1. UNCHANGED << request, participant, paid >>
    BY <1>10 DEF DeleteTask, UpdateTask, Edit
  <2>2. \A u \in TaskIds : RowMoves(u)
    <3>1. CASE DeleteTask(t)
      <4>1. /\ record'[t] = NoRecord /\ tasks'[t].exists = FALSE
            /\ \A u \in TaskIds \ {t} : record'[u] = record[u] /\ tasks'[u] = tasks[u]
        BY <1>0, <3>1 DEF DeleteTask, RowsOK
      <4> QED
        BY <1>0, <4>1 DEF RowMoves, RowsOK
    <3>2. ASSUME NEW w \in Worths, UpdateTask(t, w) PROVE \A u \in TaskIds : RowMoves(u)
      <4>1. record' = record /\ \A u \in TaskIds : tasks'[u].exists = tasks[u].exists
        BY <1>0, <3>2 DEF UpdateTask, RowsOK
      <4> QED
        BY <1>0, <4>1 DEF RowMoves, RowsOK
    <3> QED
      BY <1>10, <3>1, <3>2
  <2>3. \A d \in Reviewers : CallMoves(d)
    BY <2>1 DEF CallMoves
  <2> QED
    BY <1>0, <2>1, <2>2, <2>3, PaidKept
<1>11. ASSUME NEW c \in TaskCallers, Abandon(c) PROVE PaidInv'
  BY <1>0, <1>1, <1>2, <1>11, DoneMoves DEF Abandon
<1>12. CASE BanUser \/ UNCHANGED taskVars
  <2>1. \A d \in Reviewers : CallMoves(d)
    BY <1>12 DEF CallMoves, BanUser, taskVars
  <2> QED
    BY <1>0, <1>2, <1>12, <2>1, PaidKept DEF BanUser, taskVars
<1>13. ASSUME NEW c \in Reviewers, RewardReadsRecord(c) \/ RewardCommits(c) \/ Finish(c)
       PROVE  PaidInv'
  BY <1>13, ReadsRecordPaid, CommitPaid, FinishPaid
<1> QED
  BY <1>3, <1>4, <1>5, <1>6, <1>7, <1>8, <1>9, <1>10, <1>11, <1>12, <1>13 DEF TaskNext

(* Every step but those that touch the participant, or recalculate.         *)
Quiet ==
    \/ UNCHANGED << request, participant >>
    \/ \E c \in TaskCallers : \E new :
          /\ Becomes(c, new) /\ new.at # "allocate" /\ UNCHANGED participant
          /\ c \in Reviewers => request[c].at \notin {"recalculate", "allocate"}

LEMMA QuietStep ==
    ASSUME TaskTypeOK, [TaskNext]_taskVars
    PROVE  \/ Quiet \/ \E c \in TaskCallers : Abandon(c)
           \/ \E c \in Reviewers : RewardCommits(c) \/ RecalculateReads(c) \/ RecalculateWrites(c)
<1> USE DEF Counters, Books
<1>0. /\ RowsOK /\ Reviewers \subseteq TaskCallers
      /\ user \in TaskCallers /\ user \notin Reviewers
      /\ NoRequest.at = "idle"
  BY TypeParts, TaskAssumption DEF TaskCallers, NoRequest, Asked
<1>1. ASSUME NEW c \in TaskCallers, NEW new, Becomes(c, new), new.at # "allocate",
             c \in Reviewers => request[c].at \notin {"recalculate", "allocate"},
             UNCHANGED participant
      PROVE  Quiet
  BY <1>1 DEF Quiet
<1>3. ASSUME NEW t \in TaskIds, Submit(t) PROVE Quiet
  <2>1. Becomes(user, Asked("submit", t, 0)) /\ Asked("submit", t, 0).at # "allocate"
    BY <1>0, <1>3, AskedMoves DEF Submit, Asked
  <2> QED
    BY <1>0, <1>1, <1>3, <2>1 DEF Submit
<1>4. CASE UpsertSubmission
  BY <1>0, <1>1, <1>4, DoneMoves DEF UpsertSubmission
<1>5. ASSUME NEW c \in Reviewers, NEW t \in TaskIds, Approve(c, t) \/ Reject(c, t) \/ Toggle(c, t)
      PROVE  Quiet
  <2>1. \E label \in {"verify", "reject", "toggle"} : \E w : Becomes(c, Asked(label, t, w))
    BY <1>5, ReviewerMoves
  <2>2. \A label \in {"verify", "reject", "toggle"} : \A w : Asked(label, t, w).at # "allocate"
    BY DEF Asked
  <2>3. request[c].at = "idle" /\ UNCHANGED participant
    BY <1>5 DEF Approve, Reject, Toggle, Edit, AtStep
  <2> QED
    BY <1>0, <1>1, <2>1, <2>2, <2>3
<1>6. ASSUME NEW c \in Reviewers, Verify(c) \/ RewardReadsRecord(c) \/ RewardReadsParticipant(c)
      PROVE  Quiet
  <2>1. \E new : Becomes(c, new) /\ new.at # "allocate"
    <3>1. \/ Becomes(c, NoRequest)
          \/ \E label \in {"reward", "participant", "commit"} : \E row : Becomes(c, Moved(c, label, row))
      BY <1>6, ReviewerMoves
    <3>2. \A label \in {"reward", "participant", "commit"} : \A row : Moved(c, label, row).at # "allocate"
      BY DEF Moved
    <3> QED
      BY <1>0, <3>1, <3>2
  <2>2. request[c].at \notin {"recalculate", "allocate"} /\ UNCHANGED participant
    BY <1>6 DEF Verify, RewardReadsRecord, RewardReadsParticipant, AtStep
  <2> QED
    BY <1>0, <1>1, <2>1, <2>2
<1>7. ASSUME NEW c \in Reviewers, Finish(c) \/ WriteRejection(c) \/ WriteToggle(c)
      PROVE  Quiet
  BY <1>0, <1>1, <1>7, ReviewerMoves DEF Finish, WriteRejection, WriteToggle, AtStep
<1>8. ASSUME NEW t \in TaskIds, DeleteTask(t) \/ \E w \in Worths : UpdateTask(t, w)
      PROVE  Quiet
  BY <1>8 DEF Quiet, DeleteTask, UpdateTask, Edit
<1>9. CASE BanUser \/ UNCHANGED taskVars
  BY <1>9 DEF Quiet, BanUser, taskVars
<1> QED
  BY <1>3, <1>4, <1>5, <1>6, <1>7, <1>8, <1>9 DEF TaskNext

(* The allocation follows the points, as long as nothing dies and the user  *)
(* is ACTIVE.                                                               *)
LEMMA AllocatedStep ==
    ASSUME TaskTypeOK, PaidInv, AllocatedInv, [TaskNext]_taskVars, ~ raced', mishaps' = 0, ~ banned'
    PROVE  AllocatedInv'
<1> USE DEF Counters, Books
<1>0. /\ RowsOK /\ Reviewers \subseteq TaskCallers
      /\ user \in TaskCallers /\ user \notin Reviewers
      /\ NoRequest.at = "idle"
  BY TypeParts, TaskAssumption DEF TaskCallers, NoRequest, Asked
<1>1. ASSUME NEW c \in TaskCallers, NEW new, Becomes(c, new), new.at # "allocate",
             c \in Reviewers => request[c].at \notin {"recalculate", "allocate"},
             UNCHANGED participant
      PROVE  AllocatedInv'
  <2>1. \A d \in Reviewers :
           \/ request'[d] = request[d]
           \/ /\ request[d].at \notin {"recalculate", "allocate"}
              /\ request'[d].at # "allocate"
    BY <1>0, <1>1 DEF Becomes
  <2> QED
    BY <1>1, <2>1, AllocatedKept
<1>2. CASE Quiet
  <2>1. CASE UNCHANGED << request, participant >>
    BY <2>1, AllocatedKept
  <2> QED
    BY <1>1, <1>2, <2>1 DEF Quiet
<1>8. ASSUME NEW c \in Reviewers, RewardCommits(c) PROVE AllocatedInv'
  <2>0. request[c].at = "commit"
    BY <1>8 DEF RewardCommits, AtStep
  <2>2. CASE Becomes(c, Moved(c, "recalculate", NoParticipant))
    <3>1. /\ request'[c].at = "recalculate"
          /\ \A d \in Reviewers \ {c} : request'[d] = request[d]
      BY <1>0, <2>2 DEF Becomes, Moved
    <3> QED
      BY <3>1 DEF AllocatedInv, AtStep
  <2> QED
    <3>1. Becomes(c, NoRequest) \/ Becomes(c, Moved(c, "recalculate", NoParticipant))
      BY <1>8, ReviewerMoves
    <3>2. Becomes(c, NoRequest) => UNCHANGED participant
      <4>1. CASE Done(c) /\ UNCHANGED participant
        BY <4>1
      <4>2. CASE Proceed(c, "recalculate")
        <5>1. Becomes(c, Moved(c, "recalculate", NoParticipant))
          BY <1>0, <4>2, ProceedMoves, NewRequest DEF Proceed, ApprovalLabels, NoParticipant, ParticipantRow
        <5> QED
          BY <1>0, <5>1 DEF Becomes, Moved
      <4> QED
        BY <1>8, <4>1, <4>2 DEF RewardCommits
    <3>3. CASE Becomes(c, NoRequest)
      BY <1>0, <1>1, <2>0, <3>2, <3>3
    <3> QED
      BY <2>2, <3>1, <3>3
<1>9. ASSUME NEW c \in Reviewers, RecalculateReads(c) PROVE AllocatedInv'
  <2>1. \A d \in Reviewers : ~ AtStep(d, "allocate")
    BY <1>0, <1>9, Zenon DEF RecalculateReads
  <2>2. /\ request'[c].at = "allocate" /\ request'[c].read = participant
        /\ \A d \in Reviewers \ {c} : request'[d] = request[d]
    <3>1. Becomes(c, Moved(c, "allocate", participant))
      BY <1>9, ReviewerMoves DEF RecalculateReads
    <3> QED
      BY <1>0, <3>1 DEF Becomes, Moved
  <2>3. participant' = participant
    BY <1>9 DEF RecalculateReads
  <2> QED
    BY <2>1, <2>2, <2>3 DEF AllocatedInv, AtStep
<1>10. ASSUME NEW c \in Reviewers, RecalculateWrites(c) PROVE AllocatedInv'
  <2>1. /\ request'[c].at = "finish" /\ request[c].at = "allocate"
        /\ \A d \in Reviewers \ {c} : request'[d] = request[d]
    <3>1. Becomes(c, Moved(c, "finish", NoParticipant)) /\ request[c].at = "allocate"
      BY <1>10, ReviewerMoves DEF RecalculateWrites, AtStep
    <3> QED
      BY <1>0, <3>1 DEF Becomes, Moved
  <2>2. \A d \in Reviewers : ~ AtStep(d, "allocate")'
    BY <2>1 DEF AllocatedInv, AtStep
  <2>3. participant'.points = participant.points /\ participant'.allocation = request[c].read.points
    BY <1>0, <1>10 DEF RecalculateWrites, Ask, RowsOK, ParticipantRow
  <2>4. \/ request[c].read.points = participant.points
        \/ \E d \in Reviewers : AtStep(d, "recalculate")'
    BY <2>1 DEF AllocatedInv, AtStep
  <2> QED
    BY <2>2, <2>3, <2>4 DEF AllocatedInv
<1>11. ASSUME NEW c \in TaskCallers, Abandon(c) PROVE AllocatedInv'
  <2>1. mishaps' = mishaps + 1 /\ mishaps \in Nat
    BY <1>0, <1>11, TaskAssumption DEF Abandon, RowsOK
  <2> QED
    BY <2>1
<1> QED
  BY <1>2, <1>8, <1>9, <1>10, <1>11, QuietStep

(* Points only grow, so that whatever was read of them is no more.          *)
LEMMA BoundedStep ==
    ASSUME TaskTypeOK, PaidInv, BoundedInv, [TaskNext]_taskVars
    PROVE  BoundedInv'
<1> USE DEF Counters, Books
<1>0. /\ RowsOK /\ Reviewers \subseteq TaskCallers /\ participant \in ParticipantRow
      /\ NoRequest.at = "idle"
  BY TypeParts, TaskAssumption DEF TaskCallers, NoRequest, Asked, RowsOK
<1>1. ASSUME NEW c \in TaskCallers, NEW new, Becomes(c, new), new.at # "allocate",
             participant'.allocation = participant.allocation,
             participant.points <= participant'.points, participant'.points \in Nat
      PROVE  BoundedInv'
  <2>1. \A d \in Reviewers : AtStep(d, "allocate")' => AtStep(d, "allocate") /\ request'[d] = request[d]
    BY <1>0, <1>1 DEF Becomes, AtStep
  <2>2. \A d \in Reviewers : request[d].read.points \in Nat
    BY WorthOfReviewer DEF ParticipantRow
  <2> QED
    BY <1>0, <1>1, <2>1, <2>2 DEF BoundedInv, ParticipantRow
<1>2. CASE Quiet
  <2>1. CASE UNCHANGED << request, participant >>
    BY <2>1 DEF BoundedInv, AtStep
  <2>2. participant.points \in Nat
    BY <1>0 DEF ParticipantRow
  <2> QED
    BY <1>1, <1>2, <2>1, <2>2 DEF Quiet
<1>3. ASSUME NEW c \in Reviewers, RewardCommits(c) PROVE BoundedInv'
  <2>1. PICK new : Becomes(c, new) /\ new.at # "allocate"
    <3>1. Becomes(c, NoRequest) \/ Becomes(c, Moved(c, "recalculate", NoParticipant))
      BY <1>3, ReviewerMoves
    <3>2. Moved(c, "recalculate", NoParticipant).at = "recalculate"
      BY DEF Moved
    <3> QED
      BY <1>0, <3>1, <3>2
  <2>2. request[c].read.points = participant.points /\ request[c].worth \in Nat
    BY <1>3, RequestType DEF RewardCommits, PaidInv, CallAgrees, TaskCallers
  <2>3. /\ participant'.allocation = participant.allocation
        /\ participant'.points \in {participant.points, participant.points + request[c].worth}
    BY <1>0, <1>3, <2>2 DEF RewardCommits, Ask, ParticipantRow
  <2>4. participant.points \in Nat
    BY <1>0 DEF ParticipantRow
  <2> QED
    BY <1>0, <1>1, <2>1, <2>2, <2>3, <2>4
<1>4. ASSUME NEW c \in Reviewers, RecalculateReads(c) PROVE BoundedInv'
  <2>1. participant' = participant /\ participant.points \in Nat
    BY <1>0, <1>4 DEF RecalculateReads, ParticipantRow
  <2>2. CASE Becomes(c, Moved(c, "allocate", participant))
    <3>1. request'[c].read = participant /\ \A d \in Reviewers \ {c} : request'[d] = request[d]
      BY <1>0, <2>2 DEF Becomes, Moved
    <3> QED
      BY <2>1, <3>1 DEF BoundedInv, AtStep
  <2>3. CASE Becomes(c, Moved(c, "finish", NoParticipant))
    BY <1>0, <1>1, <2>1, <2>3 DEF Moved
  <2> QED
    BY <1>4, <2>2, <2>3, ReviewerMoves
<1>5. ASSUME NEW c \in Reviewers, RecalculateWrites(c) PROVE BoundedInv'
  <2>1. /\ participant'.allocation = request[c].read.points /\ participant'.points = participant.points
        /\ request[c].read.points <= participant.points
    BY <1>0, <1>5 DEF RecalculateWrites, Ask, ParticipantRow, BoundedInv
  <2>2. \A d \in Reviewers : AtStep(d, "allocate")' => AtStep(d, "allocate") /\ request'[d] = request[d]
    <3>1. Becomes(c, Moved(c, "finish", NoParticipant))
      BY <1>5, ReviewerMoves
    <3> QED
      BY <1>0, <3>1 DEF Becomes, Moved, AtStep
  <2> QED
    BY <2>1, <2>2 DEF BoundedInv
<1>6. ASSUME NEW c \in TaskCallers, Abandon(c) PROVE BoundedInv'
  <2>1. Becomes(c, NoRequest) /\ participant' = participant /\ participant.points \in Nat
    BY <1>0, <1>6, DoneMoves DEF Abandon, ParticipantRow
  <2> QED
    BY <1>0, <1>1, <2>1
<1> QED
  BY <1>2, <1>3, <1>4, <1>5, <1>6, QuietStep

(* A flag that is down was down, and a counter at 0 was at 0. *)
LEMMA HistoriesGrow ==
    ASSUME TaskTypeOK, [TaskNext]_taskVars
    PROVE  /\ ~ raced' => ~ raced
           /\ mishaps' = 0 => mishaps = 0
           /\ ~ banned' => ~ banned
<1> USE DEF Counters, Books
<1>1. ASSUME ~ raced' PROVE ~ raced
  <2>1. CASE raced' = raced
    BY <1>1, <2>1
  <2>2. ASSUME NEW c \in Reviewers, RewardReadsRecord(c) \/ RecalculateReads(c) PROVE ~ raced
    BY <1>1, <2>2, Zenon DEF RewardReadsRecord, RecalculateReads
  <2>3. CASE BanUser \/ UNCHANGED taskVars
    BY <2>1, <2>3 DEF BanUser, taskVars
  <2> QED
    BY <2>1, <2>2, <2>3 DEF TaskNext, UpsertSubmission, Submit, DeleteTask, UpdateTask, Edit,
         Verify, RewardReadsParticipant, RewardCommits, RecalculateWrites, Finish,
         WriteRejection, WriteToggle, Approve, Reject, Toggle, Abandon
<1>2. mishaps' = mishaps \/ mishaps' = mishaps + 1
  BY DEF TaskNext, UpsertSubmission, Submit, DeleteTask, UpdateTask, Edit,
       Verify, RewardReadsRecord, RewardReadsParticipant, RewardCommits, RecalculateReads,
       RecalculateWrites, Finish, WriteRejection, WriteToggle, Approve, Reject, Toggle,
       Abandon, BanUser, taskVars
<1>3. mishaps \in Nat
  BY TaskAssumption DEF TaskTypeOK
<1>4. ASSUME ~ banned' PROVE ~ banned
  <2>1. CASE banned' = banned
    BY <1>4, <2>1
  <2> QED
    BY <1>4, <2>1 DEF TaskNext, UpsertSubmission, Submit, DeleteTask, UpdateTask, Edit,
       Verify, RewardReadsRecord, RewardReadsParticipant, RewardCommits, RecalculateReads,
       RecalculateWrites, Finish, WriteRejection, WriteToggle, Approve, Reject, Toggle,
       Abandon, BanUser, taskVars
<1> QED
  BY <1>1, <1>2, <1>3, <1>4

RewardsIndInv ==
    /\ TaskTypeOK /\ UnpaidIsExplained
    /\ ~ raced => PaidInv /\ BoundedInv
    /\ ~ raced /\ mishaps = 0 /\ ~ banned => AllocatedInv

LEMMA RewardsInit ==
    ASSUME TaskInit
    PROVE  RewardsIndInv
<1>1. TaskTypeOK
  BY TaskInitType
<1>2. \A t \in TaskIds : record[t] = NoRecord /\ paid[t] = << >>
  BY DEF TaskInit
<1>3. \A c \in Reviewers : request[c].at = "idle"
  BY DEF TaskInit, NoRequest, Asked, TaskCallers
<1>4. UnpaidIsExplained
  BY <1>2 DEF UnpaidIsExplained, NoRecord
<1>5. Total = 0
  <2>1. [t \in TaskIds |-> PaidBy(t)] = [t \in TaskIds |-> 0]
    BY <1>2 DEF PaidBy
  <2> QED
    BY <2>1, TotalOfZeros, TaskAssumption DEF Total
<1>6. PaidInv
  <2>1. \A t \in TaskIds : RowAgrees(t)
    BY <1>2 DEF RowAgrees
  <2>2. \A c \in Reviewers : CallAgrees(c) /\ ~ InReward(c)
    BY <1>3 DEF CallAgrees, AtStep, InReward, RewardLabels, AfterCommit
  <2>3. participant.points = 0
    BY DEF TaskInit, NoParticipant
  <2> QED
    BY <1>5, <2>1, <2>2, <2>3 DEF PaidInv, OneInReward
<1>7. AllocatedInv
  BY <1>3 DEF AllocatedInv, AtStep, TaskInit, NoParticipant
<1>8. BoundedInv
  BY <1>3 DEF BoundedInv, AtStep, TaskInit, NoParticipant
<1> QED
  BY <1>1, <1>4, <1>6, <1>7, <1>8 DEF RewardsIndInv

LEMMA RewardsStep ==
    ASSUME RewardsIndInv, [TaskNext]_taskVars
    PROVE  RewardsIndInv'
<1>1. TaskTypeOK' /\ UnpaidIsExplained'
  BY TaskTypeStep, ExplainedStep DEF RewardsIndInv
<1>2. (~ raced)' => PaidInv' /\ BoundedInv'
  BY HistoriesGrow, PaidStep, BoundedStep DEF RewardsIndInv
<1>3. (~ raced /\ mishaps = 0 /\ ~ banned)' => AllocatedInv'
  BY HistoriesGrow, AllocatedStep DEF RewardsIndInv
<1> QED
  BY <1>1, <1>2, <1>3 DEF RewardsIndInv

LEMMA RewardsFollow ==
    ASSUME RewardsIndInv
    PROVE  RewardsInv
<1>1. TaskTypeOK /\ UnpaidIsExplained
  BY DEF RewardsIndInv
<1>2. PaidOnce
  <2>1. ASSUME NEW t \in TaskIds, paid[t] = << >> \/ \E w \in Worths : paid[t] = << w >>
        PROVE  Len(paid[t]) <= 1
    <3>1. CASE paid[t] = << >>
      BY <3>1
    <3>2. ASSUME NEW w \in Worths, paid[t] = << w >> PROVE Len(paid[t]) <= 1
      BY <3>2
    <3> QED
      BY <2>1, <3>1, <3>2
  <2> QED
    BY <2>1 DEF PaidOnce, RewardsIndInv, PaidInv, RowAgrees
<1>3. PointsAddUp
  <2>1. ASSUME ~ raced PROVE participant.points = Total /\ participant.allocation <= Total
    BY <2>1 DEF RewardsIndInv, PaidInv, BoundedInv
  <2>2. ASSUME ~ raced, mishaps = 0, ~ banned, \A c \in Reviewers : request[c].at \notin {"recalculate", "allocate"}
        PROVE  participant.allocation = Total
    BY <2>1, <2>2 DEF RewardsIndInv, AllocatedInv, AtStep
  <2> QED
    BY <2>1, <2>2 DEF PointsAddUp, Total
<1>4. RecordsTellThePay
  BY DEF RecordsTellThePay, RewardsIndInv, PaidInv, RowAgrees
<1> QED
  BY <1>1, <1>2, <1>3, <1>4 DEF RewardsInv

(* Submissions, approvals by any number of reviewers, rejections, edits and *)
(* deletions of tasks, restarts and a block of the user anywhere: every     *)
(* task pays once, the points are what the tasks paid, the allocation never *)
(* exceeds them and follows those of an ACTIVE user, the records say what   *)
(* they earned, and no VERIFIED record is left unpaid unexplained - payments,*)
(* allocation and records as long as no rewards or recalculations overlap.  *)
THEOREM RewardsAreSound == TaskSpec => []RewardsInv
<1>1. TaskInit => RewardsIndInv
  BY RewardsInit
<1>2. RewardsIndInv /\ [TaskNext]_taskVars => RewardsIndInv'
  BY RewardsStep
<1>3. RewardsIndInv => RewardsInv
  BY RewardsFollow
<1> QED
  BY <1>1, <1>2, <1>3, PTL DEF TaskSpec

-----------------------------------------------------------------------------
(* The rate limiter (ApiGate): the requests of a limiter admitted in a span. *)

Span(q, l, lo, hi) == {i \in DOMAIN q : q[i].by = l /\ lo <= q[i].at /\ q[i].at <= hi}

Admission == [by : Limiters, at : 0..MaxTime]

LEMMA SpanType ==
    ASSUME NEW q \in Seq(Admission), NEW l, NEW lo \in Int, NEW hi \in Int
    PROVE  /\ IsFiniteSet(Span(q, l, lo, hi)) /\ Cardinality(Span(q, l, lo, hi)) \in Nat
           /\ \A k \in Int, m \in Int : lo <= k /\ m <= hi =>
                 Cardinality(Span(q, l, k, m)) <= Cardinality(Span(q, l, lo, hi))
<1>1. IsFiniteSet(DOMAIN q)
  <2>1. DOMAIN q = 1..Len(q) /\ Len(q) \in Nat
    OBVIOUS
  <2> QED
    BY <2>1, FS_Interval
<1>2. IsFiniteSet(Span(q, l, lo, hi)) /\ Cardinality(Span(q, l, lo, hi)) \in Nat
  <2>1. Span(q, l, lo, hi) \subseteq DOMAIN q
    BY DEF Span
  <2> QED
    BY <1>1, <2>1, FS_Subset, FS_CardinalityType
<1>3. \A i \in DOMAIN q : q[i].at \in Int
  <2>1. \A i \in DOMAIN q : q[i] \in Admission
    OBVIOUS
  <2> QED
    BY <2>1, GateAssumption DEF Admission
<1>4. ASSUME NEW k \in Int, NEW m \in Int, lo <= k, m <= hi
      PROVE  Cardinality(Span(q, l, k, m)) <= Cardinality(Span(q, l, lo, hi))
  <2>1. Span(q, l, k, m) \subseteq Span(q, l, lo, hi)
    BY <1>3, <1>4 DEF Span
  <2> QED
    BY <1>2, <2>1, FS_Subset
<1> QED
  BY <1>2, <1>4

(* A span that is cut in two. *)
LEMMA SpanCut ==
    ASSUME NEW q \in Seq(Admission), NEW l, NEW lo \in Int, NEW hi \in Int, NEW m \in Int
    PROVE  Cardinality(Span(q, l, lo, hi))
             <= Cardinality(Span(q, l, lo, m - 1)) + Cardinality(Span(q, l, m, hi))
<1> DEFINE A == Span(q, l, lo, m - 1)
           B == Span(q, l, m, hi)
<1>1. \A i \in DOMAIN q : q[i].at \in Int
  <2>1. \A i \in DOMAIN q : q[i] \in Admission
    OBVIOUS
  <2> QED
    BY <2>1, GateAssumption DEF Admission
<1>2. Span(q, l, lo, hi) \subseteq A \cup B
  BY <1>1 DEF Span
<1>3. /\ IsFiniteSet(A) /\ IsFiniteSet(B)
      /\ Cardinality(A) \in Nat /\ Cardinality(B) \in Nat
  BY SpanType
<1>4. IsFiniteSet(Span(q, l, lo, hi)) /\ Cardinality(Span(q, l, lo, hi)) \in Nat
  BY SpanType
<1> HIDE DEF A, B
<1>5. /\ IsFiniteSet(A \cup B) /\ IsFiniteSet(A \cap B)
      /\ Cardinality(A \cup B) = Cardinality(A) + Cardinality(B) - Cardinality(A \cap B)
  BY <1>3, FS_Union, FS_Subset
<1>6. Cardinality(Span(q, l, lo, hi)) <= Cardinality(A \cup B)
  BY <1>2, <1>5, FS_Subset
<1>7. Cardinality(A \cap B) \in Nat /\ Cardinality(A \cup B) \in Nat
  BY <1>5, FS_CardinalityType
<1> QED
  BY <1>3, <1>4, <1>5, <1>6, <1>7 DEF A, B

(* One more request. *)
LEMMA SpanAppend ==
    ASSUME NEW q \in Seq(Admission), NEW e \in Admission,
           NEW l, NEW lo \in Int, NEW hi \in Int
    PROVE  LET counts == e.by = l /\ lo <= e.at /\ e.at <= hi IN
           Cardinality(Span(Append(q, e), l, lo, hi)) =
               Cardinality(Span(q, l, lo, hi)) + (IF counts THEN 1 ELSE 0)
<1> DEFINE n == Len(q) + 1
           r == Append(q, e)
           A == Span(q, l, lo, hi)
<1>1. /\ DOMAIN q = 1..Len(q) /\ Len(q) \in Nat /\ DOMAIN r = 1..n
      /\ r[n] = e /\ \A i \in DOMAIN q : r[i] = q[i]
  BY AppendProperties
<1>2. DOMAIN r = DOMAIN q \cup {n} /\ n \notin DOMAIN q
  BY <1>1
<1>3. IsFiniteSet(A) /\ Cardinality(A) \in Nat
  BY SpanType
<1>4. n \notin A
  BY <1>2 DEF Span
<1> HIDE DEF n, r
<1>5. CASE e.by = l /\ lo <= e.at /\ e.at <= hi
  <2>1. Span(r, l, lo, hi) = A \cup {n}
    BY <1>1, <1>2, <1>5 DEF Span
  <2>2. Cardinality(A \cup {n}) = Cardinality(A) + 1
    BY <1>3, <1>4, FS_AddElement
  <2> QED
    BY <1>5, <2>1, <2>2 DEF r
<1>6. CASE ~ (e.by = l /\ lo <= e.at /\ e.at <= hi)
  <2>1. Span(r, l, lo, hi) = A
    BY <1>1, <1>2, <1>6 DEF Span
  <2> QED
    BY <1>3, <1>6, <2>1 DEF r
<1> QED
  BY <1>5, <1>6

(* The window of a client, and the span just as long before it: no more of *)
(* a limiter's requests than it counts, in the one and in the other.       *)
Budget(c, l) ==
    LET w == windows[c] IN
    w.count > 0 =>
        /\ Cardinality(Span(admitted[c], l, w.resetAt - Window, MaxTime + Window)) <= w.count
        /\ Cardinality(Span(admitted[c], l, w.resetAt - Window, MaxTime + Window)) <= MaxOf[l]
        /\ Cardinality(Span(admitted[c], l, w.resetAt - 2 * Window, w.resetAt - Window - 1)) <= MaxOf[l]

Begun(c) ==
    /\ windows[c].count = 0 => admitted[c] = << >>
    /\ windows[c].count > 0 => windows[c].resetAt - Window <= time
    /\ \A i \in DOMAIN admitted[c] : admitted[c][i].at <= time /\ admitted[c][i].at <= windows[c].resetAt

Twice(c, l) == \A from \in 0..MaxTime :
    Cardinality(Span(admitted[c], l, from, from + Window - 1)) <= 2 * MaxOf[l]

LimiterInv == \A c \in Clients : Begun(c) /\ \A l \in Limiters : Budget(c, l) /\ Twice(c, l)

(* Every key that was let through is known to Redis, unless it lapsed. *)
ClaimInv ==
    lapses = 0 => \A r \in ClaimRequests :
        /\ claimRequest[r].after = {}
        /\ Is(r, "handler") => claimRequest[r].key \in marked

GateIndInv == GateTypeOK /\ LimiterInv /\ ClaimInv

LEMMA GateParts ==
    ASSUME GateTypeOK, NEW c \in Clients
    PROVE  /\ time \in Nat /\ time <= MaxTime /\ MaxTime \in Nat /\ Window \in Nat /\ Window >= 1
           /\ windows[c].count \in Nat /\ windows[c].resetAt \in Nat
           /\ windows[c].resetAt <= MaxTime + Window
           /\ admitted[c] \in Seq(Admission)
           /\ \A i \in DOMAIN admitted[c] : admitted[c][i].at \in Nat
           /\ \A l \in Limiters : MaxOf[l] \in Nat /\ MaxOf[l] >= 1
<1>1. MaxTime \in Nat /\ Window \in Nat /\ Window >= 1
      /\ \A l \in Limiters : MaxOf[l] \in Nat /\ MaxOf[l] >= 1
  BY GateAssumption
<1>2. admitted[c] \in Seq(Admission)
  BY DEF GateTypeOK, Admission
<1>3. \A i \in DOMAIN admitted[c] : admitted[c][i].at \in Nat
  <2>1. \A i \in DOMAIN admitted[c] : admitted[c][i] \in Admission
    BY <1>2
  <2> QED
    BY <1>1, <2>1 DEF Admission
<1>4. time \in Nat /\ time <= MaxTime
  BY <1>1 DEF GateTypeOK
<1>5. /\ windows[c].count \in Nat /\ windows[c].resetAt \in Nat
      /\ windows[c].resetAt <= MaxTime + Window
  <2>1. windows[c] \in [count : Nat, resetAt : 0..(MaxTime + Window)]
    BY DEF GateTypeOK
  <2> QED
    BY <1>1, <2>1
<1> QED
  BY <1>1, <1>2, <1>3, <1>4, <1>5

LEMMA AdmissionType ==
    ASSUME GateTypeOK, NEW m \in Limiters, NEW e, e = [by |-> m, at |-> time]
    PROVE  e \in Admission /\ e.by = m /\ e.at = time
BY DEF GateTypeOK, Admission

(* What a request let through does to its client's window. *)
LEMMA Counted ==
    ASSUME GateTypeOK, LimiterInv, NEW c \in Clients, NEW m \in Limiters, rateLimit(c, m)
    PROVE  /\ admitted'[c] = Append(admitted[c], [by |-> m, at |-> time])
           /\ \/ /\ windows'[c] = [count |-> 1, resetAt |-> time + Window]
                 /\ admitted[c] = << >> \/ windows[c].resetAt < time
              \/ /\ windows'[c] = [count |-> windows[c].count + 1, resetAt |-> windows[c].resetAt]
                 /\ windows[c].count > 0 /\ time <= windows[c].resetAt
                 /\ windows[c].count < MaxOf[m]
           /\ \A d \in Clients \ {c} : windows'[d] = windows[d] /\ admitted'[d] = admitted[d]
<1>0. /\ windows \in [Clients -> [count : Nat, resetAt : 0..(MaxTime + Window)]]
      /\ windows[c].count \in Nat /\ windows[c].resetAt \in Nat /\ time \in Nat
      /\ DOMAIN admitted = Clients
  BY GateParts DEF GateTypeOK
<1>1. /\ admitted'[c] = Append(admitted[c], [by |-> m, at |-> time])
      /\ \A d \in Clients \ {c} : windows'[d] = windows[d] /\ admitted'[d] = admitted[d]
  BY <1>0 DEF rateLimit, CountRequest
<1>2. CASE WindowOver(c)
  <2>1. windows'[c] = [count |-> 1, resetAt |-> time + Window]
    BY <1>0, <1>2 DEF rateLimit, CountRequest
  <2>2. windows[c].count = 0 => admitted[c] = << >>
    BY DEF LimiterInv, Begun
  <2> QED
    BY <1>1, <1>2, <2>1, <2>2 DEF WindowOver
<1>3. CASE ~ WindowOver(c)
  <2>1. windows'[c] = [count |-> windows[c].count + 1, resetAt |-> windows[c].resetAt]
    <3> DEFINE new == [windows[c] EXCEPT !.count = @ + 1]
               first == [count |-> 1, resetAt |-> time + Window]
    <3>0. windows' = [windows EXCEPT ![c] = IF WindowOver(c) THEN first ELSE new]
      BY DEF rateLimit, CountRequest
    <3> HIDE DEF new, first
    <3>1. windows'[c] = new
      BY <1>0, <1>3, <3>0
    <3> USE DEF new
    <3>2. windows[c] \in [count : Nat, resetAt : 0..(MaxTime + Window)]
      BY <1>0
    <3> QED
      BY <3>1, <3>2
  <2>2. windows[c].count < MaxOf[m]
    BY <1>3 DEF rateLimit
  <2> QED
    BY <1>0, <1>1, <1>3, <2>1, <2>2 DEF WindowOver
<1> QED
  BY <1>2, <1>3

LEMMA NothingInSpan ==
    ASSUME NEW q \in Seq(Admission), NEW l, NEW lo \in Int, NEW hi \in Int,
           \A i \in DOMAIN q : q[i].at \in Nat /\ q[i].at < lo
    PROVE  Cardinality(Span(q, l, lo, hi)) = 0
<1>1. Span(q, l, lo, hi) = {}
  BY DEF Span
<1> QED
  BY <1>1, FS_EmptySet

LEMMA BudgetCounted ==
    ASSUME GateTypeOK, LimiterInv, NEW c \in Clients, NEW m \in Limiters, rateLimit(c, m),
           NEW l \in Limiters
    PROVE  Budget(c, l)'
<1>a. PICK q, e, t, r : /\ q = admitted[c] /\ t = time /\ r = windows[c].resetAt
                        /\ e = [by |-> m, at |-> t]
  OBVIOUS
<1>0. /\ q \in Seq(Admission) /\ e \in Admission /\ t \in Nat /\ t <= MaxTime /\ r \in Nat
      /\ Window \in Nat /\ Window >= 1 /\ MaxTime \in Nat
      /\ MaxOf[l] \in Nat /\ MaxOf[l] >= 1
      /\ \A i \in DOMAIN q : q[i].at \in Nat /\ q[i].at <= t /\ q[i].at <= r
      /\ e.by = m /\ e.at = t
  <2>1. \A i \in DOMAIN q : q[i].at \in Nat /\ q[i].at <= t /\ q[i].at <= r
    BY <1>a, GateParts DEF LimiterInv, Begun
  <2> QED
    BY <1>a, <2>1, GateParts, AdmissionType
<1>1. admitted'[c] = Append(q, e) /\ Append(q, e) \in Seq(Admission)
  BY <1>a, <1>0, Counted, AppendProperties
<1>2. CASE /\ windows'[c] = [count |-> 1, resetAt |-> t + Window]
           /\ q = << >> \/ r < t
  <2>1. Cardinality(Span(q, l, t, MaxTime + Window)) = 0
    <3>1. \A i \in DOMAIN q : q[i].at \in Nat /\ q[i].at < t
      <4>1. CASE q = << >>
        BY <4>1
      <4>2. CASE r < t
        BY <1>0, <4>2
      <4> QED
        BY <1>2, <4>1, <4>2
    <3> QED
      BY <1>0, <3>1, NothingInSpan
  <2>2. Cardinality(Span(q, l, t - Window, t - 1)) <= MaxOf[l]
    <3>1. CASE q = << >>
      <4>1. \A i \in DOMAIN q : q[i].at \in Nat /\ q[i].at < t - Window
        BY <3>1
      <4>2. Cardinality(Span(q, l, t - Window, t - 1)) = 0
        BY <1>0, <4>1, NothingInSpan
      <4> QED
        BY <1>0, <4>2
    <3>2. CASE q # << >> /\ r < t
      <4>1. windows[c].count > 0
        BY <1>a, <3>2, GateParts DEF LimiterInv, Begun
      <4>2. Cardinality(Span(q, l, r - Window, MaxTime + Window)) <= MaxOf[l]
        BY <1>a, <4>1 DEF LimiterInv, Budget
      <4>3. /\ Cardinality(Span(q, l, t - Window, t - 1))
                 <= Cardinality(Span(q, l, r - Window, MaxTime + Window))
            /\ Cardinality(Span(q, l, t - Window, t - 1)) \in Nat
            /\ Cardinality(Span(q, l, r - Window, MaxTime + Window)) \in Nat
        BY <1>0, <3>2, SpanType
      <4> QED
        BY <1>0, <4>2, <4>3
    <3> QED
      BY <1>2, <3>1, <3>2
  <2>3. /\ Cardinality(Span(Append(q, e), l, t, MaxTime + Window)) <= 1
        /\ Cardinality(Span(Append(q, e), l, t - Window, t - 1)) <= MaxOf[l]
    BY <1>0, <2>1, <2>2, SpanAppend, SpanType
  <2>4. /\ windows'[c].count = 1 /\ windows'[c].resetAt - Window = t
        /\ windows'[c].resetAt - 2 * Window = t - Window
        /\ windows'[c].resetAt - Window - 1 = t - 1
    BY <1>0, <1>2
  <2>5. Cardinality(Span(Append(q, e), l, t, MaxTime + Window)) \in Nat
    <3>1. MaxTime + Window \in Int /\ t \in Int
      BY <1>0
    <3> QED
      BY <1>1, <3>1, SpanType
  <2> QED
    BY <1>0, <1>1, <2>3, <2>4, <2>5 DEF Budget
<1>3. CASE /\ windows'[c] = [count |-> windows[c].count + 1, resetAt |-> r]
           /\ windows[c].count > 0 /\ t <= r /\ windows[c].count < MaxOf[m]
  <2>a. PICK n : n = windows[c].count
    OBVIOUS
  <2>1. /\ Cardinality(Span(q, l, r - Window, MaxTime + Window)) <= n
        /\ Cardinality(Span(q, l, r - Window, MaxTime + Window)) <= MaxOf[l]
        /\ Cardinality(Span(q, l, r - 2 * Window, r - Window - 1)) <= MaxOf[l]
        /\ r - Window <= t /\ n \in Nat
    BY <1>a, <1>3, <2>a, GateParts DEF LimiterInv, Budget, Begun
  <2>2. /\ Cardinality(Span(Append(q, e), l, r - Window, MaxTime + Window))
             = Cardinality(Span(q, l, r - Window, MaxTime + Window)) + (IF m = l THEN 1 ELSE 0)
        /\ Cardinality(Span(Append(q, e), l, r - 2 * Window, r - Window - 1))
             = Cardinality(Span(q, l, r - 2 * Window, r - Window - 1))
        /\ Cardinality(Span(q, l, r - Window, MaxTime + Window)) \in Nat
        /\ Cardinality(Span(q, l, r - 2 * Window, r - Window - 1)) \in Nat
    BY <1>0, <2>1, SpanAppend, SpanType
  <2>3. /\ Cardinality(Span(Append(q, e), l, r - Window, MaxTime + Window)) <= n + 1
        /\ Cardinality(Span(Append(q, e), l, r - Window, MaxTime + Window)) <= MaxOf[l]
        /\ Cardinality(Span(Append(q, e), l, r - 2 * Window, r - Window - 1)) <= MaxOf[l]
    BY SMTT(20), <1>0, <1>3, <2>a, <2>1, <2>2
  <2>4. windows'[c].count = n + 1 /\ windows'[c].resetAt = r
    BY <1>3, <2>a
  <2> QED
    BY <1>1, <2>3, <2>4 DEF Budget
<1> QED
  BY <1>a, <1>2, <1>3, Counted

LEMMA TwiceCounted ==
    ASSUME GateTypeOK, LimiterInv, NEW c \in Clients, NEW m \in Limiters, rateLimit(c, m),
           NEW l \in Limiters
    PROVE  Twice(c, l)'
<1>a. PICK q, e, t, r, x : /\ q = admitted[c] /\ t = time /\ r = windows'[c].resetAt
                           /\ e = [by |-> m, at |-> t] /\ x = Append(q, e)
  OBVIOUS
<1>0. /\ q \in Seq(Admission) /\ e \in Admission /\ t \in Nat /\ t <= MaxTime /\ r \in Nat
      /\ Window \in Nat /\ Window >= 1 /\ MaxTime \in Nat
      /\ MaxOf[l] \in Nat /\ MaxOf[l] >= 1 /\ r - Window <= t
      /\ e.by = m /\ e.at = t /\ x \in Seq(Admission)
  <2>1. q \in Seq(Admission) /\ e \in Admission /\ t \in Nat /\ t <= MaxTime
    BY <1>a, GateParts, AdmissionType
  <2>2. r \in Nat /\ r - Window <= t
    <3>1. CASE windows'[c] = [count |-> 1, resetAt |-> t + Window]
      BY <1>a, <2>1, <3>1, GateParts
    <3>2. CASE /\ windows'[c] = [count |-> windows[c].count + 1, resetAt |-> windows[c].resetAt]
               /\ windows[c].count > 0
      BY <1>a, <2>1, <3>2, GateParts DEF LimiterInv, Begun
    <3> QED
      BY <1>a, <3>1, <3>2, Counted
  <2>3. x \in Seq(Admission) /\ e.by = m /\ e.at = t
    <3>1. e \in Admission /\ e.by = m /\ e.at = t
      BY <1>a, AdmissionType
    <3> QED
      BY <1>a, <2>1, <3>1, AppendProperties
  <2> QED
    BY <1>a, <2>1, <2>2, <2>3, GateParts
<1>1. admitted'[c] = x /\ windows'[c].count > 0
  <2>1. windows'[c].count > 0
    <3>1. windows[c].count + 1 > 0
      BY GateParts
    <3>2. CASE windows'[c] = [count |-> 1, resetAt |-> time + Window]
      BY <3>2
    <3>3. CASE windows'[c] = [count |-> windows[c].count + 1, resetAt |-> windows[c].resetAt]
      BY <3>1, <3>3
    <3> QED
      BY <3>2, <3>3, Counted
  <2> QED
    BY <1>a, <2>1, Counted
<1>2. /\ Cardinality(Span(x, l, r - Window, MaxTime + Window)) <= MaxOf[l]
      /\ Cardinality(Span(x, l, r - 2 * Window, r - Window - 1)) <= MaxOf[l]
  BY <1>a, <1>1, BudgetCounted DEF Budget
<1>3. ASSUME NEW from \in 0..MaxTime
      PROVE  Cardinality(Span(x, l, from, from + Window - 1)) <= 2 * MaxOf[l]
  <2>1. CASE from <= t /\ t <= from + Window - 1
    <3>1. /\ Cardinality(Span(x, l, from, from + Window - 1)) <=
               Cardinality(Span(x, l, from, r - Window - 1))
               + Cardinality(Span(x, l, r - Window, from + Window - 1))
      <4> DEFINE hi == from + Window - 1
                 half == r - Window
      <4>1. x \in Seq(Admission) /\ from \in Int /\ hi \in Int /\ half \in Int
        BY <1>0
      <4> HIDE DEF hi, half
      <4>2. Cardinality(Span(x, l, from, hi)) <=
               Cardinality(Span(x, l, from, half - 1)) + Cardinality(Span(x, l, half, hi))
        BY <4>1, SpanCut
      <4> QED
        BY <4>2 DEF hi, half
    <3>2. /\ Cardinality(Span(x, l, from, r - Window - 1))
               <= Cardinality(Span(x, l, r - 2 * Window, r - Window - 1))
          /\ Cardinality(Span(x, l, from, r - Window - 1)) \in Nat
          /\ Cardinality(Span(x, l, r - 2 * Window, r - Window - 1)) \in Nat
      BY <1>0, <2>1, SpanType
    <3>3. /\ Cardinality(Span(x, l, r - Window, from + Window - 1))
               <= Cardinality(Span(x, l, r - Window, MaxTime + Window))
          /\ Cardinality(Span(x, l, r - Window, from + Window - 1)) \in Nat
          /\ Cardinality(Span(x, l, r - Window, MaxTime + Window)) \in Nat
      BY <1>0, <2>1, SpanType
    <3>4. Cardinality(Span(x, l, from, from + Window - 1)) \in Nat
      BY <1>0, SpanType
    <3> QED
      BY SMTT(20), <1>0, <1>2, <3>1, <3>2, <3>3, <3>4
  <2>2. CASE ~ (from <= t /\ t <= from + Window - 1)
    <3>1. Cardinality(Span(q, l, from, from + Window - 1)) <= 2 * MaxOf[l]
      BY <1>a DEF LimiterInv, Twice
    <3>2. /\ Cardinality(Span(x, l, from, from + Window - 1))
               = Cardinality(Span(q, l, from, from + Window - 1)) + 0
          /\ Cardinality(Span(q, l, from, from + Window - 1)) \in Nat
      BY <1>0, <1>a, <2>2, SpanAppend, SpanType
    <3> QED
      BY <1>0, <3>1, <3>2
  <2> QED
    BY <2>1, <2>2
<1> QED
  BY <1>1, <1>3 DEF Twice

LEMMA LimiterStep ==
    ASSUME GateTypeOK, LimiterInv, [GateNext]_gateVars
    PROVE  LimiterInv'
<1>0. time \in Nat
  BY GateAssumption DEF GateTypeOK
<1>1. ASSUME NEW c \in Clients, NEW m \in Limiters, rateLimit(c, m) PROVE LimiterInv'
  <2>1. time' = time
    BY <1>1 DEF rateLimit
  <2>2. Begun(c)'
    <3>a. PICK q, e, t, r : /\ q = admitted[c] /\ t = time /\ r = windows[c].resetAt
                            /\ e = [by |-> m, at |-> t]
      OBVIOUS
    <3>0. /\ q \in Seq(Admission) /\ t \in Nat /\ r \in Nat /\ Window \in Nat
          /\ e \in Admission /\ e.at = t /\ windows[c].count \in Nat
          /\ \A i \in DOMAIN q : q[i].at \in Nat /\ q[i].at <= t /\ q[i].at <= r
      <4>1. \A i \in DOMAIN q : q[i].at \in Nat /\ q[i].at <= t /\ q[i].at <= r
        BY <3>a, GateParts DEF LimiterInv, Begun
      <4> QED
        BY <3>a, <4>1, GateParts, AdmissionType
    <3>1. PICK x : /\ admitted'[c] = x /\ x # << >>
                   /\ \A i \in DOMAIN x : x[i] = e \/ \E j \in DOMAIN q : x[i] = q[j]
      <4>1. admitted'[c] = Append(q, e)
        BY <1>1, <3>a, Counted
      <4>2. /\ Append(q, e) # << >>
            /\ \A i \in DOMAIN Append(q, e) :
                  Append(q, e)[i] = e \/ \E j \in DOMAIN q : Append(q, e)[i] = q[j]
        BY <3>0, AppendProperties
      <4> QED
        BY <4>1, <4>2
    <3>4. time' = t
      BY <2>1, <3>a
    <3>2. CASE windows'[c] = [count |-> 1, resetAt |-> t + Window]
      <4>1. windows'[c].count = 1 /\ windows'[c].resetAt = t + Window
        BY <3>2
      <4>2. \A i \in DOMAIN x : x[i].at <= t /\ x[i].at <= t + Window
        BY <3>0, <3>1
      <4> QED
        BY <3>0, <3>1, <3>4, <4>1, <4>2 DEF Begun
    <3>3. CASE /\ windows'[c] = [count |-> windows[c].count + 1, resetAt |-> r]
               /\ windows[c].count > 0 /\ t <= r
      <4>1. windows'[c].count = windows[c].count + 1 /\ windows'[c].resetAt = r
        BY <3>3
      <4>2. \A i \in DOMAIN x : x[i].at <= t /\ x[i].at <= r
        BY <3>0, <3>1, <3>3
      <4>3. r - Window <= t
        BY <3>a, <3>3 DEF LimiterInv, Begun
      <4> QED
        BY <3>0, <3>1, <3>4, <4>1, <4>2, <4>3 DEF Begun
    <3> QED
      BY <1>1, <3>a, <3>2, <3>3, Counted
  <2>3. ASSUME NEW d \in Clients \ {c}
        PROVE  Begun(d)' /\ \A l \in Limiters : Budget(d, l)' /\ Twice(d, l)'
    <3>1. windows'[d] = windows[d] /\ admitted'[d] = admitted[d]
      BY <1>1, Counted
    <3> QED
      BY <2>1, <3>1 DEF LimiterInv, Begun, Budget, Twice
  <2>4. \A l \in Limiters : Budget(c, l)' /\ Twice(c, l)'
    BY <1>1, BudgetCounted, TwiceCounted
  <2> QED
    BY <2>2, <2>3, <2>4 DEF LimiterInv
<1>2. CASE UNCHANGED << windows, admitted >> /\ time' \in Nat /\ time <= time'
  <2>1. \A c \in Clients : Begun(c)'
    <3> TAKE c \in Clients
    <3> QED
      BY <1>0, <1>2, GateParts DEF LimiterInv, Begun
  <2>2. \A c \in Clients, l \in Limiters : Budget(c, l)' /\ Twice(c, l)'
    BY <1>2 DEF LimiterInv, Budget, Twice
  <2> QED
    BY <2>1, <2>2 DEF LimiterInv
<1>3. CASE PassTime
  BY <1>0, <1>2, <1>3 DEF PassTime
<1>4. CASE UNCHANGED << windows, admitted, time >>
  BY <1>0, <1>2, <1>4
<1> QED
  BY <1>1, <1>3, <1>4 DEF GateNext, Authenticate, LookUpKey, MarkKey, ExpireKey, gateVars

ClaimCall == [at : {"new", "exists", "mark", "handler", "refused"}, wallet : Somebody,
              key : Keys, after : SUBSET ClaimRequests]

(* A claim that moves: the others stay, and it keeps its key. *)
ClaimMoves(r, place, wallet, after) ==
    /\ claimRequest' \in [ClaimRequests -> ClaimCall]
    /\ claimRequest'[r] = [at |-> place, wallet |-> wallet, key |-> claimRequest[r].key, after |-> after]
    /\ \A s \in ClaimRequests \ {r} : claimRequest'[s] = claimRequest[s]

LEMMA ClaimSteps ==
    ASSUME GateTypeOK, NEW r \in ClaimRequests,
           NEW place \in {"new", "exists", "mark", "handler", "refused"}
    PROVE  /\ claimRequest' = [claimRequest EXCEPT ![r].at = place]
                => ClaimMoves(r, place, claimRequest[r].wallet, claimRequest[r].after)
           /\ \A w \in Somebody :
                 claimRequest' = [claimRequest EXCEPT ![r].wallet = w, ![r].at = place]
                    => ClaimMoves(r, place, w, claimRequest[r].after)
           /\ \A S \in SUBSET ClaimRequests :
                 claimRequest' = [claimRequest EXCEPT ![r].at = place, ![r].after = S]
                    => ClaimMoves(r, place, claimRequest[r].wallet, S)
<1> DEFINE old == claimRequest[r]
<1>0. /\ claimRequest \in [ClaimRequests -> ClaimCall] /\ old \in ClaimCall
      /\ old = [at |-> old.at, wallet |-> old.wallet, key |-> old.key, after |-> old.after]
  BY DEF GateTypeOK, ClaimCall
<1>1. ASSUME NEW w \in Somebody, NEW S \in SUBSET ClaimRequests,
             claimRequest' = [claimRequest EXCEPT
                 ![r] = [at |-> place, wallet |-> w, key |-> old.key, after |-> S]]
      PROVE  ClaimMoves(r, place, w, S)
  <2> DEFINE new == [at |-> place, wallet |-> w, key |-> old.key, after |-> S]
  <2>1. new \in ClaimCall
    BY <1>0 DEF ClaimCall
  <2> HIDE DEF new
  <2>2. claimRequest'[r] = new /\ claimRequest' \in [ClaimRequests -> ClaimCall]
        /\ \A s \in ClaimRequests \ {r} : claimRequest'[s] = claimRequest[s]
    BY <1>0, <1>1, <2>1 DEF new
  <2> QED
    BY <2>2 DEF ClaimMoves, new
<1>2. old.wallet \in Somebody /\ old.after \in SUBSET ClaimRequests
  BY <1>0 DEF ClaimCall
<1>3. ASSUME claimRequest' = [claimRequest EXCEPT ![r].at = place]
      PROVE  ClaimMoves(r, place, old.wallet, old.after)
  <2>1. claimRequest' = [claimRequest EXCEPT
           ![r] = [at |-> place, wallet |-> old.wallet, key |-> old.key, after |-> old.after]]
    <3>1. claimRequest' = [claimRequest EXCEPT ![r] = [old EXCEPT !.at = place]]
      BY <1>3
    <3> HIDE DEF old
    <3>2. [old EXCEPT !.at = place]
            = [at |-> place, wallet |-> old.wallet, key |-> old.key, after |-> old.after]
      BY <1>0 DEF ClaimCall
    <3> QED
      BY <3>1, <3>2
  <2> QED
    BY <1>1, <1>2, <2>1
<1>4. ASSUME NEW w \in Somebody,
             claimRequest' = [claimRequest EXCEPT ![r].wallet = w, ![r].at = place]
      PROVE  ClaimMoves(r, place, w, old.after)
  <2>1. claimRequest' = [claimRequest EXCEPT
           ![r] = [at |-> place, wallet |-> w, key |-> old.key, after |-> old.after]]
    <3>1. claimRequest' = [claimRequest EXCEPT ![r] = [[old EXCEPT !.wallet = w] EXCEPT !.at = place]]
      BY <1>0, <1>4
    <3> HIDE DEF old
    <3>2. [[old EXCEPT !.wallet = w] EXCEPT !.at = place]
            = [at |-> place, wallet |-> w, key |-> old.key, after |-> old.after]
      <4> DEFINE mid == [old EXCEPT !.wallet = w]
      <4>1. mid = [at |-> old.at, wallet |-> w, key |-> old.key, after |-> old.after]
        BY <1>0 DEF ClaimCall
      <4> HIDE DEF mid
      <4>2. [mid EXCEPT !.at = place] = [at |-> place, wallet |-> w, key |-> old.key, after |-> old.after]
        BY <4>1
      <4> QED
        BY <4>2 DEF mid
    <3> QED
      BY <3>1, <3>2
  <2> QED
    BY <1>1, <1>2, <2>1
<1>5. ASSUME NEW S \in SUBSET ClaimRequests,
             claimRequest' = [claimRequest EXCEPT ![r].at = place, ![r].after = S]
      PROVE  ClaimMoves(r, place, old.wallet, S)
  <2>1. claimRequest' = [claimRequest EXCEPT
           ![r] = [at |-> place, wallet |-> old.wallet, key |-> old.key, after |-> S]]
    <3>1. claimRequest' = [claimRequest EXCEPT ![r] = [[old EXCEPT !.at = place] EXCEPT !.after = S]]
      BY <1>0, <1>5
    <3> HIDE DEF old
    <3>2. [[old EXCEPT !.at = place] EXCEPT !.after = S]
            = [at |-> place, wallet |-> old.wallet, key |-> old.key, after |-> S]
      <4> DEFINE mid == [old EXCEPT !.at = place]
      <4>1. mid = [at |-> place, wallet |-> old.wallet, key |-> old.key, after |-> old.after]
        BY <1>0 DEF ClaimCall
      <4> HIDE DEF mid
      <4>2. [mid EXCEPT !.after = S] = [at |-> place, wallet |-> old.wallet, key |-> old.key, after |-> S]
        BY <4>1
      <4> QED
        BY <4>2 DEF mid
    <3> QED
      BY <3>1, <3>2
  <2> QED
    BY <1>1, <1>2, <2>1
<1> QED
  BY <1>3, <1>4, <1>5

LEMMA GateMoves ==
    ASSUME GateTypeOK
    PROVE  /\ \A r \in ClaimRequests, w \in Somebody, s \in Somebody : Authenticate(r, w, s) =>
                 \E place \in {"exists", "refused"} : ClaimMoves(r, place, w, claimRequest[r].after)
           /\ \A r \in ClaimRequests : LookUpKey(r) =>
                 \/ ClaimMoves(r, "refused", claimRequest[r].wallet, claimRequest[r].after)
                 \/ /\ ClaimMoves(r, "mark", claimRequest[r].wallet, Before(r))
                    /\ claimRequest[r].key \in marked => Lapse
           /\ \A r \in ClaimRequests : MarkKey(r) =>
                 ClaimMoves(r, "handler", claimRequest[r].wallet, claimRequest[r].after)
<1>1. \A r \in ClaimRequests : Before(r) \in SUBSET ClaimRequests
  BY DEF Before
<1>2. ASSUME NEW r \in ClaimRequests, NEW w \in Somebody, NEW s \in Somebody, Authenticate(r, w, s)
      PROVE  \E place \in {"exists", "refused"} : ClaimMoves(r, place, w, claimRequest[r].after)
  <2>1. PICK place \in {"exists", "refused"} :
           claimRequest' = [claimRequest EXCEPT ![r].wallet = w, ![r].at = place]
    BY <1>2 DEF Authenticate
  <2> QED
    BY <2>1, ClaimSteps
<1>3. ASSUME NEW r \in ClaimRequests, LookUpKey(r)
      PROVE  \/ ClaimMoves(r, "refused", claimRequest[r].wallet, claimRequest[r].after)
             \/ /\ ClaimMoves(r, "mark", claimRequest[r].wallet, Before(r))
                /\ claimRequest[r].key \in marked => Lapse
  BY <1>1, <1>3, ClaimSteps DEF LookUpKey
<1>4. ASSUME NEW r \in ClaimRequests, MarkKey(r)
      PROVE  ClaimMoves(r, "handler", claimRequest[r].wallet, claimRequest[r].after)
  BY <1>4, ClaimSteps DEF MarkKey
<1> QED
  BY <1>2, <1>3, <1>4

LEMMA GateTypeStep ==
    ASSUME GateTypeOK, LimiterInv, [GateNext]_gateVars
    PROVE  GateTypeOK'
<1>0. lapses \in Nat /\ MaxLapses \in Nat /\ MaxTime \in Nat /\ Window \in Nat /\ time \in Nat
  BY GateAssumption DEF GateTypeOK
<1>1. CASE PassTime
  <2>1. /\ time' \in 0..MaxTime
        /\ UNCHANGED << holders, windows, admitted, claimRequest, marked, lapses >>
    BY <1>0, <1>1 DEF PassTime
  <2> QED
    BY <2>1 DEF GateTypeOK
<1>2. ASSUME NEW c \in Clients, NEW m \in Limiters, rateLimit(c, m) PROVE GateTypeOK'
  <2> DEFINE W == [count : Nat, resetAt : 0..(MaxTime + Window)]
  <2>a. PICK x, w : x = admitted'[c] /\ w = windows'[c]
    OBVIOUS
  <2>1. /\ admitted' = [admitted EXCEPT ![c] = x] /\ windows' = [windows EXCEPT ![c] = w]
        /\ UNCHANGED << holders, time, claimRequest, marked, lapses >>
    BY <1>2, <2>a DEF rateLimit, CountRequest, GateTypeOK
  <2>2. x \in Seq(Admission)
    <3>1. [by |-> m, at |-> time] \in Admission /\ admitted[c] \in Seq(Admission)
      BY AdmissionType, GateParts
    <3>2. \A q \in Seq(Admission), e \in Admission : Append(q, e) \in Seq(Admission)
      BY AppendProperties
    <3> QED
      BY <1>2, <2>a, <3>1, <3>2, Counted
  <2>3. w \in W
    <3>1. /\ time \in Nat /\ time <= MaxTime /\ windows[c].count \in Nat
          /\ windows[c].resetAt \in 0..(MaxTime + Window)
      BY <1>0, GateParts DEF GateTypeOK
    <3>2. CASE w = [count |-> 1, resetAt |-> time + Window]
      BY <1>0, <3>1, <3>2
    <3>3. CASE w = [count |-> windows[c].count + 1, resetAt |-> windows[c].resetAt]
      BY <1>0, <3>1, <3>3
    <3> QED
      BY <1>2, <2>a, <3>2, <3>3, Counted
  <2> HIDE DEF W
  <2>4. windows' \in [Clients -> W] /\ admitted' \in [Clients -> Seq(Admission)]
    <3>1. windows \in [Clients -> W] /\ admitted \in [Clients -> Seq(Admission)]
      BY DEF GateTypeOK, W, Admission
    <3> QED
      BY <2>1, <2>2, <2>3, <3>1
  <2> QED
    BY <2>1, <2>4 DEF GateTypeOK, W, Admission
<1>3. ASSUME NEW r \in ClaimRequests, NEW place, NEW w, NEW S, ClaimMoves(r, place, w, S),
             UNCHANGED << holders, time, windows, admitted >>,
             marked' \subseteq Keys, lapses' \in 0..MaxLapses
      PROVE  GateTypeOK'
  BY <1>3 DEF GateTypeOK, ClaimMoves, ClaimCall
<1>4. ASSUME NEW r \in ClaimRequests, NEW w \in Somebody, NEW s \in Somebody, Authenticate(r, w, s)
      PROVE  GateTypeOK'
  <2>1. /\ UNCHANGED << holders, time, windows, admitted >>
        /\ marked' \subseteq Keys /\ lapses' \in 0..MaxLapses
    BY <1>4 DEF Authenticate, GateTypeOK
  <2> QED
    BY <1>3, <1>4, <2>1, GateMoves
<1>5. ASSUME NEW r \in ClaimRequests, LookUpKey(r) PROVE GateTypeOK'
  <2>1. /\ UNCHANGED << holders, time, windows, admitted >>
        /\ marked' \subseteq Keys /\ lapses' \in 0..MaxLapses
    BY <1>0, <1>5 DEF LookUpKey, Lapse, GateTypeOK
  <2> QED
    BY <1>3, <1>5, <2>1, GateMoves
<1>6. ASSUME NEW r \in ClaimRequests, MarkKey(r) PROVE GateTypeOK'
  <2>1. claimRequest[r].key \in Keys
    BY DEF GateTypeOK
  <2>2. /\ UNCHANGED << holders, time, windows, admitted >>
        /\ marked' \subseteq Keys /\ lapses' \in 0..MaxLapses
    BY <1>0, <1>6, <2>1 DEF MarkKey, Lapse, GateTypeOK
  <2> QED
    BY <1>3, <1>6, <2>2, GateMoves
<1>7. ASSUME NEW k \in Keys, ExpireKey(k) PROVE GateTypeOK'
  <2>1. /\ marked' \subseteq Keys /\ lapses' \in 0..MaxLapses
        /\ UNCHANGED << holders, time, windows, admitted, claimRequest >>
    BY <1>0, <1>7 DEF ExpireKey, Lapse, GateTypeOK
  <2> QED
    BY <2>1 DEF GateTypeOK
<1>8. CASE UNCHANGED gateVars
  BY <1>8 DEF gateVars, GateTypeOK
<1> QED
  BY <1>1, <1>2, <1>4, <1>5, <1>6, <1>7, <1>8 DEF GateNext

LEMMA ClaimStep ==
    ASSUME GateTypeOK, ClaimInv, [GateNext]_gateVars
    PROVE  ClaimInv'
<1>0. lapses \in Nat /\ (lapses' = lapses \/ lapses' = lapses + 1)
  <2>1. lapses \in Nat
    BY GateAssumption DEF GateTypeOK
  <2>2. lapses' = lapses \/ lapses' = lapses + 1
    BY DEF GateNext, PassTime, rateLimit, Authenticate, LookUpKey, MarkKey, ExpireKey, Lapse, gateVars
  <2> QED
    BY <2>1, <2>2
<1> SUFFICES ASSUME lapses' = 0
             PROVE  \A r \in ClaimRequests :
                       /\ claimRequest'[r].after = {}
                       /\ Is(r, "handler")' => claimRequest'[r].key \in marked'
  BY DEF ClaimInv
<1>1. /\ lapses = 0 /\ ~ Lapse
      /\ \A r \in ClaimRequests :
            /\ claimRequest[r].after = {}
            /\ Is(r, "handler") => claimRequest[r].key \in marked
  BY <1>0 DEF ClaimInv, Lapse
<1>2. CASE UNCHANGED << claimRequest, marked >>
  BY <1>1, <1>2 DEF Is
<1>3. ASSUME NEW r \in ClaimRequests, NEW place, NEW w, ClaimMoves(r, place, w, {}),
             marked \subseteq marked', place = "handler" => claimRequest[r].key \in marked'
      PROVE  \A s \in ClaimRequests :
                       /\ claimRequest'[s].after = {}
                       /\ Is(s, "handler")' => claimRequest'[s].key \in marked'
  BY <1>1, <1>3 DEF ClaimMoves, Is
<1>4. ASSUME NEW r \in ClaimRequests, NEW w \in Somebody, NEW s \in Somebody, Authenticate(r, w, s)
      PROVE  \E place \in {"exists", "refused"} : ClaimMoves(r, place, w, {}) /\ marked' = marked
  <2>1. marked' = marked
    BY <1>4 DEF Authenticate
  <2> QED
    BY <1>1, <1>4, <2>1, GateMoves
<1>5. ASSUME NEW r \in ClaimRequests, LookUpKey(r)
      PROVE  \E place \in {"mark", "refused"} :
                ClaimMoves(r, place, claimRequest[r].wallet, {}) /\ marked' = marked
  <2>1. marked' = marked
    BY <1>5 DEF LookUpKey
  <2>2. CASE ClaimMoves(r, "refused", claimRequest[r].wallet, claimRequest[r].after)
    BY <1>1, <2>1, <2>2
  <2>3. CASE /\ ClaimMoves(r, "mark", claimRequest[r].wallet, Before(r))
             /\ claimRequest[r].key \in marked => Lapse
    <3>1. Before(r) = {}
      BY <1>1, <2>3 DEF Before
    <3> QED
      BY <2>1, <2>3, <3>1
  <2> QED
    BY <1>5, <2>2, <2>3, GateMoves
<1>6. ASSUME NEW r \in ClaimRequests, MarkKey(r)
      PROVE  /\ ClaimMoves(r, "handler", claimRequest[r].wallet, {})
             /\ marked \subseteq marked' /\ claimRequest[r].key \in marked'
  <2>1. marked' = marked \cup {claimRequest[r].key}
    BY <1>1, <1>6 DEF MarkKey
  <2> QED
    BY <1>1, <1>6, <2>1, GateMoves
<1>7. \A k \in Keys : ~ ExpireKey(k)
  BY <1>1 DEF ExpireKey
<1>8. CASE \E r \in ClaimRequests, w \in Somebody, s \in Somebody : Authenticate(r, w, s)
  BY <1>3, <1>4, <1>8
<1>9. CASE \E r \in ClaimRequests : LookUpKey(r)
  BY <1>3, <1>5, <1>9
<1>10. CASE \E r \in ClaimRequests : MarkKey(r)
  BY <1>3, <1>6, <1>10
<1>11. CASE PassTime \/ (\E c \in Clients, l \in Limiters : rateLimit(c, l)) \/ UNCHANGED gateVars
  BY <1>2, <1>11 DEF PassTime, rateLimit, gateVars
<1> QED
  BY <1>7, <1>8, <1>9, <1>10, <1>11 DEF GateNext

LEMMA GateInitInv ==
    ASSUME GateInit
    PROVE  GateIndInv
<1>1. GateTypeOK
  BY GateAssumption DEF GateInit, GateTypeOK, Somebody
<1>2. ASSUME NEW c \in Clients PROVE Begun(c) /\ \A l \in Limiters : Budget(c, l) /\ Twice(c, l)
  <2>1. windows[c].count = 0 /\ admitted[c] = << >>
    BY DEF GateInit
  <2>2. \A l, lo, hi : Cardinality(Span(admitted[c], l, lo, hi)) = 0
    <3>1. \A l, lo, hi : Span(admitted[c], l, lo, hi) = {}
      BY <2>1 DEF Span
    <3> QED
      BY <3>1, FS_EmptySet
  <2>3. \A l \in Limiters : 0 <= 2 * MaxOf[l]
    BY GateAssumption
  <2> QED
    BY <2>1, <2>2, <2>3 DEF Begun, Budget, Twice
<1>3. ClaimInv
  BY DEF GateInit, ClaimInv, Is
<1> QED
  BY <1>1, <1>2, <1>3 DEF GateIndInv, LimiterInv

LEMMA GateFollows ==
    ASSUME GateIndInv
    PROVE  GateInv
<1>1. WindowBudget
  <2>1. ASSUME NEW c \in Clients, NEW l \in Limiters, NEW from \in 0..MaxTime
        PROVE  Cardinality({i \in DOMAIN admitted[c] :
                  admitted[c][i].by = l /\ admitted[c][i].at \in from..(from + Window - 1)}) <= 2 * MaxOf[l]
    <3>1. {i \in DOMAIN admitted[c] :
              admitted[c][i].by = l /\ admitted[c][i].at \in from..(from + Window - 1)}
            = Span(admitted[c], l, from, from + Window - 1)
      <4>1. \A i \in DOMAIN admitted[c] : admitted[c][i].at \in Nat
        BY GateParts DEF GateIndInv
      <4>2. from \in Int /\ Window \in Nat
        BY GateAssumption
      <4> QED
        BY <4>1, <4>2 DEF Span
    <3> QED
      BY <3>1 DEF GateIndInv, LimiterInv, Twice
  <2> QED
    BY <2>1 DEF WindowBudget
<1>2. DuplicatesOverlap
  BY DEF GateIndInv, ClaimInv, DuplicatesOverlap
<1> QED
  BY <1>1, <1>2 DEF GateInv, GateIndInv

(* For any number of clients, limiters and claims: no span of a window's    *)
(* length lets more than two windows' worth of a limiter's requests         *)
(* through, and of two claims with one key the second is refused, unless a  *)
(* key expired, Redis failed, or they overlapped.                           *)
THEOREM GateIsKept == GateSpec => []GateInv
<1>1. GateInit => GateIndInv
  BY GateInitInv
<1>2. GateIndInv /\ [GateNext]_gateVars => GateIndInv'
  BY GateTypeStep, LimiterStep, ClaimStep DEF GateIndInv
<1>3. GateIndInv => GateInv
  BY GateFollows
<1> QED
  BY <1>1, <1>2, <1>3, PTL DEF GateSpec

-----------------------------------------------------------------------------
(* The admin pages (AdminPages). *)

NewCall(w, kind, row, of) ==
    [no |-> made + 1, kind |-> kind, by |-> w, row |-> row, of |-> of,
     at |-> "out", ok |-> FALSE, list |-> NoList]

LEMMA NewCallType ==
    ASSUME AdminTypeOK, made < MaxCalls, NEW w \in Addresses, NEW kind \in Kinds,
           NEW row \in Rows \cup {NoRow}, NEW of \in Rows \cup {NoRow}
    PROVE  /\ NewCall(w, kind, row, of) \in Call /\ made + 1 \in 0..MaxCalls
           /\ NewCall(w, kind, row, of).kind = kind
           /\ NewCall(w, kind, row, of).row = row /\ NewCall(w, kind, row, of).of = of
           /\ NewCall(w, kind, row, of).at = "out"
<1>1. made \in Nat /\ MaxCalls \in Nat /\ made + 1 \in 1..MaxCalls /\ made + 1 \in 0..MaxCalls
  BY AdminAssumption DEF AdminTypeOK
<1>2. NoList \in List
  BY DEF NoList, List
<1> QED
  BY <1>1, <1>2 DEF NewCall, Call

(* What a call that was served, or whose answer is back, still is. *)
LEMMA ServedCallType ==
    ASSUME NEW c \in Call, NEW ok \in BOOLEAN, NEW list \in List, NEW new,
           \/ new = [c EXCEPT !.at = "back", !.ok = ok, !.list = list]
           \/ new = [c EXCEPT !.at = "back"]
    PROVE  /\ new \in Call /\ new.at = "back"
           /\ new.kind = c.kind /\ new.row = c.row /\ new.of = c.of /\ new.by = c.by
           /\ new = [c EXCEPT !.at = "back", !.ok = ok, !.list = list] => new.ok = ok /\ new.list = list
<1>1. c = [no |-> c.no, kind |-> c.kind, by |-> c.by, row |-> c.row, of |-> c.of,
           at |-> c.at, ok |-> c.ok, list |-> c.list]
  BY DEF Call
<1>2. CASE new = [c EXCEPT !.at = "back"]
  BY <1>2 DEF Call
<1>3. CASE new = [c EXCEPT !.at = "back", !.ok = ok, !.list = list]
  BY <1>3 DEF Call
<1> QED
  BY <1>2, <1>3

(* The gate, the form and the spinners. *)
GateOpen ==
    /\ open => Opens(answeredFor)
    /\ \A c \in checks : c.opens => Opens(c.by)

(* Changes of this page: the newest list shown has the last one, an error   *)
(* is shown, or a call under way will load a list that has it, or fail.     *)
Brings(c) == c.kind # "fetch" \/ c.at = "out" \/ ~ c.ok \/ c.list.version >= lastOwn

ListInv ==
    /\ lastOwn <= stored.version
    /\ \A c \in calls : c.at = "out" => ~ c.ok
    /\ open => failed \/ newest >= lastOwn \/ \E c \in calls : Brings(c)

(* The ways a step may change the calls under way. *)
Adds(c) == calls' = calls \cup {c}
Ends(c) == calls' = calls \ {c}
Turns(c, new) == calls' = (calls \ {c}) \cup {new}

LEMMA AdminCallsStep ==
    ASSUME AdminTypeOK, AdminNext
    PROVE  /\ calls' \subseteq Call /\ made' \in 0..MaxCalls
<1>0. calls \subseteq Call /\ made \in 0..MaxCalls
  BY DEF AdminTypeOK
<1>1. ASSUME NEW w \in Addresses, NEW kind \in Kinds, NEW row \in Rows \cup {NoRow},
             NEW of \in Rows \cup {NoRow}, NEW rest \in SUBSET calls, Send(w, kind, row, of, rest)
      PROVE  calls' \subseteq Call /\ made' \in 0..MaxCalls
  <2>1. made < MaxCalls /\ made' = made + 1 /\ calls' = rest \cup {NewCall(w, kind, row, of)}
    BY <1>1 DEF Send, NewCall
  <2> QED
    BY <1>0, <2>1, NewCallType
<1>2. CASE UNCHANGED << calls, made >>
  BY <1>0, <1>2
<1>3. ASSUME NEW c \in checks, CheckBack(c) PROVE calls' \subseteq Call /\ made' \in 0..MaxCalls
  <2>1. \/ UNCHANGED << calls, made >>
        \/ account # NoAddress /\ Send(account, "fetch", NoRow, NoRow, calls)
    BY <1>3 DEF CheckBack, OnOpen, Fetch, listVars
  <2>2. account \in Somebody /\ (account # NoAddress => account \in Addresses)
    BY DEF AdminTypeOK, Somebody
  <2> QED
    BY <1>1, <1>2, <2>1, <2>2 DEF Kinds
<1>4. Usable => account \in Addresses
  BY DEF Usable, AdminTypeOK, Somebody
<1>5. ASSUME NEW kind \in Kinds, NEW row \in Rows, PressRow(kind, row)
      PROVE  calls' \subseteq Call /\ made' \in 0..MaxCalls
  BY <1>1, <1>4, <1>5 DEF PressRow
<1>6. CASE handleSubmit
  <2>1. editing \in Rows \cup {NoRow} /\ form \in Rows \cup {NoRow}
    BY DEF AdminTypeOK
  <2> QED
    BY <1>1, <1>4, <1>6, <2>1 DEF handleSubmit, Kinds
<1>7. ASSUME NEW c \in calls, Served(c) PROVE calls' \subseteq Call /\ made' \in 0..MaxCalls
  <2>1. PICK new : Turns(c, new) /\ new \in Call
    <3>1. stored \in List /\ NoList \in List /\ c \in Call
      BY <1>0 DEF AdminTypeOK, NoList, List
    <3>2. \/ calls' = (calls \ {c}) \cup {[c EXCEPT !.at = "back"]}
          \/ \E ok \in BOOLEAN, list \in List :
                calls' = (calls \ {c}) \cup {[c EXCEPT !.at = "back", !.ok = ok, !.list = list]}
      BY <1>7, <3>1 DEF Served
    <3>3. ASSUME NEW ok \in BOOLEAN, NEW list \in List,
                 calls' = (calls \ {c}) \cup {[c EXCEPT !.at = "back", !.ok = ok, !.list = list]}
          PROVE  \E new : Turns(c, new) /\ new \in Call
      <4>1. [c EXCEPT !.at = "back", !.ok = ok, !.list = list] \in Call
        BY ZenonT(40), <3>1, ServedCallType
      <4> QED
        BY <3>3, <4>1 DEF Turns
    <3>4. ASSUME calls' = (calls \ {c}) \cup {[c EXCEPT !.at = "back"]}
          PROVE  \E new : Turns(c, new) /\ new \in Call
      <4>1. [c EXCEPT !.at = "back"] \in Call
        BY <3>1, ServedCallType
      <4> QED
        BY <3>4, <4>1 DEF Turns
    <3> QED
      BY <3>2, <3>3, <3>4
  <2>2. made' = made
    BY <1>7 DEF Served
  <2> QED
    BY <1>0, <2>1, <2>2 DEF Turns
<1>8. ASSUME NEW c \in calls, FetchBack(c) \/ SaveBack(c) \/ RowBack(c)
      PROVE  calls' \subseteq Call /\ made' \in 0..MaxCalls
  <2>1. c.by \in Addresses
    BY <1>0 DEF Call
  <2>2. \/ calls' = calls \ {c} /\ made' = made
        \/ Send(c.by, "fetch", NoRow, NoRow, calls \ {c})
    BY <1>8 DEF FetchBack, SaveBack, RowBack, Fetch
  <2> QED
    BY <1>0, <1>1, <2>1, <2>2 DEF Kinds
<1> QED
  BY <1>2, <1>3, <1>5, <1>6, <1>7, <1>8
     DEF AdminNext, SwitchAccount, CheckServed, startEdit, ToggleForm, StoredElsewhere, listVars

LEMMA OpensMeans ==
    ASSUME NEW w
    PROVE  /\ Opens(w) \in BOOLEAN
           /\ Opens(w) <=> IF adminPage = "verification" THEN isAdmin(w)
                           ELSE isAdmin(w) \/ isGov(w) \/ isOperator(w)
<1>1. isAdmin(w) \in BOOLEAN /\ (isAdmin(w) \/ isGov(w) \/ isOperator(w)) \in BOOLEAN
  BY DEF isAdmin, hasRole
<1>2. /\ CheckRole(w).isAdmin = isAdmin(w)
      /\ CheckRole(w).isAuthorized = (isAdmin(w) \/ isGov(w) \/ isOperator(w))
  BY DEF CheckRole
<1> QED
  BY <1>1, <1>2, Zenon DEF Opens

LEMMA AdminGateStep ==
    ASSUME AdminTypeOK, GateOpen, AdminNext
    PROVE  /\ adminPage' = adminPage /\ account' \in Somebody /\ open' \in BOOLEAN
           /\ checkingRole' \in BOOLEAN /\ answeredFor' \in Somebody
           /\ checks' \subseteq [no : 1..MaxSwitches, by : Addresses, at : {"out", "back"}, opens : BOOLEAN]
           /\ switches' \in 0..MaxSwitches
           /\ GateOpen'
<1> DEFINE Check == [no : 1..MaxSwitches, by : Addresses, at : {"out", "back"}, opens : BOOLEAN]
<1>0. /\ adminPage \in {"tasks", "verification", "review"} /\ account \in Somebody
      /\ open \in BOOLEAN /\ checkingRole \in BOOLEAN /\ answeredFor \in Somebody
      /\ checks \subseteq Check /\ switches \in 0..MaxSwitches
      /\ MaxSwitches \in Nat /\ Addresses \subseteq Somebody
  BY AdminAssumption DEF AdminTypeOK, Somebody
<1>a. adminPage' = adminPage /\ holders' = holders
  BY DEF AdminNext, SwitchAccount, CheckServed, CheckBack, PressRow, startEdit, ToggleForm,
       handleSubmit, StoredElsewhere, Served, FetchBack, SaveBack, RowBack, gateVars
<1>b. \A w : Opens(w)' <=> Opens(w)
  BY <1>a DEF Opens, CheckRole, isAdmin, isGov, isOperator, hasRole
<1>c. CASE UNCHANGED gateOfPage
  BY <1>0, <1>a, <1>b, <1>c DEF gateOfPage, GateOpen
<1>d. CASE StoredElsewhere
  BY <1>0, <1>a, <1>b, <1>d DEF StoredElsewhere, GateOpen
<1>1. ASSUME NEW w \in Somebody, SwitchAccount(w)
      PROVE  /\ account' \in Somebody /\ open' \in BOOLEAN
             /\ checkingRole' \in BOOLEAN /\ answeredFor' \in Somebody
             /\ checks' \subseteq Check /\ switches' \in 0..MaxSwitches /\ GateOpen'
  <2>1. /\ account' = w /\ answeredFor' = answeredFor /\ switches' \in 0..MaxSwitches
        /\ switches' \in 1..MaxSwitches
    BY <1>0, <1>1 DEF SwitchAccount
  <2>2. CASE w = NoAddress
    <3>1. open' = FALSE /\ checkingRole' = FALSE /\ checks' = checks
      BY <1>1, <2>2 DEF SwitchAccount
    <3> QED
      BY <1>0, <1>a, <1>b, <2>1, <3>1 DEF GateOpen
  <2>3. CASE w # NoAddress
    <3> DEFINE new == [no |-> switches', by |-> w, at |-> "out", opens |-> FALSE]
    <3>1. checkingRole' = TRUE /\ open' = open /\ checks' = checks \cup {new}
      BY <1>1, <2>3 DEF SwitchAccount
    <3>2. new \in Check /\ ~ new.opens
      BY <1>0, <2>1, <2>3 DEF Somebody
    <3> HIDE DEF new
    <3>3. GateOpen'
      BY <1>a, <1>b, <2>1, <3>1, <3>2 DEF GateOpen
    <3> QED
      BY <1>0, <2>1, <3>1, <3>2, <3>3
  <2> QED
    BY <2>2, <2>3
<1>2. ASSUME NEW c \in checks, CheckServed(c)
      PROVE  /\ account' \in Somebody /\ open' \in BOOLEAN
             /\ checkingRole' \in BOOLEAN /\ answeredFor' \in Somebody
             /\ checks' \subseteq Check /\ switches' \in 0..MaxSwitches /\ GateOpen'
  <2>1. UNCHANGED << account, open, checkingRole, answeredFor, switches >>
    BY <1>2 DEF CheckServed
  <2>2. PICK opens \in {Opens(c.by), FALSE} :
           checks' = (checks \ {c}) \cup {[c EXCEPT !.at = "back", !.opens = opens]}
    BY <1>2 DEF CheckServed
  <2>3. c \in Check /\ opens \in BOOLEAN /\ (opens => Opens(c.by))
    <3>1. CASE opens = Opens(c.by)
      BY <1>0, <3>1, OpensMeans
    <3>2. CASE opens = FALSE
      BY <1>0, <3>2
    <3> QED
      BY <3>1, <3>2
  <2>4. PICK new : /\ new = [c EXCEPT !.at = "back", !.opens = opens]
                   /\ new \in Check /\ new.by = c.by /\ (new.opens => Opens(c.by))
    <3>1. [c EXCEPT !.at = "back", !.opens = opens]
            = [no |-> c.no, by |-> c.by, at |-> "back", opens |-> opens]
      <4> DEFINE mid == [c EXCEPT !.at = "back"]
      <4>1. mid = [no |-> c.no, by |-> c.by, at |-> "back", opens |-> c.opens]
        BY <2>3
      <4> HIDE DEF mid
      <4>2. [mid EXCEPT !.opens = opens] = [no |-> c.no, by |-> c.by, at |-> "back", opens |-> opens]
        BY <4>1
      <4> QED
        BY <4>2 DEF mid
    <3> QED
      BY <2>3, <3>1
  <2>5. checks' = (checks \ {c}) \cup {new}
    BY <2>2, <2>4
  <2>6. GateOpen'
    BY <1>a, <1>b, <2>1, <2>4, <2>5 DEF GateOpen
  <2> QED
    BY <1>0, <2>1, <2>4, <2>5, <2>6
<1>3. ASSUME NEW c \in checks, CheckBack(c)
      PROVE  /\ account' \in Somebody /\ open' \in BOOLEAN
             /\ checkingRole' \in BOOLEAN /\ answeredFor' \in Somebody
             /\ checks' \subseteq Check /\ switches' \in 0..MaxSwitches /\ GateOpen'
  <2>1. /\ checks' = checks \ {c} /\ open' = c.opens /\ checkingRole' = FALSE
        /\ answeredFor' = c.by /\ UNCHANGED << account, switches >>
    BY <1>3 DEF CheckBack
  <2>2. c.opens \in BOOLEAN /\ c.by \in Somebody
    BY <1>0
  <2>3. GateOpen'
    BY <1>a, <1>b, <2>1, Zenon DEF GateOpen
  <2> QED
    BY <1>0, <2>1, <2>2, <2>3
<1> HIDE DEF Check
<1> QED
  BY <1>a, <1>c, <1>d, <1>1, <1>2, <1>3
     DEF AdminNext, PressRow, startEdit, ToggleForm, handleSubmit, Served, FetchBack,
         SaveBack, RowBack, Check

(* How each step leaves the calls and what they say. *)
LEMMA AdminCallsMove ==
    ASSUME AdminTypeOK, AdminNext
    PROVE  \/ calls' = calls
           \/ \E w, kind, row, of :
                 /\ Adds(NewCall(w, kind, row, of))
                 /\ kind = "save" => (handleSubmit /\ row = editing /\ of = form)
           \/ \E c \in calls : Served(c)
           \/ \E c \in calls : c.at = "back" /\ (FetchBack(c) \/ SaveBack(c) \/ RowBack(c))
<1>1. ASSUME NEW w, NEW kind, NEW row, NEW of, Send(w, kind, row, of, calls)
      PROVE  Adds(NewCall(w, kind, row, of))
  BY <1>1 DEF Send, Adds, NewCall
<1>2. ASSUME NEW c \in checks, CheckBack(c)
      PROVE  calls' = calls \/ Adds(NewCall(account, "fetch", NoRow, NoRow))
  BY <1>1, <1>2 DEF CheckBack, OnOpen, Fetch, listVars
<1>3. ASSUME NEW kind \in Kinds, NEW row \in Rows, PressRow(kind, row)
      PROVE  kind # "save" /\ Adds(NewCall(account, kind, row, row))
  BY <1>1, <1>3 DEF PressRow, Buttons, TaskButtons, VerificationButtons, ReviewButtons
<1>4. handleSubmit => Adds(NewCall(account, "save", editing, form))
  BY <1>1 DEF handleSubmit
<1>5. \A c \in calls : FetchBack(c) \/ SaveBack(c) \/ RowBack(c) => c.at = "back"
  BY DEF FetchBack, SaveBack, RowBack, Back
<1>6. (\/ \E w \in Somebody : SwitchAccount(w)
       \/ \E c \in checks : CheckServed(c)
       \/ \E row \in Rows : startEdit(row)
       \/ ToggleForm \/ StoredElsewhere) => calls' = calls
  BY DEF SwitchAccount, CheckServed, startEdit, ToggleForm, StoredElsewhere, listVars
<1> QED
  BY <1>2, <1>3, <1>4, <1>5, <1>6 DEF AdminNext

LEMMA ServedTurns ==
    ASSUME AdminTypeOK, NEW c \in calls, Served(c), ~ c.ok
    PROVE  /\ made' = made /\ UNCHANGED << shown, newest, loading, failed, open >>
           /\ \E new :
                 /\ Turns(c, new) /\ new.at = "back" /\ new.kind = c.kind
                 /\ new.row = c.row /\ new.of = c.of
                 /\ (new.ok /\ new.kind = "fetch") => new.list = stored
           /\ c.kind = "fetch" => UNCHANGED storeVars
           /\ \/ UNCHANGED storeVars
              \/ /\ lastOwn' = stored.version + 1 /\ Possible(c)
                 /\ stored' = [version |-> stored.version + 1, rows |-> Changed(c)]
<1>0. c \in Call /\ stored \in List /\ NoList \in List /\ c.at = "out"
  BY DEF AdminTypeOK, NoList, List, Served
<1>1. /\ made' = made /\ UNCHANGED << shown, newest, loading, failed, open >>
      /\ c.kind = "fetch" => UNCHANGED storeVars
      /\ \/ UNCHANGED storeVars
         \/ /\ lastOwn' = stored.version + 1 /\ Possible(c)
            /\ stored' = [version |-> stored.version + 1, rows |-> Changed(c)]
  BY DEF Served, gateOfPage
<1>2. ASSUME calls' = (calls \ {c}) \cup {[c EXCEPT !.at = "back"]}
      PROVE  \E new : /\ Turns(c, new) /\ new.at = "back" /\ new.kind = c.kind
                      /\ new.row = c.row /\ new.of = c.of /\ ~ new.ok
  <2>1. /\ [c EXCEPT !.at = "back"].at = "back" /\ [c EXCEPT !.at = "back"].kind = c.kind
        /\ [c EXCEPT !.at = "back"].row = c.row /\ [c EXCEPT !.at = "back"].of = c.of
    BY <1>0 DEF Call
  <2>2. ~ [c EXCEPT !.at = "back"].ok
    BY <1>0 DEF Call
  <2> QED
    BY <1>2, <2>1, <2>2 DEF Turns
<1>3. ASSUME NEW ok \in BOOLEAN, NEW list \in List,
             list = IF ok /\ c.kind = "fetch" THEN stored ELSE NoList,
             calls' = (calls \ {c}) \cup {[c EXCEPT !.at = "back", !.ok = ok, !.list = list]}
      PROVE  \E new : /\ Turns(c, new) /\ new.at = "back" /\ new.kind = c.kind
                      /\ new.row = c.row /\ new.of = c.of
                      /\ (new.ok /\ new.kind = "fetch") => new.list = stored
  <2>1. PICK new : new = [c EXCEPT !.at = "back", !.ok = ok, !.list = list]
    OBVIOUS
  <2>2. /\ new.at = "back" /\ new.kind = c.kind /\ new.row = c.row /\ new.of = c.of
        /\ new.ok = ok /\ new.list = list
    BY <1>0, <2>1 DEF Call
  <2>3. (new.ok /\ new.kind = "fetch") => new.list = stored
    BY <1>3, <2>2, Zenon
  <2> QED
    BY <1>3, <2>1, <2>2, <2>3 DEF Turns
<1>4. \/ calls' = (calls \ {c}) \cup {[c EXCEPT !.at = "back"]}
      \/ \E ok \in BOOLEAN :
            calls' = (calls \ {c}) \cup {[c EXCEPT !.at = "back", !.ok = ok,
                            !.list = IF ok /\ c.kind = "fetch" THEN stored ELSE NoList]}
  BY DEF Served
<1>5. \A ok \in BOOLEAN : (IF ok /\ c.kind = "fetch" THEN stored ELSE NoList) \in List
  BY <1>0
<1>6. \E new : /\ Turns(c, new) /\ new.at = "back" /\ new.kind = c.kind
               /\ new.row = c.row /\ new.of = c.of
               /\ (new.ok /\ new.kind = "fetch") => new.list = stored
  <2>1. CASE calls' = (calls \ {c}) \cup {[c EXCEPT !.at = "back"]}
    BY <1>2, <2>1
  <2>2. ASSUME NEW ok \in BOOLEAN,
               calls' = (calls \ {c}) \cup {[c EXCEPT !.at = "back", !.ok = ok,
                            !.list = IF ok /\ c.kind = "fetch" THEN stored ELSE NoList]}
        PROVE  \E new : /\ Turns(c, new) /\ new.at = "back" /\ new.kind = c.kind
                        /\ new.row = c.row /\ new.of = c.of
                        /\ (new.ok /\ new.kind = "fetch") => new.list = stored
    BY <1>3, <1>5, <2>2
  <2> QED
    BY <1>4, <2>1, <2>2
<1> QED
  BY <1>1, <1>6

LEMMA ChangedRows ==
    ASSUME AdminTypeOK, NEW c \in Call, Possible(c)
    PROVE  [version |-> stored.version + 1, rows |-> Changed(c)] \in List
<1>1. stored.version \in Nat /\ stored.rows \subseteq Rows /\ c.row \in Rows \cup {NoRow}
  BY DEF AdminTypeOK, List, Call
<1>2. Changed(c) \subseteq Rows
  <2>1. CASE c.kind = "save"
    <3>1. c.row = NoRow => stored.rows # Rows
      BY <2>1 DEF Possible
    <3>2. c.row = NoRow => (CHOOSE r \in Rows \ stored.rows : TRUE) \in Rows
      BY <1>1, <3>1
    <3>3. Changed(c) = stored.rows \cup
             (IF c.row # NoRow THEN {} ELSE {CHOOSE r \in Rows \ stored.rows : TRUE})
      BY <2>1 DEF Changed
    <3> QED
      BY <1>1, <3>2, <3>3
  <2>2. CASE c.kind # "save"
    <3>1. Changed(c) = stored.rows \ {c.row} \/ Changed(c) = stored.rows
      BY <2>2 DEF Changed
    <3> QED
      BY <1>1, <3>1
  <2> QED
    BY <2>1, <2>2
<1> QED
  BY <1>1, <1>2 DEF List

LEMMA AdminRowsStep ==
    ASSUME AdminTypeOK, ListInv, AdminNext
    PROVE  /\ shown' \in List /\ stored' \in List /\ lastOwn' \in Nat /\ newest' \in Nat
           /\ loading' \in BOOLEAN /\ failed' \in BOOLEAN /\ showForm' \in BOOLEAN
           /\ editing' \in Rows \cup {NoRow} /\ form' \in Rows \cup {NoRow}
<1>0. /\ shown \in List /\ stored \in List /\ lastOwn \in Nat /\ newest \in Nat
      /\ loading \in BOOLEAN /\ failed \in BOOLEAN /\ showForm \in BOOLEAN
      /\ editing \in Rows \cup {NoRow} /\ form \in Rows \cup {NoRow} /\ calls \subseteq Call
  BY DEF AdminTypeOK
<1>1. editing' \in Rows \cup {NoRow} /\ form' \in Rows \cup {NoRow} /\ showForm' \in BOOLEAN
  BY <1>0 DEF AdminNext, SwitchAccount, CheckServed, CheckBack, PressRow, startEdit, ToggleForm,
       handleSubmit, StoredElsewhere, Served, FetchBack, SaveBack, RowBack, formVars, resetForm
<1>2. loading' \in BOOLEAN /\ failed' \in BOOLEAN
  BY <1>0 DEF AdminNext, SwitchAccount, CheckServed, CheckBack, PressRow, startEdit, ToggleForm,
       handleSubmit, StoredElsewhere, Served, FetchBack, SaveBack, RowBack, listVars, OnOpen, Fetch
<1>3. shown' \in List /\ newest' \in Nat
  <2>1. CASE UNCHANGED << shown, newest >>
    BY <1>0, <2>1
  <2>2. ASSUME NEW c \in calls, FetchBack(c) PROVE shown' \in List /\ newest' \in Nat
    <3>1. c.list \in List /\ c.list.version \in Nat
      BY <1>0 DEF Call, List
    <3> QED
      BY <1>0, <2>2, <3>1 DEF FetchBack
  <2> QED
    BY <2>1, <2>2 DEF AdminNext, SwitchAccount, CheckServed, CheckBack, PressRow, startEdit,
         ToggleForm, handleSubmit, StoredElsewhere, Served, SaveBack, RowBack, listVars, OnOpen
<1>4. stored' \in List /\ lastOwn' \in Nat
  <2>0. stored.version \in Nat /\ stored.rows \subseteq Rows
    BY <1>0 DEF List
  <2>1. CASE UNCHANGED storeVars
    BY <1>0, <2>1 DEF storeVars
  <2>2. CASE StoredElsewhere
    <3>1. stored' = [version |-> stored.version + 1, rows |-> stored.rows]
      BY <1>0, <2>2 DEF StoredElsewhere, List
    <3> QED
      BY <1>0, <2>0, <2>2, <3>1 DEF StoredElsewhere, List
  <2>3. ASSUME NEW c \in calls, Served(c) PROVE stored' \in List /\ lastOwn' \in Nat
    <3>1. ~ c.ok /\ c \in Call
      BY <1>0, <2>3 DEF Served, ListInv
    <3>2. \/ UNCHANGED storeVars
          \/ /\ lastOwn' = stored.version + 1 /\ Possible(c)
             /\ stored' = [version |-> stored.version + 1, rows |-> Changed(c)]
      BY <2>3, <3>1, ServedTurns
    <3> QED
      BY <2>0, <2>1, <3>1, <3>2, ChangedRows
  <2> QED
    BY <2>1, <2>2, <2>3 DEF AdminNext, SwitchAccount, CheckServed, CheckBack, PressRow, startEdit,
         ToggleForm, handleSubmit, FetchBack, SaveBack, RowBack
<1> QED
  BY <1>1, <1>2, <1>3, <1>4

(* The last change of the page stays within sight. *)
LEMMA ListStep ==
    ASSUME AdminTypeOK, ListInv, AdminNext
    PROVE  ListInv'
<1>0. /\ calls \subseteq Call /\ stored.version \in Nat /\ lastOwn \in Nat /\ newest \in Nat
      /\ \A c \in calls : c.list.version \in Nat /\ c.kind \in Kinds /\ c.at \in {"out", "back"}
  BY DEF AdminTypeOK, List, Call
<1>1. stored'.version \in Nat /\ lastOwn' <= stored'.version
  <2>0. lastOwn <= stored.version
    BY DEF ListInv
  <2>1. CASE UNCHANGED storeVars
    BY <1>0, <2>0, <2>1 DEF storeVars
  <2>2. CASE StoredElsewhere
    BY <1>0, <2>0, <2>2 DEF StoredElsewhere, AdminTypeOK, List
  <2>3. ASSUME NEW c \in calls, Served(c) PROVE stored'.version \in Nat /\ lastOwn' <= stored'.version
    <3>1. ~ c.ok
      BY <2>3 DEF Served, ListInv
    <3>2. \/ UNCHANGED storeVars
          \/ /\ lastOwn' = stored.version + 1
             /\ stored' = [version |-> stored.version + 1, rows |-> Changed(c)]
      BY <2>3, <3>1, ServedTurns
    <3> QED
      BY <1>0, <2>1, <3>2
  <2> QED
    BY <2>1, <2>2, <2>3 DEF AdminNext, SwitchAccount, CheckServed, CheckBack, PressRow, startEdit,
         ToggleForm, handleSubmit, FetchBack, SaveBack, RowBack
<1>2. \A w, kind, row, of : NewCall(w, kind, row, of).at = "out" /\ ~ NewCall(w, kind, row, of).ok
  BY DEF NewCall
<1>3. \A c \in calls' : c.at = "out" => ~ c.ok
  <2>1. ASSUME NEW c \in calls, Served(c) PROVE \A d \in calls' : d.at = "out" => ~ d.ok
    <3>1. ~ c.ok
      BY <2>1 DEF Served, ListInv
    <3>2. PICK new : Turns(c, new) /\ new.at = "back"
      BY <2>1, <3>1, ServedTurns
    <3> QED
      BY <3>2 DEF ListInv, Turns
  <2>2. ASSUME NEW c \in calls, FetchBack(c) \/ SaveBack(c) \/ RowBack(c)
        PROVE  \A d \in calls' : d.at = "out" => ~ d.ok
    <3>1. \/ calls' = calls \ {c}
          \/ calls' = (calls \ {c}) \cup {NewCall(c.by, "fetch", NoRow, NoRow)}
      BY <2>2 DEF FetchBack, SaveBack, RowBack, Fetch, Send, NewCall
    <3> QED
      BY <1>2, <3>1 DEF ListInv
  <2> QED
    BY <1>2, <2>1, <2>2, AdminCallsMove DEF ListInv, Adds
<1> DEFINE Near == failed \/ newest >= lastOwn \/ \E c \in calls : Brings(c)
<1>4. ASSUME open => Near, open' => open, lastOwn' = lastOwn, newest' = newest,
             failed' = failed, calls \subseteq calls'
      PROVE  open' => Near'
  BY <1>4 DEF Brings
<1>5. ASSUME NEW c, c \in calls', c.at = "out" PROVE open' => Near'
  BY <1>5 DEF Brings
<1>6. open => Near
  BY DEF ListInv
<1> HIDE DEF Near
<1>7. failed' => Near'
  BY DEF Near
<1>8. ASSUME NEW w, NEW kind, NEW row, NEW of, NEW rest, Send(w, kind, row, of, rest)
      PROVE  open' => Near'
  <2>1. NewCall(w, kind, row, of) \in calls'
    BY <1>8 DEF Send, NewCall
  <2> QED
    BY <1>2, <1>5, <2>1
<1>9. ASSUME NEW w \in Somebody, SwitchAccount(w) PROVE open' => Near'
  <2>1. (open' => open) /\ UNCHANGED << lastOwn, newest, failed, calls >>
    BY <1>9 DEF SwitchAccount, listVars, storeVars
  <2> QED
    BY <1>4, <1>6, <2>1
<1>10. ASSUME NEW c \in checks, CheckServed(c) PROVE open' => Near'
  BY <1>4, <1>6, <1>10 DEF CheckServed, listVars, storeVars
<1>11. ASSUME NEW c \in checks, CheckBack(c) PROVE open' => Near'
  <2>1. CASE open' /\ ~ open
    BY <1>7, <1>8, <1>11, <2>1 DEF CheckBack, OnOpen, Fetch
  <2>2. CASE ~ (open' /\ ~ open)
    BY <1>4, <1>6, <1>11, <2>2 DEF CheckBack, OnOpen, listVars, storeVars
  <2> QED
    BY <2>1, <2>2
<1>12. ASSUME NEW kind \in Kinds, NEW row \in Rows, PressRow(kind, row) PROVE open' => Near'
  BY <1>8, <1>12 DEF PressRow
<1>13. ASSUME NEW row \in Rows, startEdit(row) PROVE open' => Near'
  BY <1>4, <1>6, <1>13 DEF startEdit, gateOfPage, listVars, storeVars
<1>14. ToggleForm => (open' => Near')
  BY <1>4, <1>6 DEF ToggleForm, gateOfPage, listVars, storeVars
<1>15. handleSubmit => (open' => Near')
  BY <1>8 DEF handleSubmit
<1>16. StoredElsewhere => (open' => Near')
  BY <1>4, <1>6 DEF StoredElsewhere, listVars
<1>17. ASSUME NEW c \in calls, Served(c) PROVE open' => Near'
  <2>1. ~ c.ok
    BY <1>17 DEF Served, ListInv
  <2>2. UNCHANGED << newest, failed, open >> /\ (c.kind = "fetch" => UNCHANGED storeVars)
    BY <1>17, <2>1, ServedTurns
  <2>3. PICK new : /\ Turns(c, new) /\ new.kind = c.kind
                   /\ (new.ok /\ new.kind = "fetch") => new.list = stored
    BY <1>17, <2>1, ServedTurns
  <2>4. CASE c.kind # "fetch"
    BY <2>3, <2>4 DEF Near, Brings, Turns
  <2>5. CASE c.kind = "fetch"
    <3>1. lastOwn' = lastOwn /\ stored.version >= lastOwn
      BY <1>0, <2>2, <2>5 DEF storeVars, ListInv
    <3>2. new \in calls' /\ (~ new.ok \/ new.list.version >= lastOwn')
      BY <2>3, <2>5, <3>1 DEF Turns
    <3> QED
      BY <3>2 DEF Near, Brings
  <2> QED
    BY <2>4, <2>5
<1>18. ASSUME NEW c \in calls, FetchBack(c) PROVE open' => Near'
  <2>1. open' = open /\ lastOwn' = lastOwn /\ calls' = calls \ {c} /\ c.kind = "fetch" /\ c.at = "back"
    BY <1>18 DEF FetchBack, Back, gateOfPage, storeVars
  <2>2. CASE ~ c.ok
    BY <1>7, <1>18, <2>2 DEF FetchBack
  <2>3. CASE c.ok
    <3>1. failed' = failed /\ newest' = IF c.list.version > newest THEN c.list.version ELSE newest
      BY <1>18, <2>3 DEF FetchBack
    <3>2. newest' >= newest /\ newest' >= c.list.version /\ newest' \in Nat
      BY <1>0, <3>1
    <3>3. Brings(c) => newest' >= lastOwn'
      BY <1>0, <2>1, <2>3, <3>2 DEF Brings
    <3>4. \A d \in calls \ {c} : Brings(d) => d \in calls' /\ Brings(d)'
      BY <2>1 DEF Brings
    <3>5. newest >= lastOwn => newest' >= lastOwn'
      BY <1>0, <2>1, <3>2
    <3> QED
      BY <1>6, <2>1, <3>1, <3>3, <3>4, <3>5 DEF Near
  <2> QED
    BY <2>2, <2>3
<1>19. ASSUME NEW c \in calls, SaveBack(c) \/ RowBack(c) PROVE open' => Near'
  BY <1>7, <1>8, <1>19 DEF SaveBack, RowBack, Fetch
<1>20. open' => Near'
  BY <1>9, <1>10, <1>11, <1>12, <1>13, <1>14, <1>15, <1>16, <1>17, <1>18, <1>19
     DEF AdminNext
<1> QED
  BY <1>1, <1>3, <1>20 DEF ListInv, Near

LEMMA FormStep ==
    ASSUME AdminTypeOK, ListInv, FormMatchesTask, AdminNext
    PROVE  FormMatchesTask'
<1>1. showForm' => form' = editing'
  <2>1. UNCHANGED formVars => (showForm' => form' = editing')
    BY DEF formVars, FormMatchesTask
  <2>2. ASSUME NEW row \in Rows, startEdit(row) PROVE form' = editing'
    BY <2>2 DEF startEdit
  <2>3. ToggleForm => form' = editing'
    BY DEF ToggleForm, resetForm
  <2>4. ASSUME NEW c \in calls, SaveBack(c) PROVE showForm' => form' = editing'
    BY <2>1, <2>4 DEF SaveBack
  <2>5. ASSUME \/ \E w \in Somebody : SwitchAccount(w)
               \/ \E c \in checks : CheckServed(c) \/ CheckBack(c)
               \/ \E kind \in Kinds, row \in Rows : PressRow(kind, row)
               \/ handleSubmit \/ StoredElsewhere
               \/ \E c \in calls : Served(c) \/ FetchBack(c) \/ RowBack(c)
        PROVE  UNCHANGED formVars
    BY <2>5 DEF SwitchAccount, CheckServed, CheckBack, PressRow, handleSubmit, StoredElsewhere,
         Served, FetchBack, RowBack
  <2> QED
    BY <2>1, <2>2, <2>3, <2>4, <2>5 DEF AdminNext
<1>2. \A c \in calls : c.kind = "save" => c.of = c.row
  BY DEF FormMatchesTask
<1>3. \A c \in calls' : c.kind = "save" => c.of = c.row
  <2>1. \A w, kind, row, of :
            /\ NewCall(w, kind, row, of).kind = kind
            /\ NewCall(w, kind, row, of).row = row /\ NewCall(w, kind, row, of).of = of
    BY DEF NewCall
  <2>2. ASSUME NEW w, NEW kind, NEW row, NEW of, Adds(NewCall(w, kind, row, of)),
               kind = "save" => (handleSubmit /\ row = editing /\ of = form)
        PROVE  \A c \in calls' : c.kind = "save" => c.of = c.row
    BY <1>2, <2>1, <2>2 DEF Adds, handleSubmit, FormMatchesTask
  <2>3. ASSUME NEW c \in calls, Served(c) PROVE \A d \in calls' : d.kind = "save" => d.of = d.row
    <3>1. ~ c.ok
      BY <2>3 DEF Served, ListInv
    <3>2. PICK new : Turns(c, new) /\ new.kind = c.kind /\ new.row = c.row /\ new.of = c.of
      BY <2>3, <3>1, ServedTurns
    <3> QED
      BY <1>2, <3>2 DEF Turns
  <2>4. ASSUME NEW c \in calls, FetchBack(c) \/ SaveBack(c) \/ RowBack(c)
        PROVE  \A d \in calls' : d.kind = "save" => d.of = d.row
    <3>1. \/ calls' = calls \ {c}
          \/ calls' = (calls \ {c}) \cup {NewCall(c.by, "fetch", NoRow, NoRow)}
      BY <2>4 DEF FetchBack, SaveBack, RowBack, Fetch, Send, NewCall
    <3> QED
      BY <1>2, <2>1, <3>1
  <2> QED
    BY <1>2, <2>2, <2>3, <2>4, AdminCallsMove
<1> QED
  BY <1>1, <1>3 DEF FormMatchesTask

LEMMA SpinnersStep ==
    ASSUME AdminTypeOK, ListInv, SpinnersHaveCause, AdminNext
    PROVE  SpinnersHaveCause'
<1> DEFINE Loads == \E c \in calls : c.kind \in {"fetch", "save"}
           Checks == \E c \in checks : c.by = account
<1>0. (loading => Loads) /\ (checkingRole => Checks)
  BY DEF SpinnersHaveCause
<1>1. ASSUME UNCHANGED << checkingRole, checks, account >> PROVE checkingRole' => Checks'
  BY <1>0, <1>1
<1>2. ASSUME loading' = loading, calls \subseteq calls' PROVE loading' => Loads'
  BY <1>0, <1>2
<1>3. ASSUME NEW w, NEW kind \in {"fetch", "save"}, NEW row, NEW of, NEW rest,
             Send(w, kind, row, of, rest)
      PROVE  loading' => Loads'
  <2>1. NewCall(w, kind, row, of) \in calls' /\ NewCall(w, kind, row, of).kind = kind
    BY <1>3 DEF Send, NewCall
  <2> QED
    BY <2>1
<1> HIDE DEF Loads, Checks
<1>4. ASSUME NEW w \in Somebody, SwitchAccount(w) PROVE checkingRole' => Checks'
  <2>1. CASE w = NoAddress
    BY <1>4, <2>1 DEF SwitchAccount
  <2>2. CASE w # NoAddress
    <3> DEFINE new == [no |-> switches', by |-> w, at |-> "out", opens |-> FALSE]
    <3>1. new \in checks' /\ new.by = account'
      BY <1>4, <2>2 DEF SwitchAccount
    <3> QED
      BY <3>1 DEF Checks
  <2> QED
    BY <2>1, <2>2
<1>5. ASSUME NEW c \in checks, CheckServed(c) PROVE checkingRole' => Checks'
  <2>1. c \in [no : 1..MaxSwitches, by : Addresses, at : {"out", "back"}, opens : BOOLEAN]
    BY DEF AdminTypeOK
  <2>2. PICK opens \in {Opens(c.by), FALSE} :
           checks' = (checks \ {c}) \cup {[c EXCEPT !.at = "back", !.opens = opens]}
    BY <1>5 DEF CheckServed
  <2>3. [c EXCEPT !.at = "back", !.opens = opens].by = c.by
    BY <2>1
  <2>4. account' = account /\ checkingRole' = checkingRole
    BY <1>5 DEF CheckServed
  <2>5. PICK new : new.by = c.by /\ checks' = (checks \ {c}) \cup {new}
    BY <2>2, <2>3
  <2> QED
    BY <1>0, <2>4, <2>5 DEF Checks
<1>6. ASSUME NEW c \in checks, CheckBack(c)
      PROVE  (checkingRole' => Checks') /\ (loading' => Loads')
  <2>1. checkingRole' = FALSE
    BY <1>6 DEF CheckBack
  <2>2. loading' => Loads'
    <3>1. CASE UNCHANGED listVars
      BY <1>2, <3>1 DEF listVars
    <3>2. CASE loading' = FALSE
      BY <3>2
    <3>3. CASE Fetch(account, calls)
      BY <1>3, <3>3 DEF Fetch
    <3> QED
      BY <1>6, <3>1, <3>2, <3>3 DEF CheckBack, OnOpen
  <2> QED
    BY <2>1, <2>2
<1>7. ASSUME NEW kind \in Kinds, NEW row \in Rows, PressRow(kind, row) PROVE loading' => Loads'
  BY <1>2, <1>7 DEF PressRow, Send
<1>8. handleSubmit => (loading' => Loads')
  BY <1>3 DEF handleSubmit
<1>9. ASSUME NEW c \in calls, Served(c) PROVE loading' => Loads'
  <2>1. ~ c.ok
    BY <1>9 DEF Served, ListInv
  <2>2. PICK new : Turns(c, new) /\ new.kind = c.kind
    BY <1>9, <2>1, ServedTurns
  <2>3. loading' = loading
    BY <1>9, <2>1, ServedTurns
  <2> QED
    BY <1>0, <2>2, <2>3 DEF Loads, Turns
<1>10. ASSUME NEW c \in calls, FetchBack(c) \/ SaveBack(c) PROVE loading' => Loads'
  BY <1>10 DEF FetchBack, SaveBack
<1>11. ASSUME NEW c \in calls, RowBack(c) PROVE loading' => Loads'
  <2>1. CASE c.ok
    BY <1>3, <1>11, <2>1 DEF RowBack, Fetch
  <2>2. CASE ~ c.ok
    BY <1>0, <1>11, <2>2 DEF RowBack, Loads
  <2> QED
    BY <2>1, <2>2
<1>12. ASSUME \/ \E w \in Somebody : SwitchAccount(w)
              \/ \E c \in checks : CheckServed(c)
              \/ \E row \in Rows : startEdit(row)
              \/ ToggleForm \/ StoredElsewhere
       PROVE  loading' => Loads'
  BY <1>2, <1>12 DEF SwitchAccount, CheckServed, startEdit, ToggleForm, StoredElsewhere, listVars
<1>13. ASSUME \/ \E kind \in Kinds, row \in Rows : PressRow(kind, row)
              \/ \E row \in Rows : startEdit(row)
              \/ ToggleForm \/ handleSubmit \/ StoredElsewhere
              \/ \E c \in calls : Served(c) \/ FetchBack(c) \/ SaveBack(c) \/ RowBack(c)
       PROVE  checkingRole' => Checks'
  BY <1>1, <1>13 DEF PressRow, startEdit, ToggleForm, handleSubmit, StoredElsewhere, Served,
       FetchBack, SaveBack, RowBack, gateOfPage
<1> QED
  BY <1>4, <1>5, <1>6, <1>7, <1>8, <1>9, <1>10, <1>11, <1>12, <1>13
     DEF AdminNext, SpinnersHaveCause, Loads, Checks

AdminIndInv ==
    AdminTypeOK /\ GateOpen /\ ListInv /\ FormMatchesTask /\ SpinnersHaveCause

LEMMA AdminInitInv ==
    ASSUME AdminInit
    PROVE  AdminIndInv
<1>1. NoList \in List
  BY DEF NoList, List
<1>2. stored \in List /\ stored.version = 0
  BY DEF AdminInit, List
<1>3. AdminTypeOK
  <2>1. /\ adminPage \in {"tasks", "verification", "review"} /\ account \in Somebody
        /\ open \in BOOLEAN /\ checkingRole \in BOOLEAN /\ answeredFor \in Somebody
    BY DEF AdminInit, Somebody
  <2>2. checks = {} /\ calls = {}
    BY DEF AdminInit
  <2>3. shown \in List /\ stored \in List /\ lastOwn \in Nat /\ newest \in Nat
    BY <1>1, <1>2 DEF AdminInit
  <2>4. /\ loading \in BOOLEAN /\ failed \in BOOLEAN /\ showForm \in BOOLEAN
        /\ editing \in Rows \cup {NoRow} /\ form \in Rows \cup {NoRow}
    BY DEF AdminInit
  <2>5. made \in 0..MaxCalls /\ switches \in 0..MaxSwitches
    BY AdminAssumption DEF AdminInit
  <2> QED
    BY <2>1, <2>2, <2>3, <2>4, <2>5 DEF AdminTypeOK
<1>4. GateOpen
  BY DEF AdminInit, GateOpen
<1>5. ListInv
  BY <1>2 DEF AdminInit, ListInv
<1>6. FormMatchesTask /\ SpinnersHaveCause
  BY DEF AdminInit, FormMatchesTask, SpinnersHaveCause
<1> QED
  BY <1>3, <1>4, <1>5, <1>6 DEF AdminIndInv

LEMMA AdminIndStep ==
    ASSUME AdminIndInv, [AdminNext]_<<gateVars, adminVars>>
    PROVE  AdminIndInv'
<1>1. CASE AdminNext
  <2>1. AdminTypeOK /\ GateOpen /\ ListInv /\ FormMatchesTask /\ SpinnersHaveCause
    BY DEF AdminIndInv
  <2>2. adminPage \in {"tasks", "verification", "review"}
    BY <2>1 DEF AdminTypeOK
  <2>3. AdminTypeOK'
    BY <1>1, <2>1, <2>2, AdminCallsStep, AdminGateStep, AdminRowsStep DEF AdminTypeOK
  <2>4. GateOpen'
    BY <1>1, <2>1, AdminGateStep
  <2> QED
    BY <1>1, <2>1, <2>3, <2>4, ListStep, FormStep, SpinnersStep DEF AdminIndInv
<1>2. CASE UNCHANGED << gateVars, adminVars >>
  <2>1. AdminTypeOK'
    BY <1>2 DEF AdminIndInv, AdminTypeOK, adminVars, gateVars
  <2>2. GateOpen' /\ ListInv'
    BY <1>2 DEF AdminIndInv, GateOpen, Opens, CheckRole, isAdmin, isGov, isOperator, hasRole,
         ListInv, Brings, adminVars, gateVars
  <2>3. FormMatchesTask' /\ SpinnersHaveCause'
    BY <1>2 DEF AdminIndInv, FormMatchesTask, SpinnersHaveCause, adminVars
  <2> QED
    BY <2>1, <2>2, <2>3 DEF AdminIndInv
<1> QED
  BY <1>1, <1>2

LEMMA AdminFollows ==
    ASSUME AdminIndInv
    PROVE  AdminPagesInv
<1>1. OpenPageIsServed
  <2>1. ASSUME Usable, answeredFor = account PROVE Serves(account)
    <3>1. Opens(account)
      BY <2>1 DEF Usable, AdminIndInv, GateOpen
    <3> QED
      BY <3>1, OpensMeans DEF Serves, requireAdmin, requireAdminOrGov
  <2> QED
    BY <2>1 DEF OpenPageIsServed
<1>2. ListCatchesUp
  <2>1. shown.version \in Nat /\ newest \in Nat /\ lastOwn \in Nat
    BY DEF AdminIndInv, AdminTypeOK, List
  <2> QED
    BY <2>1 DEF ListCatchesUp, Overtaken, AdminIndInv, ListInv
<1> QED
  BY <1>1, <1>2 DEF AdminPagesInv, AdminIndInv

(* Whatever the wallet does between a click and its answer, whatever is     *)
(* refused, late or lost: a page that is open on the wallet's own answer is *)
(* served, the list has the page's last change once all is answered, the    *)
(* form saves to the row it was loaded from, and every spinner ends.        *)
THEOREM AdminPagesAreSound == AdminSpec => []AdminPagesInv
<1>1. AdminInit => AdminIndInv
  BY AdminInitInv
<1>2. AdminIndInv /\ [AdminNext]_<<gateVars, adminVars>> => AdminIndInv'
  BY AdminIndStep
<1>3. AdminIndInv => AdminPagesInv
  BY AdminFollows
<1> QED
  BY <1>1, <1>2, <1>3, PTL DEF AdminSpec

-----------------------------------------------------------------------------
(***************************************************************************)
(* TaskCards.  While the wallet has not changed during a call, every call  *)
(* under way is the visitor's; so the list that ends one is the visitor's  *)
(* own, and what it leaves unshown is what missed says.                    *)
(***************************************************************************)
Submissions == [no : 1..MaxAsked, by : Visitors, task : CardTasks, crowded : BOOLEAN,
                at : {"out", "back", "load"}, ok : BOOLEAN]
Loads == [no : 1..MaxAsked, by : Visitors, at : {"tasks", "me", "back"},
          ok : BOOLEAN, has : SUBSET CardTasks]

(* A submission no other call crowds holds completingTask. *)
AloneHoldsButton ==
    \A s \in submissions : s.no <= asked /\ (~ s.crowded => completing = s.task)

CallsAreVisitors ==
    ~ crossed => (\A s \in submissions : s.by = visitor) /\ (\A l \in loads : l.by = visitor)

ShownOrUnsettled ==
    ~ missed /\ ~ crossed /\ visitor # NoVisitor
        => \/ accepted[visitor] \subseteq userTasks \/ tasksError
           \/ submissions # {} \/ loads # {}

CardIndInv ==
    CardTypeOK /\ DoubleSubmitNeedsAnother /\ AloneHoldsButton /\ CallsAreVisitors /\ ShownOrUnsettled

(* A record that is changed in one field. *)
LEMMA CrowdedOne ==
    ASSUME NEW s \in Submissions, NEW yes \in BOOLEAN
    PROVE  [s EXCEPT !.crowded = yes] = [no |-> s.no, by |-> s.by, task |-> s.task, crowded |-> yes,
                                         at |-> s.at, ok |-> s.ok]
BY DEF Submissions

(* Whoever is marked as crowded keeps the rest of what it is. *)
LEMMA CrowdKeeps ==
    ASSUME NEW S \in SUBSET Submissions
    PROVE  /\ Crowd(S) \in SUBSET Submissions
           /\ \A u \in Crowd(S) : /\ u.crowded
                                  /\ \E s \in S : u.no = s.no /\ u.by = s.by /\ u.task = s.task
<1>1. ASSUME NEW u \in Crowd(S)
      PROVE  u \in Submissions /\ u.crowded
             /\ \E s \in S : u.no = s.no /\ u.by = s.by /\ u.task = s.task
  <2>1. PICK s \in S : u = [s EXCEPT !.crowded = TRUE]
    BY DEF Crowd
  <2>2. PICK yes \in BOOLEAN : yes /\ u = [s EXCEPT !.crowded = yes]
    BY <2>1
  <2>3. u = [no |-> s.no, by |-> s.by, task |-> s.task, crowded |-> yes, at |-> s.at, ok |-> s.ok]
    BY <2>2, CrowdedOne
  <2> QED
    BY <2>2, <2>3 DEF Submissions
<1> QED
  BY <1>1

(* How a step moves the submissions: each is an earlier one, at most more  *)
(* crowded, and where one is not crowded completingTask is as it was.      *)
OldSubmission(u) ==
    \E s \in submissions :
        /\ u.no = s.no /\ u.by = s.by /\ u.task = s.task
        /\ u.crowded \/ (~ s.crowded /\ completing' = completing)
        /\ s.crowded => u.crowded

NewSubmission(u) ==
    /\ u.no = asked + 1 /\ asked' = asked + 1 /\ u.by = visitor /\ ~ u.crowded /\ completing' = u.task
    /\ completing # u.task

LEMMA TurnedSubmission ==
    ASSUME NEW s \in Submissions, NEW at \in {"out", "back", "load"}, NEW ok \in BOOLEAN
    PROVE  [s EXCEPT !.at = at, !.ok = ok] = [no |-> s.no, by |-> s.by, task |-> s.task, crowded |-> s.crowded,
                                              at |-> at, ok |-> ok]
<1> DEFINE mid == [s EXCEPT !.at = at]
<1>1. mid = [no |-> s.no, by |-> s.by, task |-> s.task, crowded |-> s.crowded, at |-> at, ok |-> s.ok]
  BY DEF Submissions
<1> HIDE DEF mid
<1>2. [mid EXCEPT !.ok = ok] = [no |-> s.no, by |-> s.by, task |-> s.task, crowded |-> s.crowded,
                                at |-> at, ok |-> ok]
  BY <1>1
<1> QED
  BY <1>2 DEF mid

LEMMA MovedSubmission ==
    ASSUME NEW s \in Submissions, NEW at \in {"out", "back", "load"}
    PROVE  [s EXCEPT !.at = at] = [no |-> s.no, by |-> s.by, task |-> s.task, crowded |-> s.crowded,
                                   at |-> at, ok |-> s.ok]
BY DEF Submissions

(* Where a submission only moves on. *)
LEMMA MoveOnStep ==
    ASSUME CardTypeOK, NEW s \in submissions, NEW new \in Submissions,
           new.no = s.no, new.by = s.by, new.task = s.task, new.crowded = s.crowded,
           submissions' = (submissions \ {s}) \cup {new}, completing' = completing
    PROVE  submissions' \subseteq Submissions /\ \A u \in submissions' : OldSubmission(u)
<1>1. submissions \subseteq Submissions
  BY DEF CardTypeOK, Submissions
<1>2. \A u \in Submissions : u.crowded \in BOOLEAN
  BY DEF Submissions
<1>3. ASSUME NEW u \in submissions PROVE OldSubmission(u)
  BY <1>1, <1>2, <1>3 DEF OldSubmission
<1>4. OldSubmission(new)
  BY <1>1, <1>2 DEF OldSubmission
<1> QED
  BY <1>1, <1>3, <1>4

(* Where some end and the others are crowded. *)
LEMMA CrowdStep ==
    ASSUME CardTypeOK, NEW S \in SUBSET submissions, submissions' = Crowd(S)
    PROVE  submissions' \subseteq Submissions /\ \A u \in submissions' : OldSubmission(u)
<1>1. S \in SUBSET Submissions
  BY DEF CardTypeOK, Submissions
<1>2. Crowd(S) \in SUBSET Submissions /\ \A u \in Crowd(S) : /\ u.crowded
             /\ \E s \in S : u.no = s.no /\ u.by = s.by /\ u.task = s.task
  BY <1>1, CrowdKeeps
<1> QED
  BY <1>2 DEF OldSubmission

LEMMA SubmissionsMove ==
    ASSUME CardTypeOK, AloneHoldsButton, CardNext
    PROVE  /\ submissions' \subseteq Submissions
           /\ \A u \in submissions' : OldSubmission(u) \/ NewSubmission(u)
           /\ asked' \in asked .. MaxAsked
<1>0. submissions \subseteq Submissions /\ asked \in 0 .. MaxAsked /\ MaxAsked \in Nat
  BY CardAssumption DEF CardTypeOK, Submissions
<1>1. \A s \in Submissions : s.crowded \in BOOLEAN /\ s.ok \in BOOLEAN
  BY DEF Submissions
<1>2. ASSUME UNCHANGED << submissions, completing >>
      PROVE  submissions' \subseteq Submissions /\ \A u \in submissions' : OldSubmission(u)
  BY <1>0, <1>1, <1>2 DEF OldSubmission
<1>3. AskBackend => asked' \in asked .. MaxAsked
  BY <1>0 DEF AskBackend
<1>4. UNCHANGED asked => asked' \in asked .. MaxAsked
  BY <1>0
<1>5. ASSUME NEW v \in Visitors \cup {NoVisitor}, ChangeVisitor(v)
      PROVE  /\ submissions' \subseteq Submissions /\ asked' \in asked .. MaxAsked
             /\ \A u \in submissions' : OldSubmission(u)
  BY <1>2, <1>3, <1>4, <1>5 DEF ChangeVisitor
<1>6. ASSUME NEW t \in CardTasks, handleStartTask(t)
      PROVE  /\ submissions' \subseteq Submissions /\ asked' \in asked .. MaxAsked
             /\ \A u \in submissions' : OldSubmission(u)
  BY <1>2, <1>4, <1>6 DEF handleStartTask
<1>7. ASSUME NEW t \in CardTasks, handleCompleteTask(t)
      PROVE  /\ submissions' \subseteq Submissions /\ asked' \in asked .. MaxAsked
             /\ \A u \in submissions' : OldSubmission(u) \/ NewSubmission(u)
  <2> DEFINE Others == {s \in submissions : s.task # t}
             Same == {s \in submissions : s.task = t}
  <2>1. submissions' = Crowd(Others) \cup Same \cup {Submission(t)}
    BY <1>7 DEF handleCompleteTask
  <2>2. /\ AskBackend /\ completing' = t /\ completing # t /\ visitor \in Visitors
    BY <1>7 DEF handleCompleteTask, CardHasButtons, CardTypeOK
  <2>3. asked' = asked + 1 /\ asked + 1 \in 1 .. MaxAsked
    BY <1>0, <2>2 DEF AskBackend
  <2>4. Others \in SUBSET Submissions /\ Same \in SUBSET Submissions
    BY <1>0
  <2>5. /\ Crowd(Others) \in SUBSET Submissions
        /\ \A u \in Crowd(Others) : /\ u.crowded
             /\ \E s \in Others : u.no = s.no /\ u.by = s.by /\ u.task = s.task
    BY <2>4, CrowdKeeps
  <2>6. \A u \in Crowd(Others) : OldSubmission(u)
    BY <2>5 DEF OldSubmission
  <2>7. \A u \in Same : OldSubmission(u)
    BY <1>0, <2>2 DEF AloneHoldsButton, OldSubmission
  <2>8. Submission(t) \in Submissions
    BY <2>2, <2>3 DEF Submission, Submissions
  <2>9. NewSubmission(Submission(t))
    BY <2>2, <2>3 DEF NewSubmission, Submission
  <2> HIDE DEF Others, Same
  <2>10. submissions' \subseteq Submissions /\ \A u \in submissions' : OldSubmission(u) \/ NewSubmission(u)
    BY <2>1, <2>4, <2>5, <2>6, <2>7, <2>8, <2>9
  <2> QED
    BY <1>3, <2>2, <2>10
<1>8. ASSUME NEW s \in submissions, SubmitServed(s)
      PROVE  /\ submissions' \subseteq Submissions /\ asked' \in asked .. MaxAsked
             /\ \A u \in submissions' : OldSubmission(u)
  <2>1. PICK new : /\ \/ \E ok \in BOOLEAN : new = [s EXCEPT !.at = "back", !.ok = ok]
                      \/ new = [s EXCEPT !.at = "back"]
                   /\ submissions' = (submissions \ {s}) \cup {new}
    BY <1>8 DEF SubmitServed
  <2>2. UNCHANGED << completing, asked >>
    BY <1>8 DEF SubmitServed
  <2>3. PICK ok \in BOOLEAN :
           new = [no |-> s.no, by |-> s.by, task |-> s.task, crowded |-> s.crowded, at |-> "back", ok |-> ok]
    <3>1. s \in Submissions /\ s.ok \in BOOLEAN
      BY <1>0, <1>1
    <3>2. CASE \E ok \in BOOLEAN : new = [s EXCEPT !.at = "back", !.ok = ok]
      <4>1. PICK ok \in BOOLEAN : new = [s EXCEPT !.at = "back", !.ok = ok]
        BY <3>2
      <4>2. new = [no |-> s.no, by |-> s.by, task |-> s.task, crowded |-> s.crowded, at |-> "back", ok |-> ok]
        BY <3>1, <4>1, TurnedSubmission
      <4> QED
        BY <4>2
    <3>3. CASE new = [s EXCEPT !.at = "back"]
      <4>1. new = [no |-> s.no, by |-> s.by, task |-> s.task, crowded |-> s.crowded, at |-> "back", ok |-> s.ok]
        BY <3>1, <3>3, MovedSubmission
      <4> QED
        BY <3>1, <4>1
    <3> QED
      BY <2>1, <3>2, <3>3
  <2>4. new \in Submissions /\ new.no = s.no /\ new.by = s.by /\ new.task = s.task /\ new.crowded = s.crowded
    BY <1>0, <2>3 DEF Submissions
  <2> QED
    BY <1>4, <2>1, <2>2, <2>4, MoveOnStep
<1>9. ASSUME NEW s \in submissions, SubmitBack(s)
      PROVE  /\ submissions' \subseteq Submissions /\ asked' \in asked .. MaxAsked
             /\ \A u \in submissions' : OldSubmission(u)
  <2>1. asked' \in asked .. MaxAsked
    BY <1>4, <1>9 DEF SubmitBack
  <2>2. CASE s.ok
    <3>1. PICK new : new = [s EXCEPT !.at = "load"] /\ submissions' = (submissions \ {s}) \cup {new}
      BY <1>9, <2>2 DEF SubmitBack
    <3>2. new = [no |-> s.no, by |-> s.by, task |-> s.task, crowded |-> s.crowded, at |-> "load", ok |-> s.ok]
      BY <1>0, <3>1, MovedSubmission
    <3>3. new \in Submissions /\ new.no = s.no /\ new.by = s.by /\ new.task = s.task /\ new.crowded = s.crowded
      BY <1>0, <3>2 DEF Submissions
    <3>4. completing' = completing
      BY <1>9, <2>2 DEF SubmitBack
    <3> QED
      BY <2>1, <3>1, <3>3, <3>4, MoveOnStep
  <2>3. CASE ~ s.ok
    <3>1. submissions' = Crowd(submissions \ {s})
      BY <1>9, <2>3 DEF SubmitBack
    <3> QED
      BY <2>1, <3>1, CrowdStep
  <2> QED
    BY <2>2, <2>3
<1>10. ASSUME NEW l \in loads, TasksAnswer(l) \/ MeServed(l) \/ MeAnswer(l)
       PROVE  /\ submissions' \subseteq Submissions /\ asked' \in asked .. MaxAsked
              /\ \A u \in submissions' : OldSubmission(u)
  <2>1. asked' \in asked .. MaxAsked
    BY <1>4, <1>10 DEF TasksAnswer, MeServed, MeAnswer
  <2>2. \/ UNCHANGED << submissions, completing >>
        \/ \E S \in SUBSET submissions : submissions' = Crowd(S)
    BY <1>10 DEF TasksAnswer, MeServed, MeAnswer, LoadEnds
  <2> QED
    BY <1>2, <2>1, <2>2, CrowdStep
<1>11. RetryTasks => /\ submissions' \subseteq Submissions /\ asked' \in asked .. MaxAsked
                     /\ \A u \in submissions' : OldSubmission(u)
  BY <1>2, <1>3 DEF RetryTasks
<1> QED
  BY <1>5, <1>6, <1>7, <1>8, <1>9, <1>10, <1>11 DEF CardNext

(* How a step moves the lists under way. *)
LEMMA LoadsMove ==
    ASSUME CardTypeOK, CardNext
    PROVE  /\ loads' \subseteq Loads
           /\ \A l \in loads' : \/ \E k \in loads : l.by = k.by
                                \/ \E s \in submissions : l.by = s.by
                                \/ l.by = visitor'
<1>0. /\ submissions \subseteq Submissions /\ loads \subseteq Loads /\ asked \in 0 .. MaxAsked
      /\ MaxAsked \in Nat /\ accepted \in [Visitors -> SUBSET CardTasks]
  BY CardAssumption DEF CardTypeOK, Submissions, Loads
<1> DEFINE Moves == /\ loads' \subseteq Loads
                    /\ \A l \in loads' : \/ \E k \in loads : l.by = k.by
                                         \/ \E s \in submissions : l.by = s.by
                                         \/ l.by = visitor'
<1>1. ASSUME loads' \subseteq loads PROVE Moves
  BY <1>0, <1>1
<1>2. ASSUME NEW v \in Visitors, NEW no \in 1 .. MaxAsked, fetchTasks(v, no),
             v = visitor' \/ \E s \in submissions : v = s.by
      PROVE  Moves
  <2>1. PICK new : /\ new = [no |-> no, by |-> v, at |-> "tasks", ok |-> FALSE, has |-> {}]
                   /\ loads' = loads \cup {new}
    BY <1>2 DEF fetchTasks
  <2>2. new \in Loads /\ new.by = v
    BY <2>1 DEF Loads
  <2> QED
    BY <1>0, <1>2, <2>1, <2>2
<1>3. ASSUME NEW l \in loads, NEW new \in Loads, new.by = l.by, loads' = (loads \ {l}) \cup {new}
      PROVE  Moves
  BY <1>0, <1>3
<1> HIDE DEF Moves
<1>4. AskBackend => asked + 1 \in 1 .. MaxAsked
  BY <1>0 DEF AskBackend
<1>5. ASSUME NEW v \in Visitors \cup {NoVisitor}, ChangeVisitor(v) PROVE Moves
  <2>1. CASE v = NoVisitor
    BY <1>1, <1>5, <2>1 DEF ChangeVisitor
  <2>2. CASE v # NoVisitor
    BY <1>2, <1>4, <1>5, <2>2 DEF ChangeVisitor
  <2> QED
    BY <2>1, <2>2
<1>6. ASSUME NEW t \in CardTasks, handleStartTask(t) \/ handleCompleteTask(t) PROVE Moves
  BY <1>1, <1>6 DEF handleStartTask, handleCompleteTask
<1>7. ASSUME NEW s \in submissions, SubmitServed(s) PROVE Moves
  BY <1>1, <1>7 DEF SubmitServed
<1>8. ASSUME NEW s \in submissions, SubmitBack(s) PROVE Moves
  <2>1. s.by \in Visitors /\ s.no \in 1 .. MaxAsked
    BY <1>0 DEF Submissions
  <2>2. CASE s.ok
    BY <1>2, <1>8, <2>1, <2>2 DEF SubmitBack
  <2>3. CASE ~ s.ok
    BY <1>1, <1>8, <2>3 DEF SubmitBack
  <2> QED
    BY <2>2, <2>3
<1>9. ASSUME NEW l \in loads, TasksAnswer(l) PROVE Moves
  <2>1. PICK new : new = [l EXCEPT !.at = "me"]
    OBVIOUS
  <2>2. new = [no |-> l.no, by |-> l.by, at |-> "me", ok |-> l.ok, has |-> l.has]
    BY <1>0, <2>1 DEF Loads
  <2>3. new \in Loads /\ new.by = l.by
    BY <1>0, <2>2 DEF Loads
  <2>4. loads' = loads \ {l} \/ loads' = (loads \ {l}) \cup {new}
    BY <1>9, <2>1 DEF TasksAnswer, LoadEnds
  <2> QED
    BY <1>1, <1>3, <2>3, <2>4
<1>10. ASSUME NEW l \in loads, MeServed(l) PROVE Moves
  <2>1. PICK ok \in BOOLEAN :
           loads' = (loads \ {l}) \cup {[l EXCEPT !.at = "back", !.ok = ok, !.has = accepted[l.by]]}
    BY <1>10 DEF MeServed
  <2>2. l.by \in Visitors /\ accepted[l.by] \in SUBSET CardTasks
    BY <1>0 DEF Loads
  <2> DEFINE one == [l EXCEPT !.at = "back"]
             two == [one EXCEPT !.ok = ok]
             three == [two EXCEPT !.has = accepted[l.by]]
  <2>3. one = [no |-> l.no, by |-> l.by, at |-> "back", ok |-> l.ok, has |-> l.has]
    BY <1>0 DEF Loads
  <2> HIDE DEF one
  <2>4. two = [no |-> l.no, by |-> l.by, at |-> "back", ok |-> ok, has |-> l.has]
    BY <2>3
  <2> HIDE DEF two
  <2>5. three = [no |-> l.no, by |-> l.by, at |-> "back", ok |-> ok, has |-> accepted[l.by]]
    BY <2>4
  <2>6. three \in Loads /\ three.by = l.by
    BY <1>0, <2>2, <2>5 DEF Loads
  <2>7. loads' = (loads \ {l}) \cup {three}
    BY <2>1 DEF one, two
  <2> HIDE DEF three
  <2> QED
    BY <1>3, <2>6, <2>7
<1>11. ASSUME NEW l \in loads, MeAnswer(l) PROVE Moves
  BY <1>1, <1>11 DEF MeAnswer, LoadEnds
<1>12. RetryTasks => Moves
  <2>1. ASSUME RetryTasks PROVE visitor \in Visitors /\ visitor' = visitor
    BY <2>1 DEF RetryTasks, CardTypeOK, viewVars
  <2> QED
    BY <1>2, <1>4, <2>1 DEF RetryTasks
<1> QED
  BY <1>5, <1>6, <1>7, <1>8, <1>9, <1>10, <1>11, <1>12 DEF CardNext, Moves

LEMMA CardTypeStep ==
    ASSUME CardTypeOK, AloneHoldsButton, CardNext
    PROVE  CardTypeOK'
<1>0. MaxVisits \in Nat
  BY CardAssumption
<1>1. submissions' \subseteq Submissions /\ asked' \in asked .. MaxAsked /\ loads' \subseteq Loads
  BY SubmissionsMove, LoadsMove
<1>2. asked' \in 0 .. MaxAsked
  BY <1>1, CardAssumption DEF CardTypeOK
<1>3. visitor' \in Visitors \cup {NoVisitor} /\ visits' \in 0 .. MaxVisits
  <2>1. visitor \in Visitors \cup {NoVisitor} /\ visits \in 0 .. MaxVisits
    BY DEF CardTypeOK
  <2>2. ASSUME NEW v \in Visitors \cup {NoVisitor}, ChangeVisitor(v)
        PROVE  visitor' \in Visitors \cup {NoVisitor} /\ visits' \in 0 .. MaxVisits
    BY <1>0, <2>1, <2>2 DEF ChangeVisitor
  <2>3. (\E v \in Visitors \cup {NoVisitor} : ChangeVisitor(v)) \/ UNCHANGED << visitor, visits >>
    BY DEF CardNext, handleStartTask, handleCompleteTask, SubmitServed, SubmitBack, TasksAnswer,
         MeServed, MeAnswer, RetryTasks, viewVars
  <2> QED
    BY <2>1, <2>2, <2>3
<1>4. \A l \in loads : l.has \subseteq CardTasks
  BY DEF CardTypeOK
<1>5. \A s \in submissions : s.task \in CardTasks
  BY DEF CardTypeOK
<1>6. userTasks' \subseteq CardTasks
  <2>1. \/ userTasks' \subseteq userTasks
        \/ \E s \in submissions : userTasks' = userTasks \cup {s.task}
        \/ \E l \in loads : userTasks' = l.has
    BY DEF CardNext, ChangeVisitor, handleStartTask, handleCompleteTask,
       SubmitServed, SubmitBack, TasksAnswer, MeServed, MeAnswer, RetryTasks
  <2> QED
    BY <1>4, <1>5, <2>1 DEF CardTypeOK
<1>7. started' \subseteq CardTasks /\ completing' \in CardTasks \cup {NoTask}
  BY DEF CardTypeOK, CardNext, ChangeVisitor, handleStartTask, handleCompleteTask, SubmitServed,
       SubmitBack, TasksAnswer, LoadEnds, MeServed, MeAnswer, RetryTasks, viewVars
<1>8. tasksLoading' \in BOOLEAN /\ tasksError' \in BOOLEAN
  BY DEF CardTypeOK, CardNext, ChangeVisitor, handleStartTask, handleCompleteTask, SubmitServed,
       SubmitBack, TasksAnswer, LoadEnds, MeServed, MeAnswer, RetryTasks, fetchTasks
<1>9. missed' \in BOOLEAN /\ crossed' \in BOOLEAN
  BY DEF CardTypeOK, CardNext, ChangeVisitor, handleStartTask, handleCompleteTask, SubmitServed,
       SubmitBack, TasksAnswer, MeServed, MeAnswer, RetryTasks, flagVars
<1>10. accepted' \in [Visitors -> SUBSET CardTasks]
  <2>1. ASSUME NEW s \in submissions, SubmitServed(s) PROVE accepted' \in [Visitors -> SUBSET CardTasks]
    <3>1. accepted \in [Visitors -> SUBSET CardTasks] /\ s.task \in CardTasks
      BY <1>5 DEF CardTypeOK
    <3>2. \/ accepted' = accepted
          \/ accepted' = [accepted EXCEPT ![s.by] = accepted[s.by] \cup {s.task}]
      BY <2>1 DEF SubmitServed
    <3> QED
      BY <3>1, <3>2
  <2> QED
    BY <2>1 DEF CardTypeOK, CardNext, ChangeVisitor, handleStartTask, handleCompleteTask,
         SubmitBack, TasksAnswer, MeServed, MeAnswer, RetryTasks
<1> QED
  BY <1>1, <1>2, <1>3, <1>6, <1>7, <1>8, <1>9, <1>10 DEF CardTypeOK, Submissions, Loads

LEMMA ButtonStep ==
    ASSUME CardTypeOK, DoubleSubmitNeedsAnother, AloneHoldsButton, CardNext
    PROVE  DoubleSubmitNeedsAnother' /\ AloneHoldsButton'
<1>0. /\ \A s \in submissions : s.no \in Nat /\ s.no <= asked
      /\ asked \in Nat /\ asked' \in Nat /\ asked' >= asked
      /\ \A u \in submissions' : u.no \in Nat
  BY SubmissionsMove, CardAssumption DEF CardTypeOK, AloneHoldsButton, Submissions
<1>1. \A u \in submissions' : OldSubmission(u) \/ NewSubmission(u)
  BY SubmissionsMove
<1>2. ASSUME NEW s \in submissions', NEW u \in submissions', s.no < u.no, s.task = u.task
      PROVE  s.crowded
  <2>1. CASE OldSubmission(s) /\ OldSubmission(u)
    BY <1>2, <2>1 DEF OldSubmission, DoubleSubmitNeedsAnother
  <2>2. CASE OldSubmission(s) /\ NewSubmission(u)
    BY <1>2, <2>2 DEF OldSubmission, NewSubmission, AloneHoldsButton
  <2>3. CASE NewSubmission(s)
    <3>1. s.no = asked + 1 /\ (OldSubmission(u) => u.no <= asked) /\ (NewSubmission(u) => u.no = asked + 1)
      BY <1>0, <2>3 DEF OldSubmission, NewSubmission
    <3> QED
      BY <1>0, <1>1, <1>2, <3>1
  <2> QED
    BY <1>1, <2>1, <2>2, <2>3
<1>3. ASSUME NEW u \in submissions' PROVE u.no <= asked' /\ (~ u.crowded => completing' = u.task)
  <2>1. CASE OldSubmission(u)
    BY <1>0, <2>1 DEF OldSubmission, AloneHoldsButton
  <2>2. CASE NewSubmission(u)
    BY <1>0, <2>2 DEF NewSubmission
  <2> QED
    BY <1>1, <2>1, <2>2
<1> QED
  BY <1>2, <1>3 DEF DoubleSubmitNeedsAnother, AloneHoldsButton

LEMMA VisitorsStep ==
    ASSUME CardTypeOK, AloneHoldsButton, CallsAreVisitors, CardNext
    PROVE  CallsAreVisitors'
<1>1. \A u \in submissions' : u.by = visitor' \/ \E s \in submissions : u.by = s.by
  <2>1. ASSUME NEW u \in submissions', NewSubmission(u) PROVE visitor' = visitor \/ submissions' = submissions
    BY DEF CardNext, ChangeVisitor, handleStartTask, handleCompleteTask, SubmitServed, SubmitBack,
         TasksAnswer, MeServed, MeAnswer, RetryTasks, viewVars
  <2> QED
    BY <2>1, SubmissionsMove DEF OldSubmission, NewSubmission
<1>2. \A l \in loads' : \/ \E k \in loads : l.by = k.by
                        \/ \E s \in submissions : l.by = s.by
                        \/ l.by = visitor'
  BY LoadsMove
<1>3. \/ visitor' = visitor /\ crossed' = crossed
      \/ ~ crossed' => submissions = {} /\ loads = {}
  BY DEF CardNext, ChangeVisitor, handleStartTask, handleCompleteTask, SubmitServed, SubmitBack,
       TasksAnswer, MeServed, MeAnswer, RetryTasks, viewVars, flagVars
<1> QED
  BY <1>1, <1>2, <1>3 DEF CallsAreVisitors

LEMMA ShownStep ==
    ASSUME CardTypeOK, CallsAreVisitors, ShownOrUnsettled, CardNext
    PROVE  ShownOrUnsettled'
<1>1. ASSUME submissions' # {} \/ loads' # {} \/ tasksError' \/ visitor' = NoVisitor
      PROVE  ShownOrUnsettled'
  BY <1>1 DEF ShownOrUnsettled
<1>2. ASSUME NEW v, NEW no, fetchTasks(v, no) PROVE loads' # {}
  BY <1>2 DEF fetchTasks
<1>3. ASSUME NEW v \in Visitors \cup {NoVisitor}, ChangeVisitor(v) PROVE ShownOrUnsettled'
  BY <1>1, <1>2, <1>3 DEF ChangeVisitor
<1>4. ASSUME NEW t \in CardTasks, handleStartTask(t) PROVE ShownOrUnsettled'
  BY <1>4 DEF handleStartTask, flagVars, ShownOrUnsettled
<1>5. ASSUME NEW t \in CardTasks, handleCompleteTask(t) PROVE submissions' # {}
  BY <1>5 DEF handleCompleteTask
<1>6. ASSUME NEW s \in submissions, SubmitServed(s) PROVE submissions' # {}
  BY <1>6 DEF SubmitServed
<1>7. ASSUME NEW s \in submissions, SubmitBack(s) PROVE ShownOrUnsettled'
  BY <1>1, <1>2, <1>7 DEF SubmitBack
<1>8. ASSUME NEW l \in loads, TasksAnswer(l) PROVE ShownOrUnsettled'
  BY <1>1, <1>8 DEF TasksAnswer
<1>9. ASSUME NEW l \in loads, MeServed(l) PROVE loads' # {}
  BY <1>9 DEF MeServed
<1>10. ASSUME NEW l \in loads, MeAnswer(l), ~ missed', ~ crossed', visitor' # NoVisitor
       PROVE  accepted'[visitor'] \subseteq userTasks'
  <2>1. ~ crossed /\ visitor' = visitor /\ accepted' = accepted
    BY <1>10 DEF MeAnswer, viewVars
  <2>2. l.by = visitor
    BY <1>10, <2>1 DEF CallsAreVisitors
  <2>3. CASE l.ok
    BY <1>10, <2>1, <2>2, <2>3 DEF MeAnswer
  <2>4. CASE ~ l.ok
    BY <1>10, <2>1, <2>2, <2>4 DEF MeAnswer
  <2> QED
    BY <2>3, <2>4
<1>11. RetryTasks => loads' # {}
  BY <1>2 DEF RetryTasks
<1> QED
  BY <1>1, <1>3, <1>4, <1>5, <1>6, <1>7, <1>8, <1>9, <1>10, <1>11 DEF CardNext, ShownOrUnsettled

LEMMA CardIndStep ==
    ASSUME CardIndInv, [CardNext]_cardVars
    PROVE  CardIndInv'
<1>1. CASE CardNext
  BY <1>1, CardTypeStep, ButtonStep, VisitorsStep, ShownStep DEF CardIndInv
<1>2. CASE UNCHANGED cardVars
  BY <1>2 DEF CardIndInv, CardTypeOK, DoubleSubmitNeedsAnother, AloneHoldsButton, CallsAreVisitors,
       ShownOrUnsettled, cardVars
<1> QED
  BY <1>1, <1>2

LEMMA CardInitInv ==
    ASSUME CardInit
    PROVE  CardIndInv
<1>1. CardTypeOK
  <2>1. visitor \in Visitors \cup {NoVisitor} /\ visits \in 0 .. MaxVisits /\ asked \in 0 .. MaxAsked
    BY CardAssumption DEF CardInit
  <2>2. /\ userTasks = {} /\ started = {} /\ completing \in CardTasks \cup {NoTask}
        /\ submissions = {} /\ loads = {}
    BY DEF CardInit
  <2>3. /\ tasksLoading \in BOOLEAN /\ tasksError \in BOOLEAN
        /\ missed \in BOOLEAN /\ crossed \in BOOLEAN
    BY DEF CardInit
  <2>4. accepted \in [Visitors -> SUBSET CardTasks]
    BY DEF CardInit
  <2> QED
    BY <2>1, <2>2, <2>3, <2>4 DEF CardTypeOK
<1>2. DoubleSubmitNeedsAnother /\ AloneHoldsButton /\ CallsAreVisitors /\ ShownOrUnsettled
  BY DEF CardInit, DoubleSubmitNeedsAnother, AloneHoldsButton, CallsAreVisitors, ShownOrUnsettled
<1> QED
  BY <1>1, <1>2 DEF CardIndInv

-----------------------------------------------------------------------------
(***************************************************************************)
(* TelegramLink.  Until the wait for a later link is cut short, a link     *)
(* being made finds no interval, and neither its timer nor a poll of its   *)
(* own exists yet; so whatever stops polling stops its own link's.         *)
(***************************************************************************)
Requests == [no : 1..MaxRequests, kind : {"check", "generate", "poll", "unlink"}, by : Guests,
             link : 0..MaxLinks, at : {"out", "back"}, ok : BOOLEAN, yes : BOOLEAN]
LinkRequest(kind, v, link) ==
    [no |-> requests + 1, kind |-> kind, by |-> v, link |-> link,
     at |-> "out", ok |-> FALSE, yes |-> FALSE]

(* Every number in use is that of a link that was begun. *)
LinksAreBegun ==
    /\ \A p \in polls : p.no <= links
    /\ \A i \in DOMAIN timeouts : timeouts[i] <= links
    /\ \A c \in inFlight : c.link <= links /\ (c.kind = "generate" => c.link >= 1)

Generating(c) == c \in inFlight /\ c.kind = "generate"

OneWait ==
    ~ cut =>
    /\ \A p \in polls : p.no = pollRef
    /\ ~ linking => polls = {} /\ \A c \in inFlight : c.kind # "generate"
    /\ \A c \in inFlight : c.kind = "generate" =>
         /\ c.link = links /\ polls = {}
         /\ \A i \in DOMAIN timeouts : timeouts[i] # links
         /\ \A d \in inFlight : d.kind = "poll" => d.link # links
    /\ \A c \in inFlight, d \in inFlight : c.kind = "generate" /\ d.kind = "generate" => c = d

(* What is shown as linked and is not has an unlinking of its own under way. *)
UnlinkedSoon ==
    linked # NoGuest /\ ~ older /\ linked \notin bound
        => \E c \in inFlight : c.kind = "unlink" /\ c.by = linked

LinkIndInv == LinkPageTypeOK /\ LinksAreBegun /\ OneWait /\ WaitingHasAnEnd /\ UnlinkedSoon

(* The timers that are set, as a set. *)
LEMMA TimerSet ==
    ASSUME NEW S, NEW q \in Seq(S), NEW x \in S
    PROVE  /\ Append(q, x) \in Seq(S)
           /\ \A i \in DOMAIN Append(q, x) : Append(q, x)[i] = x \/ \E j \in DOMAIN q : Append(q, x)[i] = q[j]
           /\ \E i \in DOMAIN Append(q, x) : Append(q, x)[i] = x
<1>1. PICK w : w = Append(q, x)
  OBVIOUS
<1>2. w \in Seq(S) /\ Len(w) = Len(q) + 1 /\ w[Len(q) + 1] = x
      /\ \A i \in 1 .. Len(q) : w[i] = q[i]
  BY <1>1
<1>3. DOMAIN w = 1 .. Len(w) /\ DOMAIN q = 1 .. Len(q) /\ Len(q) \in Nat
  BY <1>2
<1> QED
  BY <1>1, <1>2, <1>3

LEMMA TimerFires ==
    ASSUME NEW S, NEW q \in Seq(S), q # << >>
    PROVE  /\ Tail(q) \in Seq(S) /\ Head(q) \in S /\ \E j \in DOMAIN q : Head(q) = q[j]
           /\ \A i \in DOMAIN Tail(q) : \E j \in DOMAIN q : Tail(q)[i] = q[j]
<1>1. PICK w : w = Tail(q)
  OBVIOUS
<1>2. w \in Seq(S) /\ Len(w) = Len(q) - 1 /\ \A i \in 1 .. Len(w) : w[i] = q[i + 1]
  BY <1>1
<1>3. DOMAIN w = 1 .. Len(w) /\ DOMAIN q = 1 .. Len(q) /\ Len(q) \in Nat /\ Len(q) > 0
  BY <1>2
<1>4. Head(q) = q[1] /\ q[1] \in S
  BY <1>3
<1> QED
  BY <1>1, <1>2, <1>3, <1>4

(* How a step moves the requests. *)
Sends(kind, v, link) ==
    /\ kind \in {"check", "generate", "poll", "unlink"} /\ v \in Guests /\ link \in 0..MaxLinks
    /\ inFlight' = inFlight \cup {LinkRequest(kind, v, link)} /\ requests + 1 \in 1..MaxRequests
    /\ requests' = requests + 1

Turned(c, new) ==
    /\ c \in inFlight /\ new \in Requests
    /\ new.kind = c.kind /\ new.by = c.by /\ new.link = c.link /\ new.at = "back"
    /\ inFlight' = (inFlight \ {c}) \cup {new}

LEMMA LinkRequestIs ==
    ASSUME NEW kind, NEW v, NEW link
    PROVE  /\ LinkRequest(kind, v, link).kind = kind /\ LinkRequest(kind, v, link).by = v
           /\ LinkRequest(kind, v, link).link = link /\ LinkRequest(kind, v, link).no = requests + 1
BY DEF LinkRequest

LEMMA ServeTurns ==
    ASSUME LinkPageTypeOK, NEW c \in inFlight, ServeLink(c)
    PROVE  \E new : Turned(c, new)
<1>1. PICK ok \in BOOLEAN :
         inFlight' = (inFlight \ {c}) \cup {[c EXCEPT !.at = "back", !.ok = ok, !.yes = c.by \in bound]}
  BY DEF ServeLink
<1>2. c \in Requests
  BY DEF LinkPageTypeOK, Requests
<1>3. (c.by \in bound) \in BOOLEAN
  OBVIOUS
<1> DEFINE yes == c.by \in bound
<1>y. yes \in BOOLEAN
  BY <1>3
<1> HIDE DEF yes
<1> DEFINE one == [c EXCEPT !.at = "back"]
           two == [one EXCEPT !.ok = ok]
           three == [two EXCEPT !.yes = yes]
<1>4. one = [no |-> c.no, kind |-> c.kind, by |-> c.by, link |-> c.link, at |-> "back",
             ok |-> c.ok, yes |-> c.yes]
  BY <1>2 DEF Requests
<1> HIDE DEF one
<1>5. two = [no |-> c.no, kind |-> c.kind, by |-> c.by, link |-> c.link, at |-> "back",
             ok |-> ok, yes |-> c.yes]
  BY <1>4
<1> HIDE DEF two
<1>6. three = [no |-> c.no, kind |-> c.kind, by |-> c.by, link |-> c.link, at |-> "back",
               ok |-> ok, yes |-> yes]
  BY <1>5
<1>7. three \in Requests /\ three.kind = c.kind /\ three.by = c.by /\ three.link = c.link /\ three.at = "back"
  BY <1>2, <1>6, <1>y DEF Requests
<1>8. inFlight' = (inFlight \ {c}) \cup {three}
  BY <1>1 DEF one, two, yes
<1> HIDE DEF three
<1> QED
  BY <1>7, <1>8 DEF Turned

LEMMA RequestIsSent ==
    ASSUME LinkPageTypeOK, NEW kind \in {"check", "generate", "poll", "unlink"}, NEW v \in Guests,
           NEW link \in 0..MaxLinks, Request(kind, v, link)
    PROVE  Sends(kind, v, link) /\ inFlight' \subseteq Requests /\ requests' \in 0..MaxRequests
<1>1. requests \in 0..MaxRequests /\ requests < MaxRequests /\ MaxRequests \in Nat
      /\ inFlight \subseteq Requests
  BY LinkAssumption DEF LinkPageTypeOK, Request, Requests
<1>2. requests + 1 \in 1..MaxRequests
  BY <1>1
<1>3. LinkRequest(kind, v, link) \in Requests
  BY <1>2 DEF LinkRequest, Requests
<1>4. inFlight' = inFlight \cup {LinkRequest(kind, v, link)} /\ requests' = requests + 1
  BY DEF Request, LinkRequest
<1>5. requests + 1 \in 0..MaxRequests
  BY <1>1
<1>6. Sends(kind, v, link)
  BY <1>2, <1>4, Zenon DEF Sends
<1>7. inFlight' \subseteq Requests
  BY <1>1, <1>3, <1>4
<1> QED
  BY <1>4, <1>5, <1>6, <1>7

(* How a step of the linking card moves the requests, the links and the wait. *)
LEMMA LinkMoves ==
    ASSUME LinkPageTypeOK, LinkPageNext
    PROVE  /\ \/ UNCHANGED << inFlight, requests, timerVars, links, linking, cut >>
              \/ UNCHANGED << inFlight, requests >> /\ Timeout
              \/ Sends("check", guest', 0) /\ UNCHANGED << timerVars, links, linking, cut >>
              \/ Sends("generate", guest, links + 1) /\ handleLink
              \/ Sends("unlink", guest, 0) /\ UNCHANGED << timerVars, links, linking, cut >>
              \/ \E p \in polls : Sends("poll", p.by, p.no) /\ UNCHANGED << timerVars, links, linking, cut >>
              \/ \E c \in inFlight : \E new :
                   /\ Turned(c, new) /\ UNCHANGED requests
                   /\ UNCHANGED << timerVars, links, linking, cut >>
              \/ \E c \in inFlight :
                   /\ inFlight' = inFlight \ {c} /\ UNCHANGED requests
                   /\ LookupBack(c) \/ GenerateBack(c) \/ PollBack(c) \/ UnlinkBack(c)
           /\ inFlight' \subseteq Requests /\ requests' \in 0..MaxRequests
<1>0. /\ inFlight \subseteq Requests /\ requests \in 0..MaxRequests /\ links \in 0..MaxLinks
      /\ guest \in Guests \cup {NoGuest}
      /\ \A p \in polls : p.by \in Guests /\ p.no \in 1..MaxLinks
      /\ MaxLinks \in Nat
  BY LinkAssumption DEF LinkPageTypeOK, Requests
<1>1. ASSUME NEW v \in Guests \cup {NoGuest}, ChangeGuest(v)
      PROVE  /\ \/ UNCHANGED << inFlight, requests, timerVars, links, linking, cut >>
                \/ Sends("check", guest', 0) /\ UNCHANGED << timerVars, links, linking, cut >>
             /\ inFlight' \subseteq Requests /\ requests' \in 0..MaxRequests
  <2>1. CASE v = NoGuest
    BY <1>0, <1>1, <2>1 DEF ChangeGuest
  <2>2. CASE v # NoGuest
    <3>1. v \in Guests /\ 0 \in 0..MaxLinks /\ Request("check", v, 0) /\ v = guest'
          /\ UNCHANGED << timerVars, links, linking, cut >>
      BY <1>0, <1>1, <2>2 DEF ChangeGuest
    <3> QED
      BY <3>1, RequestIsSent
  <2> QED
    BY <2>1, <2>2
<1>2. ASSUME handleLink
      PROVE  /\ Sends("generate", guest, links + 1)
             /\ inFlight' \subseteq Requests /\ requests' \in 0..MaxRequests
  <2>1. guest \in Guests /\ links + 1 \in 0..MaxLinks /\ Request("generate", guest, links + 1)
    BY <1>0, <1>2 DEF handleLink
  <2> QED
    BY <2>1, RequestIsSent
<1>3. ASSUME handleUnlink
      PROVE  /\ Sends("unlink", guest, 0) /\ UNCHANGED << timerVars, links, linking, cut >>
             /\ inFlight' \subseteq Requests /\ requests' \in 0..MaxRequests
  <2>1. guest \in Guests /\ 0 \in 0..MaxLinks /\ Request("unlink", guest, 0)
    BY <1>0, <1>3 DEF handleUnlink
  <2>2. UNCHANGED << timerVars, links, linking, cut >>
    BY <1>3 DEF handleUnlink
  <2> QED
    BY <2>1, <2>2, RequestIsSent
<1>4. ASSUME NEW p \in polls, PollTick(p)
      PROVE  /\ Sends("poll", p.by, p.no) /\ UNCHANGED << timerVars, links, linking, cut >>
             /\ inFlight' \subseteq Requests /\ requests' \in 0..MaxRequests
  <2>1. p.by \in Guests /\ p.no \in 0..MaxLinks /\ Request("poll", p.by, p.no)
    BY <1>0, <1>4 DEF PollTick
  <2>2. UNCHANGED << timerVars, links, linking, cut >>
    BY <1>4 DEF PollTick
  <2> QED
    BY <2>1, <2>2, RequestIsSent
<1>5. ASSUME NEW v \in Guests, BotLinks(v)
      PROVE  /\ UNCHANGED << inFlight, requests, timerVars, links, linking, cut >>
             /\ inFlight' \subseteq Requests /\ requests' \in 0..MaxRequests
  BY <1>0, <1>5 DEF BotLinks
<1>6. ASSUME NEW c \in inFlight, ServeLink(c)
      PROVE  /\ \E new : Turned(c, new) /\ UNCHANGED requests
             /\ UNCHANGED << timerVars, links, linking, cut >>
             /\ inFlight' \subseteq Requests /\ requests' \in 0..MaxRequests
  <2>1. PICK new : Turned(c, new)
    BY <1>6, ServeTurns
  <2>2. UNCHANGED << requests, timerVars, links, linking, cut >>
    BY <1>6 DEF ServeLink
  <2> QED
    BY <1>0, <2>1, <2>2 DEF Turned
<1>7. ASSUME NEW c \in inFlight, LookupBack(c) \/ GenerateBack(c) \/ PollBack(c) \/ UnlinkBack(c)
      PROVE  inFlight' = inFlight \ {c} /\ UNCHANGED requests
  BY <1>7 DEF LookupBack, GenerateBack, PollBack, UnlinkBack, Answered
<1>8. Timeout => UNCHANGED << inFlight, requests >>
  BY DEF Timeout
<1> QED
  BY <1>0, <1>1, <1>2, <1>3, <1>4, <1>5, <1>6, <1>7, <1>8 DEF LinkPageNext

LEMMA LinkTypeStep ==
    ASSUME LinkPageTypeOK, LinksAreBegun, LinkPageNext
    PROVE  LinkPageTypeOK'
<1>0. /\ MaxGuests \in Nat /\ MaxLinks \in Nat /\ links \in 0..MaxLinks
      /\ timeouts \in Seq(1..MaxLinks) /\ pollRef \in 0..MaxLinks /\ bound \subseteq Guests
      /\ polls \subseteq [no : 1..MaxLinks, by : Guests]
      /\ inFlight \subseteq Requests
  BY LinkAssumption DEF LinkPageTypeOK, Requests
<1>1. inFlight' \subseteq Requests /\ requests' \in 0..MaxRequests
  BY LinkMoves
<1>2. ASSUME NEW c \in inFlight, GenerateBack(c)
      PROVE  /\ polls' \subseteq [no : 1..MaxLinks, by : Guests] /\ pollRef' \in 0..MaxLinks
             /\ timeouts' \in Seq(1..MaxLinks)
  <2>1. c.kind = "generate" /\ c.link \in 1..MaxLinks /\ c.by \in Guests
    BY <1>0, <1>2 DEF GenerateBack, LinksAreBegun, Requests
  <2>2. CASE c.ok
    <3>1. timeouts' = Append(timeouts, c.link) /\ polls' = polls \cup {[no |-> c.link, by |-> c.by]}
          /\ pollRef' = c.link
      BY <1>2, <2>2 DEF GenerateBack
    <3>2. Append(timeouts, c.link) \in Seq(1..MaxLinks)
      BY <1>0, <2>1
    <3> QED
      BY <1>0, <2>1, <3>1, <3>2
  <2>3. CASE ~ c.ok
    BY <1>0, <1>2, <2>3 DEF GenerateBack, timerVars
  <2> QED
    BY <2>2, <2>3
<1>3. ASSUME NEW link, StopPolling(link)
      PROVE  /\ polls' \subseteq [no : 1..MaxLinks, by : Guests] /\ pollRef' \in 0..MaxLinks
             /\ linking' \in BOOLEAN /\ cut' \in BOOLEAN
  <2>1. polls' \subseteq polls /\ pollRef' = 0 /\ linking' = FALSE
    BY <1>3 DEF StopPolling
  <2>2. cut' \in BOOLEAN
    BY <1>3 DEF StopPolling, LinkPageTypeOK
  <2>3. linking' \in BOOLEAN
    BY <2>1
  <2>4. polls' \subseteq [no : 1..MaxLinks, by : Guests] /\ pollRef' \in 0..MaxLinks
    BY <1>0, <2>1
  <2> QED
    BY <2>2, <2>3, <2>4
<1>4. Timeout => timeouts' \in Seq(1..MaxLinks)
  BY <1>0, TimerFires DEF Timeout
<1>5. /\ polls' \subseteq [no : 1..MaxLinks, by : Guests] /\ pollRef' \in 0..MaxLinks
      /\ timeouts' \in Seq(1..MaxLinks)
  BY <1>0, <1>2, <1>3, <1>4 DEF LinkPageNext, ChangeGuest, handleLink, handleUnlink, PollTick, BotLinks,
       ServeLink, LookupBack, PollBack, Timeout, UnlinkBack, timerVars
<1>6. guest' \in Guests \cup {NoGuest} /\ changes' \in 0..MaxGuests
  <2>1. guest \in Guests \cup {NoGuest} /\ changes \in 0..MaxGuests
    BY DEF LinkPageTypeOK
  <2>2. ASSUME NEW v \in Guests \cup {NoGuest}, ChangeGuest(v)
        PROVE  guest' \in Guests \cup {NoGuest} /\ changes' \in 0..MaxGuests
    BY <1>0, <2>1, <2>2 DEF ChangeGuest
  <2>3. (\E v \in Guests \cup {NoGuest} : ChangeGuest(v)) \/ UNCHANGED << guest, changes >>
    BY DEF LinkPageNext, handleLink, handleUnlink, PollTick, BotLinks, ServeLink, LookupBack,
         GenerateBack, PollBack, Timeout, UnlinkBack, guestVars
  <2> QED
    BY <2>1, <2>2, <2>3
<1>7. links' \in 0..MaxLinks
  <2>1. links' = links \/ (links < MaxLinks /\ links' = links + 1)
    BY DEF LinkPageNext, ChangeGuest, handleLink, handleUnlink, PollTick, BotLinks, ServeLink, LookupBack,
         GenerateBack, PollBack, Timeout, UnlinkBack
  <2> QED
    BY <1>0, <2>1
<1>8. linked' \in Guests \cup {NoGuest}
  <2>1. \A c \in inFlight : c.by \in Guests
    BY <1>0 DEF Requests
  <2> QED
    BY <2>1 DEF LinkPageNext, ChangeGuest, handleLink, handleUnlink, PollTick, BotLinks, ServeLink,
         LookupBack, GenerateBack, PollBack, Timeout, UnlinkBack, Owner, LinkPageTypeOK
<1>9. linkLoading' \in BOOLEAN
  BY DEF LinkPageTypeOK, LinkPageNext, ChangeGuest, handleLink, handleUnlink, PollTick, BotLinks, ServeLink,
         LookupBack, GenerateBack, PollBack, Timeout, UnlinkBack
<1>10. linking' \in BOOLEAN /\ cut' \in BOOLEAN
  BY <1>3 DEF LinkPageTypeOK, LinkPageNext, ChangeGuest, handleLink, handleUnlink, PollTick, BotLinks,
         ServeLink, LookupBack, GenerateBack, PollBack, Timeout, UnlinkBack
<1>11. older' \in BOOLEAN
  BY DEF LinkPageTypeOK, LinkPageNext, ChangeGuest, handleLink, handleUnlink, PollTick, BotLinks, ServeLink,
         LookupBack, GenerateBack, PollBack, Timeout, UnlinkBack, Heard
<1>12. bound' \subseteq Guests
  BY <1>0 DEF LinkPageNext, ChangeGuest, handleLink, handleUnlink, PollTick, BotLinks, ServeLink,
         LookupBack, GenerateBack, PollBack, Timeout, UnlinkBack
<1> QED
  BY <1>1, <1>5, <1>6, <1>7, <1>8, <1>9, <1>10, <1>11, <1>12 DEF LinkPageTypeOK, Requests

(* The parts of OneWait, by name, to state what a step keeps. *)
RefHoldsPoll == \A p \in polls : p.no = pollRef
QuietIsQuiet == ~ linking => polls = {} /\ \A c \in inFlight : c.kind # "generate"
FreshLink ==
    \A c \in inFlight : c.kind = "generate" =>
         /\ c.link = links /\ polls = {}
         /\ \A i \in DOMAIN timeouts : timeouts[i] # links
         /\ \A d \in inFlight : d.kind = "poll" => d.link # links
OneGenerate == \A c \in inFlight, d \in inFlight : c.kind = "generate" /\ d.kind = "generate" => c = d

LEMMA OneWaitParts == OneWait <=> (~ cut => RefHoldsPoll /\ QuietIsQuiet /\ FreshLink /\ OneGenerate)
BY DEF OneWait, RefHoldsPoll, QuietIsQuiet, FreshLink, OneGenerate

LEMMA LinksAreBegunStep ==
    ASSUME LinkPageTypeOK, LinksAreBegun, LinkPageNext
    PROVE  LinksAreBegun'
<1>0. /\ links \in Nat /\ timeouts \in Seq(1..MaxLinks)
      /\ \A p \in polls : p.no \in Nat /\ p.no <= links
      /\ \A c \in inFlight : c.link \in Nat /\ c.link <= links
      /\ \A i \in DOMAIN timeouts : timeouts[i] \in Nat /\ timeouts[i] <= links
      /\ \A c \in inFlight : c.kind = "generate" => c.link \in 1..MaxLinks
  BY LinkAssumption DEF LinkPageTypeOK, LinksAreBegun
<1>1. links' \in Nat /\ links' >= links
  <2>1. links' = links \/ links' = links + 1
    BY DEF LinkPageNext, ChangeGuest, handleLink, handleUnlink, PollTick, BotLinks, ServeLink, LookupBack,
         GenerateBack, PollBack, Timeout, UnlinkBack
  <2> QED
    BY <1>0, <2>1
<1>2. ASSUME NEW kind, NEW v, NEW link, Sends(kind, v, link), link \in Nat, link <= links',
             kind = "generate" => link >= 1
      PROVE  \A c \in inFlight' : c.link <= links' /\ (c.kind = "generate" => c.link >= 1)
  BY <1>0, <1>1, <1>2, LinkRequestIs DEF Sends
<1>3. \A c \in inFlight' : c.link <= links' /\ (c.kind = "generate" => c.link >= 1)
  <2>1. ASSUME inFlight' \subseteq inFlight
        PROVE  \A c \in inFlight' : c.link <= links' /\ (c.kind = "generate" => c.link >= 1)
    BY <1>0, <1>1, <2>1
  <2>2. ASSUME handleLink, Sends("generate", guest, links + 1)
        PROVE  \A c \in inFlight' : c.link <= links' /\ (c.kind = "generate" => c.link >= 1)
    <3>1. links + 1 \in Nat /\ links + 1 <= links' /\ links + 1 >= 1
      BY <1>0, <2>2 DEF handleLink
    <3> QED
      BY <1>2, <2>2, <3>1
  <2>3. ASSUME NEW c \in inFlight, NEW new, Turned(c, new)
        PROVE  \A d \in inFlight' : d.link <= links' /\ (d.kind = "generate" => d.link >= 1)
    BY <1>0, <1>1, <2>3 DEF Turned
  <2>4. ASSUME NEW p \in polls, Sends("poll", p.by, p.no)
        PROVE  \A d \in inFlight' : d.link <= links' /\ (d.kind = "generate" => d.link >= 1)
    <3>1. p.no \in Nat /\ p.no <= links'
      BY <1>0, <1>1
    <3> QED
      BY <1>2, <2>4, <3>1
  <2>5. 0 \in Nat /\ 0 <= links'
    BY <1>1
  <2>6. Sends("check", guest', 0) \/ Sends("unlink", guest, 0)
          => \A d \in inFlight' : d.link <= links' /\ (d.kind = "generate" => d.link >= 1)
    BY <1>2, <2>5
  <2> QED
    BY <2>1, <2>2, <2>3, <2>4, <2>6, LinkMoves
<1>4. ASSUME NEW c \in inFlight, GenerateBack(c)
      PROVE  /\ \A p \in polls' : p.no <= links'
             /\ \A i \in DOMAIN timeouts' : timeouts'[i] <= links'
  <2>1. c.link \in 1..MaxLinks /\ c.link <= links
    BY <1>0, <1>4 DEF GenerateBack
  <2>2. CASE c.ok
    <3>1. PICK q : q = Append(timeouts, c.link)
      OBVIOUS
    <3>2. timeouts' = q /\ polls' = polls \cup {[no |-> c.link, by |-> c.by]} /\ links' = links
      BY <1>4, <2>2, <3>1 DEF GenerateBack
    <3>3. \A i \in DOMAIN q : q[i] = c.link \/ \E j \in DOMAIN timeouts : q[i] = timeouts[j]
      BY <1>0, <2>1, <3>1, TimerSet
    <3> QED
      BY <1>0, <2>1, <3>2, <3>3
  <2>3. CASE ~ c.ok
    BY <1>0, <1>4, <2>3 DEF GenerateBack, timerVars
  <2> QED
    BY <2>2, <2>3
<1>5. ASSUME NEW link, StopPolling(link) PROVE \A p \in polls' : p.no <= links'
  BY <1>0, <1>1, <1>5 DEF StopPolling
<1>6. Timeout => \A i \in DOMAIN timeouts' : timeouts'[i] <= links'
  <2>1. ASSUME Timeout PROVE \A i \in DOMAIN Tail(timeouts) : \E j \in DOMAIN timeouts : Tail(timeouts)[i] = timeouts[j]
    BY <1>0, <2>1, TimerFires DEF Timeout
  <2> QED
    BY <1>0, <1>1, <2>1 DEF Timeout
<1>7. ASSUME UNCHANGED polls PROVE \A p \in polls' : p.no <= links'
  BY <1>0, <1>1, <1>7
<1>8. ASSUME UNCHANGED timeouts PROVE \A i \in DOMAIN timeouts' : timeouts'[i] <= links'
  BY <1>0, <1>1, <1>8
<1>9. /\ \A p \in polls' : p.no <= links'
      /\ \A i \in DOMAIN timeouts' : timeouts'[i] <= links'
  BY <1>4, <1>5, <1>6, <1>7, <1>8 DEF LinkPageNext, ChangeGuest, handleLink, handleUnlink, PollTick, BotLinks,
       ServeLink, LookupBack, PollBack, Timeout, UnlinkBack, timerVars
<1> QED
  BY <1>3, <1>9 DEF LinksAreBegun

LEMMA OneWaitStep ==
    ASSUME LinkPageTypeOK, LinksAreBegun, OneWait, LinkPageNext
    PROVE  OneWait'
<1>0. /\ links \in Nat /\ timeouts \in Seq(1..MaxLinks)
      /\ \A p \in polls : p.no \in Nat /\ p.no <= links
      /\ \A c \in inFlight : c.link \in Nat /\ c.link <= links
      /\ \A i \in DOMAIN timeouts : timeouts[i] \in Nat /\ timeouts[i] <= links
      /\ \A c \in inFlight : c.kind = "generate" => c.link \in 1..MaxLinks
  BY LinkAssumption DEF LinkPageTypeOK, LinksAreBegun
<1>1. cut => cut'
  BY DEF LinkPageNext, ChangeGuest, handleLink, handleUnlink, PollTick, BotLinks, ServeLink, LookupBack,
       GenerateBack, PollBack, Timeout, UnlinkBack, StopPolling
<1> SUFFICES ASSUME ~ cut'
             PROVE  RefHoldsPoll' /\ QuietIsQuiet' /\ FreshLink' /\ OneGenerate'
  BY DEF OneWait, RefHoldsPoll, QuietIsQuiet, FreshLink, OneGenerate
<1>2. RefHoldsPoll /\ QuietIsQuiet /\ FreshLink /\ OneGenerate
  BY <1>1, OneWaitParts
<1> DEFINE Kept == RefHoldsPoll' /\ QuietIsQuiet' /\ FreshLink' /\ OneGenerate'
<1>3. ASSUME UNCHANGED << timerVars, links, linking >>, inFlight' \subseteq inFlight PROVE Kept
  BY <1>2, <1>3 DEF timerVars, RefHoldsPoll, QuietIsQuiet, FreshLink, OneGenerate
<1>4. ASSUME UNCHANGED << timerVars, links, linking >>,
             NEW kind, NEW v, NEW link, Sends(kind, v, link), kind # "generate",
             kind = "poll" => polls # {}
      PROVE  Kept
  BY <1>2, <1>4, LinkRequestIs DEF Sends, timerVars, RefHoldsPoll, QuietIsQuiet, FreshLink, OneGenerate
<1>5. ASSUME UNCHANGED << timerVars, links, linking >>, NEW c \in inFlight, NEW new, Turned(c, new)
      PROVE  Kept
  <2>1. RefHoldsPoll' /\ QuietIsQuiet'
    BY <1>2, <1>5 DEF Turned, timerVars, RefHoldsPoll, QuietIsQuiet
  <2>2. FreshLink'
    BY <1>2, <1>5 DEF Turned, timerVars, FreshLink
  <2>3. OneGenerate'
    BY <1>2, <1>5 DEF Turned, OneGenerate
  <2> QED
    BY <2>1, <2>2, <2>3
<1>6. ASSUME handleLink, Sends("generate", guest, links + 1) PROVE Kept
  <2>1. ~ linking /\ linking' = TRUE /\ links' = links + 1 /\ UNCHANGED timerVars
    BY <1>6 DEF handleLink
  <2>2. polls = {} /\ \A c \in inFlight : c.kind # "generate"
    BY <1>2, <2>1 DEF QuietIsQuiet
  <2>3. inFlight' = inFlight \cup {LinkRequest("generate", guest, links + 1)}
    BY <1>6 DEF Sends
  <2>4. RefHoldsPoll' /\ QuietIsQuiet'
    BY <2>1, <2>2 DEF RefHoldsPoll, QuietIsQuiet, timerVars
  <2>5. FreshLink'
    <3>1. \A i \in DOMAIN timeouts' : timeouts'[i] # links'
      BY <1>0, <2>1 DEF timerVars
    <3>2. \A d \in inFlight' : d.kind = "poll" => d.link # links'
      BY <1>0, <2>1, <2>3, LinkRequestIs
    <3>3. \A c \in inFlight' : c.kind = "generate" => c.link = links' /\ polls' = {}
      BY <2>1, <2>2, <2>3, LinkRequestIs DEF timerVars
    <3> QED
      BY <3>1, <3>2, <3>3 DEF FreshLink
  <2>6. OneGenerate'
    BY <2>2, <2>3 DEF OneGenerate
  <2> QED
    BY <2>4, <2>5, <2>6
<1>7. ASSUME NEW c \in inFlight, GenerateBack(c) PROVE Kept
  <2>1. c.kind = "generate" /\ inFlight' = inFlight \ {c} /\ links' = links /\ polls = {} /\ linking
    BY <1>2, <1>7 DEF GenerateBack, Answered, FreshLink, QuietIsQuiet
  <2>2. \A d \in inFlight' : d.kind # "generate"
    BY <1>2, <2>1 DEF OneGenerate
  <2>3. CASE c.ok
    <3>1. polls' = {[no |-> c.link, by |-> c.by]} /\ pollRef' = c.link /\ linking' = linking
      BY <1>7, <2>1, <2>3 DEF GenerateBack
    <3> QED
      BY <2>1, <2>2, <3>1 DEF RefHoldsPoll, QuietIsQuiet, FreshLink, OneGenerate
  <2>4. CASE ~ c.ok
    <3>1. polls' = {}
      BY <1>7, <2>1, <2>4 DEF GenerateBack, timerVars
    <3> QED
      BY <2>2, <3>1 DEF RefHoldsPoll, QuietIsQuiet, FreshLink, OneGenerate
  <2> QED
    BY <2>3, <2>4
<1>8. ASSUME NEW link, StopPolling(link), inFlight' \subseteq inFlight,
             link = links => \A c \in inFlight : c.kind # "generate"
      PROVE  Kept
  <2>1. polls' = {} /\ linking' = FALSE /\ (linking => link = links)
    BY <1>2, <1>8 DEF StopPolling, RefHoldsPoll
  <2>2. \A c \in inFlight' : c.kind # "generate"
    BY <1>2, <1>8, <2>1 DEF QuietIsQuiet
  <2> QED
    BY <2>1, <2>2 DEF RefHoldsPoll, QuietIsQuiet, FreshLink, OneGenerate
<1>9. ASSUME NEW c \in inFlight, PollBack(c) PROVE Kept
  <2>1. c.kind = "poll" /\ inFlight' = inFlight \ {c}
    BY <1>9 DEF PollBack, Answered
  <2>2. CASE c.ok /\ c.yes
    <3>1. StopPolling(c.link)
      BY <1>9, <2>2 DEF PollBack
    <3>2. c.link = links => \A d \in inFlight : d.kind # "generate"
      BY <1>2, <2>1 DEF FreshLink
    <3> QED
      BY <1>8, <2>1, <3>1, <3>2
  <2>3. CASE ~ (c.ok /\ c.yes)
    BY <1>3, <1>9, <2>1, <2>3 DEF PollBack, timerVars
  <2> QED
    BY <2>2, <2>3
<1>10. Timeout => Kept
  <2>1. ASSUME Timeout PROVE \E j \in DOMAIN timeouts : Head(timeouts) = timeouts[j]
    BY <1>0, <2>1, TimerFires DEF Timeout
  <2>2. ASSUME Timeout, Head(timeouts) = links PROVE \A c \in inFlight : c.kind # "generate"
    BY <1>2, <2>1, <2>2 DEF FreshLink
  <2>3. Timeout => StopPolling(Head(timeouts)) /\ inFlight' = inFlight
    BY DEF Timeout
  <2> QED
    BY <1>8, <2>2, <2>3
<1>11. ASSUME NEW c \in inFlight, LookupBack(c) \/ UnlinkBack(c) PROVE Kept
  BY <1>3, <1>11 DEF LookupBack, UnlinkBack, Answered
<1> HIDE DEF Kept
<1>13. ASSUME NEW p \in polls, Sends("poll", p.by, p.no), UNCHANGED << timerVars, links, linking, cut >>
       PROVE  Kept
  BY <1>4, <1>13
<1>14. ASSUME Sends("check", guest', 0) \/ Sends("unlink", guest, 0), UNCHANGED << timerVars, links, linking, cut >>
       PROVE  Kept
  BY <1>4, <1>14
<1>15. ASSUME NEW c \in inFlight, NEW new, Turned(c, new), UNCHANGED << timerVars, links, linking, cut >>
       PROVE  Kept
  BY <1>5, <1>15
<1>16. ASSUME UNCHANGED << inFlight, requests, timerVars, links, linking, cut >> PROVE Kept
  BY <1>3, <1>16
<1>17. Kept
  BY <1>6, <1>7, <1>9, <1>10, <1>11, <1>13, <1>14, <1>15, <1>16, LinkMoves
<1> QED
  BY <1>17 DEF Kept

LEMMA WaitingStep ==
    ASSUME LinkPageTypeOK, WaitingHasAnEnd, LinkPageNext
    PROVE  WaitingHasAnEnd'
<1> DEFINE EndComes == \/ \E c \in inFlight : c.kind = "generate"
                   \/ /\ \E p \in polls : p.no = pollRef
                      /\ \E i \in DOMAIN timeouts : timeouts[i] = pollRef
<1>0. (linking => EndComes) /\ timeouts \in Seq(1..MaxLinks) /\ polls \subseteq [no : 1..MaxLinks, by : Guests]
  BY DEF WaitingHasAnEnd, LinkPageTypeOK
<1>1. ASSUME UNCHANGED << timerVars, linking >>,
             \A c \in inFlight : c.kind = "generate" => \E d \in inFlight' : d.kind = "generate"
      PROVE  linking' => EndComes'
  BY <1>0, <1>1 DEF timerVars
<1>2. ASSUME NEW c \in inFlight, c.kind = "generate", GenerateBack(c) PROVE linking' => EndComes'
  <2>1. CASE c.ok
    <3>1. PICK q : q = Append(timeouts, c.link)
      OBVIOUS
    <3>2. timeouts' = q /\ pollRef' = c.link /\ polls' = polls \cup {[no |-> c.link, by |-> c.by]}
      BY <1>2, <2>1, <3>1 DEF GenerateBack
    <3>3. Len(q) \in DOMAIN q /\ q[Len(q)] = c.link
      BY <1>0, <3>1
    <3>4. [no |-> c.link, by |-> c.by] \in polls'
      BY <3>2
    <3> QED
      BY <3>2, <3>3, <3>4
  <2>2. CASE ~ c.ok
    BY <1>2, <2>2 DEF GenerateBack
  <2> QED
    BY <2>1, <2>2
<1> HIDE DEF EndComes
<1>3. ASSUME NEW link, StopPolling(link) PROVE linking' => EndComes'
  BY <1>3 DEF StopPolling
<1>4. ASSUME NEW c \in inFlight, inFlight' = inFlight \ {c}, c.kind # "generate", UNCHANGED << timerVars, linking >>
      PROVE  linking' => EndComes'
  BY <1>1, <1>4
<1>5. ASSUME NEW c \in inFlight, PollBack(c) PROVE linking' => EndComes'
  <2>1. CASE c.ok /\ c.yes
    BY <1>3, <1>5, <2>1 DEF PollBack
  <2>2. CASE ~ (c.ok /\ c.yes)
    BY <1>4, <1>5, <2>2 DEF PollBack, Answered, timerVars
  <2> QED
    BY <2>1, <2>2
<1>6. ASSUME NEW c \in inFlight, LookupBack(c) \/ UnlinkBack(c) PROVE linking' => EndComes'
  BY <1>4, <1>6 DEF LookupBack, UnlinkBack, Answered
<1>7. Timeout => (linking' => EndComes')
  BY <1>3 DEF Timeout
<1>8. ASSUME Sends("generate", guest, links + 1) PROVE linking' => EndComes'
  <2>1. LinkRequest("generate", guest, links + 1) \in inFlight'
    BY <1>8 DEF Sends
  <2> QED
    BY <2>1, LinkRequestIs DEF EndComes
<1>9. ASSUME NEW kind, NEW v, NEW link, Sends(kind, v, link), UNCHANGED << timerVars, links, linking, cut >>
      PROVE  linking' => EndComes'
  BY <1>1, <1>9 DEF Sends
<1>10. ASSUME NEW c \in inFlight, NEW new, Turned(c, new), UNCHANGED << timerVars, links, linking, cut >>
       PROVE  linking' => EndComes'
  BY <1>1, <1>10 DEF Turned
<1>11. ASSUME UNCHANGED << inFlight, requests, timerVars, links, linking, cut >> PROVE linking' => EndComes'
  BY <1>1, <1>11
<1>12. ASSUME NEW c \in inFlight, GenerateBack(c) PROVE linking' => EndComes'
  BY <1>2, <1>12 DEF GenerateBack
<1>13. linking' => EndComes'
  BY <1>5, <1>6, <1>7, <1>8, <1>9, <1>10, <1>11, <1>12, LinkMoves
<1> QED
  BY <1>13 DEF WaitingHasAnEnd, EndComes

LEMMA UnlinkedStep ==
    ASSUME LinkPageTypeOK, UnlinkedSoon, LinkPageNext
    PROVE  UnlinkedSoon'
<1> DEFINE Under(w) == \E c \in inFlight : c.kind = "unlink" /\ c.by = w
<1>1. ASSUME UNCHANGED << linked, older >>, bound \subseteq bound',
             \A c \in inFlight : c.kind = "unlink" => \E d \in inFlight' : d.kind = "unlink" /\ d.by = c.by
      PROVE  UnlinkedSoon'
  BY <1>1 DEF UnlinkedSoon
<1>2. ASSUME NEW v \in Guests \cup {NoGuest}, ChangeGuest(v) PROVE UnlinkedSoon'
  <2>1. UNCHANGED << linked, older, bound >> /\ inFlight \subseteq inFlight'
    BY <1>2 DEF ChangeGuest, Request
  <2> QED
    BY <1>1, <2>1
<1>3. handleLink => UnlinkedSoon'
  BY <1>1 DEF handleLink, Request
<1>4. handleUnlink => UnlinkedSoon'
  BY <1>1 DEF handleUnlink, Request
<1>5. ASSUME NEW p \in polls, PollTick(p) PROVE UnlinkedSoon'
  BY <1>1, <1>5 DEF PollTick, Request
<1>6. ASSUME NEW v \in Guests, BotLinks(v) PROVE UnlinkedSoon'
  BY <1>1, <1>6 DEF BotLinks
<1>7. ASSUME NEW c \in inFlight, ServeLink(c) PROVE UnlinkedSoon'
  <2>1. PICK new : Turned(c, new)
    BY <1>7, ServeTurns
  <2>2. \A d \in inFlight : \E e \in inFlight' : e.kind = d.kind /\ e.by = d.by
    BY <2>1 DEF Turned
  <2>3. UNCHANGED << linked, older >> /\ (bound' = bound \/ (c.kind = "unlink" /\ bound' = bound \ {c.by}))
    BY <1>7 DEF ServeLink
  <2>4. CASE bound' = bound
    BY <1>1, <2>2, <2>3, <2>4
  <2>5. CASE c.kind = "unlink" /\ bound' = bound \ {c.by}
    BY <2>2, <2>3, <2>5 DEF UnlinkedSoon
  <2> QED
    BY <2>3, <2>4, <2>5
<1>8. ASSUME NEW c \in inFlight, LookupBack(c) PROVE UnlinkedSoon'
  <2>1. c.kind = "check" /\ inFlight' = inFlight \ {c} /\ bound' = bound /\ (older => older')
    BY <1>8 DEF LookupBack, Answered, Heard
  <2>2. CASE c.ok /\ c.yes
    BY <1>8, <2>1, <2>2 DEF LookupBack, Heard, Owner, UnlinkedSoon
  <2>3. CASE ~ (c.ok /\ c.yes)
    <3>1. linked' = NoGuest \/ linked' = linked
      BY <1>8, <2>3 DEF LookupBack, Owner
    <3> QED
      BY <2>1, <3>1 DEF UnlinkedSoon
  <2> QED
    BY <2>2, <2>3
<1>9. ASSUME NEW c \in inFlight, GenerateBack(c) PROVE UnlinkedSoon'
  BY <1>1, <1>9 DEF GenerateBack, Answered
<1>10. ASSUME NEW c \in inFlight, PollBack(c) PROVE UnlinkedSoon'
  <2>1. c.kind = "poll" /\ inFlight' = inFlight \ {c} /\ bound' = bound /\ (older => older')
    BY <1>10 DEF PollBack, Answered, Heard
  <2>2. CASE c.ok /\ c.yes
    BY <1>10, <2>1, <2>2 DEF PollBack, Heard, UnlinkedSoon
  <2>3. CASE ~ (c.ok /\ c.yes)
    <3>1. linked' = linked
      BY <1>10, <2>3 DEF PollBack
    <3> QED
      BY <2>1, <3>1 DEF UnlinkedSoon
  <2> QED
    BY <2>2, <2>3
<1>11. ASSUME NEW c \in inFlight, UnlinkBack(c) PROVE UnlinkedSoon'
  BY <1>11 DEF UnlinkBack, Answered, UnlinkedSoon
<1>12. Timeout => UnlinkedSoon'
  BY <1>1 DEF Timeout
<1> QED
  BY <1>2, <1>3, <1>4, <1>5, <1>6, <1>7, <1>8, <1>9, <1>10, <1>11, <1>12 DEF LinkPageNext

LEMMA LinkIndStep ==
    ASSUME LinkIndInv, [LinkPageNext]_linkPageVars
    PROVE  LinkIndInv'
<1>1. CASE LinkPageNext
  BY <1>1, LinkTypeStep, LinksAreBegunStep, OneWaitStep, WaitingStep, UnlinkedStep DEF LinkIndInv
<1>2. CASE UNCHANGED linkPageVars
  BY <1>2 DEF LinkIndInv, LinkPageTypeOK, LinksAreBegun, OneWait, WaitingHasAnEnd, UnlinkedSoon, linkPageVars
<1> QED
  BY <1>1, <1>2

LEMMA LinkInitInv ==
    ASSUME LinkPageInit
    PROVE  LinkIndInv
<1>1. LinkPageTypeOK
  <2>1. /\ guest \in Guests \cup {NoGuest} /\ changes \in 0..MaxGuests
        /\ linked \in Guests \cup {NoGuest} /\ pollRef \in 0..MaxLinks
        /\ links \in 0..MaxLinks /\ requests \in 0..MaxRequests
    BY LinkAssumption DEF LinkPageInit
  <2>2. linkLoading \in BOOLEAN /\ linking \in BOOLEAN /\ cut \in BOOLEAN /\ older \in BOOLEAN
    BY DEF LinkPageInit
  <2>3. polls = {} /\ inFlight = {} /\ bound \subseteq Guests /\ timeouts = << >>
    BY DEF LinkPageInit
  <2>4. << >> \in Seq(1..MaxLinks)
    OBVIOUS
  <2> QED
    BY <2>1, <2>2, <2>3, <2>4 DEF LinkPageTypeOK
<1>2. LinksAreBegun /\ OneWait /\ WaitingHasAnEnd /\ UnlinkedSoon
  BY DEF LinkPageInit, LinksAreBegun, OneWait, WaitingHasAnEnd, UnlinkedSoon
<1> QED
  BY <1>1, <1>2 DEF LinkIndInv

LEMMA VisitorFollows ==
    ASSUME CardIndInv, LinkIndInv
    PROVE  VisitorPagesInv
<1>1. CardTypeOK /\ DoubleSubmitNeedsAnother /\ AcceptedIsShown
  BY DEF CardIndInv, ShownOrUnsettled, AcceptedIsShown
<1>2. LinkPageTypeOK /\ OnePollAtATime /\ WaitingHasAnEnd /\ LinkedMeansLinked
  BY DEF LinkIndInv, OneWait, OnePollAtATime, UnlinkedSoon, LinkedMeansLinked
<1> QED
  BY <1>1, <1>2 DEF VisitorPagesInv

(* However a visitor switches wallets and whatever is late, lost or         *)
(* refused: two submissions of one task need another task's call between    *)
(* them; what the backend accepted is shown; one interval polls at a time   *)
(* and "waiting for you" ends; and linked means linked, up to what the      *)
(* page cannot know (airdrop.tsx, TelegramLinking.tsx).                     *)
THEOREM VisitorPagesAreSound == VisitorSpec => []VisitorPagesInv
<1>1. VisitorInit => CardIndInv /\ LinkIndInv
  BY CardInitInv, LinkInitInv DEF VisitorInit
<1>2. (CardIndInv /\ LinkIndInv) /\ [VisitorNext]_<<cardVars, linkPageVars>> => (CardIndInv /\ LinkIndInv)'
  <2>1. ASSUME [VisitorNext]_<<cardVars, linkPageVars>>
        PROVE  [CardNext]_cardVars /\ [LinkPageNext]_linkPageVars
    BY <2>1 DEF VisitorNext
  <2> QED
    BY <2>1, CardIndStep, LinkIndStep
<1>3. CardIndInv /\ LinkIndInv => VisitorPagesInv
  BY VisitorFollows
<1> QED
  BY <1>1, <1>2, <1>3, PTL DEF VisitorSpec

(***************************************************************************)
(* FraudScan.  What a scan carries from one query to the next bounds what  *)
(* it may save: without a cluster its score stays below CRITICAL.          *)
(***************************************************************************)

Carried == [at : Stages \cup {"idle"}, score : Nat, sybil : BOOLEAN]

ScanOK(k) ==
    /\ k \in Carried
    /\ k.sybil => cohort >= Cluster
    /\ k.at = "purchases" => k.score <= 40 /\ ~k.sybil
    /\ k.at = "cohort" => k.score <= 70 /\ ~k.sybil
    /\ k.at = "upsert" /\ ~k.sybil => k.score <= 70
    /\ k.at \in {"block", "audit"} => k.sybil
    /\ k.at = "audit" => isBlocked
    /\ ~met /\ isBlocked /\ k.at = "upsert" => k.sybil
    /\ ~met /\ k.at \in {"block", "audit"} => riskProfile.sybil

ProfileOK(report) ==
    /\ report \in [level : Levels \cup {"none"}, score : Nat, sybil : BOOLEAN]
    /\ report.sybil => cohort >= Cluster
    /\ report.level = "CRITICAL" => report.sybil

FactsOK ==
    /\ farming \in BOOLEAN /\ rapid \in BOOLEAN /\ cohort \in 1..MaxCohort
    /\ isBlocked \in BOOLEAN /\ audited \in BOOLEAN /\ met \in BOOLEAN /\ halfway \in BOOLEAN
    /\ isBlocked => cohort >= Cluster

(* Until two scans have met, all but one are idle. *)
OneAtATime == ~met => \A c, d \in Scans : c # d => scan[c].at = "idle" \/ scan[d].at = "idle"

ScansInv ==
    /\ FactsOK /\ ProfileOK(riskProfile) /\ OneAtATime /\ BlocksAreAudited /\ BlockedStaysSuspect
    /\ FraudTypeOK /\ \A c \in Scans : ScanOK(scan[c])

LEMMA FactsChanged ==
    ASSUME ScansInv, FactsChange
    PROVE  ScansInv'
<1>1. /\ cohort' \in 1..MaxCohort /\ cohort <= cohort' /\ cohort' \in Nat /\ cohort \in Nat
      /\ farming' \in BOOLEAN /\ rapid' \in BOOLEAN
  <2>1. cohort \in 1..MaxCohort /\ MaxCohort \in Nat
    BY FraudAssumption DEF ScansInv, FactsOK
  <2>2. cohort' = cohort \/ (cohort < MaxCohort /\ cohort' = cohort + 1)
    BY DEF FactsChange
  <2>3. farming' \in BOOLEAN /\ rapid' \in BOOLEAN
    BY Zenon DEF FactsChange, ScansInv, FactsOK
  <2> QED
    BY <2>1, <2>2, <2>3
<1>2. UNCHANGED <<scan, riskProfile, isBlocked, audited, met, halfway>>
  BY DEF FactsChange, tables, histories
<1>3. \A n \in {Cluster} : cohort >= n => cohort' >= n
  BY <1>1, FraudAssumption
<1>4. FactsOK' /\ ProfileOK(riskProfile)' /\ OneAtATime' /\ BlocksAreAudited' /\ BlockedStaysSuspect'
  <2>1. FactsOK'
    BY <1>1, <1>2, <1>3 DEF ScansInv, FactsOK
  <2>2. ProfileOK(riskProfile)'
    BY <1>1, <1>2, <1>3 DEF ScansInv, ProfileOK
  <2>3. OneAtATime' /\ BlockedStaysSuspect'
    BY <1>2 DEF ScansInv, OneAtATime, BlockedStaysSuspect
  <2>4. BlocksAreAudited'
    BY <1>2 DEF ScansInv, BlocksAreAudited
  <2> QED
    BY <2>1, <2>2, <2>3, <2>4
<1>5. ASSUME NEW c \in Scans PROVE ScanOK(scan[c])'
  <2>1. ScanOK(scan[c]) /\ scan'[c] = scan[c]
    BY <1>2 DEF ScansInv
  <2> QED
    BY <1>2, <1>3, <2>1 DEF ScanOK
<1>6. FraudTypeOK'
  BY <1>1, <1>2 DEF ScansInv, FraudTypeOK
<1> QED
  BY <1>4, <1>5, <1>6 DEF ScansInv

(* A scan moves from k to new; the others stay. *)
LEMMA OneScanMoves ==
    ASSUME ScansInv, NEW c \in Scans, NEW new \in {Rest} \cup [at : Stages, score : Nat, sybil : BOOLEAN],
           scan' = [scan EXCEPT ![c] = new]
    PROVE  /\ scan' \in [Scans -> {Rest} \cup [at : Stages, score : Nat, sybil : BOOLEAN]]
           /\ scan'[c] = new /\ \A d \in Scans \ {c} : scan'[d] = scan[d]
           /\ new \in Carried
<1>1. scan \in [Scans -> {Rest} \cup [at : Stages, score : Nat, sybil : BOOLEAN]]
  BY DEF ScansInv, FraudTypeOK
<1>2. new \in Carried
  <2>1. CASE new = Rest
    BY <2>1 DEF Carried, Rest
  <2>2. CASE new \in [at : Stages, score : Nat, sybil : BOOLEAN]
    BY <2>2, Zenon DEF Carried
  <2> QED
    BY <2>1, <2>2
<1> QED
  BY <1>1, <1>2

(* Steps that leave the tables alone, and all histories but one of them. *)
LEMMA QueryStep ==
    ASSUME ScansInv, NEW c \in Scans, NEW new \in {Rest} \cup [at : Stages, score : Nat, sybil : BOOLEAN],
           scan' = [scan EXCEPT ![c] = new],
           UNCHANGED <<farming, rapid, cohort, riskProfile, isBlocked, audited>>,
           met' \in BOOLEAN, halfway' \in BOOLEAN, met => met', halfway => halfway',
           ScanOK(new)',
           ~met' => new.at = "idle" \/ \A d \in Scans \ {c} : scan[d].at = "idle",
           halfway' \/ (scan[c].at \notin {"block", "audit"})
    PROVE  ScansInv'
<1>1. /\ scan' \in [Scans -> {Rest} \cup [at : Stages, score : Nat, sybil : BOOLEAN]]
      /\ scan'[c] = new /\ \A d \in Scans \ {c} : scan'[d] = scan[d]
  BY OneScanMoves
<1>2. FraudTypeOK'
  BY <1>1 DEF ScansInv, FraudTypeOK
<1>3. FactsOK' /\ ProfileOK(riskProfile)'
  BY DEF ScansInv, FactsOK, ProfileOK
<1>4. OneAtATime'
  BY <1>1 DEF ScansInv, OneAtATime
<1>5. BlocksAreAudited'
  <2>1. halfway' \/ \A d \in Scans : scan[d].at \in {"block", "audit"} => scan'[d] = scan[d]
    BY <1>1
  <2> QED
    BY <2>1 DEF ScansInv, BlocksAreAudited
<1>6. BlockedStaysSuspect'
  BY DEF ScansInv, BlockedStaysSuspect
<1>7. ASSUME NEW d \in Scans PROVE ScanOK(scan[d])'
  <2>1. CASE d = c
    BY <1>1, <2>1
  <2>2. CASE d # c
    <3>1. ScanOK(scan[d]) /\ scan'[d] = scan[d]
      BY <1>1, <2>2 DEF ScansInv
    <3> QED
      BY <3>1 DEF ScanOK
  <2> QED
    BY <2>1, <2>2
<1> QED
  BY <1>2, <1>3, <1>4, <1>5, <1>6, <1>7 DEF ScansInv

LEMMA ScanStarts ==
    ASSUME ScansInv, NEW c \in Scans, StartScan(c)
    PROVE  ScansInv'
<1>1. PICK new : new = [at |-> "purchases", score |-> IF farming THEN 40 ELSE 0, sybil |-> FALSE]
  OBVIOUS
<1>2. /\ new \in [at : Stages, score : Nat, sybil : BOOLEAN]
      /\ new.at = "purchases" /\ new.score \in {0, 40} /\ new.sybil = FALSE
  BY <1>1 DEF Stages
<1>3. scan' = [scan EXCEPT ![c] = new] /\ scan[c].at = "idle"
  BY <1>1 DEF StartScan
<1>4. UNCHANGED <<farming, rapid, cohort, riskProfile, isBlocked, audited, halfway>>
  BY DEF StartScan, facts, tables
<1>5. met' \in BOOLEAN /\ (met => met') /\ (~met' => \A d \in Scans \ {c} : scan[d].at = "idle")
  BY DEF StartScan, ScansInv, FactsOK
<1>6. ScanOK(new)'
  BY <1>2 DEF ScanOK, Carried
<1> QED
  BY <1>2, <1>3, <1>4, <1>5, <1>6, QueryStep DEF ScansInv, FactsOK

LEMMA PurchasesCounted ==
    ASSUME ScansInv, NEW c \in Scans, CountPurchases(c)
    PROVE  ScansInv'
<1>1. PICK k : k = scan[c]
  OBVIOUS
<1>2. k \in Carried /\ k.at = "purchases" /\ k.score <= 40 /\ k.sybil = FALSE
  BY <1>1 DEF ScansInv, ScanOK, CountPurchases, Carried
<1>3. PICK more : more = IF rapid THEN 30 ELSE 0
  OBVIOUS
<1>4. PICK new : new = [k EXCEPT !.at = "cohort", !.score = k.score + more]
  OBVIOUS
<1>5. more \in {0, 30} /\ k.score \in Nat
  BY <1>2, <1>3 DEF Carried
<1>6. /\ new \in [at : Stages, score : Nat, sybil : BOOLEAN]
      /\ new.at = "cohort" /\ new.score = k.score + more /\ new.sybil = FALSE
  <2>1. new = [at |-> "cohort", score |-> k.score + more, sybil |-> FALSE]
    BY <1>2, <1>4 DEF Carried
  <2>2. k.score + more \in Nat
    BY <1>5
  <2> QED
    BY <2>1, <2>2 DEF Stages
<1>7. scan' = [scan EXCEPT ![c] = new]
  <2>1. scan' = [scan EXCEPT ![c].at = "cohort", ![c].score = scan[c].score + more]
    BY <1>3 DEF CountPurchases
  <2> QED
    BY <1>1, <1>2, <1>4, <2>1 DEF ScansInv, FraudTypeOK, Carried
<1>8. UNCHANGED <<farming, rapid, cohort, riskProfile, isBlocked, audited, met, halfway>>
  BY DEF CountPurchases, facts, tables, histories
<1>9. ScanOK(new)'
  BY <1>2, <1>5, <1>6 DEF ScanOK, Carried
<1>10. ~met' => \A d \in Scans \ {c} : scan[d].at = "idle"
  BY <1>1, <1>2, <1>8 DEF ScansInv, OneAtATime
<1> QED
  BY <1>1, <1>2, <1>6, <1>7, <1>8, <1>9, <1>10, QueryStep DEF ScansInv, FactsOK

LEMMA CohortCounted ==
    ASSUME ScansInv, NEW c \in Scans, CountCohort(c)
    PROVE  ScansInv'
<1>1. PICK k : k = scan[c]
  OBVIOUS
<1>2. k \in Carried /\ k.at = "cohort" /\ k.score <= 70 /\ k.sybil = FALSE
  BY <1>1 DEF ScansInv, ScanOK, CountCohort, Carried
<1>3. PICK sybil \in BOOLEAN : sybil = (cohort >= Cluster)
  <2>1. CASE cohort >= Cluster
    <3>1. TRUE = (cohort >= Cluster)
      BY <2>1
    <3> QED
      BY <3>1, Zenon
  <2>2. CASE ~ (cohort >= Cluster)
    <3>1. FALSE = (cohort >= Cluster)
      BY <2>2
    <3> QED
      BY <3>1, Zenon
  <2> QED
    BY <2>1, <2>2, Zenon
<1>4. PICK more : more = IF sybil THEN 50 ELSE 0
  OBVIOUS
<1>5. PICK new : new = [k EXCEPT !.at = "upsert", !.sybil = sybil, !.score = k.score + more]
  OBVIOUS
<1>6. more \in {0, 50} /\ k.score \in Nat
  BY <1>2, <1>4 DEF Carried
<1>7. /\ new \in [at : Stages, score : Nat, sybil : BOOLEAN]
      /\ new.at = "upsert" /\ new.score = k.score + more /\ new.sybil = sybil
  <2>1. new = [at |-> "upsert", score |-> k.score + more, sybil |-> sybil]
    BY <1>2, <1>5 DEF Carried
  <2>2. k.score + more \in Nat
    BY <1>6
  <2> QED
    BY <1>3, <2>1, <2>2 DEF Stages
<1>8. scan' = [scan EXCEPT ![c] = new]
  <2>1. scan' = [scan EXCEPT ![c].at = "upsert", ![c].sybil = sybil, ![c].score = scan[c].score + more]
    BY <1>3, <1>4 DEF CountCohort
  <2> QED
    BY <1>1, <1>2, <1>5, <2>1 DEF ScansInv, FraudTypeOK, Carried
<1>9. UNCHANGED <<farming, rapid, cohort, riskProfile, isBlocked, audited, met, halfway>>
  BY DEF CountCohort, facts, tables, histories
<1>10. ~sybil => new.score <= 70
  BY <1>2, <1>4, <1>6, <1>7
<1>11. isBlocked => sybil
  BY <1>3 DEF ScansInv, FactsOK
<1>12. ScanOK(new)'
  <2>1. new \in Carried
    BY <1>7 DEF Carried
  <2>2. sybil => cohort' >= Cluster
    BY <1>3, <1>9
  <2> QED
    BY <1>7, <1>9, <1>10, <1>11, <2>1, <2>2 DEF ScanOK
<1>13. ~met' => \A d \in Scans \ {c} : scan[d].at = "idle"
  BY <1>1, <1>2, <1>9 DEF ScansInv, OneAtATime
<1> QED
  BY <1>1, <1>2, <1>7, <1>8, <1>9, <1>12, <1>13, QueryStep DEF ScansInv, FactsOK

LEMMA ScanEnded ==
    ASSUME ScansInv, NEW c \in Scans, ScanEnds(c)
    PROVE  ScansInv'
<1>1. Rest.at = "idle" /\ Rest \in Carried /\ Rest.sybil = FALSE
  BY DEF Rest, Carried
<1>2. ScanOK(Rest)'
  BY <1>1 DEF ScanOK
<1>3. UNCHANGED <<farming, rapid, cohort, riskProfile, isBlocked, audited, met>>
  BY DEF ScanEnds, facts, tables
<1>4. /\ scan' = [scan EXCEPT ![c] = Rest]
      /\ halfway' \in BOOLEAN /\ (halfway => halfway')
      /\ halfway' \/ (scan[c].at \notin {"block", "audit"})
  BY DEF ScanEnds, ScansInv, FactsOK
<1> QED
  BY <1>1, <1>2, <1>3, <1>4, QueryStep DEF ScansInv, FactsOK

(* Saving is where a score counts: CRITICAL takes a cluster. *)
LEMMA CriticalIsACluster ==
    ASSUME NEW score \in Nat, Level(score) = "CRITICAL"
    PROVE  score >= 80
BY DEF Level

LEMMA ProfileSaved ==
    ASSUME ScansInv, NEW c \in Scans, SaveProfile(c)
    PROVE  ScansInv'
<1>1. PICK k : k = scan[c]
  OBVIOUS
<1>2. k \in Carried /\ ScanOK(k) /\ k.at = "upsert" /\ k.score \in Nat
  BY <1>1 DEF ScansInv, ScanOK, SaveProfile, Carried
<1>3. k.sybil \in BOOLEAN
  BY <1>2, Zenon DEF Carried
<1>4. PICK level : level = Level(k.score)
  OBVIOUS
<1>5. level \in Levels /\ (level = "CRITICAL" => k.score >= 80)
  BY <1>2, <1>4, CriticalIsACluster DEF Level, Levels
<1>6. PICK new : new = IF level = "CRITICAL" THEN [k EXCEPT !.at = "block"] ELSE Rest
  OBVIOUS
<1>7. new \in {Rest} \cup [at : Stages, score : Nat, sybil : BOOLEAN]
  <2>1. CASE level = "CRITICAL"
    <3>1. new = [at |-> "block", score |-> k.score, sybil |-> k.sybil]
      BY <1>2, <1>6, <2>1 DEF Carried
    <3> QED
      BY <1>2, <1>3, <3>1 DEF Stages
  <2>2. CASE level # "CRITICAL"
    BY <1>6, <2>2
  <2> QED
    BY <2>1, <2>2
<1>8. /\ level = "CRITICAL" => new.at = "block" /\ new.sybil = k.sybil
      /\ level # "CRITICAL" => new.at = "idle" /\ new.sybil = FALSE
  BY <1>2, <1>6 DEF Carried, Rest
<1>9. scan' = [scan EXCEPT ![c] = new]
  BY <1>1, <1>2, <1>4, <1>6 DEF SaveProfile, ScansInv, FraudTypeOK, Carried
<1>10. /\ scan' \in [Scans -> {Rest} \cup [at : Stages, score : Nat, sybil : BOOLEAN]]
       /\ scan'[c] = new /\ \A d \in Scans \ {c} : scan'[d] = scan[d]
       /\ new \in Carried
  BY <1>7, <1>9, OneScanMoves
<1>11. UNCHANGED <<farming, rapid, cohort, isBlocked, audited, met, halfway>>
  BY DEF SaveProfile, facts, histories
<1>12. riskProfile' = [level |-> level, score |-> k.score, sybil |-> k.sybil]
  BY <1>1, <1>4 DEF SaveProfile
<1>13. riskProfile'.level = level /\ riskProfile'.sybil = k.sybil
  BY <1>12
<1>14. level = "CRITICAL" => k.sybil
  BY <1>2, <1>3, <1>5 DEF ScanOK
<1>15. ~met => \A d \in Scans \ {c} : scan[d].at = "idle"
  BY <1>1, <1>2 DEF ScansInv, OneAtATime
<1>16. FraudTypeOK'
  <2>1. riskProfile' \in Report
    BY <1>2, <1>3, <1>5, <1>12 DEF Report
  <2> QED
    BY <1>10, <1>11, <2>1 DEF ScansInv, FraudTypeOK
<1>17. FactsOK'
  BY <1>11 DEF ScansInv, FactsOK
<1>18. ProfileOK(riskProfile)'
  <2>1. riskProfile' \in [level : Levels \cup {"none"}, score : Nat, sybil : BOOLEAN]
    BY <1>2, <1>3, <1>5, <1>12
  <2>2. k.sybil => cohort' >= Cluster
    BY <1>2, <1>11 DEF ScanOK
  <2> QED
    BY <1>13, <1>14, <2>1, <2>2 DEF ProfileOK
<1>19. OneAtATime'
  BY <1>10, <1>11, <1>15 DEF OneAtATime
<1>20. BlocksAreAudited'
  <2>1. \A d \in Scans : scan[d].at \in {"block", "audit"} => scan'[d] = scan[d]
    BY <1>1, <1>2, <1>10
  <2>2. riskProfile'.level = "CRITICAL" => scan'[c].at = "block"
    BY <1>8, <1>10, <1>13
  <2> QED
    BY <1>11, <2>1, <2>2 DEF ScansInv, BlocksAreAudited
<1>21. BlockedStaysSuspect'
  BY <1>2, <1>11, <1>13 DEF ScanOK, BlockedStaysSuspect
<1>22. ASSUME NEW d \in Scans PROVE ScanOK(scan[d])'
  <2>1. CASE d = c
    <3>1. ScanOK(new)'
      <4>1. CASE level = "CRITICAL"
        BY <1>2, <1>8, <1>10, <1>11, <1>13, <1>14, <4>1 DEF ScanOK
      <4>2. CASE level # "CRITICAL"
        BY <1>8, <1>10, <4>2 DEF ScanOK
      <4> QED
        BY <4>1, <4>2
    <3> QED
      BY <1>10, <2>1, <3>1
  <2>2. CASE d # c
    <3>1. ScanOK(scan[d]) /\ scan'[d] = scan[d]
      BY <1>10, <2>2 DEF ScansInv
    <3>2. ~met => scan[d].at = "idle"
      BY <1>15, <2>2
    <3> QED
      BY <1>11, <3>1, <3>2 DEF ScanOK
  <2> QED
    BY <2>1, <2>2
<1> QED
  BY <1>16, <1>17, <1>18, <1>19, <1>20, <1>21, <1>22 DEF ScansInv

LEMMA UserBlocked ==
    ASSUME ScansInv, NEW c \in Scans, AutoBlock(c)
    PROVE  ScansInv'
<1>1. PICK k : k = scan[c]
  OBVIOUS
<1>2. k \in Carried /\ ScanOK(k) /\ k.at = "block" /\ k.score \in Nat
  BY <1>1 DEF ScansInv, ScanOK, AutoBlock, Carried
<1>3. PICK new : new = [k EXCEPT !.at = "audit"]
  OBVIOUS
<1>4. new \in {Rest} \cup [at : Stages, score : Nat, sybil : BOOLEAN]
  <2>1. k.sybil \in BOOLEAN
    BY <1>2, Zenon DEF Carried
  <2>2. new = [at |-> "audit", score |-> k.score, sybil |-> k.sybil]
    BY <1>2, <1>3 DEF Carried
  <2> QED
    BY <1>2, <2>1, <2>2 DEF Stages
<1>5. new.at = "audit" /\ new.sybil = k.sybil
  BY <1>2, <1>3 DEF Carried
<1>6. scan' = [scan EXCEPT ![c] = new]
  BY <1>1, <1>2, <1>3 DEF AutoBlock, ScansInv, FraudTypeOK, Carried
<1>7. /\ scan' \in [Scans -> {Rest} \cup [at : Stages, score : Nat, sybil : BOOLEAN]]
      /\ scan'[c] = new /\ \A d \in Scans \ {c} : scan'[d] = scan[d]
      /\ new \in Carried
  BY <1>4, <1>6, OneScanMoves
<1>8. UNCHANGED <<farming, rapid, cohort, riskProfile, audited, met, halfway>> /\ isBlocked' = TRUE
  BY DEF AutoBlock, facts, histories
<1>9. k.sybil /\ cohort >= Cluster /\ (~met => riskProfile.sybil)
  BY <1>2 DEF ScanOK
<1>10. ~met => \A d \in Scans \ {c} : scan[d].at = "idle"
  BY <1>1, <1>2 DEF ScansInv, OneAtATime
<1>11. FraudTypeOK' /\ FactsOK' /\ ProfileOK(riskProfile)'
  <2>1. FactsOK'
    BY <1>8, <1>9 DEF ScansInv, FactsOK
  <2>2. ProfileOK(riskProfile)'
    BY <1>8 DEF ScansInv, ProfileOK
  <2>3. FraudTypeOK'
    BY <1>7, <1>8 DEF ScansInv, FraudTypeOK
  <2> QED
    BY <2>1, <2>2, <2>3
<1>12. OneAtATime' /\ BlockedStaysSuspect'
  BY <1>7, <1>8, <1>9, <1>10 DEF OneAtATime, BlockedStaysSuspect
<1>13. BlocksAreAudited'
  <2>1. scan'[c].at = "audit"
    BY <1>5, <1>7
  <2> QED
    BY <1>8, <2>1 DEF BlocksAreAudited
<1>14. ASSUME NEW d \in Scans PROVE ScanOK(scan[d])'
  <2>1. CASE d = c
    <3>1. ScanOK(new)'
      BY <1>5, <1>7, <1>8, <1>9 DEF ScanOK
    <3> QED
      BY <1>7, <2>1, <3>1
  <2>2. CASE d # c
    <3>1. ScanOK(scan[d]) /\ scan'[d] = scan[d]
      BY <1>7, <2>2 DEF ScansInv
    <3>2. ~met => scan[d].at = "idle"
      BY <1>10, <2>2
    <3> QED
      BY <1>8, <3>1, <3>2 DEF ScanOK
  <2> QED
    BY <2>1, <2>2
<1> QED
  BY <1>11, <1>12, <1>13, <1>14 DEF ScansInv

LEMMA BlockAudited ==
    ASSUME ScansInv, NEW c \in Scans, Audit(c)
    PROVE  ScansInv'
<1>1. ScanOK(scan[c]) /\ scan[c].at = "audit"
  BY DEF ScansInv, Audit
<1>2. isBlocked
  BY <1>1 DEF ScanOK
<1>3. /\ scan' \in [Scans -> {Rest} \cup [at : Stages, score : Nat, sybil : BOOLEAN]]
      /\ scan'[c] = Rest /\ \A d \in Scans \ {c} : scan'[d] = scan[d]
      /\ Rest \in Carried
  BY OneScanMoves DEF Audit
<1>4. UNCHANGED <<farming, rapid, cohort, riskProfile, isBlocked, met, halfway>> /\ audited' = TRUE
  BY DEF Audit, facts, histories
<1>5. Rest.at = "idle" /\ Rest.sybil = FALSE
  BY DEF Rest
<1>6. FraudTypeOK' /\ FactsOK' /\ ProfileOK(riskProfile)'
  <2>1. FactsOK'
    BY <1>4 DEF ScansInv, FactsOK
  <2>2. ProfileOK(riskProfile)'
    BY <1>4 DEF ScansInv, ProfileOK
  <2>3. FraudTypeOK'
    BY <1>3, <1>4 DEF ScansInv, FraudTypeOK
  <2> QED
    BY <2>1, <2>2, <2>3
<1>7. OneAtATime' /\ BlockedStaysSuspect'
  BY <1>3, <1>4, <1>5 DEF ScansInv, OneAtATime, BlockedStaysSuspect
<1>8. BlocksAreAudited'
  BY <1>2, <1>4 DEF BlocksAreAudited
<1>9. ASSUME NEW d \in Scans PROVE ScanOK(scan[d])'
  <2>1. CASE d = c
    BY <1>3, <1>5, <2>1 DEF ScanOK
  <2>2. CASE d # c
    <3>1. ScanOK(scan[d]) /\ scan'[d] = scan[d]
      BY <1>3, <2>2 DEF ScansInv
    <3> QED
      BY <1>4, <3>1 DEF ScanOK
  <2> QED
    BY <2>1, <2>2
<1> QED
  BY <1>6, <1>7, <1>8, <1>9 DEF ScansInv

LEMMA FraudStep == ScansInv /\ [FraudNext]_fraudVars => ScansInv'
<1> SUFFICES ASSUME ScansInv, [FraudNext]_fraudVars PROVE ScansInv'
  OBVIOUS
<1>1. CASE UNCHANGED fraudVars
  <2>1. UNCHANGED <<farming, rapid, cohort, scan, riskProfile, isBlocked, audited, met, halfway>>
    BY <1>1 DEF fraudVars
  <2>2. ASSUME NEW d \in Scans PROVE ScanOK(scan[d])'
    <3>1. ScanOK(scan[d])
      BY DEF ScansInv
    <3> QED
      BY <2>1, <3>1 DEF ScanOK
  <2>3. FactsOK' /\ ProfileOK(riskProfile)' /\ OneAtATime' /\ BlocksAreAudited' /\ BlockedStaysSuspect' /\ FraudTypeOK'
    BY <2>1 DEF ScansInv, FactsOK, ProfileOK, OneAtATime, BlocksAreAudited, BlockedStaysSuspect, FraudTypeOK
  <2> QED
    BY <2>2, <2>3 DEF ScansInv
<1>2. CASE FraudNext
  BY <1>2, FactsChanged, ScanStarts, PurchasesCounted, CohortCounted, ProfileSaved, UserBlocked,
     BlockAudited, ScanEnded DEF FraudNext
<1> QED
  BY <1>1, <1>2

LEMMA FraudBegins == FraudInit => ScansInv
<1> SUFFICES ASSUME FraudInit PROVE ScansInv
  OBVIOUS
<1>1. /\ Rest.at = "idle" /\ Rest.sybil = FALSE /\ Rest \in Carried
      /\ riskProfile.level = "none" /\ riskProfile.sybil = FALSE
      /\ riskProfile \in [level : Levels \cup {"none"}, score : Nat, sybil : BOOLEAN]
  BY DEF FraudInit, Rest, Carried, NoReport
<1>2. /\ scan \in [Scans -> {Rest} \cup [at : Stages, score : Nat, sybil : BOOLEAN]]
      /\ \A c \in Scans : scan[c] = Rest
      /\ farming \in BOOLEAN /\ rapid \in BOOLEAN
      /\ isBlocked = FALSE /\ audited = FALSE /\ met = FALSE /\ halfway = FALSE
  BY DEF FraudInit
<1>3. cohort \in 1..MaxCohort
  BY FraudAssumption DEF FraudInit
<1>4. FactsOK /\ FraudTypeOK
  BY <1>2, <1>3 DEF FactsOK, FraudTypeOK, FraudInit
<1>5. ProfileOK(riskProfile) /\ OneAtATime /\ BlocksAreAudited /\ BlockedStaysSuspect
  BY <1>1, <1>2 DEF ProfileOK, OneAtATime, BlocksAreAudited, BlockedStaysSuspect
<1>6. \A c \in Scans : ScanOK(scan[c])
  BY <1>1, <1>2 DEF ScanOK
<1> QED
  BY <1>4, <1>5, <1>6 DEF ScansInv

LEMMA ScansInvSays == ScansInv => FraudInv
BY DEF ScansInv, FactsOK, ProfileOK, FraudInv, BlockedForACluster

(* However many scans of a user overlap, whatever changes between their    *)
(* queries and wherever they end, nobody is blocked but for a cluster, and *)
(* blocks, profiles and audit entries agree as far as the writes got.      *)
THEOREM ScansAreSound == FraudSpec => []FraudInv
BY FraudBegins, FraudStep, ScansInvSays, PTL DEF FraudSpec
=============================================================================
