--------------------------- MODULE MerkleRebuild ---------------------------
(***************************************************************************)
(* From points to the Merkle root on chain (f/src/modules/airdrop): an     *)
(* admin approves a task, which adds points and recalculates allocations;  *)
(* the hourly cron, the admin routes and the queue worker rebuild the tree *)
(* of all allocations, make it the active root of the database, save its   *)
(* proofs and push it to the Airdrop contract.  No lock keeps these calls  *)
(* apart, and each await of a call is a step.                              *)
(*                                                                         *)
(* A tree is the sequence of its leaves, ordered by points: two orders of  *)
(* the same leaves have different roots.  Prisma's updatedAt timestamps    *)
(* are seen through the only comparison made of them, with the completedAt *)
(* of the latest completed job.  A user's status is ACTIVE until the fraud *)
(* scan blocks the user, for good; isEligible is never taken back.         *)
(***************************************************************************)
EXTENDS Integers, Sequences, FiniteSets

CONSTANTS
    Participants,
    InitialPoints,     \* points at the start, 0 for no participant row
    Tasks,             \* submitted tasks the admins may approve
    UserOf, PointsOf,  \* whose task it is, and what it is worth
    Rebuilders,        \* callers of rebuildAndSync
    CronCallers,       \* those that ask isRebuildNeeded first
    Approvers,         \* admins approving tasks
    TOKENS_PER_POINT,  \* points that make one token, in spite of its name
    None,              \* no caller, no task
    MaxFaults          \* bound: exceptions and crashes in a behaviour

Callers == Rebuilders \cup Approvers

ASSUME RebuildAssumption ==
    /\ IsFiniteSet(Participants)
    /\ InitialPoints \in [Participants -> Nat]
    /\ UserOf \in [Tasks -> Participants]
    /\ PointsOf \in [Tasks -> Nat \ {0}]
    /\ CronCallers \subseteq Rebuilders
    /\ Rebuilders \cap Approvers = {}
    /\ None \notin Rebuilders
    /\ TOKENS_PER_POINT \in Nat \ {0}
    /\ MaxFaults \in Nat

VARIABLES
    \* AirdropParticipant
    points, allocation,
    dirty,          \* airdropDirty
    updatedSince,   \* updatedAt is after the latest completedAt
    \* MerkleJob, DistributionClaim
    everCompleted,  \* some job is COMPLETED
    claimedSince,   \* a claim was created after the latest completedAt
    \* MerkleRoot, MerkleProof
    rows,           \* the trees with a MerkleRoot row
    active,         \* those with isActive
    proved,         \* those with their proofs saved
    \* the Airdrop contract and what is sent to it
    chainRoot, mempool,
    \* the calls
    pc,
    seen,           \* points read by findMany, or before a reward
    todo,           \* participants the allocation loop has yet to update
    tree,           \* snapshot of a rebuild
    task,           \* task being approved
    \* the environment
    blocked,        \* participants whose user is not ACTIVE any more
    unapproved,     \* tasks not approved yet
    abandoned,      \* history: a call left while its transaction was pending
    overlapped,     \* history: two rebuilds were under way at once
    faults

participantRows == << points, allocation, dirty, updatedSince >>
jobRows == << everCompleted, claimedSince >>
rootRows == << rows, active, proved >>
airdrop == << chainRoot, mempool >>
locals == << seen, todo, tree, task >>
vars == << participantRows, jobRows, rootRows, airdrop, pc, locals, unapproved,
           abandoned, overlapped, faults, blocked >>

NoTree == << >>

-----------------------------------------------------------------------------
(* Mutated form: rounds up. *)
AllocateRoundedUp(n) == (n + TOKENS_PER_POINT - 1) \div TOKENS_PER_POINT

(* In tokens: toWei only scales. *)
calculateAllocation(n) == n \div TOKENS_PER_POINT

Active == Participants \ blocked

(* What the tree of the current points would hold. *)
LeavesDue ==
    {[user |-> p, amount |-> calculateAllocation(points[p])] :
        p \in {q \in Active : calculateAllocation(points[q]) > 0}}

Leaves(t) == {t[i] : i \in DOMAIN t}
ActiveLeaves(t) == {leaf \in Leaves(t) : leaf.user \in Active}

(* Participants with points and an allocation. *)
Eligible == {p \in Active : points[p] > 0 /\ allocation[p] > 0}

(* orderBy points desc leaves the order of equals open. *)
Orders(chosen) ==
    {order \in [1 .. Cardinality(chosen) -> chosen] :
        \A i, j \in DOMAIN order : i < j =>
            order[i] # order[j] /\ points[order[i]] >= points[order[j]]}

TreeOf(order) ==
    [i \in DOMAIN order |-> [user |-> order[i], amount |-> allocation[order[i]]]]

isRebuildNeeded ==
    ~ everCompleted \/ dirty \ blocked # {} \/ updatedSince \ blocked # {} \/ claimedSince

-----------------------------------------------------------------------------
Init ==
    /\ points = InitialPoints
    /\ allocation = [p \in Participants |-> 0]
    /\ dirty = {p \in Participants : InitialPoints[p] > 0}
    /\ updatedSince = dirty
    /\ everCompleted = FALSE
    /\ claimedSince = FALSE
    /\ rows = {}
    /\ active = {}
    /\ proved = {}
    /\ chainRoot = NoTree
    /\ mempool = << >>
    /\ pc = [c \in Callers |-> "idle"]
    /\ seen = [c \in Callers |-> InitialPoints]
    /\ todo = [c \in Callers |-> {}]
    /\ tree = [r \in Rebuilders |-> NoTree]
    /\ task = [a \in Approvers |-> None]
    /\ unapproved = Tasks
    /\ abandoned = FALSE
    /\ overlapped = FALSE
    /\ faults = 0
    /\ blocked = {}

Goto(c, label) == pc' = [pc EXCEPT ![c] = label]

At(c, label) == pc[c] = label

(* Calls end; the transactions they wait for stay in the mempool. *)
Leave(gone) ==
    /\ pc' = [c \in Callers |-> IF c \in gone THEN "idle" ELSE pc[c]]
    /\ seen' = [c \in Callers |-> IF c \in gone THEN InitialPoints ELSE seen[c]]
    /\ todo' = [c \in Callers |-> IF c \in gone THEN {} ELSE todo[c]]
    /\ tree' = [r \in Rebuilders |-> IF r \in gone THEN NoTree ELSE tree[r]]
    /\ task' = [a \in Approvers |-> IF a \in gone THEN None ELSE task[a]]
    /\ mempool' = [i \in DOMAIN mempool |->
                     IF mempool[i].owner \in gone
                     THEN [mempool[i] EXCEPT !.owner = None] ELSE mempool[i]]
    /\ abandoned' = (abandoned \/ \E i \in DOMAIN mempool : mempool[i].owner \in gone)

-----------------------------------------------------------------------------
(* recalculateAllocations, called by rebuilds and by approvals. *)

ReadParticipants(c) ==
    /\ At(c, "recalculate")
    /\ seen' = [seen EXCEPT ![c] = points]
    /\ todo' = [todo EXCEPT ![c] = {p \in Active : points[p] > 0}]
    /\ Goto(c, "allocate")
    /\ UNCHANGED << participantRows, jobRows, rootRows, airdrop, tree, task,
                    unapproved, abandoned, overlapped, faults, blocked >>

(* The update is computed from the points read before the loop. *)
UpdateAllocation(c) ==
    /\ At(c, "allocate")
    /\ \E p \in todo[c] :
        /\ allocation' = [allocation EXCEPT ![p] = calculateAllocation(seen[c][p])]
        /\ dirty' = dirty \ {p}
        /\ updatedSince' = updatedSince \cup {p}
        /\ todo' = [todo EXCEPT ![c] = @ \ {p}]
    /\ UNCHANGED << points, jobRows, rootRows, airdrop, pc, seen, tree, task,
                    unapproved, abandoned, overlapped, faults, blocked >>

(* The loop is over: a rebuild goes on to its snapshot, an approval ends. *)
Recalculated(c) ==
    /\ At(c, "allocate")
    /\ todo[c] = {}
    /\ IF c \in Rebuilders
       THEN /\ Goto(c, "select")
            /\ seen' = [seen EXCEPT ![c] = InitialPoints]
            /\ UNCHANGED << todo, tree, task, mempool, abandoned >>
       ELSE Leave({c})
    /\ UNCHANGED << participantRows, jobRows, rootRows, chainRoot, unapproved,
                    overlapped, faults, blocked >>

recalculateAllocations(c) ==
    ReadParticipants(c) \/ UpdateAllocation(c) \/ Recalculated(c)

-----------------------------------------------------------------------------
(* approveTask: distributeReward, then recalculateAllocations. *)

(* The task becomes VERIFIED and the transaction reads the points. *)
ReadPoints(a) ==
    /\ At(a, "idle")
    /\ \E t \in unapproved :
        /\ unapproved' = unapproved \ {t}
        /\ task' = [task EXCEPT ![a] = t]
    /\ seen' = [seen EXCEPT ![a] = points]
    /\ Goto(a, "reward")
    /\ UNCHANGED << participantRows, jobRows, rootRows, airdrop, todo, tree,
                    abandoned, overlapped, faults, blocked >>

(* The transaction writes the sum it computed, or creates the row. *)
distributeReward(a) ==
    /\ At(a, "reward")
    /\ LET p == UserOf[task[a]]
       IN  /\ points' = [points EXCEPT ![p] = seen[a][p] + PointsOf[task[a]]]
           /\ dirty' = dirty \cup {p}
           /\ updatedSince' = updatedSince \cup {p}
    /\ Goto(a, "recalculate")
    /\ UNCHANGED << allocation, jobRows, rootRows, airdrop, locals, unapproved,
                    abandoned, overlapped, faults, blocked >>

approveTask(a) ==
    ReadPoints(a) \/ distributeReward(a) \/ recalculateAllocations(a)

-----------------------------------------------------------------------------
(* rebuildAndSync. *)

(* Mutated form: a job that failed counts as running and keeps others out. *)
StartUnlessFailed(r) ==
    /\ At(r, "idle") /\ faults = 0
    /\ r \in CronCallers => isRebuildNeeded
    /\ Goto(r, "recalculate")
    /\ overlapped' = (overlapped \/ \E s \in Rebuilders \ {r} : ~ At(s, "idle"))
    /\ UNCHANGED << participantRows, jobRows, rootRows, airdrop, locals,
                    unapproved, abandoned, faults, blocked >>

(* cronRebuild asks first; when nothing is needed the tick changes nothing. *)
Start(r) ==
    /\ At(r, "idle")
    /\ r \in CronCallers => isRebuildNeeded
    /\ Goto(r, "recalculate")
    /\ overlapped' = (overlapped \/ \E s \in Rebuilders \ {r} : ~ At(s, "idle"))
    /\ UNCHANGED << participantRows, jobRows, rootRows, airdrop, locals,
                    unapproved, abandoned, faults, blocked >>

(* getEligibleParticipants and buildMerkleSnapshot. *)
Select(r) ==
    /\ At(r, "select")
    /\ Eligible # {}
    /\ \E order \in Orders(Eligible) : tree' = [tree EXCEPT ![r] = TreeOf(order)]
    /\ Goto(r, "findRoot")
    /\ UNCHANGED << participantRows, jobRows, rootRows, airdrop, seen, todo, task,
                    unapproved, abandoned, overlapped, faults, blocked >>

(* "No eligible participants found": the job fails. *)
NothingToSelect(r) ==
    /\ At(r, "select")
    /\ Eligible = {}
    /\ Leave({r})
    /\ UNCHANGED << participantRows, jobRows, rootRows, chainRoot, unapproved,
                    overlapped, faults, blocked >>

(* Mutated forms: an active root is taken to have its proofs; the branches *)
(* for a known and for a new root are swapped.                             *)
FindRootTrusting(r) ==
    /\ At(r, "findRoot")
    /\ Goto(r, IF tree[r] \in active THEN "readRoot"
               ELSE IF tree[r] \in rows THEN "deactivateAndActivate"
               ELSE "deactivateAndCreate")
    /\ UNCHANGED << participantRows, jobRows, rootRows, airdrop, locals,
                    unapproved, abandoned, overlapped, faults, blocked >>

(* createMerkleRoot: findUnique, updateMany, then update or create. *)
FindRoot(r) ==
    /\ At(r, "findRoot")
    /\ Goto(r, IF tree[r] \in active THEN "saveProofs"
               ELSE IF tree[r] \in rows THEN "deactivateAndActivate"
               ELSE "deactivateAndCreate")
    /\ UNCHANGED << participantRows, jobRows, rootRows, airdrop, locals,
                    unapproved, abandoned, overlapped, faults, blocked >>

(* Mutated form: the previous root stays active. *)
DeactivateNone(r) ==
    /\ \/ At(r, "deactivateAndActivate") /\ Goto(r, "activate")
       \/ At(r, "deactivateAndCreate") /\ Goto(r, "create")
    /\ UNCHANGED << participantRows, jobRows, rootRows, airdrop, locals,
                    unapproved, abandoned, overlapped, faults, blocked >>

DeactivateAll(r) ==
    /\ \/ At(r, "deactivateAndActivate") /\ Goto(r, "activate")
       \/ At(r, "deactivateAndCreate") /\ Goto(r, "create")
    /\ active' = {}
    /\ UNCHANGED << participantRows, jobRows, rows, proved, airdrop, locals,
                    unapproved, abandoned, overlapped, faults, blocked >>

Activate(r) ==
    /\ At(r, "activate")
    /\ active' = active \cup {tree[r]}
    /\ Goto(r, "saveProofs")
    /\ UNCHANGED << participantRows, jobRows, rows, proved, airdrop, locals,
                    unapproved, abandoned, overlapped, faults, blocked >>

CreateRoot(r) ==
    /\ At(r, "create")
    /\ tree[r] \notin rows
    /\ rows' = rows \cup {tree[r]}
    /\ active' = active \cup {tree[r]}
    /\ Goto(r, "saveProofs")
    /\ UNCHANGED << participantRows, jobRows, proved, airdrop, locals, unapproved,
                    abandoned, overlapped, faults, blocked >>

(* Another rebuild created it meanwhile: `root' is unique, the job fails. *)
CreateRootTwice(r) ==
    /\ At(r, "create")
    /\ tree[r] \in rows
    /\ Leave({r})
    /\ UNCHANGED << participantRows, jobRows, rootRows, chainRoot, unapproved,
                    overlapped, faults, blocked >>

saveMerkleProofs(r) ==
    /\ At(r, "saveProofs")
    /\ proved' = proved \cup {tree[r]}
    /\ Goto(r, "readRoot")
    /\ UNCHANGED << participantRows, jobRows, rows, active, airdrop, locals,
                    unapproved, abandoned, overlapped, faults, blocked >>

(* pushMerkleRoot: "already_synced", or a setMerkleRoot transaction. *)
getCurrentMerkleRoot(r) ==
    /\ At(r, "readRoot")
    /\ Goto(r, IF chainRoot = tree[r] THEN "complete" ELSE "push")
    /\ UNCHANGED << participantRows, jobRows, rootRows, airdrop, locals,
                    unapproved, abandoned, overlapped, faults, blocked >>

Push(r) ==
    /\ At(r, "push")
    /\ mempool' = Append(mempool, [root |-> tree[r], owner |-> r])
    /\ Goto(r, "wait")
    /\ UNCHANGED << participantRows, jobRows, rootRows, chainRoot, locals,
                    unapproved, abandoned, overlapped, faults, blocked >>

(* tx.wait() and updateMerkleRootTxHash. *)
Waited(r) ==
    /\ At(r, "wait")
    /\ \A i \in DOMAIN mempool : mempool[i].owner # r
    /\ Goto(r, "complete")
    /\ UNCHANGED << participantRows, jobRows, rootRows, airdrop, locals,
                    unapproved, abandoned, overlapped, faults, blocked >>

(* The job is COMPLETED: its completedAt is later than every updatedAt. *)
Complete(r) ==
    /\ At(r, "complete")
    /\ everCompleted' = TRUE
    /\ updatedSince' = {}
    /\ claimedSince' = FALSE
    /\ Leave({r})
    /\ UNCHANGED << points, allocation, dirty, rootRows, chainRoot, unapproved,
                    overlapped, faults, blocked >>

rebuildAndSync(r) ==
    \/ recalculateAllocations(r)
    \/ Select(r) \/ NothingToSelect(r)
    \/ FindRoot(r) \/ DeactivateAll(r) \/ Activate(r)
    \/ CreateRoot(r) \/ CreateRootTwice(r)
    \/ saveMerkleProofs(r) \/ getCurrentMerkleRoot(r)
    \/ Push(r) \/ Waited(r) \/ Complete(r)

-----------------------------------------------------------------------------
(* Something fails: an exception ends one call (a rebuild's job is FAILED), *)
(* a crash ends every call of a process.                                    *)
Fail ==
    /\ faults < MaxFaults
    /\ faults' = faults + 1
    /\ \E gone \in SUBSET {c \in Callers : ~ At(c, "idle")} :
        gone # {} /\ Leave(gone)
    /\ UNCHANGED << participantRows, jobRows, rootRows, chainRoot, unapproved,
                    overlapped, blocked >>

(* The admin wallet's transactions are mined in the order of their nonces. *)
Mine ==
    /\ mempool # << >>
    /\ chainRoot' = Head(mempool).root
    /\ mempool' = Tail(mempool)
    /\ UNCHANGED << participantRows, jobRows, rootRows, pc, locals, unapproved,
                    abandoned, overlapped, faults, blocked >>

(* An ACTIVE user's claim is recorded against the published root. *)
RecordClaim ==
    /\ chainRoot # NoTree /\ Active # {}
    /\ claimedSince' = TRUE
    /\ UNCHANGED << participantRows, everCompleted, rootRows, airdrop, pc, locals,
                    unapproved, abandoned, overlapped, faults, blocked >>

(* analyzeFraudPatterns blocks a user; nothing unblocks one.  The          *)
(* participant's row, and its updatedAt, are left alone.                   *)
Block(p) ==
    /\ p \in Active /\ blocked' = blocked \cup {p}
    /\ UNCHANGED << participantRows, jobRows, rootRows, airdrop, pc, locals, unapproved,
                    abandoned, overlapped, faults >>

Next ==
    \/ \E a \in Approvers : approveTask(a)
    \/ \E r \in Rebuilders : Start(r) \/ rebuildAndSync(r)
    \/ Fail \/ Mine \/ RecordClaim \/ \E p \in Participants : Block(p)

Spec == Init /\ [][Next]_vars

(* The cron keeps firing, awaits settle, transactions are mined. *)
Fairness ==
    /\ \A r \in CronCallers : WF_vars(Start(r))
    /\ \A r \in Rebuilders : WF_vars(rebuildAndSync(r))
    /\ \A a \in Approvers : WF_vars(~ At(a, "idle") /\ approveTask(a))
    /\ WF_vars(Mine)

FairSpec == Spec /\ Fairness

-----------------------------------------------------------------------------
(* Properties. *)

Leaf == [user : Participants, amount : Nat]

Labels == {"idle", "reward", "recalculate", "allocate", "select", "findRoot",
           "deactivateAndActivate", "deactivateAndCreate", "activate", "create",
           "saveProofs", "readRoot", "push", "wait", "complete"}

(* The type invariant; a tree with proofs and an active one have their row. *)
TypeOK ==
    /\ points \in [Participants -> Nat]
    /\ allocation \in [Participants -> Nat]
    /\ dirty \subseteq Participants /\ updatedSince \subseteq Participants
    /\ everCompleted \in BOOLEAN /\ claimedSince \in BOOLEAN
    /\ rows \subseteq Seq(Leaf)
    /\ active \subseteq rows /\ proved \subseteq rows
    /\ chainRoot \in Seq(Leaf)
    /\ mempool \in Seq([root : Seq(Leaf), owner : Rebuilders \cup {None}])
    /\ pc \in [Callers -> Labels]
    /\ seen \in [Callers -> [Participants -> Nat]]
    /\ todo \in [Callers -> SUBSET Participants]
    /\ tree \in [Rebuilders -> Seq(Leaf)]
    /\ task \in [Approvers -> Tasks \cup {None}]
    /\ \A a \in Approvers : At(a, "reward") => task[a] \in Tasks
    /\ unapproved \subseteq Tasks
    /\ abandoned \in BOOLEAN /\ overlapped \in BOOLEAN /\ blocked \subseteq Participants
    /\ faults \in 0 .. MaxFaults

(* Whatever rebuilds overlap and wherever they die, a root on chain, or on *)
(* its way there, has its proofs saved: once its row is active its leaves  *)
(* can be claimed.                                                         *)
PublishedRootsHaveProofs ==
    /\ chainRoot \in proved \cup {NoTree}
    /\ \A i \in DOMAIN mempool : mempool[i].root \in proved

(* No published root gives a participant more than the points are worth,   *)
(* although allocations are computed from points read long before.         *)
NoRootOverpays ==
    \A t \in {chainRoot} \cup {mempool[i].root : i \in DOMAIN mempool} :
        \A leaf \in Leaves(t) :
            leaf.amount * TOKENS_PER_POINT <= points[leaf.user]

AllIdle == \A r \in Rebuilders : At(r, "idle")

(* When the cron would skip, the database and the contract agree: the      *)
(* active root is the one on chain and its proofs are there.  Three things *)
(* can part them.  A transaction that a failed rebuild left behind may be  *)
(* mined after a later rebuild found its root "already_synced".  Of two    *)
(* rebuilds at once, with two orders of equal points, the second may die   *)
(* between deactivating the root of the first and activating its own, when *)
(* the first's completion has told the cron that nothing changed.  And a   *)
(* rebuild that dies there is known only by the participants it updated:   *)
(* when all of them have been blocked since, and no ACTIVE user has points *)
(* that came later, the cron skips without an active root.                 *)
LoneSkipMeansInSync ==
    AllIdle /\ ~ isRebuildNeeded /\ ~ abandoned /\ ~ overlapped
            /\ (\E p \in Active : points[p] > 0) =>
        /\ active = {chainRoot}
        /\ chainRoot \in proved

(* cron-scheduler.ts:44 logs "No changes detected" for a skipped rebuild:  *)
(* the ACTIVE users' leaves on chain are those of the current points.      *)
SkipMeansNoChange ==
    (\A c \in Callers : At(c, "idle")) /\ mempool = << >> /\ ~ isRebuildNeeded =>
        ActiveLeaves(chainRoot) = LeavesDue

(* Rebuilds that fail or crash anywhere are made good by later ticks,      *)
(* whoever is blocked meanwhile: in the end the contract and the only      *)
(* active root hold what the points of the ACTIVE users are worth, with    *)
(* the proofs - if there is such a user left, and beside the leaves of     *)
(* users blocked since, which ask for no rebuild.                          *)
RebuildRecovers ==
    <>[](/\ ActiveLeaves(chainRoot) = LeavesDue
         /\ LeavesDue # {} => active = {chainRoot} /\ chainRoot \in proved)
=============================================================================
