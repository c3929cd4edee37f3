---------------------------- MODULE VestingMirror ----------------------------
(***************************************************************************)
(* f/src/modules/vesting: Allocated and Claimed events become schedules    *)
(* and claim rows, and a schedule's totals are recomputed from its rows.   *)
(* POST /vesting/claim is public and stores what it is told: the vesting   *)
(* page reports its claims there, with the amount it had read, but anyone  *)
(* may name any wallet, amount and transaction, and nothing is looked up   *)
(* on chain.  Nothing in the schema makes a user's schedule unique.  The   *)
(* eligibility gate of a report is Verification's; here it has let the     *)
(* report through.                                                         *)
(***************************************************************************)
EXTENDS EventMirror, Functions

CONSTANTS Beneficiaries,  \* the wallets with an allocation
          GrantSizes,     \* amounts of an allocation
          PostedAmounts   \* amounts of a report

(* The contract refuses an allocation and a claim of nothing, and          *)
(* validateClaimVesting a report of nothing.                               *)
ASSUME VestingAssumption ==
    /\ Beneficiaries \subseteq Buyers
    /\ GrantSizes \subseteq Nat \ {0} /\ PostedAmounts \subseteq Nat \ {0}

VARIABLES
    schedules,      \* the VestingSchedule rows: [wallet, total, claimed]
    claims,         \* the VestingClaimEvent rows, by transaction: [schedule, amount,
                    \* reported], the last if the row has block number 0
    raced,          \* history: two calls met at one schedule
    misreported     \* history: transactions reported as what they are not

vestingVars == <<schedules, claims, raced, misreported>>
vestingMirrorVars == <<mirrorVars, vestingVars>>

VestingLabels ==
    {"find", "user", "create", "schedule", "upsert", "write", "row", "insert", "sum", "save"}

(* Transaction i emits the i-th event, if it comes to that; the last one   *)
(* never does.                                                             *)
Transactions == 1..MaxLog + 1

VestingMirrorTypeOK ==
    /\ MirrorTypeOK({"ALLOCATED", "CLAIMED"}, VestingLabels, Transactions)
    /\ schedules \in Seq([wallet : Buyers, total : Nat, claimed : Nat]) /\ raced \in BOOLEAN
    /\ DOMAIN claims \subseteq Transactions /\ misreported \subseteq Transactions
    /\ \A i \in DOMAIN claims : claims[i] \in [schedule : DOMAIN schedules, amount : Nat, reported : BOOLEAN]

VestingMirrorInit == schedules = << >> /\ claims = << >> /\ raced = FALSE /\ misreported = {}

-----------------------------------------------------------------------------
EventsOf(w, type) == {i \in DOMAIN log : log[i].wallet = w /\ log[i].type = type}
OnChain(w, type) == SumFunctionOnSet([i \in DOMAIN log |-> log[i].amount], EventsOf(w, type))
RowsOf(s) == {i \in DOMAIN claims : claims[i].schedule = s}
Claimed(s) == SumFunctionOnSet([i \in DOMAIN claims |-> claims[i].amount], RowsOf(s))
SchedulesOf(w) == {s \in DOMAIN schedules : schedules[s].wallet = w}
Pick(c, s, label) == call' = [call EXCEPT ![c].at = label, ![c].pick = s] /\ UNCHANGED checkpoint

(* The contract pays no more than it has allocated. *)
Allocated(w, a) == Emit([type |-> "ALLOCATED", wallet |-> w, amount |-> a]) /\ UNCHANGED vestingVars
ClaimedOnChain(w, a) ==
    /\ OnChain(w, "ALLOCATED") >= OnChain(w, "CLAIMED") + a
    /\ Emit([type |-> "CLAIMED", wallet |-> w, amount |-> a]) /\ UNCHANGED vestingVars

-----------------------------------------------------------------------------
(* recordFrontendClaim starts with findClaimByTxHash. *)
FindClaim(f) ==
    /\ At(f, "find") /\ Stay /\ UNCHANGED vestingVars
    /\ IF call[f].pos \in DOMAIN claims THEN EndOfEvent(f, TRUE, "user") ELSE Goto(f, "user")

AfterUser(c) ==
    IF c \in Indexers /\ Event(c).type = "ALLOCATED" THEN "upsert" ELSE "schedule"

(* findByUserId, findByWallet: a claim without a schedule is skipped by    *)
(* the indexer; a report makes a schedule first.                           *)
FindSchedule(c) ==
    /\ At(c, "schedule") /\ Stay /\ UNCHANGED vestingVars
    /\ \/ \E s \in SchedulesOf(call[c].wallet) : Pick(c, s, "row")
       \/ /\ SchedulesOf(call[c].wallet) = {}
          /\ IF c \in Fronts THEN Goto(c, "upsert") ELSE EndOfEvent(c, TRUE, "user")

(* upsertSchedule: findFirst, then an update or a create. *)
FindForUpsert(c) ==
    /\ At(c, "upsert") /\ Stay /\ UNCHANGED vestingVars
    /\ \/ \E s \in SchedulesOf(call[c].wallet) : Pick(c, s, "write")
       \/ SchedulesOf(call[c].wallet) = {} /\ Pick(c, 0, "write")

(* totalAllocatedWei is the amount of the event, and "0" in a report. *)
TotalWritten(c) == IF c \in Fronts THEN 0 ELSE call[c].amount

WriteSchedule(c) ==
    /\ At(c, "write") /\ Stay /\ UNCHANGED <<claims, misreported>>
    /\ LET s == IF call[c].pick = 0 THEN Len(schedules) + 1 ELSE call[c].pick IN
       /\ schedules' =
            IF call[c].pick = 0
            THEN Append(schedules, [wallet |-> call[c].wallet, total |-> TotalWritten(c), claimed |-> 0])
            ELSE [schedules EXCEPT ![s].total = TotalWritten(c)]
       /\ IF c \in Fronts THEN Pick(c, s, "row") ELSE EndOfEvent(c, TRUE, "user")
    /\ raced' = (raced \/ (call[c].pick = 0 /\ SchedulesOf(call[c].wallet) # {})
                       \/ (call[c].pick # 0 /\ c \in Fronts))

SkipKnownRow(c) ==      \* mutant: nothing more to do for a claim already recorded
    /\ At(c, "row") /\ Stay /\ UNCHANGED vestingVars
    /\ IF call[c].pos \in DOMAIN claims THEN EndOfEvent(c, TRUE, "user") ELSE Goto(c, "insert")

(* recordClaimEvent: findUnique, then create, which the unique txHash may  *)
(* refuse; what was found is left as it is.                                *)
FindRow(c) ==
    /\ At(c, "row") /\ Stay /\ UNCHANGED vestingVars
    /\ Goto(c, IF call[c].pos \in DOMAIN claims THEN "sum" ELSE "insert")

InsertRow(c) ==
    /\ At(c, "insert") /\ Stay /\ UNCHANGED <<schedules, misreported>>
    /\ IF call[c].pos \in DOMAIN claims THEN EndOfEvent(c, FALSE, "user") /\ UNCHANGED <<claims, raced>>
       ELSE /\ claims' = [i \in DOMAIN claims \cup {call[c].pos} |->
                  IF i \in DOMAIN claims THEN claims[i]
                  ELSE [schedule |-> call[c].pick, amount |-> call[c].amount, reported |-> c \in Fronts]]
            /\ raced' = (raced \/ \E d \in Callers : At(d, "save") /\ call[d].pick = call[c].pick)
            /\ Goto(c, "sum")

(* updateScheduleClaimStats: the sum is read, then written. *)
SumRows(c) ==
    /\ At(c, "sum") /\ Stay /\ UNCHANGED vestingVars
    /\ call' = [call EXCEPT ![c].at = "save", ![c].amount = Claimed(call[c].pick)] /\ UNCHANGED checkpoint
SaveStats(c) ==
    /\ At(c, "save") /\ Stay /\ UNCHANGED <<claims, raced, misreported>>
    /\ schedules' = [schedules EXCEPT ![call[c].pick].claimed = call[c].amount]
    /\ EndOfEvent(c, TRUE, "user")

VestingWork(c) ==
    \/ (StartRun(c, "user") \/ FindUser(c, AfterUser(c)) \/ CreateUser(c, AfterUser(c), "user"))
          /\ UNCHANGED vestingVars
    \/ FindClaim(c) \/ FindSchedule(c) \/ FindForUpsert(c) \/ WriteSchedule(c)
    \/ FindRow(c) \/ InsertRow(c) \/ SumRows(c) \/ SaveStats(c)

(* A claim of w's with that hash and of no less: the page has read what    *)
(* could be claimed before it sent the transaction.                        *)
IsClaim(i, w, a) == i \in EventsOf(w, "CLAIMED") /\ a <= log[i].amount

(* POST /vesting/claim: the form of the wallet, the hash and the amount is *)
(* all that is checked.                                                    *)
claimVesting(f, i, w, a) ==
    /\ StartReport(f, "find", i, w, a)
    /\ misreported' = IF IsClaim(i, w, a) \/ i \in DOMAIN claims THEN misreported ELSE misreported \cup {i}
    /\ UNCHANGED <<schedules, claims, raced>>

VestingMirrorNext ==
    \/ \E c \in Callers : VestingWork(c) \/ (Die(c) /\ UNCHANGED vestingVars)
    \/ \E w \in Beneficiaries : \E a \in GrantSizes : Allocated(w, a) \/ ClaimedOnChain(w, a)
                                    \/ ClaimedOnChain(w, 1)
    \/ \E f \in Fronts, i \in Transactions, w \in Buyers, a \in PostedAmounts : claimVesting(f, i, w, a)

-----------------------------------------------------------------------------
(* vesting.domain.ts: what a profile and the dashboard say of a schedule.  *)
(* claimCount is saved with the sum, and is 0 just when the sum is: no     *)
(* claim is of nothing.                                                    *)
calculateProgress(s) == IF s.total = 0 THEN 0 ELSE (s.claimed * 100) \div s.total
calculateRemaining(total, claimed) == IF claimed >= total THEN 0 ELSE total - claimed
deriveClaimStatus(s) ==
    IF s.claimed = 0 THEN "NOT_STARTED"
    ELSE IF s.claimed >= s.total /\ s.total > 0 THEN "COMPLETED" ELSE "PARTIAL"

-----------------------------------------------------------------------------
VestingMirrorSpec ==
    contract = "Vesting" /\ MirrorInit /\ VestingMirrorInit /\ [][VestingMirrorNext]_vestingMirrorVars

-----------------------------------------------------------------------------
BehindCheckpoint(w) == \A i \in DOMAIN log : log[i].wallet = w => i <= checkpoint

(* A row that a report wrote and that is not what the chain says. *)
Misled(i) == claims[i].reported /\ i \in misreported
HonestRows(s) == \A i \in RowsOf(s) : ~Misled(i)

(* Behind the checkpoint every claim has its row.  A row the indexer wrote *)
(* is its event's, and so is one a report wrote - on a schedule of the     *)
(* event's wallet, of no more than its amount - unless it was about a      *)
(* transaction that was not that claim.  A claim of an unknown schedule is *)
(* skipped for good, so this rests on the order of the events: an          *)
(* allocation comes before its claims, and a run that has skipped a claim  *)
(* because the allocation threw is not checkpointed.                       *)
ClaimsMirrored ==
    /\ \A i \in DOMAIN log : i <= checkpoint /\ log[i].type = "CLAIMED" => i \in DOMAIN claims
    /\ \A i \in DOMAIN claims :
         /\ ~Misled(i) => IsClaim(i, schedules[claims[i].schedule].wallet, claims[i].amount)
         /\ ~claims[i].reported => claims[i].amount = log[i].amount

(* Once the checkpoint is past a wallet's events, claimed is the sum of    *)
(* its schedule's rows - whoever is at work there, and also after a        *)
(* restart between a row and its sum, which the next run makes up for -    *)
(* unless two calls met at the schedule.  No run comes by for a row whose  *)
(* transaction is not a claim of the wallet: where there is one, the sum   *)
(* is the reporting call's alone to save.                                  *)
StatsAddUp ==
    \A s \in DOMAIN schedules : LET w == schedules[s].wallet IN
        (~raced /\ BehindCheckpoint(w) /\ RowsOf(s) \subseteq EventsOf(w, "CLAIMED"))
            => schedules[s].claimed = Claimed(s)

(* Likewise the total of a wallet with a single allocation, the report's   *)
(* zero included, is what the contract allocated.  With several it is the  *)
(* amount of the last: the table mirrors a grant, not the contract's sum.  *)
SingleGrantMirrored ==
    \A s \in DOMAIN schedules : LET w == schedules[s].wallet IN
        (~raced /\ BehindCheckpoint(w) /\ Cardinality(EventsOf(w, "ALLOCATED")) = 1)
            => schedules[s].total = OnChain(w, "ALLOCATED")

(* "Calculates claim progress as percentage (0-100)" (vesting.domain.ts).  *)
(* For a wallet with a single allocation and no misleading report it is    *)
(* one at every moment, behind the checkpoint or not and whoever meets at  *)
(* the schedule; 100 is what COMPLETED means, and what remains is what has *)
(* not been claimed.                                                       *)
ProgressIsAPercentage ==
    \A s \in DOMAIN schedules : LET row == schedules[s] IN
        Cardinality(EventsOf(row.wallet, "ALLOCATED")) <= 1 /\ HonestRows(s) =>
            /\ calculateProgress(row) <= 100
            /\ deriveClaimStatus(row) = "COMPLETED" <=> calculateProgress(row) = 100
            /\ row.total > 0 => row.claimed + calculateRemaining(row.total, row.claimed) = row.total

(* The schedules and claim rows are Vesting's behind the checkpoint, and   *)
(* what is said of them is true of the chain, as far as what was reported  *)
(* is.                                                                     *)
VestingMirrored == contract = "Vesting" =>
    /\ VestingMirrorTypeOK /\ ClaimsMirrored /\ StatsAddUp /\ SingleGrantMirrored
    /\ ProgressIsAPercentage

(* Every claim on chain is recorded in the end, also when no page reports  *)
(* it and whatever calls die on the way.  This is what holds from some     *)
(* moment on.                                                              *)
ClaimsCaughtUp ==
    \A i \in DOMAIN log :
        (contract = "Vesting" /\ log[i].type = "CLAIMED") => i \in DOMAIN claims
=============================================================================
