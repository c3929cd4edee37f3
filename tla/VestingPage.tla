----------------------------- MODULE VestingPage -----------------------------
(***************************************************************************)
(* front/src/pages/vesting.tsx: the schedule as read from the contract,    *)
(* its stages, the claim, and the report of what was claimed, whose amount *)
(* is the one the page read before it sent the transaction.  The backend's *)
(* profile of the wallet is only displayed and left out.                   *)
(***************************************************************************)
EXTENDS WalletPage

CONSTANTS Grants,       \* amounts allocated to a wallet
          Stages,       \* TOTAL_STAGES, each 100 \div Stages per cent
          MaxGrants     \* allocations made while the page is open

ASSUME StagesAssumption ==
    /\ Grants \subseteq Nat /\ MaxGrants \in Nat
    /\ Stages \in Nat \ {0} /\ Stages * (100 \div Stages) = 100

VARIABLES
    total, claimed,     \* the contract's vesting[w]
    stage,              \* stages the clock has reached, 0 before the cliff
    vestingPaused,
    read,               \* what the page has read for the connected wallet
    claimOnChainSuccess, grants

vpVars == <<total, claimed, stage, vestingPaused, read, claimOnChainSuccess, grants>>
vestingPageVars == <<pageVars, vpVars>>

Share == 100 \div Stages
Unread == [total |-> 0, claimed |-> 0, releasable |-> 0, paused |-> FALSE]

VestingPageTypeOK ==
    /\ total \in [Wallets -> Nat] /\ claimed \in [Wallets -> Nat]
    /\ stage \in 0..Stages /\ vestingPaused \in BOOLEAN /\ claimOnChainSuccess \in BOOLEAN
    /\ read \in [total : Nat, claimed : Nat, releasable : Nat, paused : BOOLEAN]
    /\ grants \in 0..MaxGrants

VestingPageInit ==
    /\ total = [w \in Wallets |-> 0] /\ claimed = [w \in Wallets |-> 0] /\ stage = 0
    /\ vestingPaused = FALSE /\ read = Unread /\ claimOnChainSuccess = FALSE /\ grants = 0

-----------------------------------------------------------------------------
(* The contract (Vesting.sol): releasable, allocations, the clock, claims. *)
Monus(a, b) == IF a > b THEN a - b ELSE 0
Releasable(w) == IF stage = 0 THEN 0 ELSE Monus((total[w] * stage * Share) \div 100, claimed[w])

Allocate(w, a) ==
    /\ grants < MaxGrants /\ grants' = grants + 1 /\ total' = [total EXCEPT ![w] = @ + a]
    /\ UNCHANGED <<pageVars, claimed, stage, vestingPaused, read, claimOnChainSuccess>>
NextStage ==
    /\ stage < Stages /\ stage' = stage + 1
    /\ UNCHANGED <<pageVars, total, claimed, vestingPaused, read, claimOnChainSuccess, grants>>

MineRelease(i) ==
    LET w == txs[i].from
        paid == IF vestingPaused THEN 0 ELSE Releasable(w) IN
    /\ MineTx(i, paid > 0, paid) /\ claimed' = [claimed EXCEPT ![w] = @ + paid]
    /\ UNCHANGED <<total, stage, vestingPaused, read, claimOnChainSuccess, grants>>

-----------------------------------------------------------------------------
Current(w) == [total |-> total[w], claimed |-> claimed[w], releasable |-> Releasable(w),
               paused |-> vestingPaused]
NowRead == IF wallet = NoWallet THEN Unread ELSE Current(wallet)

ReadVesting ==
    /\ read' = NowRead /\ read' # read
    /\ UNCHANGED <<pageVars, total, claimed, stage, vestingPaused, claimOnChainSuccess, grants>>

VestingWalletChanged ==
    /\ \E w \in Wallets \cup {NoWallet} : Connect(w) \/ SwitchWallet(w)
    /\ read' = Unread
    /\ UNCHANGED <<total, claimed, stage, vestingPaused, claimOnChainSuccess, grants>>

hasAllocation == read.total > 0
canClaim ==
    hasAllocation /\ stage > 0 /\ read.releasable > 0 /\ ~read.paused /\ ~claimOnChainSuccess

(* computeStages: the status of each stage on the page. *)
stageAmount == read.total \div Stages
StageStatus(i) ==
    IF read.claimed >= stageAmount * i THEN "claimed" ELSE IF stage >= i THEN "available" ELSE "locked"

(* handleClaim remembers the amount as read: capturedReleasableRef. *)
Captured == read.releasable
ClaimTokens ==
    /\ canClaim /\ Click("claim", Captured, "claiming", read.claimed = claimed[wallet])
    /\ success' = FALSE /\ claimOnChainSuccess' = FALSE
    /\ UNCHANGED <<total, claimed, stage, vestingPaused, read, grants>>

ClaimConfirmed ==
    /\ LearnReceipt(TRUE)
    /\ IF told' = "mined" /\ step = "waiting"
       THEN success' = TRUE /\ claimOnChainSuccess' = TRUE /\ read' = NowRead
       ELSE UNCHANGED <<success, claimOnChainSuccess, read>>
    /\ UNCHANGED <<total, claimed, stage, vestingPaused, grants>>

ClaimReportAnswered ==
    /\ \E s \in syncs, ok \in BOOLEAN : SyncAnswer(s, ok, TRUE)
    /\ read' = IF syncs' = {} THEN NowRead ELSE read
    /\ UNCHANGED <<total, claimed, stage, vestingPaused, claimOnChainSuccess, grants>>

ReloadVesting ==
    /\ Reload /\ read' = Unread /\ claimOnChainSuccess' = FALSE
    /\ UNCHANGED <<total, claimed, stage, vestingPaused, grants>>

VestingPageStep ==
    \/ \E i \in DOMAIN txs : MineRelease(i)
    \/ ClaimConfirmed \/ ClaimReportAnswered

VestingPageNext ==
    \/ VestingPageStep
    \/ NextStage \/ ReadVesting \/ VestingWalletChanged \/ ClaimTokens \/ ReloadVesting
    \/ \E w \in Wallets, a \in Grants : Allocate(w, a)
    \/ \E f \in flows : (Reject(f) \/ Sign(f, "waiting", {})) /\ UNCHANGED vpVars
    \/ (RetrySync \/ SwitchNetwork) /\ UNCHANGED vpVars

-----------------------------------------------------------------------------
(* The amount the page reports, and the backend stores, is never more than *)
(* what the transaction paid: it was read before the transaction was sent, *)
(* and what is releasable can only have grown (an allocation, a stage).    *)
ReportNeverExceedsPayment ==
    route = "vesting" =>
        \A r \in reports : txs[r.tx].kept => txs[r.tx].arg <= txs[r.tx].paid

(* computeStages multiplies a rounded quarter and the contract rounds a    *)
(* multiple: still, a stage shown as available on true reads is money the  *)
(* contract would pay, and of one shown as claimed all has been paid but   *)
(* for what rounding may hold back, less than one unit a stage.            *)
StagesTellTheTruth ==
    (route = "vesting" /\ wallet # NoWallet /\ read = NowRead /\ hasAllocation) =>
        \A i \in 1..Stages :
            /\ StageStatus(i) = "available" => Releasable(wallet) > 0
            /\ StageStatus(i) = "claimed" =>
                  (total[wallet] * i * Share) \div 100 < claimed[wallet] + Stages
=============================================================================
