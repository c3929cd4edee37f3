------------------------------ MODULE Vesting ------------------------------
(***************************************************************************)
(* The Vesting contract (smart/contracts/Vesting.sol): depositors allocate *)
(* tokens out of its balance, users claim them in four monthly stages      *)
(* after a cliff.  A transaction is atomic, so each function is one        *)
(* action; a revert changes nothing and is a disabled action.  Who may     *)
(* call what is the business of VestingRoles.                              *)
(*                                                                         *)
(* The ERC-20 (smart/contracts/Token.sol) is seen through the balances its *)
(* transfers move: the contract's, the users', and everything else.        *)
(***************************************************************************)
EXTENDS Integers, Functions, FiniteSets

CONSTANTS
    Users,         \* beneficiaries
    Amounts,       \* amounts the calls may carry
    TOTAL_SUPPLY,  \* of the token; minted once
    WALLET_CAP,    \* most a user's wallet may receive up to
    InitialPool,   \* VESTING_AMOUNT, minted to the contract
    DeployTime,    \* when the contract is deployed
    startTime,     \* the constructor's _start, before or after that
    CLIFF, MONTH,  \* lengths of the cliff and of a stage
    MaxTime,       \* bound: the clock stops there
    MaxAllocated,  \* bound: allocations stop there
    MaxRescued     \* bound: rescues stop there

ASSUME VestingAssumption ==
    /\ IsFiniteSet(Users)
    /\ Amounts \subseteq Nat \ {0}
    /\ TOTAL_SUPPLY \in Nat
    /\ WALLET_CAP \in Nat
    /\ InitialPool \in 0 .. TOTAL_SUPPLY
    /\ DeployTime \in Nat
    /\ startTime \in Nat
    /\ CLIFF \in Nat
    /\ MONTH \in Nat \ {0}
    /\ MaxTime \in Nat
    /\ MaxAllocated \in Nat
    /\ MaxRescued \in Nat

TOTAL_STAGES == 4
STAGE_SHARE == 25

VARIABLES
    now,             \* block.timestamp
    pool,            \* token.balanceOf(address(this))
    wallet,          \* token.balanceOf(user)
    elsewhere,       \* the rest of the supply
    total,           \* vesting[user].total
    claimed,         \* vesting[user].claimed
    totalAllocated,
    totalClaimed,
    rescued          \* history: how much rescueERC20 took out of the pool

tokens == << pool, wallet, elsewhere >>
book == << total, claimed, totalAllocated, totalClaimed >>
vestingVars == << now, tokens, book, rescued >>

Init ==
    /\ now = DeployTime
    /\ pool = InitialPool
    /\ wallet = [u \in Users |-> 0]
    /\ elsewhere = TOTAL_SUPPLY - InitialPool
    /\ total = [u \in Users |-> 0]
    /\ claimed = [u \in Users |-> 0]
    /\ totalAllocated = 0
    /\ totalClaimed = 0
    /\ rescued = 0

-----------------------------------------------------------------------------

(* Stages reached at time t, which is not before the cliff. *)
Stages(t) ==
    LET elapsed == t - (startTime + CLIFF)
        stages == elapsed \div MONTH + 1
    IN  IF stages > TOTAL_STAGES THEN TOTAL_STAGES ELSE stages

(* Mutated form of VestedAt: the division comes first. *)
VestedPerStage(n, t) == ((n * STAGE_SHARE) \div 100) * Stages(t)

(* What is released of n tokens at time t. *)
VestedAt(n, t) == (n * Stages(t) * STAGE_SHARE) \div 100

getReservedTokens == totalAllocated - totalClaimed

_releasable(u) ==
    LET vested == VestedAt(total[u], now)
    IN  IF vested <= claimed[u] THEN 0 ELSE vested - claimed[u]

(* Token._update: users' wallets are not excluded from the wallet cap. *)
PayUser(u, amount) ==
    /\ amount <= pool
    /\ wallet[u] + amount <= WALLET_CAP
    /\ pool' = pool - amount
    /\ wallet' = [wallet EXCEPT ![u] = @ + amount]
    /\ UNCHANGED elsewhere

-----------------------------------------------------------------------------
(* Mutated forms: plausible mistakes the properties must notice. *)

AllocateAgainstClaimed(u, amount) ==
    /\ totalAllocated + amount <= MaxAllocated
    /\ pool >= totalAllocated - totalClaimed
    /\ total' = [total EXCEPT ![u] = @ + amount]
    /\ totalAllocated' = totalAllocated + amount
    /\ UNCHANGED << now, tokens, claimed, totalClaimed, rescued >>

AllocateOverwrites(u, amount) ==
    /\ totalAllocated + amount <= MaxAllocated
    /\ pool >= totalAllocated + amount - totalClaimed
    /\ total' = [total EXCEPT ![u] = amount]
    /\ totalAllocated' = totalAllocated + amount
    /\ UNCHANGED << now, tokens, claimed, totalClaimed, rescued >>

ClaimIgnoresCliff(u) ==
    /\ VestedAt(total[u], startTime + CLIFF) > claimed[u]
    /\ LET amount == VestedAt(total[u], startTime + CLIFF) - claimed[u]
       IN  /\ claimed' = [claimed EXCEPT ![u] = @ + amount]
           /\ totalClaimed' = totalClaimed + amount
           /\ PayUser(u, amount)
    /\ UNCHANGED << now, total, totalAllocated, rescued >>

-----------------------------------------------------------------------------
(* The functions of the contract. *)

(* Anybody's ERC-20 transfer into the contract has the same effect. *)
deposit(amount) ==
    /\ amount <= elsewhere
    /\ elsewhere' = elsewhere - amount
    /\ pool' = pool + amount
    /\ UNCHANGED << now, wallet, book, rescued >>

allocate(u, amount) ==
    /\ totalAllocated + amount <= MaxAllocated
    /\ pool >= totalAllocated + amount - totalClaimed
    /\ total' = [total EXCEPT ![u] = @ + amount]
    /\ totalAllocated' = totalAllocated + amount
    /\ UNCHANGED << now, tokens, claimed, totalClaimed, rescued >>

(* The contract has no way to pause itself, so whenNotPaused always holds. *)
claim(u) ==
    /\ total[u] > 0
    /\ now >= startTime + CLIFF
    /\ _releasable(u) > 0
    /\ claimed' = [claimed EXCEPT ![u] = @ + _releasable(u)]
    /\ totalClaimed' = totalClaimed + _releasable(u)
    /\ PayUser(u, _releasable(u))
    /\ UNCHANGED << now, total, totalAllocated, rescued >>

(* Governance takes tokens out; nothing reserves what is allocated. *)
rescueERC20(amount) ==
    /\ amount <= pool
    /\ rescued + amount <= MaxRescued
    /\ pool' = pool - amount
    /\ elsewhere' = elsewhere + amount
    /\ rescued' = rescued + amount
    /\ UNCHANGED << now, wallet, book >>

(* A user moves tokens on. *)
Spend(u, amount) ==
    /\ amount <= wallet[u]
    /\ wallet' = [wallet EXCEPT ![u] = @ - amount]
    /\ elsewhere' = elsewhere + amount
    /\ UNCHANGED << now, pool, book, rescued >>

Tick ==
    /\ now < MaxTime
    /\ now' = now + 1
    /\ UNCHANGED << tokens, book, rescued >>

Next ==
    \/ \E amount \in Amounts :
        \/ deposit(amount)
        \/ rescueERC20(amount)
        \/ \E u \in Users : allocate(u, amount) \/ Spend(u, amount)
    \/ \E u \in Users : claim(u)
    \/ Tick

Spec == Init /\ [][Next]_vestingVars

(* Blocks go on being mined, and a user who can claim does so in the end. *)
Fairness == WF_vestingVars(Tick) /\ \A u \in Users : WF_vestingVars(claim(u))

FairSpec == Spec /\ Fairness

-----------------------------------------------------------------------------
(* Properties. *)

(* The type invariant.  The books are uint256, so the tokens reserved for  *)
(* users must not go below zero: getReservedTokens and allocate, which     *)
(* subtract what was claimed from what was allocated, would revert.        *)
TypeOK ==
    /\ now \in Nat
    /\ pool \in Nat
    /\ wallet \in [Users -> Nat]
    /\ elsewhere \in Nat
    /\ total \in [Users -> Nat]
    /\ claimed \in [Users -> Nat]
    /\ totalAllocated \in Nat
    /\ totalClaimed \in Nat
    /\ rescued \in Nat
    /\ getReservedTokens \in Nat

(* Solvency: whatever is deposited, allocated and claimed in between, only *)
(* a rescue can leave the contract with less than it reserves, and what a  *)
(* user is still owed is never more than what is reserved.                 *)
Solvent ==
    /\ getReservedTokens <= pool + rescued
    /\ \A u \in Users : total[u] - claimed[u] <= getReservedTokens

(* The two running totals are the sums of the users' entries, so what is   *)
(* reserved is what the users are still owed.                              *)
BooksBalance ==
    /\ SumFunction(total) = totalAllocated
    /\ SumFunction(claimed) = totalClaimed

Entitled(n, t) ==
    IF t < startTime + CLIFF THEN 0 ELSE VestedAt(n, t)

(* Nobody receives anything before the cliff, or more than the stages      *)
(* reached so far release, however allocations and claims alternate.       *)
OnSchedule ==
    \A u \in Users : claimed[u] <= Entitled(total[u], now)

(* Vesting pays what it owes and not before it is due. *)
PaysAsPromised == Solvent /\ OnSchedule

(* What has vested to a user is never taken back by a later transaction.   *)
VestedIsNeverTakenBack ==
    [][\A u \in Users :
          Entitled(total[u], now) <= Entitled(total'[u], now')]_vestingVars

(* With no rescue, room in the wallets and users who claim, every token    *)
(* allocated is paid out in the end: the stages leave no dust behind.      *)
FullyReleased ==
    \A u \in Users : (total[u] > 0) ~> (claimed[u] = total[u])
=============================================================================
