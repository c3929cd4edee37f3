---------------------------- MODULE TokenLaunch ----------------------------
(***************************************************************************)
(* The Sale and the Airdrop contracts (smart/contracts/Sale.sol,           *)
(* Airdrop.sol) on top of the Vesting contract they both allocate from.    *)
(* A transaction is atomic; the hard part is the order of transactions of  *)
(* buyers, claimants, operators and governance against the clock.          *)
(*                                                                         *)
(* A Merkle root is the set of its leaves: a proof is accepted for a pair  *)
(* of a user and an amount exactly when the pair is a leaf.  The oracle's  *)
(* quote is an amount of tokens chosen from Amounts; both quotes of one    *)
(* purchase are read in one transaction and agree.                         *)
(***************************************************************************)
EXTENDS Integers, Functions, FiniteSets

CONSTANTS
    Users, Amounts, TOTAL_SUPPLY, WALLET_CAP, InitialPool, DeployTime,
    startTime, CLIFF, MONTH, MaxTime, MaxAllocated, MaxRescued,
    saleCap,             \* SALE_CAP
    SaleStart, SaleEnd,  \* window given to the Sale's constructor
    WalletCaps, MinPurchases, Cooldowns, \* what the operator may set
    Windows,             \* windows the operator may set
    MinWindow, MaxWindow,  \* 1 hour, 365 days
    InitialSaleBalance, InitialAirdropBalance,  \* SALE_AMOUNT, AIRDROP_AMOUNT
    Roots,               \* Merkle roots governance may set: sets of leaves
    AirdropCaps,         \* maxAllocation values governance may set
    MAX_WINDOW_EXTENSION

Window == [start : Nat, end : Nat]
Leaf == [user : Users, amount : Nat]
NoRoot == {}

ASSUME LaunchAssumption ==
    /\ IsFiniteSet(Users)
    /\ Amounts \subseteq Nat \ {0}
    /\ TOTAL_SUPPLY \in Nat
    /\ WALLET_CAP \in Nat
    /\ DeployTime \in Nat
    /\ startTime \in Nat
    /\ CLIFF \in Nat
    /\ MONTH \in Nat \ {0}
    /\ {MaxTime, MaxAllocated, MaxRescued, saleCap, SaleStart, SaleEnd} \subseteq Nat
    /\ {MinWindow, MaxWindow, MAX_WINDOW_EXTENSION} \subseteq Nat
    /\ WalletCaps \cup MinPurchases \cup Cooldowns \cup AirdropCaps \subseteq Nat
    /\ WalletCaps # {} /\ MinPurchases # {} /\ Cooldowns # {}
    /\ Windows \subseteq Window
    /\ Roots \subseteq (SUBSET Leaf) \ {NoRoot}
    /\ {InitialPool, InitialSaleBalance, InitialAirdropBalance} \subseteq Nat
    /\ InitialPool + InitialSaleBalance + InitialAirdropBalance <= TOTAL_SUPPLY

VARIABLES
    now,
    \* Vesting and the token
    pool, wallet, elsewhere, total, claimed, totalAllocated, totalClaimed,
    rescued,
    \* Sale
    window,         \* saleStart, saleEnd
    walletCap, minPurchase, cooldown,
    bought, lastBuy, totalSold,
    saleFinalized, salePaused,
    saleBalance,    \* token.balanceOf(sale), a part of `elsewhere'
    \* Airdrop
    merkleRoot,
    claimWindow,    \* claimStart, claimEnd
    maxAllocation, airdropTotal,
    hasClaimed,     \* users with claimed[user] set
    vestingHere,    \* the Airdrop's vesting is this Vesting contract
    airdropFinalized, airdropPaused,
    airdropBalance, \* token.balanceOf(airdrop), a part of `elsewhere'
    airdropped      \* history: what claims allocated here, per user

V == INSTANCE Vesting

vestingState ==
    << now, pool, wallet, elsewhere, total, claimed, totalAllocated,
       totalClaimed, rescued >>
saleSettings == << window, walletCap, minPurchase, cooldown >>
saleBook == << bought, lastBuy, totalSold >>
saleState == << saleSettings, saleBook, saleFinalized, salePaused, saleBalance >>
airdropSettings == << merkleRoot, claimWindow, maxAllocation, vestingHere >>
airdropBook == << airdropTotal, hasClaimed, airdropped >>
airdropState ==
    << airdropSettings, airdropBook, airdropFinalized, airdropPaused,
       airdropBalance >>
vars == << vestingState, saleState, airdropState >>

Init ==
    /\ V!Init
    /\ window = [start |-> SaleStart, end |-> SaleEnd]
    /\ walletCap \in WalletCaps
    /\ minPurchase \in MinPurchases
    /\ cooldown \in Cooldowns
    /\ bought = [u \in Users |-> 0]
    /\ lastBuy = [u \in Users |-> 0]
    /\ totalSold = 0
    /\ saleFinalized = FALSE
    /\ salePaused = FALSE
    /\ saleBalance = InitialSaleBalance
    /\ merkleRoot = NoRoot
    /\ claimWindow = [start |-> 0, end |-> 0]
    /\ maxAllocation = 0
    /\ airdropTotal = 0
    /\ hasClaimed = {}
    /\ vestingHere = TRUE
    /\ airdropFinalized = FALSE
    /\ airdropPaused = FALSE
    /\ airdropBalance = InitialAirdropBalance
    /\ airdropped = [u \in Users |-> 0]

-----------------------------------------------------------------------------

(* _availableVesting and _vestingAvailable. *)
Available ==
    IF pool > V!getReservedTokens THEN pool - V!getReservedTokens ELSE 0

Within(w) == w.start <= now /\ now <= w.end

-----------------------------------------------------------------------------
(* Sale. *)

(* Mutated form: the cap is compared before the purchase is added. *)
ValidateBuyCapLate(u, amount) ==
    /\ Within(window)
    /\ amount >= minPurchase
    /\ bought[u] + amount <= walletCap
    /\ totalSold < saleCap
    /\ now >= lastBuy[u] + cooldown
    /\ amount <= Available

_validateBuy(u, amount) ==
    /\ Within(window)
    /\ amount >= minPurchase
    /\ bought[u] + amount <= walletCap
    /\ totalSold + amount <= saleCap
    /\ now >= lastBuy[u] + cooldown
    /\ amount <= Available

(* Mutated form: what is allocated is quoted again at another price. *)
ExecuteBuyRequoted(u, amount) ==
    /\ V!allocate(u, CHOOSE quoted \in Amounts : \A other \in Amounts : quoted <= other)
    /\ bought' = [bought EXCEPT ![u] = @ + amount]
    /\ totalSold' = totalSold + amount
    /\ lastBuy' = [lastBuy EXCEPT ![u] = now]

_executeBuy(u, amount) ==
    /\ V!allocate(u, amount)
    /\ bought' = [bought EXCEPT ![u] = @ + amount]
    /\ totalSold' = totalSold + amount
    /\ lastBuy' = [lastBuy EXCEPT ![u] = now]

(* Mutated form: a finalized sale that is unpaused sells on. *)
BuyWhenFinalized(u, amount) ==
    /\ ~ salePaused
    /\ _validateBuy(u, amount)
    /\ _executeBuy(u, amount)
    /\ UNCHANGED << saleSettings, saleFinalized, salePaused, saleBalance, airdropState >>

(* buyETH and buyToken: they differ in how the payment reaches the         *)
(* treasury, and a payment that fails reverts.                             *)
buy(u, amount) ==
    /\ ~ salePaused
    /\ ~ saleFinalized
    /\ _validateBuy(u, amount)
    /\ _executeBuy(u, amount)
    /\ UNCHANGED << saleSettings, saleFinalized, salePaused, saleBalance, airdropState >>

setCooldown(c) ==
    /\ ~ saleFinalized
    /\ cooldown' = c
    /\ UNCHANGED << vestingState, window, walletCap, minPurchase, saleBook,
                    saleFinalized, salePaused, saleBalance, airdropState >>

setWalletCap(cap) ==
    /\ ~ saleFinalized
    /\ walletCap' = cap
    /\ UNCHANGED << vestingState, window, minPurchase, cooldown, saleBook,
                    saleFinalized, salePaused, saleBalance, airdropState >>

setMinPurchase(min) ==
    /\ ~ saleFinalized
    /\ minPurchase' = min
    /\ UNCHANGED << vestingState, window, walletCap, cooldown, saleBook,
                    saleFinalized, salePaused, saleBalance, airdropState >>

setSaleWindow(w) ==
    /\ ~ saleFinalized
    /\ now < window.start
    /\ w.start >= now
    /\ w.end > w.start
    /\ w.end - w.start \in MinWindow .. MaxWindow
    /\ window' = w
    /\ UNCHANGED << vestingState, walletCap, minPurchase, cooldown, saleBook,
                    saleFinalized, salePaused, saleBalance, airdropState >>

(* _pause reverts when the sale is paused already. *)
finalizeSale ==
    /\ now >= window.end
    /\ ~ salePaused
    /\ saleFinalized' = TRUE
    /\ salePaused' = TRUE
    /\ UNCHANGED << vestingState, saleSettings, saleBook, saleBalance, airdropState >>

(* Mutated form: what is reclaimed is taken out of the Vesting contract. *)
ReclaimFromVesting ==
    /\ saleFinalized
    /\ saleBalance # 0
    /\ pool > 0
    /\ pool' = 0
    /\ elsewhere' = elsewhere + pool
    /\ UNCHANGED << now, wallet, total, claimed, totalAllocated, totalClaimed,
                    rescued, saleState, airdropState >>

(* The treasury receives the balance, which stays outside Vesting. *)
reclaimUnsoldSale ==
    /\ saleFinalized
    /\ saleBalance # 0
    /\ saleBalance' = 0
    /\ UNCHANGED << vestingState, saleSettings, saleBook, saleFinalized,
                    salePaused, airdropState >>

pauseSale ==
    /\ ~ salePaused
    /\ salePaused' = TRUE
    /\ UNCHANGED << vestingState, saleSettings, saleBook, saleFinalized,
                    saleBalance, airdropState >>

unpauseSale ==
    /\ salePaused
    /\ salePaused' = FALSE
    /\ UNCHANGED << vestingState, saleSettings, saleBook, saleFinalized,
                    saleBalance, airdropState >>

SaleStep ==
    \/ \E u \in Users, amount \in Amounts : buy(u, amount)
    \/ \E c \in Cooldowns : setCooldown(c)
    \/ \E cap \in WalletCaps : setWalletCap(cap)
    \/ \E min \in MinPurchases : setMinPurchase(min)
    \/ \E w \in Windows : setSaleWindow(w)
    \/ finalizeSale \/ reclaimUnsoldSale \/ pauseSale \/ unpauseSale

-----------------------------------------------------------------------------
(* Airdrop. *)

(* Mutated form: a new root starts afresh. *)
SetRootForgetsClaims(root, w, cap) ==
    /\ ~ airdropFinalized
    /\ w.start < w.end
    /\ w.end <= now + MAX_WINDOW_EXTENSION
    /\ merkleRoot' = root
    /\ claimWindow' = w
    /\ maxAllocation' = cap
    /\ hasClaimed' = {}
    /\ UNCHANGED << vestingState, saleState, vestingHere, airdropTotal, airdropped,
                    airdropFinalized, airdropPaused, airdropBalance >>

setMerkleRoot(root, w, cap) ==
    /\ ~ airdropFinalized
    /\ w.start < w.end
    /\ w.end <= now + MAX_WINDOW_EXTENSION
    /\ merkleRoot' = root
    /\ claimWindow' = w
    /\ maxAllocation' = cap
    /\ UNCHANGED << vestingState, saleState, vestingHere, airdropBook,
                    airdropFinalized, airdropPaused, airdropBalance >>

(* What a claim makes the Airdrop's vesting contract do. *)
AllocateAirdrop(u, amount) ==
    IF vestingHere
    THEN /\ amount <= Available
         /\ V!allocate(u, amount)
         /\ airdropped' = [airdropped EXCEPT ![u] = @ + amount]
    ELSE UNCHANGED << vestingState, airdropped >>

(* claim is not guarded by notFinalized. *)
claimAirdrop(u, amount) ==
    /\ ~ airdropPaused
    /\ merkleRoot # NoRoot
    /\ Within(claimWindow)
    /\ amount > 0
    /\ u \notin hasClaimed
    /\ [user |-> u, amount |-> amount] \in merkleRoot
    /\ airdropTotal + amount <= maxAllocation
    /\ hasClaimed' = hasClaimed \cup {u}
    /\ airdropTotal' = airdropTotal + amount
    /\ AllocateAirdrop(u, amount)
    /\ UNCHANGED << saleState, airdropSettings, airdropFinalized, airdropPaused,
                    airdropBalance >>

(* Governance points the Airdrop at this or at another Vesting contract. *)
updateVesting(here) ==
    /\ ~ airdropFinalized
    /\ vestingHere' = here
    /\ UNCHANGED << vestingState, saleState, merkleRoot, claimWindow, maxAllocation,
                    airdropBook, airdropFinalized, airdropPaused, airdropBalance >>

(* Possible, too, when no root was ever set. *)
finalizeAirdrop ==
    /\ now > claimWindow.end
    /\ ~ airdropPaused
    /\ airdropFinalized' = TRUE
    /\ airdropPaused' = TRUE
    /\ UNCHANGED << vestingState, saleState, airdropSettings, airdropBook,
                    airdropBalance >>

reclaimUnsoldAirdrop ==
    /\ airdropFinalized
    /\ airdropBalance # 0
    /\ airdropBalance' = 0
    /\ UNCHANGED << vestingState, saleState, airdropSettings, airdropBook,
                    airdropFinalized, airdropPaused >>

pauseAirdrop ==
    /\ ~ airdropPaused
    /\ airdropPaused' = TRUE
    /\ UNCHANGED << vestingState, saleState, airdropSettings, airdropBook,
                    airdropFinalized, airdropBalance >>

unpauseAirdrop ==
    /\ airdropPaused
    /\ airdropPaused' = FALSE
    /\ UNCHANGED << vestingState, saleState, airdropSettings, airdropBook,
                    airdropFinalized, airdropBalance >>

AirdropStep ==
    \/ \E root \in Roots, w \in Windows, cap \in AirdropCaps :
        setMerkleRoot(root, w, cap)
    \/ \E u \in Users, amount \in Amounts : claimAirdrop(u, amount)
    \/ \E here \in BOOLEAN : updateVesting(here)
    \/ finalizeAirdrop \/ reclaimUnsoldAirdrop \/ pauseAirdrop \/ unpauseAirdrop

-----------------------------------------------------------------------------

(* The other calls of Vesting: its governance may allocate, too, and only  *)
(* tokens that are neither in the Sale nor in the Airdrop are deposited.   *)
VestingStep ==
    /\ \/ \E amount \in Amounts :
            \/ amount <= elsewhere - saleBalance - airdropBalance /\ V!deposit(amount)
            \/ V!rescueERC20(amount)
            \/ \E u \in Users : V!allocate(u, amount) \/ V!Spend(u, amount)
       \/ \E u \in Users : V!claim(u)
       \/ V!Tick
    /\ UNCHANGED << saleState, airdropState >>

Next == SaleStep \/ AirdropStep \/ VestingStep

Spec == Init /\ [][Next]_vars

-----------------------------------------------------------------------------
(* Properties. *)

SaleTypeOK ==
    /\ window \in Window
    /\ walletCap \in Nat /\ minPurchase \in Nat /\ cooldown \in Nat
    /\ bought \in [Users -> Nat]
    /\ lastBuy \in [Users -> Nat]
    /\ totalSold \in Nat
    /\ saleFinalized \in BOOLEAN /\ salePaused \in BOOLEAN
    /\ saleBalance \in Nat

AirdropTypeOK ==
    /\ claimWindow \in Window
    /\ merkleRoot \in Roots \cup {NoRoot}
    /\ maxAllocation \in Nat /\ airdropTotal \in Nat
    /\ hasClaimed \subseteq Users
    /\ airdropped \in [Users -> Nat]
    /\ vestingHere \in BOOLEAN
    /\ airdropFinalized \in BOOLEAN /\ airdropPaused \in BOOLEAN
    /\ airdropBalance \in Nat

BalancesOutside == saleBalance + airdropBalance <= elsewhere

(* The type invariant; the Sale's and the Airdrop's own balances are part  *)
(* of the supply outside Vesting.                                          *)
TypeOK == V!TypeOK /\ SaleTypeOK /\ AirdropTypeOK /\ BalancesOutside

(* Three books of three contracts agree: whatever the Sale recorded as     *)
(* bought and the Airdrop as claimed is allocated to the user in Vesting.  *)
SalesAreVested ==
    \A u \in Users : bought[u] + airdropped[u] <= total[u]

(* The Sale never sells more than saleCap in all, although operators       *)
(* change wallet caps and pause while purchases go on, and totalSold is    *)
(* what the buyers' entries add up to.                                     *)
SaleWithinCap ==
    totalSold <= saleCap /\ totalSold = SumFunction(bought)

(* What is sold is sold within the cap and is in every book it belongs to: *)
(* the Sale's entries, its total and the allocations in Vesting.           *)
SaleIsAccountedFor == SalesAreVested /\ SaleWithinCap

(* Finalizing is final: nothing is sold or claimed afterwards.  Both       *)
(* contracts can be unpaused again, and Airdrop.claim has no notFinalized  *)
(* guard: it is the claim window, which can no longer be moved, that       *)
(* keeps the airdrop closed.                                               *)
ClosedForGood ==
    [][/\ saleFinalized => UNCHANGED saleBook
       /\ airdropFinalized => UNCHANGED airdropBook]_vars

(* A wallet takes part in the airdrop once, whatever root governance sets  *)
(* afterwards: later roots that contain it again pay it nothing more.      *)
OneAirdropEach ==
    [][\A u \in Users : airdropped[u] # 0 => airdropped'[u] = airdropped[u]]_vars

(* Sale, Airdrop and governance together use Vesting only as Vesting       *)
(* allows, so what is shown of Vesting holds with them around it.          *)
ImplementsVesting == V!Spec
=============================================================================
