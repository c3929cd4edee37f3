-------------------------- MODULE TokenLaunchProofs --------------------------
(***************************************************************************)
(* Theorems about the Sale and the Airdrop around Vesting, for any number  *)
(* of wallets, any caps, windows, roots and governance calls.              *)
(***************************************************************************)
EXTENDS TokenLaunch, SumLemmas, TLAPS

VP == INSTANCE VestingProofs

LEMMA VestingsAssumption == VP!VestingAssumption
<1>1. IsFiniteSet(Users) => VP!IsFiniteSet(Users)
  BY DEF IsFiniteSet, VP!IsFiniteSet
<1> QED
  BY <1>1, LaunchAssumption DEF VP!VestingAssumption

(* Every transaction is a step of Vesting or leaves it alone. *)
LEMMA StepsImplementVesting == [Next]_vars => [V!Next]_(V!vestingVars)
<1> SUFFICES ASSUME [Next]_vars PROVE [V!Next]_(V!vestingVars)
  OBVIOUS
<1> USE DEF V!vestingVars, V!tokens, V!book
<1>1. ASSUME UNCHANGED vestingState PROVE UNCHANGED V!vestingVars
  BY <1>1 DEF vestingState
<1>2. CASE SaleStep
  <2>1. ASSUME NEW u \in Users, NEW amount \in Amounts, buy(u, amount) PROVE V!Next
    BY <2>1 DEF buy, _executeBuy, V!Next
  <2>2. CASE UNCHANGED vestingState
    BY <1>1, <2>2
  <2> QED
    BY <1>2, <2>1, <2>2
       DEF SaleStep, setCooldown, setWalletCap, setMinPurchase, setSaleWindow,
           finalizeSale, reclaimUnsoldSale, pauseSale, unpauseSale
<1>3. CASE AirdropStep
  <2>1. ASSUME NEW u \in Users, NEW amount \in Amounts, claimAirdrop(u, amount)
        PROVE  [V!Next]_(V!vestingVars)
    <3>1. CASE vestingHere
      BY <2>1, <3>1 DEF claimAirdrop, AllocateAirdrop, V!Next
    <3>2. CASE ~ vestingHere
      BY <1>1, <2>1, <3>2 DEF claimAirdrop, AllocateAirdrop
    <3> QED
      BY <3>1, <3>2
  <2>2. CASE UNCHANGED vestingState
    BY <1>1, <2>2
  <2> QED
    BY <1>3, <2>1, <2>2
       DEF AirdropStep, setMerkleRoot, updateVesting, finalizeAirdrop,
           reclaimUnsoldAirdrop, pauseAirdrop, unpauseAirdrop
<1>4. CASE VestingStep
  BY <1>4 DEF VestingStep, V!Next
<1>5. CASE UNCHANGED vars
  BY <1>1, <1>5 DEF vars
<1> QED
  BY <1>2, <1>3, <1>4, <1>5 DEF Next

(* Sale, Airdrop and governance use Vesting only as Vesting allows. *)
THEOREM LaunchImplementsVesting == Spec => ImplementsVesting
<1>1. Init => V!Init
  BY DEF Init
<1> QED
  BY <1>1, StepsImplementVesting, PTL DEF Spec, ImplementsVesting, V!Spec

(* V and VP name the same definitions of the same module. *)
LEMMA SameVesting ==
    /\ V!Init => VP!Init
    /\ [V!Next]_(V!vestingVars) => [VP!Next]_(VP!vestingVars)
    /\ VP!TypeOK => V!TypeOK
    /\ VP!Solvent => V!Solvent
<1> USE DEF V!vestingVars, V!tokens, V!book, VP!vestingVars, VP!tokens, VP!book,
            V!getReservedTokens, VP!getReservedTokens
<1>1. V!Init => VP!Init
  BY DEF V!Init, VP!Init
<1>2. [V!Next]_(V!vestingVars) => [VP!Next]_(VP!vestingVars)
  BY DEF V!Next, VP!Next, V!deposit, VP!deposit, V!rescueERC20, VP!rescueERC20,
         V!allocate, VP!allocate, V!Spend, VP!Spend, V!claim, VP!claim,
         V!Tick, VP!Tick, V!PayUser, VP!PayUser, V!_releasable, VP!_releasable,
         V!VestedAt, VP!VestedAt, V!Stages, VP!Stages,
         V!TOTAL_STAGES, VP!TOTAL_STAGES, V!STAGE_SHARE, VP!STAGE_SHARE
<1>3. (VP!TypeOK => V!TypeOK) /\ (VP!Solvent => V!Solvent)
  BY DEF V!TypeOK, VP!TypeOK, V!Solvent, VP!Solvent
<1> QED
  BY <1>1, <1>2, <1>3

(* So the contract that both the Sale and the Airdrop allocate from stays  *)
(* solvent, and its books never underflow, with both of them around it.    *)
THEOREM LaunchSolvent == Spec => [](V!TypeOK /\ V!Solvent)
<1>1. Init => VP!Init
  BY SameVesting DEF Init
<1>2. [Next]_vars => [VP!Next]_(VP!vestingVars)
  BY SameVesting, StepsImplementVesting
<1>3. Spec => VP!Spec
  BY <1>1, <1>2, PTL DEF Spec, VP!Spec
<1>4. Spec => [](VP!TypeOK /\ VP!Solvent)
  BY <1>3, VestingsAssumption, VP!VestingTypeCorrect, VP!VestingSolvent, PTL
<1> QED
  BY <1>4, SameVesting, PTL

-----------------------------------------------------------------------------
(* Types. *)

LEMMA InitTypeOK == Init => TypeOK
<1> SUFFICES ASSUME Init PROVE TypeOK
  OBVIOUS
<1>1. V!TypeOK
  BY LaunchAssumption DEF Init, V!Init, V!TypeOK, V!getReservedTokens
<1>2. SaleTypeOK
  BY LaunchAssumption DEF Init, SaleTypeOK, Window
<1>3. AirdropTypeOK
  BY LaunchAssumption DEF Init, AirdropTypeOK, Window
<1>4. BalancesOutside
  BY LaunchAssumption DEF Init, V!Init, BalancesOutside
<1> QED
  BY <1>1, <1>2, <1>3, <1>4 DEF TypeOK

LEMMA SaleKeepsTypes ==
    ASSUME V!TypeOK, SaleTypeOK, AirdropTypeOK, BalancesOutside, SaleStep
    PROVE  SaleTypeOK' /\ AirdropTypeOK' /\ BalancesOutside'
<1>1. AirdropTypeOK'
  BY DEF AirdropTypeOK, SaleStep, buy, setCooldown, setWalletCap, setMinPurchase,
         setSaleWindow, finalizeSale, reclaimUnsoldSale, pauseSale, unpauseSale,
         airdropState, airdropSettings, airdropBook
<1>2. ASSUME NEW u \in Users, NEW amount \in Amounts, buy(u, amount)
      PROVE  SaleTypeOK' /\ BalancesOutside'
  <2>1. amount \in Nat /\ now \in Nat
    BY LaunchAssumption DEF V!TypeOK
  <2>2. elsewhere' = elsewhere /\ airdropBalance' = airdropBalance
    BY <1>2 DEF buy, _executeBuy, V!allocate, V!tokens, airdropState
  <2> QED
    BY <1>2, <2>1, <2>2
       DEF buy, _executeBuy, SaleTypeOK, BalancesOutside, saleSettings
<1>3. ASSUME NEW c \in Cooldowns, setCooldown(c) PROVE SaleTypeOK' /\ BalancesOutside'
  BY <1>3, LaunchAssumption
     DEF setCooldown, SaleTypeOK, BalancesOutside, saleBook, vestingState, airdropState
<1>4. ASSUME NEW cap \in WalletCaps, setWalletCap(cap)
      PROVE  SaleTypeOK' /\ BalancesOutside'
  BY <1>4, LaunchAssumption
     DEF setWalletCap, SaleTypeOK, BalancesOutside, saleBook, vestingState, airdropState
<1>5. ASSUME NEW min \in MinPurchases, setMinPurchase(min)
      PROVE  SaleTypeOK' /\ BalancesOutside'
  BY <1>5, LaunchAssumption
     DEF setMinPurchase, SaleTypeOK, BalancesOutside, saleBook, vestingState, airdropState
<1>6. ASSUME NEW w \in Windows, setSaleWindow(w) PROVE SaleTypeOK' /\ BalancesOutside'
  BY <1>6, LaunchAssumption
     DEF setSaleWindow, SaleTypeOK, BalancesOutside, saleBook, vestingState, airdropState
<1>7. CASE finalizeSale \/ reclaimUnsoldSale \/ pauseSale \/ unpauseSale
  <2>1. elsewhere' = elsewhere /\ airdropBalance' = airdropBalance
    BY <1>7 DEF finalizeSale, reclaimUnsoldSale, pauseSale, unpauseSale,
                vestingState, airdropState
  <2>2. SaleTypeOK'
    <3>1. CASE finalizeSale
      BY <3>1 DEF finalizeSale, SaleTypeOK, saleSettings, saleBook
    <3>2. CASE reclaimUnsoldSale
      BY <3>2 DEF reclaimUnsoldSale, SaleTypeOK, saleSettings, saleBook
    <3>3. CASE pauseSale
      BY <3>3 DEF pauseSale, SaleTypeOK, saleSettings, saleBook
    <3>4. CASE unpauseSale
      BY <3>4 DEF unpauseSale, SaleTypeOK, saleSettings, saleBook
    <3> QED
      BY <1>7, <3>1, <3>2, <3>3, <3>4
  <2>3. saleBalance' = 0 \/ saleBalance' = saleBalance
    BY <1>7 DEF finalizeSale, reclaimUnsoldSale, pauseSale, unpauseSale
  <2>4. BalancesOutside'
    BY <2>1, <2>3 DEF BalancesOutside, V!TypeOK, SaleTypeOK, AirdropTypeOK
  <2> QED
    BY <1>1, <2>2, <2>4
<1> QED
  BY <1>1, <1>2, <1>3, <1>4, <1>5, <1>6, <1>7 DEF SaleStep

LEMMA AirdropKeepsTypes ==
    ASSUME V!TypeOK, SaleTypeOK, AirdropTypeOK, BalancesOutside, AirdropStep
    PROVE  SaleTypeOK' /\ AirdropTypeOK' /\ BalancesOutside'
<1>1. SaleTypeOK'
  BY DEF SaleTypeOK, AirdropStep, setMerkleRoot, claimAirdrop, updateVesting,
         finalizeAirdrop, reclaimUnsoldAirdrop, pauseAirdrop, unpauseAirdrop,
         saleState, saleSettings, saleBook
<1>2. ASSUME NEW u \in Users, NEW amount \in Amounts, claimAirdrop(u, amount)
      PROVE  AirdropTypeOK' /\ BalancesOutside'
  <2>1. amount \in Nat
    BY LaunchAssumption
  <2>2. elsewhere' = elsewhere /\ saleBalance' = saleBalance
    BY <1>2 DEF claimAirdrop, AllocateAirdrop, V!allocate, V!tokens, vestingState, saleState
  <2>3. airdropped' \in [Users -> Nat]
    BY <1>2, <2>1 DEF claimAirdrop, AllocateAirdrop, AirdropTypeOK
  <2> QED
    BY <1>2, <2>1, <2>2, <2>3
       DEF claimAirdrop, AirdropTypeOK, BalancesOutside, airdropSettings
<1>3. ASSUME NEW root \in Roots, NEW w \in Windows, NEW cap \in AirdropCaps,
             setMerkleRoot(root, w, cap)
      PROVE  AirdropTypeOK' /\ BalancesOutside'
  BY <1>3, LaunchAssumption
     DEF setMerkleRoot, AirdropTypeOK, BalancesOutside, airdropBook, vestingState,
         saleState
<1>4. ASSUME NEW here \in BOOLEAN, updateVesting(here)
      PROVE  AirdropTypeOK' /\ BalancesOutside'
  BY <1>4 DEF updateVesting, AirdropTypeOK, BalancesOutside, airdropBook, vestingState,
              saleState
<1>5. CASE finalizeAirdrop \/ reclaimUnsoldAirdrop \/ pauseAirdrop \/ unpauseAirdrop
  <2>1. elsewhere' = elsewhere /\ saleBalance' = saleBalance
    BY <1>5 DEF finalizeAirdrop, reclaimUnsoldAirdrop, pauseAirdrop, unpauseAirdrop,
                vestingState, saleState
  <2>2. AirdropTypeOK'
    <3>1. CASE finalizeAirdrop
      BY <3>1 DEF finalizeAirdrop, AirdropTypeOK, airdropSettings, airdropBook
    <3>2. CASE reclaimUnsoldAirdrop
      BY <3>2 DEF reclaimUnsoldAirdrop, AirdropTypeOK, airdropSettings, airdropBook
    <3>3. CASE pauseAirdrop
      BY <3>3 DEF pauseAirdrop, AirdropTypeOK, airdropSettings, airdropBook
    <3>4. CASE unpauseAirdrop
      BY <3>4 DEF unpauseAirdrop, AirdropTypeOK, airdropSettings, airdropBook
    <3> QED
      BY <1>5, <3>1, <3>2, <3>3, <3>4
  <2>3. airdropBalance' = 0 \/ airdropBalance' = airdropBalance
    BY <1>5 DEF finalizeAirdrop, reclaimUnsoldAirdrop, pauseAirdrop, unpauseAirdrop
  <2>4. BalancesOutside'
    BY <2>1, <2>3 DEF BalancesOutside, V!TypeOK, SaleTypeOK, AirdropTypeOK
  <2> QED
    BY <1>1, <2>2, <2>4
<1> QED
  BY <1>1, <1>2, <1>3, <1>4, <1>5 DEF AirdropStep

LEMMA VestingKeepsTypes ==
    ASSUME V!TypeOK, SaleTypeOK, AirdropTypeOK, BalancesOutside, VestingStep
    PROVE  SaleTypeOK' /\ AirdropTypeOK' /\ BalancesOutside'
<1>1. SaleTypeOK' /\ AirdropTypeOK'
  BY DEF VestingStep, SaleTypeOK, AirdropTypeOK, saleState, saleSettings, saleBook,
         airdropState, airdropSettings, airdropBook
<1>2. UNCHANGED << saleBalance, airdropBalance >>
  BY DEF VestingStep, saleState, airdropState
<1>3. elsewhere \in Nat /\ saleBalance \in Nat /\ airdropBalance \in Nat
  BY DEF V!TypeOK, SaleTypeOK, AirdropTypeOK
<1>4. \A amount \in Amounts : amount \in Nat
  BY LaunchAssumption
<1>5. saleBalance + airdropBalance <= elsewhere'
  <2>1. ASSUME NEW amount \in Amounts,
               amount <= elsewhere - saleBalance - airdropBalance, V!deposit(amount)
        PROVE  saleBalance + airdropBalance <= elsewhere'
    BY <1>3, <1>4, <2>1 DEF V!deposit
  <2>2. ASSUME NEW amount \in Amounts,
               V!rescueERC20(amount) \/ \E u \in Users : V!Spend(u, amount)
        PROVE  saleBalance + airdropBalance <= elsewhere'
    BY <1>3, <1>4, <2>2 DEF V!rescueERC20, V!Spend, BalancesOutside
  <2>3. CASE elsewhere' = elsewhere
    BY <2>3 DEF BalancesOutside
  <2> QED
    BY <2>1, <2>2, <2>3 DEF VestingStep, V!allocate, V!claim, V!Tick, V!PayUser, V!tokens
<1> QED
  BY <1>1, <1>2, <1>5 DEF BalancesOutside

LEMMA StepTypeOK == TypeOK /\ V!TypeOK' /\ [Next]_vars => TypeOK'
<1> SUFFICES ASSUME TypeOK, V!TypeOK', [Next]_vars PROVE TypeOK'
  OBVIOUS
<1>1. V!TypeOK /\ SaleTypeOK /\ AirdropTypeOK /\ BalancesOutside
  BY DEF TypeOK
<1>2. SaleTypeOK' /\ AirdropTypeOK' /\ BalancesOutside'
  <2>1. CASE UNCHANGED vars
    BY <1>1, <2>1 DEF vars, vestingState, saleState, saleSettings, saleBook,
                      airdropState, airdropSettings, airdropBook,
                      SaleTypeOK, AirdropTypeOK, BalancesOutside
  <2> QED
    BY <1>1, <2>1, SaleKeepsTypes, AirdropKeepsTypes, VestingKeepsTypes DEF Next
<1> QED
  BY <1>2 DEF TypeOK

(* Every variable of the launch stays in its type, and the tokens the Sale *)
(* and the Airdrop still hold are part of the supply outside Vesting.      *)
THEOREM LaunchTypeCorrect == Spec => []TypeOK
<1>1. TypeOK /\ (V!TypeOK /\ V!Solvent)' /\ [Next]_vars => TypeOK'
  BY StepTypeOK
<1> QED
  BY <1>1, InitTypeOK, LaunchSolvent, PTL DEF Spec

-----------------------------------------------------------------------------
(* Closed for good. *)

(* A finalized airdrop's claim window is over, and stays where it is. *)
AirdropOver == airdropFinalized => claimWindow.end < now

LEMMA ClockRuns == TypeOK /\ [Next]_vars => now <= now'
<1> SUFFICES ASSUME TypeOK, [Next]_vars PROVE now <= now'
  OBVIOUS
<1>1. now \in Nat
  BY DEF TypeOK, V!TypeOK
<1>2. [V!Next]_(V!vestingVars)
  BY StepsImplementVesting
<1> QED
  BY <1>1, <1>2 DEF V!Next, V!vestingVars, V!deposit, V!rescueERC20, V!allocate,
                    V!Spend, V!claim, V!Tick

(* The only steps that touch what keeps the airdrop closed. *)
LEMMA ClosingSteps ==
    ASSUME [Next]_vars
    PROVE  \/ UNCHANGED << airdropFinalized, claimWindow >>
           \/ finalizeAirdrop
           \/ ~ airdropFinalized /\ ~ airdropFinalized'
<1>1. CASE SaleStep
  BY <1>1 DEF SaleStep, buy, setCooldown, setWalletCap, setMinPurchase, setSaleWindow,
              finalizeSale, reclaimUnsoldSale, pauseSale, unpauseSale,
              airdropState, airdropSettings
<1>2. CASE AirdropStep
  BY <1>2 DEF AirdropStep, setMerkleRoot, claimAirdrop, updateVesting,
              reclaimUnsoldAirdrop, pauseAirdrop, unpauseAirdrop, airdropSettings
<1>3. CASE VestingStep
  BY <1>3 DEF VestingStep, airdropState, airdropSettings
<1>4. CASE UNCHANGED vars
  BY <1>4 DEF vars, airdropState, airdropSettings
<1> QED
  BY <1>1, <1>2, <1>3, <1>4 DEF Next

LEMMA StepAirdropOver ==
    TypeOK /\ TypeOK' /\ AirdropOver /\ [Next]_vars => AirdropOver'
<1> SUFFICES ASSUME TypeOK, TypeOK', AirdropOver, [Next]_vars, airdropFinalized'
             PROVE  claimWindow'.end < now'
  BY DEF AirdropOver
<1>1. now \in Nat /\ now' \in Nat /\ now <= now'
  BY ClockRuns DEF TypeOK, V!TypeOK
<1>2. claimWindow.end \in Nat
  BY DEF TypeOK, AirdropTypeOK, Window
<1>3. CASE UNCHANGED << airdropFinalized, claimWindow >>
  BY <1>1, <1>2, <1>3 DEF AirdropOver
<1>4. CASE finalizeAirdrop
  BY <1>1, <1>2, <1>4 DEF finalizeAirdrop, airdropSettings
<1> QED
  BY <1>3, <1>4, ClosingSteps

LEMMA AirdropStaysOver == Spec => []AirdropOver
<1>1. Init => AirdropOver
  BY DEF Init, AirdropOver
<1> QED
  BY <1>1, StepAirdropOver, LaunchTypeCorrect, PTL DEF Spec

(* Only a purchase writes the Sale's book, only a claim the Airdrop's. *)
LEMMA BookSteps ==
    ASSUME [Next]_vars
    PROVE  /\ \/ UNCHANGED saleBook
              \/ \E u \in Users, amount \in Amounts : buy(u, amount)
           /\ \/ UNCHANGED airdropBook
              \/ \E u \in Users, amount \in Amounts : claimAirdrop(u, amount)
<1>1. CASE SaleStep
  BY <1>1 DEF SaleStep, buy, setCooldown, setWalletCap, setMinPurchase, setSaleWindow,
              finalizeSale, reclaimUnsoldSale, pauseSale, unpauseSale,
              airdropState, airdropBook
<1>2. CASE AirdropStep
  BY <1>2 DEF AirdropStep, setMerkleRoot, claimAirdrop, updateVesting, finalizeAirdrop,
              reclaimUnsoldAirdrop, pauseAirdrop, unpauseAirdrop, saleState, saleBook
<1>3. CASE VestingStep
  BY <1>3 DEF VestingStep, airdropState, saleState
<1>4. CASE UNCHANGED vars
  BY <1>4 DEF vars, airdropState, saleState
<1> QED
  BY <1>1, <1>2, <1>3, <1>4 DEF Next

(* Once finalized, and however often it is unpaused afterwards, the Sale   *)
(* sells nothing and the Airdrop allocates nothing.                        *)
THEOREM LaunchClosedForGood == Spec => ClosedForGood
<1>1. ASSUME TypeOK, AirdropOver, [Next]_vars
      PROVE  /\ saleFinalized => UNCHANGED saleBook
             /\ airdropFinalized => UNCHANGED airdropBook
  <2>1. now \in Nat /\ claimWindow.end \in Nat
    BY <1>1 DEF TypeOK, V!TypeOK, AirdropTypeOK, Window
  <2>2. ASSUME saleFinalized PROVE UNCHANGED saleBook
    BY <1>1, <2>2, BookSteps DEF buy
  <2>3. ASSUME airdropFinalized PROVE UNCHANGED airdropBook
    <3>1. ASSUME NEW u \in Users, NEW amount \in Amounts, claimAirdrop(u, amount)
          PROVE  FALSE
      <4>1. now <= claimWindow.end
        BY <3>1 DEF claimAirdrop, Within
      <4>2. claimWindow.end < now
        BY <1>1, <2>3 DEF AirdropOver
      <4> QED
        BY <2>1, <4>1, <4>2
    <3> QED
      BY <1>1, <3>1, BookSteps
  <2> QED
    BY <2>2, <2>3
<1>2. TypeOK /\ AirdropOver /\ [Next]_vars =>
        [/\ saleFinalized => UNCHANGED saleBook
         /\ airdropFinalized => UNCHANGED airdropBook]_vars
  BY <1>1
<1> QED
  BY <1>2, LaunchTypeCorrect, AirdropStaysOver, PTL DEF Spec, ClosedForGood

-----------------------------------------------------------------------------
(* The books of the three contracts. *)

(* Who was paid by the airdrop is marked as having claimed. *)
PaidHaveClaimed == \A u \in Users : airdropped[u] # 0 => u \in hasClaimed

LEMMA StepPaidHaveClaimed ==
    TypeOK /\ PaidHaveClaimed /\ [Next]_vars => PaidHaveClaimed'
<1> SUFFICES ASSUME TypeOK, PaidHaveClaimed, [Next]_vars PROVE PaidHaveClaimed'
  OBVIOUS
<1>1. CASE UNCHANGED airdropBook
  BY <1>1 DEF airdropBook, PaidHaveClaimed
<1>2. ASSUME NEW u \in Users, NEW amount \in Amounts, claimAirdrop(u, amount)
      PROVE  PaidHaveClaimed'
  BY <1>2 DEF claimAirdrop, AllocateAirdrop, PaidHaveClaimed, TypeOK, AirdropTypeOK
<1> QED
  BY <1>1, <1>2, BookSteps

LEMMA PaidStayClaimed == Spec => []PaidHaveClaimed
<1>1. Init => PaidHaveClaimed
  BY DEF Init, PaidHaveClaimed
<1> QED
  BY <1>1, StepPaidHaveClaimed, LaunchTypeCorrect, PTL DEF Spec

(* The airdrop pays a wallet once, whatever roots follow. *)
THEOREM LaunchOneAirdropEach == Spec => OneAirdropEach
<1>1. ASSUME TypeOK, PaidHaveClaimed, [Next]_vars, NEW u \in Users, airdropped[u] # 0
      PROVE  airdropped'[u] = airdropped[u]
  <2>1. u \in hasClaimed
    BY <1>1 DEF PaidHaveClaimed
  <2>2. CASE UNCHANGED airdropBook
    BY <2>2 DEF airdropBook
  <2>3. ASSUME NEW v \in Users, NEW amount \in Amounts, claimAirdrop(v, amount)
        PROVE  airdropped'[u] = airdropped[u]
    BY <1>1, <2>1, <2>3 DEF claimAirdrop, AllocateAirdrop, TypeOK, AirdropTypeOK
  <2> QED
    BY <1>1, <2>2, <2>3, BookSteps
<1>2. TypeOK /\ PaidHaveClaimed /\ [Next]_vars =>
        [\A u \in Users : airdropped[u] # 0 => airdropped'[u] = airdropped[u]]_vars
  BY <1>1
<1> QED
  BY <1>2, LaunchTypeCorrect, PaidStayClaimed, PTL DEF Spec, OneAirdropEach

(* Vesting never takes an allocation back. *)
LEMMA AllocationsGrow ==
    ASSUME TypeOK, [V!Next]_(V!vestingVars), NEW u \in Users
    PROVE  total'[u] \in Nat /\ total[u] <= total'[u]
<1>1. total \in [Users -> Nat] /\ \A amount \in Amounts : amount \in Nat
  BY LaunchAssumption DEF TypeOK, V!TypeOK
<1>2. ASSUME NEW v \in Users, NEW amount \in Amounts, V!allocate(v, amount)
      PROVE  total'[u] \in Nat /\ total[u] <= total'[u]
  BY <1>1, <1>2 DEF V!allocate
<1>3. CASE total' = total
  BY <1>1, <1>3
<1> QED
  BY <1>2, <1>3 DEF V!Next, V!vestingVars, V!book, V!deposit, V!rescueERC20, V!Spend,
                    V!claim, V!Tick

LEMMA StepSalesAreVested ==
    TypeOK /\ SalesAreVested /\ [Next]_vars => SalesAreVested'
<1> SUFFICES ASSUME TypeOK, SalesAreVested, [Next]_vars, NEW u \in Users
             PROVE  bought'[u] + airdropped'[u] <= total'[u]
  BY DEF SalesAreVested
<1>1. /\ bought \in [Users -> Nat]
      /\ airdropped \in [Users -> Nat]
      /\ total \in [Users -> Nat]
      /\ \A amount \in Amounts : amount \in Nat
  BY LaunchAssumption DEF TypeOK, V!TypeOK, SaleTypeOK, AirdropTypeOK
<1>2. bought[u] + airdropped[u] <= total[u]
  BY DEF SalesAreVested
<1>3. ASSUME NEW v \in Users, NEW amount \in Amounts, buy(v, amount)
      PROVE  bought'[u] + airdropped'[u] <= total'[u]
  <2>1. /\ total' = [total EXCEPT ![v] = @ + amount]
        /\ bought' = [bought EXCEPT ![v] = @ + amount]
        /\ airdropped' = airdropped
    BY <1>3 DEF buy, _executeBuy, V!allocate, airdropState, airdropBook
  <2> QED
    BY <1>1, <1>2, <2>1
<1>4. ASSUME NEW v \in Users, NEW amount \in Amounts, claimAirdrop(v, amount)
      PROVE  bought'[u] + airdropped'[u] <= total'[u]
  <2>1. bought' = bought
    BY <1>4 DEF claimAirdrop, saleState, saleBook
  <2>2. \/ /\ total' = [total EXCEPT ![v] = @ + amount]
           /\ airdropped' = [airdropped EXCEPT ![v] = @ + amount]
        \/ UNCHANGED << total, airdropped >>
    BY <1>4 DEF claimAirdrop, AllocateAirdrop, V!allocate, vestingState
  <2> QED
    BY <1>1, <1>2, <2>1, <2>2
<1>5. CASE UNCHANGED << saleBook, airdropBook >>
  <2>1. total'[u] \in Nat /\ total[u] <= total'[u]
    BY StepsImplementVesting, AllocationsGrow
  <2> QED
    BY <1>1, <1>2, <1>5, <2>1 DEF saleBook, airdropBook
<1> QED
  BY <1>3, <1>4, <1>5, BookSteps

(* Whatever the Sale sold and the Airdrop granted is owed by Vesting. *)
THEOREM LaunchSalesAreVested == Spec => []SalesAreVested
<1>1. Init => SalesAreVested
  BY DEF Init, V!Init, SalesAreVested
<1> QED
  BY <1>1, StepSalesAreVested, LaunchTypeCorrect, PTL DEF Spec

LEMMA StepSaleWithinCap ==
    TypeOK /\ SaleWithinCap /\ [Next]_vars => SaleWithinCap'
<1> SUFFICES ASSUME TypeOK, SaleWithinCap, [Next]_vars PROVE SaleWithinCap'
  OBVIOUS
<1>1. /\ bought \in [Users -> Nat]
      /\ totalSold \in Nat /\ saleCap \in Nat
      /\ IsFiniteSet(Users)
      /\ \A amount \in Amounts : amount \in Nat
  BY LaunchAssumption DEF TypeOK, SaleTypeOK
<1>2. CASE UNCHANGED saleBook
  BY <1>2 DEF SaleWithinCap, saleBook
<1>3. ASSUME NEW u \in Users, NEW amount \in Amounts, buy(u, amount)
      PROVE  SaleWithinCap'
  <2>1. /\ bought' = [bought EXCEPT ![u] = @ + amount]
        /\ totalSold' = totalSold + amount
        /\ totalSold + amount <= saleCap
    BY <1>3 DEF buy, _executeBuy, _validateBuy
  <2>2. /\ bought' \in [Users -> Nat]
        /\ bought'[u] = bought[u] + amount
        /\ \A v \in Users \ {u} : bought'[v] = bought[v]
    BY <1>1, <2>1
  <2>3. SumFunction(bought') = SumFunction(bought) + amount
    BY <1>1, <2>2, TotalOfChange
  <2> QED
    BY <1>1, <2>1, <2>3 DEF SaleWithinCap
<1> QED
  BY <1>2, <1>3, BookSteps

(* However many wallets buy, in whatever order and under whatever wallet   *)
(* caps, totalSold is what their entries add up to and stays in saleCap.   *)
THEOREM LaunchSaleWithinCap == Spec => []SaleWithinCap
<1>1. Init => SaleWithinCap
  BY LaunchAssumption, TotalOfZeros DEF Init, SaleWithinCap
<1> QED
  BY <1>1, StepSaleWithinCap, LaunchTypeCorrect, PTL DEF Spec

(* The Sale's cap, its entries and Vesting's allocations agree for good. *)
THEOREM LaunchSaleIsAccountedFor == Spec => []SaleIsAccountedFor
BY LaunchSalesAreVested, LaunchSaleWithinCap, PTL DEF SaleIsAccountedFor
=============================================================================
