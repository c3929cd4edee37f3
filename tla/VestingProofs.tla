---------------------------- MODULE VestingProofs ----------------------------
(***************************************************************************)
(* Theorems about Vesting for any number of beneficiaries, any amounts,    *)
(* any supply, any lengths of cliff and stages and any wallet cap.         *)
(***************************************************************************)
EXTENDS Vesting, SumLemmas, TLAPS

(* After the cliff one to four stages have been reached. *)
LEMMA StagesType ==
    ASSUME NEW t \in Nat, t >= startTime + CLIFF
    PROVE  Stages(t) \in 1 .. 4
<1> DEFINE elapsed == t - (startTime + CLIFF)
<1>1. elapsed \in Nat
  BY VestingAssumption
<1>2. elapsed \div MONTH \in Nat
  BY <1>1, VestingAssumption
<1> QED
  BY <1>2 DEF Stages, TOTAL_STAGES

(* Time does not take stages back. *)
LEMMA StagesGrow ==
    ASSUME NEW t \in Nat, NEW later \in Nat, t >= startTime + CLIFF, t <= later
    PROVE  Stages(t) <= Stages(later)
<1> DEFINE a == t - (startTime + CLIFF)
           b == later - (startTime + CLIFF)
<1>1. a \in Nat /\ b \in Nat /\ a <= b
  BY VestingAssumption
<1>2. /\ a \div MONTH \in Nat
      /\ b \div MONTH \in Nat
      /\ a \div MONTH <= b \div MONTH
  BY <1>1, VestingAssumption
<1> QED
  BY <1>2 DEF Stages, TOTAL_STAGES

(* What is released is a number of tokens, at most what was allocated, and *)
(* grows with the allocation and with time.                                *)
LEMMA EntitledBounds ==
    ASSUME NEW n \in Nat, NEW t \in Nat
    PROVE  Entitled(n, t) \in Nat /\ Entitled(n, t) <= n
<1>1. CASE t < startTime + CLIFF
  BY <1>1 DEF Entitled
<1>2. CASE ~ (t < startTime + CLIFF)
  <2>1. Stages(t) \in 1 .. 4
    BY <1>2, StagesType, VestingAssumption
  <2>2. Stages(t) = 1 \/ Stages(t) = 2 \/ Stages(t) = 3 \/ Stages(t) = 4
    BY <2>1
  <2>3. Entitled(n, t) = (n * Stages(t) * 25) \div 100
    BY <1>2 DEF Entitled, VestedAt, STAGE_SHARE
  <2> QED
    BY <2>2, <2>3
<1> QED
  BY <1>1, <1>2

LEMMA EntitledGrows ==
    ASSUME NEW n \in Nat, NEW m \in Nat, n <= m,
           NEW t \in Nat, NEW later \in Nat, t <= later
    PROVE  Entitled(n, t) <= Entitled(m, later)
<1>1. CASE t < startTime + CLIFF
  BY <1>1, EntitledBounds DEF Entitled
<1>2. CASE ~ (t < startTime + CLIFF)
  <2>1. /\ Stages(t) \in 1 .. 4
        /\ Stages(later) \in 1 .. 4
        /\ Stages(t) <= Stages(later)
    BY <1>2, StagesType, StagesGrow, VestingAssumption
  <2>2. /\ Entitled(n, t) = (n * Stages(t) * 25) \div 100
        /\ Entitled(m, later) = (m * Stages(later) * 25) \div 100
    BY <1>2, VestingAssumption DEF Entitled, VestedAt, STAGE_SHARE
  <2>3. n * Stages(t) * 25 <= m * Stages(later) * 25
    <3>1. Stages(t) = 1 \/ Stages(t) = 2 \/ Stages(t) = 3 \/ Stages(t) = 4
      BY <2>1
    <3>2. Stages(later) = 1 \/ Stages(later) = 2 \/ Stages(later) = 3 \/ Stages(later) = 4
      BY <2>1
    <3> QED
      BY <2>1, <3>1, <3>2
  <2>4. /\ n * Stages(t) * 25 \in Nat
        /\ m * Stages(later) * 25 \in Nat
    BY <2>1
  <2>5. \A x, y \in Nat : x <= y => x \div 100 <= y \div 100
    OBVIOUS
  <2> QED
    BY <2>2, <2>3, <2>4, <2>5
<1> QED
  BY <1>1, <1>2

-----------------------------------------------------------------------------
(* The inductive invariant.  claim subtracts one user's payment from what  *)
(* is reserved for all: that this stays a natural number, and covers each  *)
(* of the others, needs the running totals to be the sums of the entries.  *)
IInv ==
    /\ TypeOK
    /\ getReservedTokens <= pool + rescued
    /\ OnSchedule
    /\ BooksBalance

(* Who is on schedule has not been paid more than was allocated. *)
LEMMA NobodyOverpaid ==
    ASSUME total \in [Users -> Nat], claimed \in [Users -> Nat], now \in Nat, OnSchedule
    PROVE  \A u \in Users : claimed[u] <= total[u]
<1> SUFFICES ASSUME NEW u \in Users PROVE claimed[u] <= total[u]
  OBVIOUS
<1>1. /\ Entitled(total[u], now) \in Nat
      /\ Entitled(total[u], now) <= total[u]
  BY EntitledBounds
<1> QED
  BY <1>1 DEF OnSchedule

(* What is reserved is the sum of what the users are still owed.           *)
LEMMA ReserveCoversUsers ==
    ASSUME total \in [Users -> Nat], claimed \in [Users -> Nat], now \in Nat,
           OnSchedule, BooksBalance
    PROVE  /\ getReservedTokens \in Nat
           /\ \A u \in Users : total[u] - claimed[u] <= getReservedTokens
BY NobodyOverpaid, TotalOfDifference, VestingAssumption DEF BooksBalance, getReservedTokens

(* What releases to a user is a number of tokens the user is still owed,   *)
(* and with it the user has exactly what the schedule releases.            *)
LEMMA ReleasableBounds ==
    ASSUME TypeOK, OnSchedule, NEW u \in Users, now >= startTime + CLIFF
    PROVE  /\ _releasable(u) \in Nat
           /\ claimed[u] + _releasable(u) = Entitled(total[u], now)
           /\ _releasable(u) <= total[u] - claimed[u]
<1>1. /\ total[u] \in Nat
      /\ claimed[u] \in Nat
      /\ now \in Nat
  BY DEF TypeOK
<1>2. ~ (now < startTime + CLIFF)
  BY <1>1, VestingAssumption
<1>3. /\ Entitled(total[u], now) = VestedAt(total[u], now)
      /\ Entitled(total[u], now) \in Nat
      /\ Entitled(total[u], now) <= total[u]
      /\ claimed[u] <= Entitled(total[u], now)
  BY <1>1, <1>2, EntitledBounds DEF Entitled, OnSchedule
<1>4. _releasable(u) = Entitled(total[u], now) - claimed[u]
  BY <1>1, <1>3 DEF _releasable
<1> QED
  BY <1>1, <1>3, <1>4

-----------------------------------------------------------------------------
(* The invariant is inductive. *)

LEMMA InitIInv == Init => IInv
<1> SUFFICES ASSUME Init PROVE IInv
  OBVIOUS
<1>1. TypeOK
  BY VestingAssumption DEF Init, TypeOK, getReservedTokens
<1>2. getReservedTokens <= pool + rescued
  BY VestingAssumption DEF Init, getReservedTokens
<1>3. OnSchedule
  BY VestingAssumption, EntitledBounds DEF Init, OnSchedule
<1>4. BooksBalance
  BY TotalOfZeros, VestingAssumption DEF Init, BooksBalance
<1> QED
  BY <1>1, <1>2, <1>3, <1>4 DEF IInv

(* A step that leaves the books alone keeps everybody on schedule. *)
LEMMA OnScheduleStays ==
    ASSUME TypeOK, OnSchedule, UNCHANGED << total, claimed >>,
           now' \in Nat, now <= now'
    PROVE  OnSchedule'
<1> SUFFICES ASSUME NEW u \in Users
             PROVE  claimed'[u] <= Entitled(total'[u], now')
  BY DEF OnSchedule, Entitled, VestedAt, Stages
<1>1. /\ total[u] \in Nat
      /\ claimed[u] \in Nat
      /\ now \in Nat
  BY DEF TypeOK
<1>2. /\ Entitled(total[u], now) \in Nat
      /\ Entitled(total[u], now') \in Nat
  BY <1>1, EntitledBounds
<1>3. total[u] <= total[u]
  BY <1>1
<1>4. Entitled(total[u], now) <= Entitled(total[u], now')
  BY <1>1, <1>3, EntitledGrows
<1> QED
  BY <1>1, <1>2, <1>4 DEF OnSchedule

LEMMA StepIInv == IInv /\ [Next]_vestingVars => IInv'
<1> SUFFICES ASSUME IInv, [Next]_vestingVars PROVE IInv'
  OBVIOUS
<1> USE DEF IInv
<1>1. ASSUME NEW amount \in Amounts, deposit(amount) PROVE IInv'
  <2>1. amount \in Nat
    BY VestingAssumption
  <2>2. TypeOK' /\ (getReservedTokens <= pool + rescued)'
    BY <1>1, <2>1 DEF deposit, TypeOK, book, getReservedTokens
  <2>3. OnSchedule'
    BY <1>1, OnScheduleStays DEF deposit, book, TypeOK
  <2>4. BooksBalance'
    BY <1>1 DEF BooksBalance, book, deposit
  <2> QED
    BY <2>2, <2>3, <2>4
<1>2. ASSUME NEW amount \in Amounts, rescueERC20(amount) PROVE IInv'
  <2>1. amount \in Nat
    BY VestingAssumption
  <2>2. TypeOK' /\ (getReservedTokens <= pool + rescued)'
    BY <1>2, <2>1 DEF rescueERC20, TypeOK, book, getReservedTokens
  <2>3. OnSchedule'
    BY <1>2, OnScheduleStays DEF rescueERC20, book, TypeOK
  <2>4. BooksBalance'
    BY <1>2 DEF BooksBalance, book, rescueERC20
  <2> QED
    BY <2>2, <2>3, <2>4
<1>3. ASSUME NEW amount \in Amounts, NEW u \in Users, allocate(u, amount) PROVE IInv'
  <2>1. amount \in Nat
    BY VestingAssumption
  <2>2. TypeOK' /\ (getReservedTokens <= pool + rescued)'
    BY <1>3, <2>1 DEF allocate, TypeOK, tokens, getReservedTokens
  <2>3. OnSchedule'
    <3> SUFFICES ASSUME NEW v \in Users
                 PROVE  claimed'[v] <= Entitled(total'[v], now')
      BY DEF OnSchedule, Entitled, VestedAt, Stages
    <3>1. /\ total[v] \in Nat
          /\ total'[v] \in Nat
          /\ total[v] <= total'[v]
          /\ claimed' = claimed /\ claimed[v] \in Nat
          /\ now' = now /\ now \in Nat
      BY <1>3, <2>1 DEF allocate, TypeOK
    <3>2. /\ Entitled(total[v], now) \in Nat
          /\ Entitled(total'[v], now) \in Nat
      BY <3>1, EntitledBounds
    <3>3. now <= now
      BY <3>1
    <3>4. Entitled(total[v], now) <= Entitled(total'[v], now)
      BY <3>1, <3>3, EntitledGrows
    <3>5. claimed[v] <= Entitled(total[v], now)
      BY DEF OnSchedule
    <3> QED
      BY <3>1, <3>2, <3>4, <3>5
  <2>4. BooksBalance'
    <3>1. /\ total \in [Users -> Nat] /\ total' \in [Users -> Nat]
          /\ total'[u] = total[u] + amount /\ \A v \in Users \ {u} : total'[v] = total[v]
      BY <1>3, <2>1 DEF allocate, TypeOK
    <3>2. SumFunction(total') = SumFunction(total) + amount
      BY <2>1, <3>1, TotalOfChange, VestingAssumption
    <3> QED
      BY <1>3, <3>2 DEF allocate, BooksBalance
  <2> QED
    BY <2>2, <2>3, <2>4
<1>4. ASSUME NEW amount \in Amounts, NEW u \in Users, Spend(u, amount) PROVE IInv'
  <2>1. amount \in Nat
    BY VestingAssumption
  <2>2. TypeOK' /\ (getReservedTokens <= pool + rescued)'
    BY <1>4, <2>1 DEF Spend, TypeOK, book, getReservedTokens
  <2>3. OnSchedule'
    BY <1>4, OnScheduleStays DEF Spend, book, TypeOK
  <2>4. BooksBalance'
    BY <1>4 DEF BooksBalance, book, Spend
  <2> QED
    BY <2>2, <2>3, <2>4
<1>5. ASSUME NEW u \in Users, claim(u) PROVE IInv'
  <2> DEFINE amount == _releasable(u)
  <2>1. /\ amount \in Nat
        /\ claimed[u] + amount = Entitled(total[u], now)
        /\ amount <= total[u] - claimed[u]
    BY <1>5, ReleasableBounds DEF claim
  <2> HIDE DEF amount
  <2>2. /\ claimed' = [claimed EXCEPT ![u] = @ + amount]
        /\ totalClaimed' = totalClaimed + amount
        /\ pool' = pool - amount
        /\ amount <= pool
        /\ wallet' = [wallet EXCEPT ![u] = @ + amount]
        /\ UNCHANGED << now, elsewhere, total, totalAllocated, rescued >>
    BY <1>5 DEF claim, PayUser, amount
  <2>3. BooksBalance'
    <3>1. /\ claimed \in [Users -> Nat] /\ claimed' \in [Users -> Nat]
          /\ claimed'[u] = claimed[u] + amount
          /\ \A v \in Users \ {u} : claimed'[v] = claimed[v]
      BY <2>1, <2>2 DEF TypeOK
    <3>2. SumFunction(claimed') = SumFunction(claimed) + amount
      BY <2>1, <3>1, TotalOfChange, VestingAssumption
    <3> QED
      BY <2>2, <3>2 DEF BooksBalance
  <2>6. OnSchedule'
    <3> SUFFICES ASSUME NEW v \in Users
                 PROVE  claimed'[v] <= Entitled(total'[v], now')
      BY DEF OnSchedule, Entitled, VestedAt, Stages
    <3>1. CASE v = u
      <4>1. claimed'[u] = Entitled(total[u], now)
        BY <2>1, <2>2 DEF TypeOK
      <4>2. Entitled(total[u], now) \in Nat
        BY EntitledBounds DEF TypeOK
      <4> QED
        BY <2>2, <3>1, <4>1, <4>2
    <3>2. CASE v # u
      BY <2>2, <3>2 DEF OnSchedule, TypeOK
    <3> QED
      BY <3>1, <3>2
  <2>7. TypeOK'
    <3>1. /\ now' \in Nat /\ pool' \in Nat /\ elsewhere' \in Nat /\ rescued' \in Nat
          /\ wallet' \in [Users -> Nat] /\ total' \in [Users -> Nat]
          /\ claimed' \in [Users -> Nat] /\ totalAllocated' \in Nat /\ totalClaimed' \in Nat
      BY <2>1, <2>2 DEF TypeOK
    <3>2. \A v \in Users : claimed'[v] <= total'[v]
      <4> SUFFICES ASSUME NEW v \in Users PROVE claimed'[v] <= total'[v]
        OBVIOUS
      <4>1. Entitled(total'[v], now') \in Nat /\ Entitled(total'[v], now') <= total'[v]
        BY <3>1, EntitledBounds
      <4>2. claimed'[v] <= Entitled(total'[v], now')
        BY <2>6 DEF OnSchedule, Entitled, VestedAt, Stages
      <4> QED
        BY <3>1, <4>1, <4>2
    <3>3. getReservedTokens' \in Nat
      BY <2>3, <3>1, <3>2, TotalOfDifference, VestingAssumption DEF BooksBalance, getReservedTokens
    <3> QED
      BY <3>1, <3>3 DEF TypeOK
  <2>5. (getReservedTokens <= pool + rescued)'
    BY <2>1, <2>2 DEF TypeOK, getReservedTokens
  <2> QED
    BY <2>3, <2>5, <2>6, <2>7
<1>6. CASE Tick
  <2>1. TypeOK' /\ (getReservedTokens <= pool + rescued)'
    BY <1>6 DEF Tick, TypeOK, tokens, book, getReservedTokens
  <2>2. OnSchedule'
    BY <1>6, OnScheduleStays DEF Tick, book, TypeOK
  <2>3. BooksBalance'
    BY <1>6 DEF BooksBalance, book, Tick
  <2> QED
    BY <2>1, <2>2, <2>3
<1>7. CASE UNCHANGED vestingVars
  <2>1. TypeOK' /\ (getReservedTokens <= pool + rescued)'
    BY <1>7 DEF vestingVars, TypeOK, tokens, book, getReservedTokens
  <2>2. OnSchedule'
    BY <1>7, OnScheduleStays DEF vestingVars, book, TypeOK
  <2>3. BooksBalance'
    BY <1>7 DEF BooksBalance, book, vestingVars
  <2> QED
    BY <2>1, <2>2, <2>3
<1> QED
  BY <1>1, <1>2, <1>3, <1>4, <1>5, <1>6, <1>7 DEF Next

LEMMA Inductive == Spec => []IInv
BY InitIInv, StepIInv, PTL DEF Spec

LEMMA IInvImpliesSolvent == IInv => Solvent
BY ReserveCoversUsers DEF IInv, TypeOK, Solvent

(* Every variable stays in its type; in particular the subtraction in      *)
(* getReservedTokens and allocate never underflows, because what is        *)
(* reserved is the sum of what the users are owed.                         *)
THEOREM VestingTypeCorrect == Spec => []TypeOK
<1>1. IInv => TypeOK
  BY DEF IInv
<1> QED
  BY <1>1, Inductive, PTL

(* What was allocated and paid in all is, to the token, what the users'    *)
(* entries add up to, for any number of users.                             *)
THEOREM VestingBooksBalance == Spec => []BooksBalance
<1>1. IInv => BooksBalance
  BY DEF IInv
<1> QED
  BY <1>1, Inductive, PTL

(* Unless governance rescues tokens, the contract holds what it reserves,  *)
(* and the reserve covers what each user is still owed.                    *)
THEOREM VestingSolvent == Spec => []Solvent
BY IInvImpliesSolvent, Inductive, PTL

(* Nobody is ever paid before the cliff or ahead of the stages. *)
THEOREM VestingOnSchedule == Spec => []OnSchedule
<1>1. IInv => OnSchedule
  BY DEF IInv
<1> QED
  BY <1>1, Inductive, PTL

(* Both together, as the runs check them. *)
THEOREM VestingPaysAsPromised == Spec => []PaysAsPromised
BY VestingSolvent, VestingOnSchedule, PTL DEF PaysAsPromised

(* What has vested to a user only ever grows: allocations accumulate, time *)
(* goes on, and nothing else touches either.                               *)
THEOREM VestingNeverTakenBack == Spec => VestedIsNeverTakenBack
<1>1. ASSUME TypeOK, TypeOK', [Next]_vestingVars, NEW u \in Users
      PROVE  Entitled(total[u], now) <= Entitled(total'[u], now')
  <2>1. /\ now \in Nat
        /\ now' \in Nat
        /\ total[u] \in Nat
        /\ total'[u] \in Nat
    BY <1>1 DEF TypeOK
  <2>2. now <= now'
    BY <1>1, <2>1 DEF Next, vestingVars, deposit, rescueERC20, allocate, Spend,
                      claim, Tick
  <2>3. total[u] <= total'[u]
    <3>1. ASSUME NEW amount \in Amounts, NEW v \in Users, allocate(v, amount)
          PROVE  total[u] <= total'[u]
      <4>1. amount \in Nat /\ total \in [Users -> Nat]
        BY <1>1, VestingAssumption DEF TypeOK
      <4> QED
        BY <2>1, <3>1, <4>1 DEF allocate
    <3>2. CASE total' = total
      BY <2>1, <3>2
    <3> QED
      BY <1>1, <3>1, <3>2 DEF Next, vestingVars, book, deposit, rescueERC20, Spend,
                              claim, Tick
  <2> QED
    BY <2>1, <2>2, <2>3, EntitledGrows
<1>2. TypeOK /\ TypeOK' /\ [Next]_vestingVars =>
        [\A u \in Users : Entitled(total[u], now) <= Entitled(total'[u], now')]_vestingVars
  BY <1>1
<1> QED
  BY <1>2, VestingTypeCorrect, PTL DEF Spec, VestedIsNeverTakenBack
=============================================================================
