--------------------------- MODULE ContractsProofs ---------------------------
(***************************************************************************)
(* Theorems about the contracts around the token: the roles, for any       *)
(* delays, any lock time and any calls an operation may make; the oracle,  *)
(* for any currencies, prices and units; the token, for any holders and    *)
(* any wallet cap; and the books of all of them together.                  *)
(***************************************************************************)
EXTENDS Contracts, VestingProofs

-----------------------------------------------------------------------------
(* Roles. *)

(* A set with more than one member outlives the removal of one. *)
LEMMA OneOfSeveral ==
    ASSUME NEW S \in SUBSET Accounts, NEW a, ~ (Cardinality(S) <= 1)
    PROVE  S \ {a} # {}
<1>1. IsFiniteSet(Accounts)
  <2>1. IsFiniteSet({deployer})
    BY FS_Singleton
  <2>2. IsFiniteSet({deployer} \cup {multisig})
    BY <2>1, FS_AddElement
  <2>3. IsFiniteSet({deployer} \cup {multisig} \cup {timelock})
    BY <2>2, FS_AddElement
  <2>4. IsFiniteSet({deployer} \cup {multisig} \cup {timelock} \cup {sale})
    BY <2>3, FS_AddElement
  <2>5. IsFiniteSet({deployer} \cup {multisig} \cup {timelock} \cup {sale} \cup {airdrop})
    BY <2>4, FS_AddElement
  <2>6. Accounts = {deployer} \cup {multisig} \cup {timelock} \cup {sale} \cup {airdrop}
    BY DEF Accounts
  <2> QED
    BY <2>5, <2>6
<1>2. SUFFICES ASSUME S \ {a} = {}
               PROVE  FALSE
  OBVIOUS
<1>3. IsFiniteSet({a}) /\ Cardinality({a}) = 1
  BY FS_Singleton
<1>4. S \in SUBSET {a}
  BY <1>2
<1>5. Cardinality(S) <= 1
  BY <1>3, <1>4, FS_Subset
<1> QED
  BY <1>5

(* What one call may do to the roles and to the Timelock's record of them. *)
Books ==
    /\ holders \in [Roles -> SUBSET Accounts]
    /\ members \in [TimelockRoles -> SUBSET Accounts]
    /\ delay \in {0, MINIMUM_DELAY} /\ lowered \in BOOLEAN

LEMMA PerformBooks ==
    ASSUME NEW by, NEW c \in Calls, Books, Perform(by, c)
    PROVE  Books'
<1>1. CASE c.do = "delay"
  BY <1>1, GovAssumption DEF Perform, Books
<1>2. CASE c.do # "delay"
  <2>1. c.role \in Roles /\ c.account \in Accounts
    BY <1>2 DEF Calls
  <2>2. \A S \in SUBSET Accounts : Changed(S, c) \in SUBSET Accounts
    BY <2>1 DEF Changed
  <2>3. /\ holders' = [holders EXCEPT ![c.role] = Changed(@, c)] /\ UNCHANGED <<delay, lowered>>
        /\ members' = IF c.role \in TimelockRoles
                      THEN [members EXCEPT ![c.role] = Changed(@, c)] ELSE members
    BY <1>2 DEF Perform
  <2> QED
    BY <2>1, <2>2, <2>3 DEF Books
<1> QED
  BY <1>1, <1>2

(* A call keeps the record true, and the last proposer and executor. *)
LEMMA PerformKeys ==
    ASSUME NEW by, NEW c \in Calls, Books, MembersAreHolders, Perform(by, c)
    PROVE  /\ MembersAreHolders'
           /\ \A r \in {"proposer", "executor"} : holders[r] # {} => holders'[r] # {}
<1>1. CASE c.do = "delay"
  BY <1>1 DEF Perform, MembersAreHolders
<1>2. CASE c.do # "delay"
  <2>1. /\ holders' = [holders EXCEPT ![c.role] = Changed(@, c)]
        /\ members' = IF c.role \in TimelockRoles
                      THEN [members EXCEPT ![c.role] = Changed(@, c)] ELSE members
    BY <1>2 DEF Perform
  <2>2. c.do \in {"grant", "revoke", "renounce"}
    BY <1>2 DEF Calls
  <2>3. MembersAreHolders'
    BY <2>1 DEF MembersAreHolders, Books, Roles
  <2>4. ASSUME NEW r \in {"proposer", "executor"}, holders[r] # {}
        PROVE  holders'[r] # {}
    <3>0. r \in Roles /\ r \in TimelockRoles
      BY DEF Roles, TimelockRoles
    <3>1. CASE c.role # r
      BY <2>1, <2>4, <3>0, <3>1 DEF Books
    <3>2. CASE c.role = r
      <4>1. holders'[r] = Changed(holders[r], c)
        BY <2>1, <3>0, <3>2 DEF Books
      <4>2. CASE c.do = "grant"
        BY <4>1, <4>2 DEF Changed
      <4>3. CASE c.do # "grant"
        <5>1. ~ LastOne(c.role)
          BY <2>2, <4>3 DEF Perform, Allowed
        <5>2. ~ (Cardinality(holders[r]) <= 1)
          BY <5>1, <3>0, <3>2 DEF LastOne, MembersAreHolders
        <5>3. holders[r] \ {c.account} # {}
          BY <5>2, <3>0, OneOfSeveral DEF Books
        <5> QED
          BY <4>1, <4>3, <5>3 DEF Changed
      <4> QED
        BY <4>2, <4>3
    <3> QED
      BY <3>1, <3>2
  <2> QED
    BY <2>3, <2>4
<1> QED
  BY <1>1, <1>2

-----------------------------------------------------------------------------
(* Whoever is both admin and governance of Vesting: the deployer, until    *)
(* the script's last transaction.                                          *)
ScriptPowers ==
    /\ holders["governance"] \subseteq {deployer}
    /\ step = 7 => deployer \notin holders["vesting admin"]

(* While nobody has lowered the delay, what is pending waits for it. *)
DelayKept ==
    ~lowered => /\ delay = MINIMUM_DELAY
                /\ operation.state = "pending" => operation.ready >= operation.since + MINIMUM_DELAY

GovInv == GovTypeOK /\ KeysAreKept /\ ScriptPowers /\ DelayKept

(* Every call of a behaviour is one of Calls, by somebody who is not both  *)
(* of Vesting's powers once the script is over.                            *)
LEMMA ScriptCalls == \A i \in 1..6 : Script[i] \in Calls
<1>1. /\ Script[1] \in Calls /\ Script[2] \in Calls /\ Script[3] \in Calls
      /\ Script[4] \in Calls /\ Script[5] \in Calls /\ Script[6] \in Calls
  BY DEF Script, Calls, Roles, OracleRoles, VestingRoles, Accounts
<1> QED
  BY <1>1

(* Without both powers nobody gives a role of Vesting away. *)
LEMMA PerformShrinks ==
    ASSUME NEW by, NEW c \in Calls, Books, Perform(by, c),
           by \notin holders["governance"] \/ by \notin holders["vesting admin"]
    PROVE  \A r \in VestingRoles : holders'[r] \subseteq holders[r]
<1>1. CASE c.do = "delay"
  BY <1>1 DEF Perform
<1>2. CASE c.do # "delay" /\ c.role \notin VestingRoles
  BY <1>2 DEF Perform, Books, Roles
<1>3. CASE c.do # "delay" /\ c.role \in VestingRoles
  <2>1. c.role \notin TimelockRoles
    BY <1>3 DEF VestingRoles, TimelockRoles
  <2>2. ~ MayAdminister(by, c.role)
    BY <1>3, <2>1 DEF MayAdminister, AdminOf
  <2>3. c.do # "grant"
    BY <2>2 DEF Perform, Allowed
  <2>4. Changed(holders[c.role], c) \subseteq holders[c.role]
    BY <2>3 DEF Changed
  <2> QED
    BY <1>3, <2>4 DEF Perform, Books, Roles
<1> QED
  BY <1>1, <1>2, <1>3

(* The script grants governance of Vesting to nobody. *)
LEMMA DeployPowers ==
    ASSUME Books, ScriptPowers, Deploy
    PROVE  ScriptPowers'
<1>1. Script[step] \in Calls /\ step \in 1..6 /\ step' = step + 1
  BY ScriptCalls DEF Deploy
<1>2. Perform(deployer, Script[step]) /\ Script[step].do # "delay" /\ Script[step].role # "governance"
  <2>1. /\ Script[1].do # "delay" /\ Script[1].role # "governance"
        /\ Script[2].do # "delay" /\ Script[2].role # "governance"
        /\ Script[3].do # "delay" /\ Script[3].role # "governance"
        /\ Script[4].do # "delay" /\ Script[4].role # "governance"
        /\ Script[5].do # "delay" /\ Script[5].role # "governance"
        /\ Script[6].do # "delay" /\ Script[6].role # "governance"
    BY DEF Script
  <2> QED
    BY <1>1, <2>1 DEF Deploy
<1>3. holders' = [holders EXCEPT ![Script[step].role] = Changed(@, Script[step])]
  BY <1>2 DEF Perform
<1>4. holders'["governance"] = holders["governance"]
  BY <1>2, <1>3 DEF Books, Roles, VestingRoles
<1>5. ASSUME step' = 7
      PROVE  deployer \notin holders'["vesting admin"]
  <2>1. step = 6
    BY <1>1, <1>5
  <2>2. Script[6].do = "renounce" /\ Script[6].role = "vesting admin" /\ Script[6].account = deployer
    BY DEF Script
  <2>3. "vesting admin" \in Roles
    BY DEF Roles, VestingRoles
  <2>4. holders'["vesting admin"] = Changed(holders["vesting admin"], Script[6])
    BY <1>3, <2>1, <2>2, <2>3 DEF Books
  <2> QED
    BY <2>2, <2>4 DEF Changed
<1> QED
  BY <1>4, <1>5 DEF ScriptPowers

LEMMA GovInitInv == GovInit => GovInv
<1> SUFFICES ASSUME GovInit
             PROVE  GovInv
  OBVIOUS
<1>1. GovTypeOK
  <2>1. holders \in [Roles -> SUBSET Accounts] /\ members \in [TimelockRoles -> SUBSET Accounts]
    BY DEF GovInit
  <2>2. /\ step \in 0..7 /\ delay \in {0, MINIMUM_DELAY} /\ clock \in 0..MaxClock
        /\ changes \in 0..MaxChanges
    BY GovAssumption DEF GovInit
  <2>3. vestingFinalized \in BOOLEAN /\ lowered \in BOOLEAN /\ operation = NoOperation
    BY Zenon DEF GovInit
  <2> QED
    BY <2>1, <2>2, <2>3 DEF GovTypeOK
<1>2. KeysAreKept
  BY DEF GovInit, KeysAreKept, TimelockKeepsItsKeys, MembersAreHolders, Roles
<1>3. ScriptPowers
  BY DEF GovInit, ScriptPowers, Roles, VestingRoles
<1>4. DelayKept
  BY DEF GovInit, DelayKept, NoOperation
<1> QED
  BY <1>1, <1>2, <1>3, <1>4 DEF GovInv

(* The calls of a step that performs one. *)
LEMMA Performers ==
    ASSUME GovInv, Deploy \/ Act \/ Execute
    PROVE  \E by, c : /\ c \in Calls /\ Perform(by, c)
                      /\ step = 7 => by \notin holders["governance"] \/ by \notin holders["vesting admin"]
                      /\ ~ Deploy => by \notin holders["governance"] \/ by \notin holders["vesting admin"]
<1>1. CASE Deploy
  <2>1. Script[step] \in Calls /\ Perform(deployer, Script[step]) /\ step # 7
    BY <1>1, ScriptCalls DEF Deploy
  <2> QED
    BY <1>1, <2>1
<1>2. CASE Act
  <2>1. PICK by \in {deployer, multisig}, c \in Calls : (by = deployer => step = 7) /\ Perform(by, c)
    BY <1>2 DEF Act
  <2>2. by \notin holders["governance"] \/ by \notin holders["vesting admin"]
    BY <2>1, GovAssumption DEF GovInv, ScriptPowers
  <2> QED
    BY <2>1, <2>2
<1>3. CASE Execute
  <2>1. operation.call \in Calls /\ Perform(timelock, operation.call)
    BY <1>3, GovAssumption DEF Execute, GovInv, GovTypeOK, NoOperation
  <2>2. timelock \notin holders["governance"]
    BY GovAssumption DEF GovInv, ScriptPowers
  <2> QED
    BY <2>1, <2>2
<1> QED
  BY <1>1, <1>2, <1>3

LEMMA TypedBooks == GovTypeOK => Books
BY DEF GovTypeOK, Books

(* Deploy, Act and Execute: what their call does, and what else they do. *)
LEMMA PerformingStep ==
    ASSUME GovInv, Deploy \/ Act \/ Execute
    PROVE  GovInv'
<1>0. Books /\ MembersAreHolders
  BY TypedBooks DEF GovInv, KeysAreKept
<1>1. PICK by, c : /\ c \in Calls /\ Perform(by, c)
                   /\ ~ Deploy => by \notin holders["governance"] \/ by \notin holders["vesting admin"]
  BY Performers
<1>2. Books'
  BY <1>0, <1>1, PerformBooks
<1>3. KeysAreKept'
  <2>1. MembersAreHolders'
    BY <1>0, <1>1, PerformKeys
  <2>2. TimelockKeepsItsKeys'
    <3>1. step' > 0 => step > 0
      BY DEF GovInv, GovTypeOK, Deploy, Act, Execute
    <3> QED
      BY <1>0, <1>1, <3>1, PerformKeys DEF GovInv, KeysAreKept, TimelockKeepsItsKeys
  <2> QED
    BY <2>1, <2>2 DEF KeysAreKept
<1>4. ScriptPowers'
  <2>1. CASE Deploy
    BY <1>0, <2>1, DeployPowers DEF GovInv
  <2>2. CASE ~ Deploy
    <3>1. step' = step
      BY <2>2 DEF Act, Execute
    <3>2. \A r \in VestingRoles : holders'[r] \subseteq holders[r]
      BY <1>0, <1>1, <2>2, PerformShrinks
    <3> QED
      BY <3>1, <3>2 DEF GovInv, ScriptPowers, VestingRoles
  <2> QED
    BY <2>1, <2>2
<1>5. GovTypeOK'
  <2>1. clock' = clock /\ vestingFinalized' = vestingFinalized
    BY DEF Deploy, Act, Execute
  <2>2. step' \in 0..7 /\ changes' \in 0..MaxChanges
    BY GovAssumption DEF GovInv, GovTypeOK, Deploy, Act, Execute
  <2>3. operation' = NoOperation \/
          operation' \in [state : {"pending", "done"}, call : Proposals, since : 0..clock,
                          ready : 0..(MaxClock + MINIMUM_DELAY)]
    BY DEF GovInv, GovTypeOK, Deploy, Act, Execute, NoOperation
  <2> QED
    BY <1>2, <2>1, <2>2, <2>3 DEF GovInv, GovTypeOK, Books
<1>6. DelayKept'
  <2>1. ~ lowered' => ~ lowered /\ delay' = delay
    BY <1>1, <1>0 DEF Perform, Books
  <2>2. operation'.state = "pending" => operation' = operation
    BY DEF GovInv, GovTypeOK, Deploy, Act, Execute, NoOperation
  <2> QED
    BY <2>1, <2>2 DEF GovInv, DelayKept
<1> QED
  BY <1>3, <1>4, <1>5, <1>6 DEF GovInv

LEMMA GovStepInv == GovInv /\ [GovNext]_govVars => GovInv'
<1> SUFFICES ASSUME GovInv, [GovNext]_govVars
             PROVE  GovInv'
  OBVIOUS
<1> USE GovAssumption
<1>1. CASE Construct
  <2>1. holders' \in [Roles -> SUBSET Accounts] /\ members' \in [TimelockRoles -> SUBSET Accounts]
    BY <1>1 DEF Construct, Roles, TimelockRoles, VestingRoles, OracleRoles, Accounts
  <2>2. GovTypeOK'
    BY <1>1, <2>1 DEF Construct, GovInv, GovTypeOK
  <2>3. KeysAreKept'
    BY <1>1 DEF Construct, KeysAreKept, TimelockKeepsItsKeys, MembersAreHolders, Roles, TimelockRoles
  <2>4. ScriptPowers'
    <3>1. "governance" \in Roles /\ "governance" \notin TimelockRoles
      BY DEF Roles, VestingRoles, TimelockRoles
    <3>2. holders'["governance"] = {deployer}
      BY <1>1, <3>1 DEF Construct
    <3> QED
      BY <1>1, <3>2 DEF Construct, ScriptPowers
  <2>5. DelayKept'
    BY <1>1 DEF Construct, GovInv, DelayKept
  <2> QED
    BY <2>2, <2>3, <2>4, <2>5 DEF GovInv
<1>2. CASE Deploy \/ Act \/ Execute
  BY <1>2, PerformingStep
<1>3. CASE FinalizeVesting
  BY <1>3 DEF FinalizeVesting, GovInv, GovTypeOK, KeysAreKept, TimelockKeepsItsKeys,
              MembersAreHolders, ScriptPowers, DelayKept
<1>4. CASE Schedule
  <2>1. PICK c \in Proposals : operation' = [state |-> "pending", call |-> c, since |-> clock, ready |-> clock + delay]
    BY <1>4 DEF Schedule
  <2>2. GovTypeOK'
    BY <1>4, <2>1 DEF Schedule, GovInv, GovTypeOK
  <2>3. DelayKept'
    BY <1>4, <2>1 DEF Schedule, GovInv, GovTypeOK, DelayKept
  <2>4. KeysAreKept' /\ ScriptPowers'
    BY <1>4 DEF Schedule, GovInv, KeysAreKept, TimelockKeepsItsKeys, MembersAreHolders, ScriptPowers
  <2> QED
    BY <2>2, <2>3, <2>4 DEF GovInv
<1>5. CASE emergencyCancelBatch
  BY <1>5 DEF emergencyCancelBatch, GovInv, GovTypeOK, KeysAreKept, TimelockKeepsItsKeys,
              MembersAreHolders, ScriptPowers, DelayKept, NoOperation
<1>6. CASE PassTime
  <2>1. clock' \in 0..MaxClock /\ 0..clock \subseteq 0..clock' /\ operation' = operation
    BY <1>6 DEF PassTime, GovInv, GovTypeOK
  <2>2. GovTypeOK'
    BY <1>6, <2>1 DEF PassTime, GovInv, GovTypeOK
  <2>3. KeysAreKept' /\ ScriptPowers' /\ DelayKept'
    BY <1>6 DEF PassTime, GovInv, KeysAreKept, TimelockKeepsItsKeys, MembersAreHolders, ScriptPowers, DelayKept
  <2> QED
    BY <2>2, <2>3 DEF GovInv
<1>7. CASE UNCHANGED govVars
  BY <1>7 DEF govVars, GovInv, GovTypeOK, KeysAreKept, TimelockKeepsItsKeys,
              MembersAreHolders, ScriptPowers, DelayKept
<1> QED
  BY <1>1, <1>2, <1>3, <1>4, <1>5, <1>6, <1>7 DEF GovNext

(* The types of roles, record, operation and clock.                        *)
THEOREM GovTypeCorrect == GovSpec => []GovTypeOK
<1>1. GovInv => GovTypeOK
  BY DEF GovInv
<1> QED
  BY GovInitInv, GovStepInv, <1>1, PTL DEF GovSpec

(* Whatever is granted, revoked and renounced (Timelock.sol), somebody can *)
(* propose, somebody can execute, and the record that guarantees it is     *)
(* the role table's.                                                       *)
THEOREM TimelockKeysAreKept == GovSpec => []KeysAreKept
<1>1. GovInv => KeysAreKept
  BY DEF GovInv
<1> QED
  BY GovInitInv, GovStepInv, <1>1, PTL DEF GovSpec

(* After deploy-complete.ts no account gains a role of Vesting; what the   *)
(* Timelock executes has waited MINIMUM_DELAY, unless an operation that    *)
(* waited so long has lowered the delay; and any other role is gained by   *)
(* an executed operation or from an admin beside the Timelock.  The        *)
(* deployer is one, of the Timelock's own roles, until he gives it up.     *)
THEOREM GovPowersAreBounded == GovSpec => PowersAreBounded
<1>1. ASSUME GovInv, [GovNext]_govVars
      PROVE  [step = 7 => \A r \in VestingRoles : holders'[r] \subseteq holders[r]]_govVars
  <2>1. ASSUME step = 7, Deploy \/ Act \/ Execute
        PROVE  \A r \in VestingRoles : holders'[r] \subseteq holders[r]
    <3>1. PICK by, c : /\ c \in Calls /\ Perform(by, c)
                       /\ step = 7 => by \notin holders["governance"] \/ by \notin holders["vesting admin"]
      BY <1>1, <2>1, Performers
    <3> QED
      BY <1>1, <2>1, <3>1, PerformShrinks, TypedBooks DEF GovInv
  <2>2. ASSUME step = 7, ~ (Deploy \/ Act \/ Execute)
        PROVE  UNCHANGED holders
    BY <1>1, <2>2 DEF GovNext, govVars, Construct, FinalizeVesting, Schedule, emergencyCancelBatch, PassTime
  <2> QED
    BY <2>1, <2>2
<1>2. ASSUME GovInv, [GovNext]_govVars
      PROVE  [(operation.state = "pending" /\ operation'.state = "done" /\ ~lowered)
                 => clock - operation.since >= MINIMUM_DELAY]_govVars
  <2>1. ASSUME operation.state = "pending", operation'.state = "done", ~lowered
        PROVE  clock - operation.since >= MINIMUM_DELAY
    <3>1. Execute
      BY <1>2, <2>1 DEF GovNext, govVars, Construct, Deploy, Act, FinalizeVesting, Schedule,
                        emergencyCancelBatch, PassTime, NoOperation
    <3>2. clock \in Nat /\ operation.since \in Nat /\ operation.ready \in Nat
      BY <1>2, <2>1, GovAssumption DEF GovInv, GovTypeOK, NoOperation
    <3>3. clock >= operation.ready /\ operation.ready >= operation.since + MINIMUM_DELAY
      BY <1>2, <2>1, <3>1 DEF Execute, GovInv, DelayKept
    <3> QED
      BY <3>2, <3>3, GovAssumption
  <2> QED
    BY <2>1
<1>3. ASSUME GovInv, [GovNext]_govVars, step = 7, NEW r \in Roles, ~(holders'[r] \subseteq holders[r])
      PROVE  \/ operation.state = "pending" /\ operation'.state = "done"
             \/ holders[AdminOf(r)] \ {timelock} # {}
  <2>1. CASE Act
    <3>1. PICK by \in {deployer, multisig}, c \in Calls : Perform(by, c)
      BY <2>1 DEF Act
    <3>2. by # timelock
      BY GovAssumption
    <3>3. c.do = "grant" /\ c.role = r
      BY <1>3, <3>1 DEF Perform, Allowed, Changed, GovInv, GovTypeOK
    <3> QED
      BY <3>1, <3>2, <3>3 DEF Perform, Allowed, MayAdminister
  <2>2. CASE Execute
    BY <2>2 DEF Execute
  <2>3. CASE ~Act /\ ~Execute
    BY <1>3, <2>3 DEF GovNext, govVars, Construct, Deploy, FinalizeVesting, Schedule,
                      emergencyCancelBatch, PassTime
  <2> QED
    BY <2>1, <2>2, <2>3
<1>4. ASSUME GovInv, [GovNext]_govVars
      PROVE  [step = 7 =>
                 \A r \in Roles : \/ holders'[r] \subseteq holders[r]
                                  \/ operation.state = "pending" /\ operation'.state = "done"
                                  \/ holders[AdminOf(r)] \ {timelock} # {}]_govVars
  BY <1>3, <1>4
<1> QED
  BY GovInitInv, GovStepInv, <1>1, <1>2, <1>4, PTL
     DEF GovSpec, PowersAreBounded, VestingRolesOnlyShrink, ExecutedAfterDelay, NewPowersWait

-----------------------------------------------------------------------------
(* The oracle. *)

LEMMA FloorTimesUnit ==
    ASSUME NEW x \in Nat, NEW u \in Nat \ {0}
    PROVE  x \div u \in Nat /\ (x \div u) * u <= x
OBVIOUS

LEMMA FloorOfMultiple ==
    ASSUME NEW x \in Nat, NEW a \in Nat, NEW m \in Nat \ {0}, x <= a * m
    PROVE  x \div m <= a
OBVIOUS

LEMMA FloorOfProduct ==
    ASSUME NEW k \in Nat, NEW m \in Nat \ {0}
    PROVE  (k * m) \div m = k
OBVIOUS

(* Two floors one way lose: what is bought costs no more than is paid. *)
LEMMA ConversionFloors ==
    ASSUME NEW a \in Nat, NEW price \in Nat, NEW unit \in Nat \ {0},
           NEW token \in Nat \ {0}
    PROVE  /\ _calc(a, price, unit, token) * token * unit \in Nat
           /\ _calc(a, price, unit, token) * token * unit <= a * (price * WHOLE)
<1> DEFINE usd == (a * price) \div unit
           got == (usd * WHOLE) \div token
<1>1. WHOLE \in Nat \ {0}
  BY OracleAssumption
<1>2. a * price \in Nat
  OBVIOUS
<1>3. usd \in Nat /\ usd * unit <= a * price
  BY <1>2, FloorTimesUnit
<1> HIDE DEF usd
<1>4. usd * WHOLE \in Nat
  BY <1>1, <1>3
<1>5. got \in Nat /\ got * token <= usd * WHOLE
  BY <1>4, FloorTimesUnit
<1>6. _calc(a, price, unit, token) = got
  BY DEF _calc, usd
<1> HIDE DEF got
<1>7. (got * token) * unit <= (usd * WHOLE) * unit
  BY <1>4, <1>5
<1>8. (usd * WHOLE) * unit = (usd * unit) * WHOLE
  BY <1>1, <1>3
<1>9. (usd * unit) * WHOLE <= (a * price) * WHOLE
  BY <1>1, <1>2, <1>3
<1>10. (a * price) * WHOLE = a * (price * WHOLE)
  BY <1>1
<1>11. price * WHOLE \in Nat
  BY <1>1
<1>12. got * token * unit \in Nat
  BY <1>5
<1>13. got * token * unit <= a * (price * WHOLE)
  BY <1>1, <1>2, <1>3, <1>5, <1>7, <1>8, <1>9, <1>10
<1> QED
  BY <1>6, <1>12, <1>13

(* And a third one back does not add up to a gain. *)
LEMMA ConversionsLose ==
    ASSUME NEW a \in Nat, NEW price \in Nat \ {0}, NEW unit \in Nat \ {0},
           NEW token \in Nat \ {0}
    PROVE  (_calc(a, price, unit, token) * token * unit) \div (price * WHOLE) <= a
<1>1. price * WHOLE \in Nat \ {0}
  BY OracleAssumption
<1> QED
  BY <1>1, ConversionFloors, FloorOfMultiple

(* Brought to six decimals, an answer is worth no more than it was. *)
LEMMA FeedScales ==
    ASSUME NEW f \in Feeds, NEW answer \in Nat
    PROVE  /\ _toPriceUnit(f, answer) \in Nat
           /\ _toPriceUnit(f, answer) * FeedUnit[f] <= answer * PRICE_UNIT
<1> DEFINE unit == FeedUnit[f]
<1>1. unit \in Nat \ {0} /\ PRICE_UNIT \in Nat \ {0}
  BY OracleAssumption
<1>2. CASE unit > PRICE_UNIT
  <2>1. PICK k \in Nat \ {0} : unit = k * PRICE_UNIT
    <3>1. \/ \E k \in 1..unit : unit = k * PRICE_UNIT
          \/ \E k \in 1..PRICE_UNIT : PRICE_UNIT = k * unit
      BY OracleAssumption
    <3>2. ASSUME NEW k \in 1..PRICE_UNIT, PRICE_UNIT = k * unit PROVE FALSE
      BY <1>1, <1>2, <3>2
    <3> QED
      BY <1>1, <3>1, <3>2
  <2> DEFINE price == answer \div k
  <2>2. unit \div PRICE_UNIT = k
    BY <1>1, <2>1, FloorOfProduct
  <2>3. price \in Nat /\ price * k <= answer
    BY FloorTimesUnit
  <2>4. _toPriceUnit(f, answer) = price
    BY <1>2, <2>2 DEF _toPriceUnit
  <2> HIDE DEF price, unit
  <2>5. price * unit = (price * k) * PRICE_UNIT
    BY <1>1, <2>1, <2>3
  <2>6. (price * k) * PRICE_UNIT <= answer * PRICE_UNIT
    BY <1>1, <2>3
  <2> QED
    BY <2>3, <2>4, <2>5, <2>6 DEF unit
<1>3. CASE ~(unit > PRICE_UNIT)
  <2> DEFINE k == PRICE_UNIT \div unit
  <2>1. k \in Nat /\ k * unit <= PRICE_UNIT
    BY <1>1, FloorTimesUnit
  <2>2. _toPriceUnit(f, answer) = answer * k
    BY <1>3 DEF _toPriceUnit
  <2> HIDE DEF k, unit
  <2>3. (answer * k) * unit = answer * (k * unit)
    BY <1>1, <2>1
  <2>4. answer * (k * unit) <= answer * PRICE_UNIT
    BY <1>1, <2>1
  <2>5. answer * k \in Nat
    BY <2>1
  <2> QED
    BY <2>2, <2>3, <2>4, <2>5 DEF unit
<1> QED
  BY <1>2, <1>3

(* One step of the oracle. *)
LEMMA OracleInitInv == OracleInit => OracleTypeOK /\ SupportedAreListed
BY OracleAssumption DEF OracleInit, OracleTypeOK, SupportedAreListed, Unknown

LEMMA OracleStepInv ==
    ASSUME OracleTypeOK, SupportedAreListed, [OracleNext]_oracleVars
    PROVE  OracleTypeOK' /\ SupportedAreListed'
<1>1. /\ tokenPriceUsd \in Nat \ {0}
      /\ currencyList \in Seq(Currencies)
      /\ block \in 0..MaxBlock
      /\ 0..block \subseteq 0..(block + 1)
  BY OracleAssumption DEF OracleTypeOK
<1>2. ASSUME NEW price \in Prices, updateTokenPrice(price)
      PROVE  OracleTypeOK' /\ SupportedAreListed'
  BY <1>2, OracleAssumption DEF updateTokenPrice, OracleTypeOK, SupportedAreListed, getCurrencies
<1>3. ASSUME NEW f \in Feeds, NEW answer \in Answers, FeedAnswers(f, answer)
      PROVE  OracleTypeOK' /\ SupportedAreListed'
  BY <1>1, <1>3, OracleAssumption DEF FeedAnswers, OracleTypeOK, SupportedAreListed, getCurrencies
<1>4. CASE NextBlock
  BY <1>1, <1>4, OracleAssumption DEF NextBlock, OracleTypeOK, SupportedAreListed, getCurrencies
<1>5. ASSUME NEW c \in Currencies, NEW price \in Prices, updateCurrencyPrice(c, price)
      PROVE  OracleTypeOK' /\ SupportedAreListed'
  <2>1. currencies' \in [Currencies -> [supported : BOOLEAN, priceUsd : Prices \cup {0},
                                       updatedAt : 0..block, feed : Feeds \cup {NoFeed}]]
    <3> DEFINE Known == [supported : BOOLEAN, priceUsd : Prices \cup {0},
                         updatedAt : 0..block, feed : Feeds \cup {NoFeed}]
               old == currencies[c]
               new == [supported |-> old.supported, priceUsd |-> price,
                       updatedAt |-> block, feed |-> old.feed]
    <3>1. currencies \in [Currencies -> Known] /\ block \in 0..block
      BY <1>1 DEF OracleTypeOK
    <3>2. new \in Known /\ currencies[c] \in Known
      BY <3>1
    <3>3. /\ DOMAIN currencies' = Currencies
          /\ currencies' = [d \in Currencies |-> currencies'[d]]
          /\ \A d \in Currencies \ {c} : currencies'[d] = currencies[d]
          /\ currencies'[c] = [[old EXCEPT !.priceUsd = price] EXCEPT !.updatedAt = block]
      BY <1>5, <3>1 DEF updateCurrencyPrice
    <3>4. currencies'[c] = new
      BY <3>2, <3>3
    <3> HIDE DEF Known, old, new
    <3>5. ASSUME NEW d \in Currencies PROVE currencies'[d] \in Known
      BY <3>1, <3>2, <3>3, <3>4
    <3>6. currencies' \in [Currencies -> Known]
      BY <3>3, <3>5
    <3> QED
      BY <3>6 DEF Known
  <2>2. \A d \in Currencies : currencies'[d].supported = currencies[d].supported
    BY <1>5 DEF updateCurrencyPrice, OracleTypeOK
  <2> QED
    BY <1>5, <2>1, <2>2 DEF updateCurrencyPrice, OracleTypeOK, SupportedAreListed, getCurrencies
<1>6. ASSUME NEW c \in Currencies, NEW price \in Prices, NEW feed \in Feeds \cup {NoFeed},
             _addCurrency(c, price, feed)
      PROVE  OracleTypeOK' /\ SupportedAreListed'
  <2>1. currencies' \in [Currencies -> [supported : BOOLEAN, priceUsd : Prices \cup {0},
                                       updatedAt : 0..block, feed : Feeds \cup {NoFeed}]]
    BY <1>1, <1>6 DEF _addCurrency, OracleTypeOK
  <2>2. /\ currencyList' \in Seq(Currencies) /\ Len(currencyList') <= MaxListed
        /\ ToSet(currencyList') = ToSet(currencyList) \cup {c}
    <3>1. currencyList' = Append(currencyList, c) /\ Len(currencyList) < MaxListed
      BY <1>6 DEF _addCurrency
    <3>2. /\ currencyList' \in Seq(Currencies)
          /\ Len(currencyList') = Len(currencyList) + 1
          /\ \A i \in 1..Len(currencyList) : currencyList'[i] = currencyList[i]
          /\ currencyList'[Len(currencyList) + 1] = c
      BY <1>1, <3>1
    <3>3. Len(currencyList) \in Nat /\ MaxListed \in Nat
      BY <1>1, OracleAssumption
    <3>4. /\ DOMAIN currencyList = 1..Len(currencyList)
          /\ DOMAIN currencyList' = 1..(Len(currencyList) + 1)
      BY <1>1, <3>2
    <3>5. DOMAIN currencyList' = DOMAIN currencyList \cup {Len(currencyList) + 1}
      BY <3>3, <3>4
    <3>6. ToSet(currencyList') = ToSet(currencyList) \cup {c}
      BY <3>2, <3>4, <3>5 DEF ToSet
    <3> QED
      BY <3>1, <3>2, <3>3, <3>6
  <2>3. \A d \in Currencies \ {c} : currencies'[d].supported = currencies[d].supported
    BY <1>6 DEF _addCurrency, OracleTypeOK
  <2> QED
    BY <1>6, <2>1, <2>2, <2>3 DEF _addCurrency, OracleTypeOK, SupportedAreListed, getCurrencies
<1>7. ASSUME NEW c \in Currencies, NEW feed \in Feeds \cup {NoFeed}, setChainlinkFeed(c, feed)
      PROVE  OracleTypeOK' /\ SupportedAreListed'
  <2>1. currencies' \in [Currencies -> [supported : BOOLEAN, priceUsd : Prices \cup {0},
                                       updatedAt : 0..block, feed : Feeds \cup {NoFeed}]]
    BY <1>1, <1>7 DEF setChainlinkFeed, OracleTypeOK
  <2>2. \A d \in Currencies : currencies'[d].supported = currencies[d].supported
    BY <1>7 DEF setChainlinkFeed, OracleTypeOK
  <2> QED
    BY <1>7, <2>1, <2>2 DEF setChainlinkFeed, OracleTypeOK, SupportedAreListed, getCurrencies
<1>8. ASSUME NEW c \in Currencies, removeCurrency(c)
      PROVE  OracleTypeOK' /\ SupportedAreListed'
  <2>1. currencies' \in [Currencies -> [supported : BOOLEAN, priceUsd : Prices \cup {0},
                                       updatedAt : 0..block, feed : Feeds \cup {NoFeed}]]
    BY <1>1, <1>8 DEF removeCurrency, OracleTypeOK
  <2>2. \A d \in Currencies : currencies'[d].supported => currencies[d].supported
    BY <1>8 DEF removeCurrency, OracleTypeOK
  <2> QED
    BY <1>8, <2>1, <2>2 DEF removeCurrency, OracleTypeOK, SupportedAreListed, getCurrencies
<1>9. CASE UNCHANGED oracleVars
  BY <1>9 DEF oracleVars, OracleTypeOK, SupportedAreListed, getCurrencies
<1> QED
  BY <1>2, <1>3, <1>4, <1>5, <1>6, <1>7, <1>8, <1>9, OracleAssumption DEF OracleNext

LEMMA OracleKeepsTypes == OracleSpec => [](OracleTypeOK /\ SupportedAreListed)
BY OracleInitInv, OracleStepInv, PTL DEF OracleSpec

(* A price, where there is one, is a natural number. *)
LEMMA PriceType ==
    ASSUME OracleTypeOK, NEW c \in Currencies
    PROVE  /\ PriceOf(c) \in Nat \cup {Reverts}
           /\ tokenPriceUsd \in Nat \ {0}
           /\ Unit[c] \in Nat \ {0}
<1>1. ASSUME NEW f \in Feeds PROVE _getChainlinkPrice(f) \in Nat \cup {Reverts}
  <2>1. round[f].answer \in Int
    BY OracleTypeOK DEF OracleTypeOK
  <2>2. CASE round[f].answer <= 0
    BY <2>2 DEF _getChainlinkPrice
  <2>3. CASE ~(round[f].answer <= 0)
    BY <2>1, <2>3, FeedScales DEF _getChainlinkPrice
  <2> QED
    BY <2>2, <2>3
<1>2. PriceOf(c) \in Nat \cup {Reverts}
  BY <1>1, OracleAssumption DEF OracleTypeOK, PriceOf
<1> QED
  BY <1>2, OracleAssumption DEF OracleTypeOK

(* What the user is shown is what is charged, a payment buys no more than  *)
(* it is worth, and what can be paid with is listed: whatever the operator *)
(* and the feed do, for every currency and every amount asked about.       *)
THEOREM OracleFair == OracleSpec => []OracleIsFair
<1>1. ASSUME OracleTypeOK PROVE PreviewIsTheQuote
  <2> SUFFICES ASSUME NEW c \in Currencies, NEW a \in Payments, getQuoteInfo(c, a) # Reverts
               PROVE  quote(c, a) = getQuoteInfo(c, a)
    BY DEF PreviewIsTheQuote
  <2>1. currencies[c].supported \in BOOLEAN
    BY <1>1 DEF OracleTypeOK
  <2>2. currencies[c].priceUsd # Reverts
    BY <1>1, OracleAssumption DEF OracleTypeOK, Reverts
  <2> QED
    BY <2>1, <2>2 DEF getQuoteInfo, quote, PriceOf
<1>2. ASSUME OracleTypeOK PROVE RoundTripNeverGains
  <2> SUFFICES ASSUME NEW c \in Currencies, NEW a \in Payments, quote(c, a) # Reverts
               PROVE  quoteReverse(c, quote(c, a)) <= a
    BY DEF RoundTripNeverGains
  <2>1. a \in Nat
    BY OracleAssumption
  <2>2. PriceOf(c) \in Nat /\ quote(c, a) = _calc(a, PriceOf(c), Unit[c], tokenPriceUsd)
    BY <1>2, PriceType DEF quote
  <2>3. CASE PriceOf(c) = 0
    BY <2>1, <2>3 DEF quoteReverse, Reverts
  <2>4. CASE PriceOf(c) # 0
    <3>1. quoteReverse(c, quote(c, a)) =
            (quote(c, a) * tokenPriceUsd * Unit[c]) \div (PriceOf(c) * WHOLE)
      BY <2>2, <2>4 DEF quoteReverse, Reverts
    <3> QED
      BY <1>2, <2>1, <2>2, <2>4, <3>1, PriceType, ConversionsLose
  <2> QED
    BY <2>3, <2>4
<1>3. ASSUME OracleTypeOK PROVE FeedIsNotRoundedUp
  <2> SUFFICES ASSUME NEW c \in Currencies, NEW a \in Payments, NEW f \in Feeds,
                      currencies[c].feed = f, quote(c, a) # Reverts
               PROVE  (quote(c, a) * tokenPriceUsd * Unit[c]) * FeedUnit[f]
                          <= (a * WHOLE) * (round[f].answer * PRICE_UNIT)
    BY DEF FeedIsNotRoundedUp
  <2> DEFINE price == PriceOf(c)
             cost == quote(c, a) * tokenPriceUsd * Unit[c]
             unit == FeedUnit[f]
             answer == round[f].answer
  <2>1. /\ a \in Nat /\ WHOLE \in Nat /\ PRICE_UNIT \in Nat /\ unit \in Nat
        /\ NoFeed \notin Feeds
    BY OracleAssumption
  <2>2. price \in Nat /\ price # Reverts /\ quote(c, a) = _calc(a, price, Unit[c], tokenPriceUsd)
    BY <1>3, PriceType DEF quote, Reverts
  <2>3. currencies[c].supported
    BY <2>2 DEF PriceOf
  <2>4. price = _getChainlinkPrice(f)
    BY <2>1, <2>3 DEF PriceOf
  <2>5. answer \in Nat /\ price = _toPriceUnit(f, answer)
    <3>1. answer \in Int
      BY <1>3 DEF OracleTypeOK
    <3> QED
      BY <2>2, <2>4, <3>1 DEF _getChainlinkPrice
  <2>6. price * unit <= answer * PRICE_UNIT
    BY <2>5, FeedScales
  <2>7. cost \in Nat /\ cost <= a * (price * WHOLE)
    BY <1>3, <2>1, <2>2, PriceType, ConversionFloors
  <2> HIDE DEF price, cost, unit, answer
  <2>8. cost * unit <= (a * (price * WHOLE)) * unit
    <3>1. a * (price * WHOLE) \in Nat
      BY <2>1, <2>2
    <3> QED
      BY <2>1, <2>7, <3>1
  <2>9. (a * (price * WHOLE)) * unit = (a * WHOLE) * (price * unit)
    BY <2>1, <2>2
  <2>10. (a * WHOLE) * (price * unit) <= (a * WHOLE) * (answer * PRICE_UNIT)
    <3>1. a * WHOLE \in Nat /\ price * unit \in Nat /\ answer * PRICE_UNIT \in Nat
      BY <2>1, <2>2, <2>5
    <3> QED
      BY <2>6, <3>1
  <2>11. cost * unit <= (a * WHOLE) * (answer * PRICE_UNIT)
    <3>1. cost * unit \in Nat /\ (a * (price * WHOLE)) * unit \in Nat
          /\ (a * WHOLE) * (answer * PRICE_UNIT) \in Nat
      BY <2>1, <2>2, <2>5, <2>7
    <3> QED
      BY <2>8, <2>9, <2>10, <3>1
  <2> QED
    BY <2>11 DEF cost, unit, answer
<1>4. OracleTypeOK /\ SupportedAreListed => OracleIsFair
  BY <1>1, <1>2, <1>3 DEF OracleIsFair
<1> QED
  BY <1>4, OracleKeepsTypes, PTL

-----------------------------------------------------------------------------
(* The token. *)

Undistributed == IF SaleIsMinted THEN 0 ELSE Minted[salePool]

LEMMA FiniteHolders == IsFiniteSet(Pools) /\ IsFiniteSet(Holders)
<1>1. IsFiniteSet({treasury})
  BY FS_Singleton
<1>2. IsFiniteSet({treasury} \cup {vestingPool})
  BY <1>1, FS_AddElement
<1>3. IsFiniteSet({treasury} \cup {vestingPool} \cup {airdropPool})
  BY <1>2, FS_AddElement
<1>4. IsFiniteSet({treasury} \cup {vestingPool} \cup {airdropPool} \cup {salePool})
  BY <1>3, FS_AddElement
<1>5. Pools = {treasury} \cup {vestingPool} \cup {airdropPool} \cup {salePool}
  BY DEF Pools
<1>6. IsFiniteSet(Pools \cup pairs)
  BY <1>4, <1>5, TokenAssumption, FS_Union
<1> QED
  BY <1>4, <1>5, <1>6, TokenAssumption, FS_Union DEF Holders

(* What the constructor mints is Minted, but for the sale's share when its *)
(* address is left out.                                                    *)
LEMMA MintedInAll == SumFunction(MintedBalances) = TokenSupply - Undistributed
<1>1. MintedBalances \in [Holders -> Nat] /\ Pools \in SUBSET Holders
  BY TokenAssumption DEF MintedBalances, Holders
<1>2. SumFunction(MintedBalances) = SumFunctionOnSet(MintedBalances, Holders)
  BY <1>1 DEF SumFunction
<1>3. \A h \in Holders \ Pools : MintedBalances[h] = 0
  BY DEF MintedBalances
<1>4. SumFunctionOnSet(MintedBalances, Holders) = SumFunctionOnSet(MintedBalances, Pools)
  <2>1. \A h \in Holders : MintedBalances[h] \in Int
    BY <1>1
  <2> QED
    BY <1>1, <1>3, <2>1, FiniteHolders, SumOfPart
<1>5. SumFunctionOnSet(MintedBalances, Pools) = SumFunctionOnSet(Minted, Pools) - Undistributed
  <2>1. \A h \in Pools : MintedBalances[h] \in Int /\ Minted[h] \in Int
    BY <1>1, TokenAssumption DEF MintedBalances
  <2>2. salePool \in Pools /\ Undistributed \in Int
    BY TokenAssumption DEF Pools, Undistributed
  <2>3. \A h \in Pools \ {salePool} : MintedBalances[h] = Minted[h]
    BY <1>1 DEF MintedBalances
  <2>4. MintedBalances[salePool] = Minted[salePool] + (- Undistributed)
    BY <1>1, <2>1, <2>2, TokenAssumption DEF MintedBalances, Undistributed
  <2>5. - Undistributed \in Int
    BY <2>2
  <2>6. SumFunctionOnSet(MintedBalances, Pools) = SumFunctionOnSet(Minted, Pools) + (- Undistributed)
    BY <2>1, <2>2, <2>3, <2>4, <2>5, FiniteHolders, SumOfChange
  <2>7. SumFunctionOnSet(Minted, Pools) \in Int
    BY <2>1, FiniteHolders, SumIsInt
  <2> QED
    BY <2>2, <2>6, <2>7
<1>6. SumFunctionOnSet(Minted, Pools) = TokenSupply
  BY TokenAssumption DEF SumFunction
<1> QED
  BY <1>2, <1>4, <1>5, <1>6

(* Whoever is excluded from the cap is on record as having been.           *)
TokenInv ==
    /\ TokenTypeOK /\ WalletCapHolds /\ SupplyIsWhole
    /\ isExcludedFromWalletCap \subseteq everExcluded

LEMMA TokenInitInv == TokenInit => TokenInv
<1> SUFFICES ASSUME TokenInit PROVE TokenInv
  OBVIOUS
<1>1. TokenTypeOK
  BY TokenAssumption DEF TokenInit, TokenTypeOK, MintedBalances, Holders
<1>2. WalletCapHolds
  <2>1. ASSUME NEW h \in Holders \ everExcluded PROVE MintedBalances[h] = 0
    BY <2>1, TokenAssumption DEF TokenInit, MintedBalances
  <2> QED
    BY <2>1, TokenAssumption DEF TokenInit, WalletCapHolds
<1>3. SupplyIsWhole
  BY MintedInAll DEF TokenInit, SupplyIsWhole, Undistributed
<1> QED
  BY <1>1, <1>2, <1>3 DEF TokenInit, TokenInv

(* A transfer moves what it takes. *)
LEMMA TransferKeepsSum ==
    ASSUME TokenTypeOK, NEW from \in Holders, NEW to \in Holders, from # to,
           NEW value \in Nat, value <= balance[from]
    PROVE  SumFunction([balance EXCEPT ![from] = @ - value, ![to] = @ + value])
             = SumFunction(balance)
<1> DEFINE taken == [balance EXCEPT ![from] = @ - value]
           given == [balance EXCEPT ![from] = @ - value, ![to] = @ + value]
<1>1. /\ balance \in [Holders -> Nat]
      /\ taken \in [Holders -> Nat]
      /\ given \in [Holders -> Nat]
  BY DEF TokenTypeOK
<1>2. /\ taken[from] = balance[from] + (- value)
      /\ \A h \in Holders \ {from} : taken[h] = balance[h]
      /\ given[to] = taken[to] + value
      /\ \A h \in Holders \ {to} : given[h] = taken[h]
  BY <1>1
<1> HIDE DEF taken, given
<1>3. - value \in Int
  OBVIOUS
<1>4. SumFunction(taken) = SumFunction(balance) + (- value)
  BY <1>1, <1>2, <1>3, FiniteHolders, TotalOfChange
<1>5. SumFunction(given) = SumFunction(taken) + value
  BY <1>1, <1>2, FiniteHolders, TotalOfChange
<1>6. SumFunction(balance) \in Nat
  BY <1>1, FiniteHolders, TotalType
<1>7. SumFunction(given) = SumFunction(balance)
  BY <1>4, <1>5, <1>6
<1> QED
  BY <1>7 DEF given

LEMMA TransferStep ==
    ASSUME TokenInv, NEW from \in Holders, NEW to \in Holders, NEW value \in Parcels,
           _update(from, to, value)
    PROVE  TokenInv'
<1>1. value \in Nat /\ TokenCap \in Nat /\ balance \in [Holders -> Nat]
  BY TokenAssumption DEF TokenInv, TokenTypeOK
<1>2. UNCHANGED <<isExcludedFromWalletCap, everExcluded, dexPair, dexLocked, tokenPaused>>
  BY DEF _update
<1>3. CASE from = to
  BY <1>2, <1>3 DEF _update, TokenInv, TokenTypeOK, WalletCapHolds, SupplyIsWhole
<1>4. CASE from # to
  <2>1. /\ value <= balance[from]
        /\ to \in everExcluded \/ balance[to] + value <= TokenCap
        /\ balance' = [balance EXCEPT ![from] = @ - value, ![to] = @ + value]
    BY <1>4 DEF _update, TokenInv
  <2>2. balance' \in [Holders -> Nat]
    BY <1>1, <1>4, <2>1
  <2>3. WalletCapHolds'
    BY <1>1, <1>2, <1>4, <2>1 DEF TokenInv, WalletCapHolds
  <2>4. SumFunction(balance') = SumFunction(balance)
    BY <1>1, <1>4, <2>1, TransferKeepsSum DEF TokenInv
  <2> QED
    BY <1>2, <2>2, <2>3, <2>4 DEF TokenInv, TokenTypeOK, SupplyIsWhole
<1> QED
  BY <1>3, <1>4

LEMMA TokenStepInv == TokenInv /\ [TokenNext]_tokenVars => TokenInv'
<1> SUFFICES ASSUME TokenInv, [TokenNext]_tokenVars PROVE TokenInv'
  OBVIOUS
<1>1. ASSUME UNCHANGED balance, everExcluded \subseteq everExcluded'
      PROVE  WalletCapHolds' /\ SupplyIsWhole'
  BY <1>1 DEF TokenInv, WalletCapHolds, SupplyIsWhole
<1>2. ASSUME NEW h \in Holders, NEW excluded \in BOOLEAN, setExclusion(h, excluded)
      PROVE  TokenInv'
  BY <1>1, <1>2 DEF setExclusion, TokenInv, TokenTypeOK
<1>3. ASSUME NEW p \in pairs, setDexSetup(p) PROVE TokenInv'
  <2>1. p \in Holders
    BY DEF Holders
  <2> QED
    BY <1>1, <1>3, <2>1 DEF setDexSetup, TokenInv, TokenTypeOK
<1>4. CASE lockDexSetup
  BY <1>1, <1>4 DEF lockDexSetup, TokenInv, TokenTypeOK
<1>5. ASSUME NEW on \in BOOLEAN, pauseToken(on) PROVE TokenInv'
  BY <1>1, <1>5 DEF pauseToken, TokenInv, TokenTypeOK
<1>6. CASE UNCHANGED tokenVars
  BY <1>1, <1>6 DEF tokenVars, TokenInv, TokenTypeOK
<1> QED
  BY <1>2, <1>3, <1>4, <1>5, <1>6, TransferStep DEF TokenNext

LEMMA TokenKeepsInv == TokenSpec => []TokenInv
BY TokenInitInv, TokenStepInv, PTL DEF TokenSpec

-----------------------------------------------------------------------------

(* Nothing is made or lost in the books of Vesting and Token: for any      *)
(* number of holders the entries add up to the totals and the balances to  *)
(* the supply, and who was never excluded is held to the wallet cap.       *)
THEOREM ContractsBooksAreWhole == ContractsSpec => []BooksAreWhole
<1>1. TokenInv => TokenTypeOK /\ WalletCapHolds /\ SupplyIsWhole
  BY DEF TokenInv
<1>2. /\ TypeOK /\ BooksBalance /\ GovTypeOK
      /\ OracleTypeOK /\ SupportedAreListed
      /\ TokenTypeOK /\ WalletCapHolds /\ SupplyIsWhole
      => BooksAreWhole
  BY DEF BooksAreWhole, ContractsTypeOK
<1> QED
  BY <1>1, <1>2, VestingTypeCorrect, VestingBooksBalance, GovTypeCorrect,
     OracleKeepsTypes, TokenKeepsInv, PTL DEF ContractsSpec
=============================================================================
