----------------------------- MODULE Governance -----------------------------
(***************************************************************************)
(* Who may do what after smart/scripts/deploy-complete.ts: the roles of    *)
(* the Timelock (smart/contracts/Timelock.sol over OpenZeppelin's          *)
(* TimelockController), the Vesting contract and the PriceOracle, an       *)
(* operation the Timelock holds, and the script that hands the roles on,   *)
(* which may stop after any of its transactions.                           *)
(***************************************************************************)
EXTENDS Naturals, FiniteSets

CONSTANTS deployer, multisig, timelock, sale, airdrop,
          MINIMUM_DELAY,
          LockTime,     \* govStart + LOCK_180
          MaxClock,     \* bound: the clock stops there
          MaxChanges,   \* bound: calls that change roles
          Proposals     \* the calls an operation may make

VARIABLES
    step,             \* transactions of the script that are mined
    holders,          \* [role -> accounts]: the AccessControl mappings
    members,          \* _roleMembers, the Timelock's own record of its roles
    vestingFinalized, delay, clock, changes,
    operation,        \* [call, state, since, ready]
    lowered           \* history: an operation has set the delay

govVars == <<step, holders, members, vestingFinalized, delay, clock, changes, operation, lowered>>

Accounts == {deployer, multisig, timelock, sale, airdrop}
TimelockRoles == {"admin", "proposer", "executor", "canceller"}
VestingRoles == {"vesting admin", "governance", "depositor"}
OracleRoles == {"oracle admin", "operator"}
Roles == TimelockRoles \cup VestingRoles \cup OracleRoles
Calls == [do : {"grant", "revoke", "renounce"}, role : Roles, account : Accounts]
         \cup [do : {"delay"}, role : {"admin"}, account : {timelock}]
NoOperation == [state |-> "unset"]

ASSUME GovAssumption ==
    /\ timelock \notin {deployer, multisig} /\ deployer # multisig
    /\ MINIMUM_DELAY \in Nat /\ MaxClock \in Nat /\ MaxChanges \in Nat /\ Proposals \subseteq Calls

GovTypeOK ==
    /\ step \in 0..7 /\ holders \in [Roles -> SUBSET Accounts]
    /\ members \in [TimelockRoles -> SUBSET Accounts] /\ vestingFinalized \in BOOLEAN
    /\ delay \in {0, MINIMUM_DELAY} /\ clock \in 0..MaxClock /\ changes \in 0..MaxChanges
    /\ operation = NoOperation \/
          operation \in [state : {"pending", "done"}, call : Proposals, since : 0..clock,
                         ready : 0..(MaxClock + MINIMUM_DELAY)]
    /\ lowered \in BOOLEAN

GovInit ==
    /\ step = 0 /\ holders = [r \in Roles |-> {}] /\ members = [r \in TimelockRoles |-> {}]
    /\ vestingFinalized = FALSE /\ delay = MINIMUM_DELAY /\ clock = 0 /\ changes = 0
    /\ operation = NoOperation /\ lowered = FALSE

Locked == vestingFinalized \/ clock >= LockTime

-----------------------------------------------------------------------------
(* A role's admin may grant and revoke it.  The Timelock keeps a last      *)
(* proposer and a last executor; the Vesting contract asks for             *)
(* GOVERNANCE_ROLE too, and settles its roles after 180 days.              *)
AdminOf(role) ==
    IF role \in TimelockRoles THEN "admin"
    ELSE IF role \in VestingRoles THEN "vesting admin" ELSE "oracle admin"

LastOne(role) == role \in {"proposer", "executor"} /\ Cardinality(members[role]) <= 1

MayAdminister(by, role) ==
    /\ by \in holders[AdminOf(role)]
    /\ role \in VestingRoles => by \in holders["governance"] /\ ~Locked

Allowed(by, c) ==
    \/ c.do = "grant" /\ MayAdminister(by, c.role)
    \/ c.do = "revoke" /\ MayAdminister(by, c.role) /\ ~LastOne(c.role)
    \/ /\ c.do = "renounce" /\ by = c.account /\ ~LastOne(c.role)
       /\ c.role \in VestingRoles => ~Locked
    \/ c.do = "delay" /\ by = timelock

Changed(set, c) == IF c.do = "grant" THEN set \cup {c.account} ELSE set \ {c.account}

PerformUntracked(by, c) ==      \* mutant: _revokeRole is not overridden
    /\ Allowed(by, c)
    /\ IF c.do = "delay"
       THEN delay' = 0 /\ lowered' = TRUE /\ UNCHANGED <<holders, members>>
       ELSE /\ holders' = [holders EXCEPT ![c.role] = Changed(@, c)] /\ UNCHANGED <<delay, lowered>>
            /\ members' = IF c.role \in TimelockRoles /\ c.do = "grant"
                          THEN [members EXCEPT ![c.role] = Changed(@, c)] ELSE members

(* grantRole, revokeRole, renounceRole, renounceAdminRole, the canceller's *)
(* two functions; updateDelay, which only the Timelock itself may call.    *)
Perform(by, c) ==
    /\ Allowed(by, c)
    /\ IF c.do = "delay"
       THEN delay' = 0 /\ lowered' = TRUE /\ UNCHANGED <<holders, members>>
       ELSE /\ holders' = [holders EXCEPT ![c.role] = Changed(@, c)] /\ UNCHANGED <<delay, lowered>>
            /\ members' = IF c.role \in TimelockRoles
                          THEN [members EXCEPT ![c.role] = Changed(@, c)] ELSE members

-----------------------------------------------------------------------------
(* deploy-complete.ts: six constructors, taken together, then one          *)
(* transaction of the deployer after the other.                            *)
Construct ==
    /\ step = 0 /\ step' = 1
    /\ holders' = [r \in Roles |->
          IF r = "admin" THEN {timelock, deployer} ELSE IF r \in TimelockRoles THEN {multisig}
          ELSE IF r = "depositor" THEN {} ELSE {deployer}]
    /\ members' = [r \in TimelockRoles |-> holders'[r]]
    /\ UNCHANGED <<vestingFinalized, delay, clock, changes, operation, lowered>>

(* Mutant: the deployer remains admin of the Vesting contract. *)
ScriptWithoutRenouncing ==
    <<[do |-> "grant", role |-> "oracle admin", account |-> timelock],
      [do |-> "renounce", role |-> "oracle admin", account |-> deployer],
      [do |-> "grant", role |-> "depositor", account |-> sale],
      [do |-> "grant", role |-> "depositor", account |-> airdrop],
      [do |-> "grant", role |-> "vesting admin", account |-> timelock],
      [do |-> "grant", role |-> "vesting admin", account |-> timelock]>>

Script ==
    <<[do |-> "grant", role |-> "oracle admin", account |-> timelock],
      [do |-> "renounce", role |-> "oracle admin", account |-> deployer],
      [do |-> "grant", role |-> "depositor", account |-> sale],
      [do |-> "grant", role |-> "depositor", account |-> airdrop],
      [do |-> "grant", role |-> "vesting admin", account |-> timelock],
      [do |-> "renounce", role |-> "vesting admin", account |-> deployer]>>

Deploy ==
    /\ step \in 1..6 /\ step' = step + 1 /\ Perform(deployer, Script[step])
    /\ UNCHANGED <<vestingFinalized, clock, changes, operation>>

(* Calls of the two accounts that have keys; the deployer's first runs the *)
(* script, which sends nothing else.                                       *)
Act ==
    /\ step > 0 /\ changes < MaxChanges /\ changes' = changes + 1
    /\ \E by \in {deployer, multisig}, c \in Calls : (by = deployer => step = 7) /\ Perform(by, c)
    /\ UNCHANGED <<step, vestingFinalized, clock, operation>>

FinalizeVesting ==
    /\ holders["governance"] # {} /\ clock >= LockTime /\ vestingFinalized' = TRUE
    /\ UNCHANGED <<step, holders, members, delay, clock, changes, operation, lowered>>

-----------------------------------------------------------------------------
(* TimelockController: schedule, execute; emergencyCancelBatch, which      *)
(* passes over what is not pending.                                        *)
Schedule ==
    /\ operation.state # "pending" /\ holders["proposer"] # {} /\ changes < MaxChanges
    /\ changes' = changes + 1
    /\ \E c \in Proposals : operation' = [state |-> "pending", call |-> c, since |-> clock, ready |-> clock + delay]
    /\ UNCHANGED <<step, holders, members, vestingFinalized, delay, clock, lowered>>

Execute ==
    /\ operation.state = "pending" /\ clock >= operation.ready /\ holders["executor"] # {}
    /\ Perform(timelock, operation.call) /\ operation' = [operation EXCEPT !.state = "done"]
    /\ UNCHANGED <<step, vestingFinalized, clock, changes>>
emergencyCancelBatch ==
    /\ operation.state = "pending" /\ holders["canceller"] # {} /\ operation' = NoOperation
    /\ UNCHANGED <<step, holders, members, vestingFinalized, delay, clock, changes, lowered>>

PassTime ==
    /\ clock < MaxClock /\ clock' = clock + 1
    /\ UNCHANGED <<step, holders, members, vestingFinalized, delay, changes, operation, lowered>>

GovNext ==
    \/ Construct \/ Deploy \/ Act \/ FinalizeVesting
    \/ Schedule \/ Execute \/ emergencyCancelBatch \/ PassTime

GovSpec == GovInit /\ [][GovNext]_govVars

-----------------------------------------------------------------------------
(* Whatever is granted, revoked and renounced, by whom and through which   *)
(* of the contract's five functions, somebody can propose and somebody can *)
(* execute: the check on the count is only as good as the record it counts.*)
TimelockKeepsItsKeys ==
    step > 0 => holders["proposer"] # {} /\ holders["executor"] # {}
(* The Timelock's own record is AccessControl's. *)
MembersAreHolders == \A r \in TimelockRoles : members[r] = holders[r]

(* The script leaves the Vesting contract with an admin that is not its    *)
(* governance and a governance that is not its admin: from then on nobody, *)
(* the Timelock included, gives any account a role there.                  *)
VestingRolesOnlyShrink ==
    [][step = 7 => \A r \in VestingRoles : holders'[r] \subseteq holders[r]]_govVars

(* Nothing is executed sooner than MINIMUM_DELAY after it was scheduled,   *)
(* until an operation that has itself waited so long lowers the delay: the *)
(* constructor's minimum does not bind updateDelay.                        *)
ExecutedAfterDelay ==
    [][(operation.state = "pending" /\ operation'.state = "done" /\ ~lowered)
          => clock - operation.since >= MINIMUM_DELAY]_govVars

(* After the script a role is gained by an operation, or at once from the  *)
(* hand of an account other than the Timelock that is its admin.  There is *)
(* one: the deployer, whom the script leaves DEFAULT_ADMIN_ROLE of the     *)
(* Timelock and who can make anyone a proposer or an executor until he     *)
(* gives it up (Timelock.sol:14 has it renounced; nothing does).           *)
NewPowersWait ==
    [][step = 7 =>
          \A r \in Roles : \/ holders'[r] \subseteq holders[r]
                           \/ operation.state = "pending" /\ operation'.state = "done"
                           \/ holders[AdminOf(r)] \ {timelock} # {}]_govVars

(* The Timelock can always be used, because it counts whom it obeys. *)
KeysAreKept == TimelockKeepsItsKeys /\ MembersAreHolders

(* After the script nobody gains a role of Vesting; what is executed has   *)
(* waited; other roles are gained that way or from an admin beside the     *)
(* Timelock, as the deployer is of the Timelock's own.                     *)
PowersAreBounded == VestingRolesOnlyShrink /\ ExecutedAfterDelay /\ NewPowersWait
=============================================================================
