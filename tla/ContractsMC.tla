---------------------------- MODULE ContractsMC ----------------------------
(***************************************************************************)
(* The contracts that keep, price and govern the token, each as a scene of *)
(* its own: "vesting" with tight wallets and rescues, "payout" with room   *)
(* and none (liveness), the roles from the first deployment transaction,   *)
(* the oracle, and the token's rules.                                      *)
(***************************************************************************)
EXTENDS Contracts, TLC

CONSTANTS alice, bob, eth, usd, pair, carol, fine, coarse

VARIABLE scene

MCUsers == {alice, bob}
MCProposals ==
    {[do |-> "delay", role |-> "admin", account |-> timelock],
     [do |-> "revoke", role |-> "operator", account |-> deployer],
     [do |-> "grant", role |-> "depositor", account |-> multisig],
     [do |-> "grant", role |-> "operator", account |-> multisig],
     [do |-> "revoke", role |-> "proposer", account |-> multisig]}
MCUnit == (eth :> 12) @@ (usd :> 2)
MCFeedUnit == (fine :> 12) @@ (coarse :> 2)   \* a dollar is 4: a third is kept, or it doubles
MCMinted == (treasury :> 2) @@ (vestingPool :> 1) @@ (airdropPool :> 0) @@ (salePool :> 1)

Payout == INSTANCE Vesting WITH TOTAL_SUPPLY <- 5, WALLET_CAP <- 5, MaxAllocated <- 5, MaxRescued <- 0

vesting == <<now, pool, wallet, elsewhere, total, claimed, totalAllocated, totalClaimed, rescued>>
roles == <<step, holders, members, vestingFinalized, delay, clock, changes, operation, lowered>>
oracle == <<currencies, currencyList, tokenPriceUsd, round, block>>
token == <<balance, isExcludedFromWalletCap, everExcluded, dexPair, dexLocked, tokenPaused>>

MCInit ==
    /\ scene \in {"vesting", "payout", "roles", "oracle", "token"}
    /\ IF scene = "payout" THEN Payout!Init ELSE Init
    /\ GovInit /\ OracleInit /\ TokenInit

MCNext ==
    \/ scene = "vesting" /\ Next /\ UNCHANGED <<scene, roles, oracle, token>>
    \/ scene = "payout" /\ Payout!Next /\ UNCHANGED <<scene, roles, oracle, token>>
    \/ scene = "roles" /\ GovNext /\ UNCHANGED <<scene, vesting, oracle, token>>
    \/ scene = "oracle" /\ OracleNext /\ UNCHANGED <<scene, vesting, roles, token>>
    \/ scene = "token" /\ TokenNext /\ UNCHANGED <<scene, vesting, roles, oracle>>

MCvars == <<scene, vesting, roles, oracle, token>>

MCSpec ==
    /\ MCInit /\ [][MCNext]_MCvars
    /\ WF_MCvars(scene = "payout" /\ Payout!Tick /\ UNCHANGED <<scene, roles, oracle, token>>)
    /\ \A u \in MCUsers :
        WF_MCvars(scene = "payout" /\ Payout!claim(u) /\ UNCHANGED <<scene, roles, oracle, token>>)

(* Every token allocated is paid out, in the scene where users have room.  *)
PayoutIsComplete == scene = "payout" => FullyReleased
=============================================================================
