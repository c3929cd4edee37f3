----------------------------- MODULE Contracts -----------------------------
(***************************************************************************)
(* The contracts that keep, price and govern the token, side by side: none *)
(* of them reads what another keeps, so a behaviour of all is a behaviour  *)
(* of each.  (The Sale and the Airdrop, which call Vesting, are around it  *)
(* in TokenLaunch.)                                                        *)
(***************************************************************************)
EXTENDS Vesting, Governance, PriceOracle, TokenRules

ContractsSpec == Spec /\ GovSpec /\ OracleSpec /\ TokenSpec

(* The roles, the oracle and the token are of their types; no balance is   *)
(* ever below zero.                                                        *)
ContractsTypeOK == GovTypeOK /\ OracleTypeOK /\ TokenTypeOK

(* Tokens are neither made nor lost in the books of Vesting and Token:     *)
(* running totals are sums, the supply is whole, no wallet is over its cap.*)
BooksAreWhole == TypeOK /\ ContractsTypeOK /\ BooksBalance /\ WalletCapHolds /\ SupplyIsWhole
=============================================================================
