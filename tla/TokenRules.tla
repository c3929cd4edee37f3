----------------------------- MODULE TokenRules -----------------------------
(***************************************************************************)
(* The token's own rules (smart/contracts/Token.sol): what the constructor *)
(* mints, the wallet cap every transfer is held to, the accounts governance *)
(* excludes from it, the exchange's pair, and the pause.  Balances are in  *)
(* units of the smallest amount moved.                                     *)
(***************************************************************************)
EXTENDS Naturals, Functions, FiniteSets

CONSTANTS treasury, vestingPool, airdropPool, salePool, pairs, people,
          TokenSupply, TokenCap,
          Minted,         \* the constructor's four amounts
          SaleIsMinted,   \* saleAllocation is not the zero address
          Parcels         \* amounts that are transferred

Pools == {treasury, vestingPool, airdropPool, salePool}
Holders == Pools \cup pairs \cup people

ASSUME TokenAssumption ==
    /\ TokenSupply \in Nat /\ TokenCap \in Nat /\ Parcels \subseteq Nat /\ SaleIsMinted \in BOOLEAN
    /\ Minted \in [Pools -> Nat] /\ SumFunction(Minted) = TokenSupply
    /\ (pairs \cup people) \cap Pools = {}
    /\ IsFiniteSet(pairs) /\ IsFiniteSet(people)

VARIABLES
    balance,
    isExcludedFromWalletCap,
    everExcluded,      \* history: accounts that ever were
    dexPair,           \* {} or the current pair
    dexLocked, tokenPaused

tokenVars == <<balance, isExcludedFromWalletCap, everExcluded, dexPair, dexLocked, tokenPaused>>

TokenTypeOK ==
    /\ balance \in [Holders -> Nat] /\ isExcludedFromWalletCap \subseteq Holders
    /\ everExcluded \subseteq Holders /\ dexPair \subseteq pairs
    /\ dexLocked \in BOOLEAN /\ tokenPaused \in BOOLEAN

MintedBalances ==
    [h \in Holders |-> IF h \in Pools /\ (h = salePool => SaleIsMinted) THEN Minted[h] ELSE 0]

(* The constructor: minting is held to no cap, and the pools are excluded. *)
TokenInit ==
    /\ balance = MintedBalances
    /\ isExcludedFromWalletCap = {h \in Pools : h = salePool => SaleIsMinted /\ Minted[h] > 0}
    /\ everExcluded = isExcludedFromWalletCap
    /\ dexPair = {} /\ dexLocked = FALSE /\ tokenPaused = FALSE

-----------------------------------------------------------------------------
(* Mutant: the cap is waived when the sender is excluded. *)
UpdateBySender(from, to, value) ==
    /\ ~tokenPaused /\ value <= balance[from]
    /\ from \in isExcludedFromWalletCap \/ balance[to] + value <= TokenCap
    /\ balance' = IF from = to THEN balance
                  ELSE [balance EXCEPT ![from] = @ - value, ![to] = @ + value]
    /\ UNCHANGED <<isExcludedFromWalletCap, everExcluded, dexPair, dexLocked, tokenPaused>>

(* A transfer to oneself needs room for its amount as well.                *)
_update(from, to, value) ==
    /\ ~tokenPaused /\ value <= balance[from]
    /\ to \in isExcludedFromWalletCap \/ balance[to] + value <= TokenCap
    /\ balance' = IF from = to THEN balance
                  ELSE [balance EXCEPT ![from] = @ - value, ![to] = @ + value]
    /\ UNCHANGED <<isExcludedFromWalletCap, everExcluded, dexPair, dexLocked, tokenPaused>>

(* batchSetExclusions is a row of these.                                   *)
setExclusion(h, excluded) ==
    /\ isExcludedFromWalletCap' = IF excluded THEN isExcludedFromWalletCap \cup {h}
                                  ELSE isExcludedFromWalletCap \ {h}
    /\ everExcluded' = everExcluded \cup isExcludedFromWalletCap'
    /\ UNCHANGED <<balance, dexPair, dexLocked, tokenPaused>>

(* The pair before this one stays excluded.                                *)
setDexSetup(p) ==
    /\ ~dexLocked /\ dexPair' = {p}
    /\ isExcludedFromWalletCap' = isExcludedFromWalletCap \cup {p} /\ everExcluded' = everExcluded \cup {p}
    /\ UNCHANGED <<balance, dexLocked, tokenPaused>>

lockDexSetup ==
    /\ dexLocked' = TRUE
    /\ UNCHANGED <<balance, isExcludedFromWalletCap, everExcluded, dexPair, tokenPaused>>

pauseToken(on) ==
    /\ tokenPaused # on /\ tokenPaused' = on
    /\ UNCHANGED <<balance, isExcludedFromWalletCap, everExcluded, dexPair, dexLocked>>

TokenNext ==
    \/ \E from, to \in Holders, value \in Parcels : _update(from, to, value)
    \/ \E h \in Holders, excluded \in BOOLEAN : setExclusion(h, excluded)
    \/ \E p \in pairs : setDexSetup(p)
    \/ lockDexSetup \/ \E on \in BOOLEAN : pauseToken(on)

TokenSpec == TokenInit /\ [][TokenNext]_tokenVars

-----------------------------------------------------------------------------
(* A wallet that was never excluded from the cap, by governance or as an   *)
(* exchange's pair, holds no more than the cap, whoever the sender is: a   *)
(* claim or a purchase it has no room for moves nothing at all.            *)
WalletCapHolds == \A h \in Holders \ everExcluded : balance[h] <= TokenCap

(* All that was ever minted is TOTAL_SUPPLY, unless the sale's address was *)
(* left out: its share is then in the checked total and in nobody's hands. *)
SupplyIsWhole ==
    SumFunction(balance) = TokenSupply - (IF SaleIsMinted THEN 0 ELSE Minted[salePool])
=============================================================================
