--------------------------- MODULE TokenLaunchMC ---------------------------
(***************************************************************************)
(* Instances of TokenLaunch for TLC: two wallets, a sale and an airdrop    *)
(* that compete for a small Vesting balance, and two Merkle roots of which *)
(* the second pays each claimant of the first another amount.              *)
(***************************************************************************)
EXTENDS TokenLaunch, TLC

CONSTANTS alice, bob

MCUsers == {alice, bob}
Wallets == Permutations(MCUsers)
OneWindow == {[start |-> 2, end |-> 3]}
FirstRoot == {[user |-> alice, amount |-> 1], [user |-> bob, amount |-> 2]}
SecondRoot == {[user |-> alice, amount |-> 2], [user |-> bob, amount |-> 1]}
TwoRoots == {FirstRoot, SecondRoot}
=============================================================================
