------------------------------- MODULE PagesMC -------------------------------
(***************************************************************************)
(* Instances of the three pages that send transactions for TLC.            *)
(***************************************************************************)
EXTENDS Pages, TLC

CONSTANTS ann, ben

MCWallets == {ann, ben}
MCBuyers == {ann}
MCRoutes == [airdrop |-> 1, vesting |-> 2, buy |-> 1]

MCSpec == PagesSpec /\ PagesFairness
=============================================================================
