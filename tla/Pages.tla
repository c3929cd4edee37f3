-------------------------------- MODULE Pages --------------------------------
(***************************************************************************)
(* The three pages that send transactions, in one tab: it shows one of     *)
(* them (route), and the variables of the others stand still.              *)
(***************************************************************************)
EXTENDS AirdropPage, VestingPage, BuyPage

Args == CASE route = "airdrop" -> Wallets [] route = "vesting" -> Nat [] OTHER -> Orders

PagesInit == PageInit /\ AirdropPageInit /\ VestingPageInit /\ BuyPageInit

PagesNext ==
    \/ route = "airdrop" /\ AirdropPageNext /\ UNCHANGED <<vpVars, bpVars>>
    \/ route = "vesting" /\ VestingPageNext /\ UNCHANGED <<apVars, bpVars>>
    \/ route = "buy" /\ BuyPageNext /\ UNCHANGED <<apVars, vpVars>>

pagesVars == <<pageVars, apVars, vpVars, bpVars>>
PagesSpec == PagesInit /\ [][PagesNext]_pagesVars

(* Blocks are mined, receipts learnt and reports answered.  Each happens   *)
(* finitely often, so fairness of the disjunction is fairness of each.     *)
PagesFairness ==
    WF_pagesVars(\/ route = "airdrop" /\ AirdropPageStep /\ UNCHANGED <<vpVars, bpVars>>
                 \/ route = "vesting" /\ VestingPageStep /\ UNCHANGED <<apVars, bpVars>>
                 \/ route = "buy" /\ BuyPageStep /\ UNCHANGED <<apVars, vpVars>>)

PagesTypeOK == PageTypeOK(Args) /\ AirdropPageTypeOK /\ VestingPageTypeOK /\ BuyPageTypeOK

(* What the three pages tell their user, and of a wallet that stayed       *)
(* connected the backend, is true.                                         *)
PagesTellTheTruth ==
    PagesTypeOK /\ ReportsAreOwn /\ ReportNeverExceedsPayment /\ NoticesAgree /\ StagesTellTheTruth

(* What the pages offer on true reads, the contracts accept.               *)
OffersAreTaken == OfferedClaimIsAccepted /\ OfferedPurchaseFits
=============================================================================
