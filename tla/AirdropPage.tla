----------------------------- MODULE AirdropPage -----------------------------
(***************************************************************************)
(* front/src/pages/airdrop.tsx without its task cards (TaskCards): the     *)
(* eligibility card, the claim window as read from the contract, the claim *)
(* button, and the claim.                                                  *)
(***************************************************************************)
EXTENDS WalletPage

CONSTANTS Listed,       \* wallets with a leaf in the published tree
          NoEligibility, MaxDecrees

ASSUME AirdropAssumption == Listed \subseteq Wallets /\ MaxDecrees \in Nat

VARIABLES
    eligibility,    \* the answer shown, or NoEligibility
    checks,         \* wallet -> requests for it that are under way
    checkError,
    airdrop,        \* the contract: root, finalized, paused, when its window is
    clock,          \* 0..3; the window is one of the ticks 1 and 2
    taken,          \* the contract's claimed
    seen, seenTaken,    \* what the page has read of them
    decrees         \* transactions of governance

apVars == <<eligibility, checks, checkError, airdrop, clock, taken, seen, seenTaken, decrees>>
airdropPageVars == <<pageVars, apVars>>

EligibilityAnswers(w) ==
    {a \in [owner : {w}, eligible : {w \in Listed}, payable : BOOLEAN, claimed : BOOLEAN] :
        (a.payable \/ a.eligible) /\ (a.claimed => w \in taken)}
Contract == [root : BOOLEAN, finalized : BOOLEAN, paused : BOOLEAN, opens : 1..2]
Unset == [root |-> FALSE, finalized |-> FALSE, paused |-> FALSE, opens |-> 1]

AirdropPageTypeOK ==
    /\ eligibility \in {NoEligibility} \cup
          [owner : Wallets, eligible : BOOLEAN, payable : BOOLEAN, claimed : BOOLEAN]
    /\ checks \in [Wallets -> 0..(MaxJolts + 1)] /\ checkError \in BOOLEAN
    /\ airdrop \in Contract /\ seen \in Contract /\ clock \in 0..3 /\ taken \subseteq Listed
    /\ seenTaken \in BOOLEAN /\ decrees \in 0..MaxDecrees

AirdropPageReads ==
    /\ eligibility = NoEligibility /\ checks = [w \in Wallets |-> 0] /\ checkError = FALSE
    /\ seen = Unset /\ seenTaken = FALSE
AirdropPageInit ==
    AirdropPageReads /\ airdrop = Unset /\ clock = 0 /\ taken = {} /\ decrees = 0

-----------------------------------------------------------------------------
(* The contract as governance and the clock move it (Airdrop.sol). *)
Govern(a) ==
    /\ decrees < MaxDecrees /\ decrees' = decrees + 1 /\ airdrop' = a
    /\ UNCHANGED <<pageVars, eligibility, checks, checkError, clock, taken, seen, seenTaken>>
AirdropMoves ==
    \/ ~airdrop.finalized /\ \E o \in 1..2 : Govern([airdrop EXCEPT !.root = TRUE, !.opens = o])
    \/ Govern([airdrop EXCEPT !.paused = ~@])
    \/ /\ clock > airdrop.opens /\ ~airdrop.paused
       /\ Govern([airdrop EXCEPT !.finalized = TRUE, !.paused = TRUE])
Tick ==
    /\ clock < 3 /\ clock' = clock + 1
    /\ UNCHANGED <<pageVars, eligibility, checks, checkError, airdrop, taken, seen, seenTaken, decrees>>

Accepts(f) ==
    /\ airdrop.root /\ ~airdrop.paused /\ clock = airdrop.opens
    /\ f.from \notin taken /\ f.from \in Listed /\ f.arg = f.from

MineClaim(i) ==
    /\ MineTx(i, i \in DOMAIN txs /\ Accepts(txs[i]), 1)
    /\ taken' = IF Accepts(txs[i]) THEN taken \cup {txs[i].from} ELSE taken
    /\ UNCHANGED <<eligibility, checks, checkError, airdrop, clock, seen, seenTaken, decrees>>

-----------------------------------------------------------------------------
(* useReadContract answers, at mount and when the window gets the focus. *)
ReadAirdrop ==
    /\ seen' = airdrop /\ seenTaken' = (wallet \in taken)
    /\ <<seen', seenTaken'>> # <<seen, seenTaken>>
    /\ UNCHANGED <<pageVars, eligibility, checks, checkError, airdrop, clock, taken, decrees>>

CheckEligibility(w) ==
    /\ eligibility' = NoEligibility /\ checkError' = FALSE
    /\ checks' = [checks EXCEPT ![w] = @ + 1]

(* The effect on [address, isConnected]: a new wallet is looked up, an     *)
(* answer for the old one may still come; claimed(address) is unread.      *)
WalletChanged ==
    /\ \E w \in Wallets \cup {NoWallet} : (Connect(w) \/ SwitchWallet(w))
    /\ IF wallet' # NoWallet THEN CheckEligibility(wallet')
       ELSE eligibility' = NoEligibility /\ checkError' = FALSE /\ checks' = checks
    /\ seenTaken' = FALSE /\ UNCHANGED <<airdrop, clock, taken, seen, decrees>>

TryAgain ==
    /\ wallet # NoWallet /\ checkError /\ checks[wallet] = 0 /\ CheckEligibility(wallet)
    /\ Jolt /\ Disturb
    /\ UNCHANGED <<route, wallet, sepolia, step, tx, told, overlap, syncVars, airdrop, clock, taken, seen, seenTaken, decrees>>

Answered(w) ==
    /\ checks[w] > 0 /\ checks' = [checks EXCEPT ![w] = @ - 1]
    /\ UNCHANGED <<pageVars, airdrop, clock, taken, seen, seenTaken, decrees>>
CheckAnswered(w) == Answered(w) /\ eligibility' \in EligibilityAnswers(w) /\ UNCHANGED checkError
CheckFails(w) == Answered(w) /\ checkError' = TRUE /\ UNCHANGED eligibility

-----------------------------------------------------------------------------
(* isActive, claimWindowOpen and the rest; the clock is read at every render. *)
live == seen.root /\ ~seen.finalized /\ ~seen.paused
claimWindowOpen == live /\ clock = seen.opens
claimWindowNotStarted == live /\ clock < seen.opens
claimWindowEnded == seen.root /\ (seen.finalized \/ clock > seen.opens)
IsEligible == eligibility # NoEligibility /\ eligibility.eligible
alreadyClaimed == seenTaken \/ success \/ (eligibility # NoEligibility /\ eligibility.claimed)

(* getStatusLabel *)
StatusLabel ==
    CASE ~seen.root -> "Uninitialized" [] seen.root /\ seen.finalized -> "Finalized"
      [] seen.root /\ ~seen.finalized /\ seen.paused -> "Paused"
      [] live /\ clock < seen.opens -> "Upcoming" [] live /\ clock = seen.opens -> "Active"
      [] OTHER -> "Ended"

(* The claim button, with the notice above it and its caption. *)
ButtonShown == wallet # NoWallet /\ IsEligible /\ ~alreadyClaimed
ButtonWithoutWindow == ButtonShown /\ step = "idle" /\ live    \* mutant
ButtonEnabled == ButtonShown /\ step = "idle" /\ claimWindowOpen
ButtonNotice ==
    CASE ~seen.root -> "Uninitialized" [] claimWindowOpen -> "Active"
      [] claimWindowNotStarted -> "Upcoming" [] claimWindowEnded -> "Ended"
      [] OTHER -> "Paused"

ClaimAirdrop ==
    /\ ButtonEnabled /\ eligibility.payable /\ Click("claim", eligibility.owner, "claiming", TRUE)
    /\ UNCHANGED <<success, apVars>>

(* claimSuccess is set whatever the backend answers, and claimed is read again. *)
ReportAnswered ==
    /\ \E s \in syncs, ok \in BOOLEAN : SyncAnswer(s, ok, TRUE)
    /\ seenTaken' = (wallet \in taken)
    /\ UNCHANGED <<eligibility, checks, checkError, airdrop, clock, taken, seen, decrees>>

ReloadAirdrop ==
    /\ Reload /\ UNCHANGED <<airdrop, clock, taken, decrees>>
    /\ seen' = Unset /\ seenTaken' = FALSE
    /\ eligibility' = NoEligibility /\ checkError' = FALSE
    /\ checks' = [w \in Wallets |-> IF w = wallet THEN 1 ELSE 0]

AirdropPageStep ==
    \/ \E i \in DOMAIN txs : MineClaim(i)
    \/ LearnReceipt(eligibility # NoEligibility) /\ UNCHANGED <<success, apVars>>
    \/ ReportAnswered
    \/ \E w \in Wallets : CheckAnswered(w)

AirdropPageNext ==
    \/ AirdropPageStep
    \/ AirdropMoves \/ ReadAirdrop \/ WalletChanged \/ TryAgain \/ ClaimAirdrop
    \/ \E w \in Wallets : CheckFails(w)
    \/ \E f \in flows : (Reject(f) \/ Sign(f, "waiting", {})) /\ UNCHANGED apVars
    \/ SwitchNetwork /\ UNCHANGED apVars
    \/ Tick
    \/ ReloadAirdrop

-----------------------------------------------------------------------------
(* A claim the page offers on reads that are still true and with the       *)
(* connected wallet's own proof is one the contract accepts at that        *)
(* moment: the button's window, pause and claimed checks are the           *)
(* contract's, coded a second time.                                        *)
OfferedClaimIsAccepted ==
    [][\A f \in flows' \ flows :
          (/\ route = "airdrop" /\ Cardinality(flows') > Cardinality(flows)
           /\ seen = airdrop /\ seenTaken = (f.from \in taken) /\ f.arg = f.from)
              => Accepts(f)]_airdropPageVars

(* The status card and the notice at the button come from two chains of    *)
(* conditions in different orders; they never contradict each other about  *)
(* whether one can claim, and an idle button that is greyed out says why.  *)
NoticesAgree ==
    route = "airdrop" =>
        /\ (StatusLabel = "Active") = claimWindowOpen
        /\ ButtonShown /\ step = "idle" /\ ~ButtonEnabled =>
              \/ ButtonNotice = StatusLabel
              \/ ButtonNotice = "Ended" /\ StatusLabel \in {"Finalized", "Paused"} /\ claimWindowEnded
=============================================================================
