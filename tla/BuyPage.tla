------------------------------- MODULE BuyPage -------------------------------
(***************************************************************************)
(* front/src/pages/buy.tsx and components/Calculator.tsx: the sale as read *)
(* from the contract, the calculator's checks of an amount, the purchase   *)
(* in ETH or, after an approval, in a token, and its report.  The oracle's *)
(* price stands still, balances suffice and the cooldown is zero.          *)
(***************************************************************************)
EXTENDS WalletPage

CONSTANTS eth, usd,     \* the two kinds of currency
          Buyers,       \* the wallets that open this page
          SaleCap, WalletCap, MinPurchase, Amounts,     \* in tokens
          MaxSteps      \* steps of the sale's owner, of the clock and of other buyers

ASSUME BuyAssumption ==
    /\ Buyers \subseteq Wallets /\ Amounts \subseteq Nat
    /\ SaleCap \in Nat /\ WalletCap \in Nat /\ MinPurchase \in Nat /\ MaxSteps \in Nat

VARIABLES
    sale,       \* the contract: paused, finalized, phase of its window, sold
    bought,     \* the contract's bought[w]
    allowance,  \* wallets that have approved the Sale for usd
    shown,      \* what the page has read of the sale, bought[wallet], allowance
    amount,     \* tokens quoted for the amount typed in
    currency,
    calcError,  \* the Calculator's error, as of its last effect
    saleSteps

bpVars == <<sale, bought, allowance, shown, amount, currency, calcError, saleSteps>>
buyPageVars == <<pageVars, bpVars>>

Orders == [currency : {eth, usd}, amount : Amounts]
Errors == {"none", "paused", "finalized", "early", "ended", "minimum", "walletCap", "saleCap"}
Blank == [paused |-> FALSE, finalized |-> FALSE, sold |-> 0, bought |-> 0, allowed |-> FALSE]

BuyPageTypeOK ==
    /\ sale \in [paused : BOOLEAN, finalized : BOOLEAN, phase : 1..3, sold : 0..SaleCap]
    /\ bought \in [Wallets -> 0..WalletCap] /\ allowance \subseteq Wallets
    /\ shown \in [paused : BOOLEAN, finalized : BOOLEAN, sold : 0..SaleCap,
                  bought : 0..WalletCap, allowed : BOOLEAN]
    /\ amount \in Amounts \cup {0} /\ currency \in {eth, usd} /\ calcError \in Errors
    /\ saleSteps \in 0..MaxSteps

BuyPageInit ==
    /\ sale \in [paused : {FALSE}, finalized : {FALSE}, phase : 1..2, sold : {0}]
    /\ bought = [w \in Wallets |-> 0] /\ allowance = {} /\ shown = Blank
    /\ amount = 0 /\ currency = eth /\ calcError = "none" /\ saleSteps = 0

-----------------------------------------------------------------------------
(* The contract (Sale.sol) and everybody else. *)
SaleBecomes(s) ==
    /\ saleSteps < MaxSteps /\ saleSteps' = saleSteps + 1 /\ sale' = s
    /\ UNCHANGED <<pageVars, bought, allowance, shown, amount, currency, calcError>>
SaleMoves ==
    \/ sale.phase < 3 /\ SaleBecomes([sale EXCEPT !.phase = @ + 1])
    \/ ~sale.finalized /\ SaleBecomes([sale EXCEPT !.paused = ~@])
    \/ sale.phase = 3 /\ ~sale.paused /\ SaleBecomes([sale EXCEPT !.finalized = TRUE, !.paused = TRUE])
    \/ \E a \in Amounts : sale.phase = 2 /\ ~sale.paused /\ a >= MinPurchase /\ sale.sold + a <= SaleCap
                          /\ SaleBecomes([sale EXCEPT !.sold = @ + a])

SaleTakes(w, a) ==      \* _validateBuy
    /\ ~sale.paused /\ sale.phase = 2 /\ a >= MinPurchase
    /\ bought[w] + a <= WalletCap /\ sale.sold + a <= SaleCap

MinePurchase(i) ==
    LET t == txs[i]
        ok == SaleTakes(t.from, t.arg.amount) /\ (t.arg.currency = usd => t.from \in allowance)
    IN  IF t.kind = "approve"
        THEN /\ MineTx(i, TRUE, 0) /\ allowance' = allowance \cup {t.from}
             /\ UNCHANGED <<sale, bought, shown, amount, currency, calcError, saleSteps>>
        ELSE /\ MineTx(i, ok, 0)
             /\ sale' = IF ok THEN [sale EXCEPT !.sold = @ + t.arg.amount] ELSE sale
             /\ bought' = IF ok THEN [bought EXCEPT ![t.from] = @ + t.arg.amount] ELSE bought
             /\ UNCHANGED <<allowance, shown, amount, currency, calcError, saleSteps>>

-----------------------------------------------------------------------------
(* userRemainingCap, which the page hands to the Calculator as its wallet  *)
(* cap; a bigint zero is false in JavaScript.                              *)
userRemainingCap == IF shown'.bought # 0 THEN WalletCap - shown'.bought ELSE 0
remainingSaleCap == IF shown'.sold # 0 THEN SaleCap - shown'.sold ELSE 0

(* The Calculator's effect: it runs when the amount or a value read        *)
(* changes, and then looks at the clock.                                   *)
CalculatorError ==
    CASE shown'.paused -> "paused"
      [] ~shown'.paused /\ shown'.finalized -> "finalized"
      [] OTHER ->
         IF sale.phase = 1 THEN "early" ELSE IF sale.phase = 3 THEN "ended"
         ELSE IF amount' = 0 THEN "none" ELSE IF amount' < MinPurchase THEN "minimum"
         ELSE IF userRemainingCap > 0 /\ shown'.bought + amount' > userRemainingCap THEN "walletCap"
         ELSE IF remainingSaleCap # 0 /\ amount' > remainingSaleCap THEN "saleCap" ELSE "none"

NowShown == IF wallet = NoWallet
            THEN [Blank EXCEPT !.paused = sale.paused, !.finalized = sale.finalized, !.sold = sale.sold]
            ELSE [paused |-> sale.paused, finalized |-> sale.finalized, sold |-> sale.sold,
                  bought |-> bought[wallet], allowed |-> wallet \in allowance /\ currency = usd]

ReadSale ==
    /\ shown' = NowShown /\ shown' # shown /\ amount' = amount /\ calcError' = CalculatorError
    /\ UNCHANGED <<pageVars, sale, bought, allowance, currency, saleSteps>>

EnterAmount(a) ==
    /\ wallet # NoWallet /\ amount = 0 /\ a # 0 /\ amount' = a /\ shown' = shown /\ calcError' = CalculatorError
    /\ UNCHANGED <<pageVars, sale, bought, allowance, currency, saleSteps>>

SelectCurrency(c) ==
    /\ c # currency /\ currency' = c /\ amount' = 0 /\ shown' = [shown EXCEPT !.allowed = FALSE]
    /\ calcError' = CalculatorError
    /\ UNCHANGED <<pageVars, sale, bought, allowance, saleSteps>>

BuyWalletChanged ==
    /\ \E w \in Buyers \cup {NoWallet} : Connect(w) \/ SwitchWallet(w)
    /\ shown' = [shown EXCEPT !.bought = 0, !.allowed = FALSE]
    /\ amount' = amount /\ calcError' = CalculatorError
    /\ UNCHANGED <<sale, bought, allowance, currency, saleSteps>>

-----------------------------------------------------------------------------
txIsWaiting == tx # 0 /\ told = "no"

(* handleBuy: ETH at once, a token after its approval if the allowance     *)
(* that was read does not do.                                              *)
Buy ==
    /\ ~txIsWaiting /\ amount # 0 /\ calcError = "none"
    /\ LET order == [currency |-> currency, amount |-> amount] IN
       IF currency = usd /\ ~shown.allowed
       THEN Click("approve", order, "approving", TRUE) ELSE Click("buy", order, "purchasing", TRUE)
    /\ success' = FALSE /\ UNCHANGED bpVars

(* On the wrong network handleBuy returns early, but has reset the notices. *)
BuyOnWrongNetwork ==
    /\ wallet # NoWallet /\ ~sepolia /\ step = "idle" /\ ~txIsWaiting
    /\ amount # 0 /\ calcError = "none" /\ (success \/ syncError)
    /\ success' = FALSE /\ syncError' = FALSE
    /\ UNCHANGED <<route, connVars, sendVars, retrying, syncs, reports, bpVars>>

(* The approval is signed; 3 s later, mined or not, the purchase is put to *)
(* the wallet, whose simulation fails if the allowance is not there yet.   *)
SignApproval(f) ==
    /\ f.kind = "approve" /\ Sign(f, "approved", {[f EXCEPT !.kind = "paused"]})
    /\ UNCHANGED bpVars
Resume(f) ==
    /\ f \in flows /\ f.kind = "paused" /\ step' = "purchasing"
    /\ flows' = (flows \ {f}) \cup {[f EXCEPT !.kind = "buy"]}
    /\ UNCHANGED <<route, connVars, txs, tx, told, overlap, syncVars, bpVars>>
SignPurchase(f) ==
    /\ f.kind = "buy" /\ Sign(f, "waiting", {}) /\ UNCHANGED bpVars

(* A failed report leaves success as it is: the page shows the warning. *)
PurchaseReportAnswered ==
    \E s \in syncs, ok \in BOOLEAN : SyncAnswer(s, ok, FALSE) /\ UNCHANGED bpVars

ReloadBuy ==
    /\ Reload /\ shown' = Blank /\ amount' = 0 /\ calcError' = "none" /\ currency' = eth
    /\ UNCHANGED <<sale, bought, allowance, saleSteps>>

BuyPageStep ==
    \/ \E i \in DOMAIN txs : MinePurchase(i)
    \/ LearnReceipt(TRUE) /\ UNCHANGED <<success, bpVars>>
    \/ PurchaseReportAnswered

BuyPageNext ==
    \/ BuyPageStep
    \/ SaleMoves \/ ReadSale \/ BuyWalletChanged \/ Buy \/ BuyOnWrongNetwork \/ ReloadBuy
    \/ \E a \in Amounts \cup {0} : EnterAmount(a)
    \/ \E c \in {eth, usd} : SelectCurrency(c)
    \/ \E f \in flows : SignApproval(f) \/ Resume(f) \/ SignPurchase(f)
    \/ \E f \in flows : f.kind # "paused" /\ Reject(f) /\ UNCHANGED bpVars
    \/ (RetrySync \/ SwitchNetwork) /\ UNCHANGED bpVars

-----------------------------------------------------------------------------
(* The page's label and the Calculator's error come from two chains of     *)
(* conditions in different orders (buy.tsx puts finalized first, the       *)
(* Calculator paused); a purchase that the Calculator lets through while   *)
(* the clock has not moved since is one the page calls active.             *)
saleStateKey ==
    IF shown.finalized THEN "finalized" ELSE IF shown.paused THEN "paused"
    ELSE <<"inactive", "active", "ended">>[sale.phase]

(* A purchase that the Calculator lets through on true reads, in the phase *)
(* it was checked in, is labelled active and accepted by the contract -    *)
(* but for the zeros JavaScript takes for absent: nothing bought yet,      *)
(* nothing sold yet, nothing left of the sale or for the wallet.           *)
Checked ==
    /\ shown.bought # 0 /\ shown.bought # WalletCap
    /\ shown.sold # 0 /\ shown.sold # SaleCap
OfferedPurchaseFits ==
    [][\A f \in flows' \ flows :
          (/\ route = "buy" /\ Cardinality(flows') > Cardinality(flows)
           /\ Checked /\ shown = NowShown /\ calcError = CalculatorError)
              => saleStateKey = "active" /\ SaleTakes(f.from, f.arg.amount)]_buyPageVars
=============================================================================
