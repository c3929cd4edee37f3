--------------------------- MODULE PurchaseMirror ---------------------------
(***************************************************************************)
(* f/src/modules/purchase: Purchased events become Purchase rows, by the   *)
(* indexer or by a report of the buy page, with the oracle's price of that *)
(* moment; scripts/backfill-purchase-usd.ts fills in the prices missed.    *)
(* An event's amount stands for its payload.                               *)
(***************************************************************************)
EXTENDS EventMirror

CONSTANTS eth, stable, unknown,     \* currencies, the last not in DEFAULT_CURRENCY_MAP
          MaxPurchases,             \* events in a behaviour
          MaxPrice                  \* prices of the oracle; 0: it has none, or does not answer

ASSUME PurchaseAssumption ==
    /\ MaxPurchases \in Nat /\ MaxPrice \in Nat \ {0} /\ eth # stable /\ unknown \notin {eth, stable}

VARIABLES
    purchases,  \* the Purchase rows, by event: [wallet, amount, usd], usd 0 for null
    price,
    backfill    \* the rows the script has yet to fill, and the price it fetched

purchaseVars == <<purchases, price, backfill>>
purchaseMirrorVars == <<mirrorVars, purchaseVars>>

NoBackfill == [todo |-> {}, price |-> 0]
PurchaseLabels == {"find", "map", "user", "create", "upsert"}

PurchaseTypeOK ==
    /\ MirrorTypeOK({eth, stable, unknown}, PurchaseLabels, 1..Len(log))
    /\ DOMAIN purchases \subseteq DOMAIN log /\ price \in 0..MaxPrice
    /\ purchases \in [DOMAIN purchases -> [wallet : Buyers, amount : Nat, usd : Nat]]
    /\ backfill \in [todo : SUBSET DOMAIN purchases, price : 0..MaxPrice]

PurchaseInit == purchases = << >> /\ price = 1 /\ backfill = NoBackfill

-----------------------------------------------------------------------------
Purchased(t, w, a) ==
    Len(log) < MaxPurchases /\ Emit([type |-> t, wallet |-> w, amount |-> a]) /\ UNCHANGED purchaseVars
PriceMoves(p) ==
    /\ p # price /\ faults < MaxFaults /\ faults' = faults + 1 /\ price' = p
    /\ UNCHANGED <<contract, log, checkpoint, users, call, purchases, backfill>>

(* processFrontendPurchase: a transaction already recorded is left alone;  *)
(* otherwise its receipt is read, and must name the wallet that reports.   *)
FindPurchase(f) ==
    /\ At(f, "find") /\ Stay /\ UNCHANGED purchaseVars
    /\ IF call[f].pos \in DOMAIN purchases THEN EndOfEvent(f, TRUE, "map") ELSE Goto(f, "map")

(* calculateUsdValue: a stablecoin is worth what was paid, ETH what the    *)
(* oracle says now, if it says anything.                                   *)
UsdValue(c) == IF Event(c).type = stable THEN Event(c).amount ELSE price

MapNeedsPrice(c) ==     \* mutant: no price of ETH is an error
    /\ At(c, "map") /\ Stay /\ UNCHANGED purchaseVars
    /\ IF Event(c).type = unknown \/ Event(c).wallet # call[c].wallet \/ (Event(c).type = eth /\ price = 0)
       THEN EndOfEvent(c, FALSE, "map")
       ELSE /\ call' = [call EXCEPT ![c].at = "user", ![c].pick = UsdValue(c)]
            /\ UNCHANGED checkpoint

(* mapEventToPurchase: an unknown currency throws.                         *)
MapEvent(c) ==
    /\ At(c, "map") /\ Stay /\ UNCHANGED purchaseVars
    /\ IF Event(c).type = unknown \/ Event(c).wallet # call[c].wallet
       THEN EndOfEvent(c, FALSE, "map")
       ELSE /\ call' = [call EXCEPT ![c].at = "user", ![c].pick = UsdValue(c)]
            /\ UNCHANGED checkpoint

UpsertAll(c) ==         \* mutant: the update writes the value again
    /\ At(c, "upsert") /\ Stay /\ UNCHANGED <<price, backfill>> /\ EndOfEvent(c, TRUE, "map")
    /\ purchases' = [i \in DOMAIN purchases \cup {call[c].pos} |->
          IF i # call[c].pos THEN purchases[i]
          ELSE [wallet |-> call[c].wallet, amount |-> Event(c).amount, usd |-> call[c].pick]]

(* upsertByTxHash: an existing row keeps everything but its block. *)
Upsert(c) ==
    /\ At(c, "upsert") /\ Stay /\ UNCHANGED <<price, backfill>> /\ EndOfEvent(c, TRUE, "map")
    /\ purchases' = [i \in DOMAIN purchases \cup {call[c].pos} |->
          IF i \in DOMAIN purchases THEN purchases[i]
          ELSE [wallet |-> call[c].wallet, amount |-> Event(c).amount, usd |-> call[c].pick]]

-----------------------------------------------------------------------------
Nulls == {i \in DOMAIN purchases : purchases[i].usd = 0}
StartBackfill ==
    /\ backfill.todo = {} /\ Nulls # {} /\ price > 0
    /\ backfill' = [todo |-> Nulls, price |-> price] /\ UNCHANGED <<mirrorVars, purchases, price>>
Fill ==
    /\ backfill.todo # {}
    /\ \E i \in backfill.todo :
          /\ purchases' = [purchases EXCEPT ![i].usd = backfill.price]
          /\ backfill' = IF backfill.todo = {i} THEN NoBackfill ELSE [backfill EXCEPT !.todo = @ \ {i}]
    /\ UNCHANGED <<mirrorVars, price>>

PurchaseWork(c) ==
    \/ StartRun(c, "map") /\ UNCHANGED purchaseVars
    \/ FindPurchase(c) \/ MapEvent(c) \/ Upsert(c)
    \/ (FindUser(c, "upsert") \/ CreateUser(c, "upsert", "map")) /\ UNCHANGED purchaseVars

PurchaseNext ==
    \/ \E c \in Callers : PurchaseWork(c) \/ (Die(c) /\ UNCHANGED purchaseVars)
    \/ \E t \in {eth, stable, unknown}, w \in Buyers : Purchased(t, w, 2)
    \/ \E f \in Fronts, i \in DOMAIN log, w \in Buyers :
          StartReport(f, "find", i, w, log[i].amount) /\ UNCHANGED purchaseVars
    \/ \E p \in 0..MaxPrice : PriceMoves(p)
    \/ StartBackfill \/ Fill

PurchaseSpec ==
    contract = "Sale" /\ MirrorInit /\ PurchaseInit /\ [][PurchaseNext]_purchaseMirrorVars

-----------------------------------------------------------------------------
(* Whatever the two processes, the requests and the restarts do, every     *)
(* purchase behind the checkpoint has its row: no later run looks there.   *)
NoPurchaseDropped == contract = "Sale" =>
    \A i \in DOMAIN log : i <= checkpoint => i \in DOMAIN purchases

(* A row belongs to the buyer in the event, whoever reported it first. *)
RowsAreTheBuyers ==
    \A i \in DOMAIN purchases : purchases[i].wallet = log[i].wallet

(* The Purchase rows are the Sale's purchases behind the checkpoint. *)
PurchasesMirrored ==
    (contract = "Sale" => PurchaseTypeOK) /\ NoPurchaseDropped /\ RowsAreTheBuyers

(* The value of a purchase in dollars is fixed once it is known: neither a *)
(* second delivery nor the backfill revalues it at a later price.          *)
UsdIsFinal ==
    [][\A i \in DOMAIN purchases : purchases[i].usd # 0 => purchases'[i].usd = purchases[i].usd
      ]_purchaseMirrorVars

(* Every purchase is recorded in the end, if no purchase in an unknown     *)
(* currency comes before it: that one throws in every run, and the         *)
(* checkpoint stays in front of its batch for ever.  This is what holds    *)
(* from some moment on.                                                    *)
PurchasesCaughtUp ==
    \A i \in DOMAIN log :
        (contract = "Sale" /\ \A j \in 1..i : log[j].type # unknown) => i \in DOMAIN purchases
=============================================================================
