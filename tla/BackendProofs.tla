----------------------------- MODULE BackendProofs -----------------------------
(***************************************************************************)
(* Theorems about the backend's mirrors (PurchaseMirror, VestingMirror),   *)
(* for any buyers, indexing processes, pages and prices, any size of batch *)
(* and any number of restarts; about the dashboards told of them           *)
(* (Dashboards); and about the fetch of one batch (AdaptiveFetch,          *)
(* BlockTimestamps), for any range, any events and any limits of the       *)
(* provider and of the cache.                                              *)
(***************************************************************************)
EXTENDS Dashboards, BlockTimestamps, SequenceTheorems, SumLemmas

(***************************************************************************)
(* PurchaseMirror.  Every purchase that a run without a failure has passed *)
(* has its row, and so has every one behind the checkpoint.                *)
(***************************************************************************)

Row == [wallet : Buyers, amount : Nat, usd : Nat]
Labelled == [at : PurchaseLabels, pos : 1..Len(log), end : 1..Len(log), failed : BOOLEAN,
             wallet : Buyers, amount : Nat, pick : Nat]

(* What a run has passed without a failure is in the table. *)
RunsLeaveNothing ==
    \A r \in Indexers : ~At(r, "idle") /\ ~call[r].failed
        => \A i \in DOMAIN log : i < call[r].pos => i \in DOMAIN purchases

(* Past mapEventToPurchase the wallet is known to be the event's buyer. *)
BuyersAreChecked ==
    \A c \in Callers : call[c].at \in {"user", "create", "upsert"} => call[c].wallet = Event(c).wallet

(* A row the script has yet to fill has no value: nobody else gives it one. *)
BackfillIsFresh == backfill.todo \subseteq Nulls

PurchaseInv ==
    /\ contract = "Sale" /\ PurchaseTypeOK /\ NoPurchaseDropped /\ RowsAreTheBuyers
    /\ RunsLeaveNothing /\ BuyersAreChecked /\ BackfillIsFresh

Sale == [type : {eth, stable, unknown}, wallet : Buyers, amount : Nat]

LEMMA LogFacts ==
    ASSUME PurchaseTypeOK
    PROVE  /\ log \in Seq(Sale) /\ Len(log) \in Nat /\ DOMAIN log = 1..Len(log)
           /\ \A i \in DOMAIN log : log[i] \in Sale
<1>1. log \in Seq(Sale)
  BY DEF PurchaseTypeOK, MirrorTypeOK, Sale
<1>2. Len(log) \in Nat /\ DOMAIN log = 1..Len(log)
  BY <1>1, LenProperties
<1>3. \A i \in 1..Len(log) : log[i] \in Sale
  BY <1>1, ElementOfSeq
<1> QED
  BY <1>1, <1>2, <1>3

(* A caller that is not idle is at one of the labels. *)
LEMMA Busy ==
    ASSUME PurchaseTypeOK, NEW c \in Callers, ~At(c, "idle")
    PROVE  /\ call[c] \in Labelled /\ call[c].pos <= call[c].end
           /\ call[c].pos \in DOMAIN log /\ call[c].end \in DOMAIN log
           /\ Event(c) \in Sale
<1>1. call[c] # Idle
  <2>1. Idle.at = "idle"
    BY DEF Idle
  <2> QED
    BY <2>1 DEF At
<1>2. call[c] \in Labelled /\ call[c].pos <= call[c].end
  BY <1>1 DEF PurchaseTypeOK, MirrorTypeOK, Labelled
<1>3. call[c].pos \in DOMAIN log /\ call[c].end \in DOMAIN log
  BY <1>2, LogFacts DEF Labelled
<1> QED
  BY <1>2, <1>3, LogFacts DEF Event

LEMMA HandleType ==
    ASSUME PurchaseTypeOK, NEW c, NEW first \in PurchaseLabels, NEW i \in DOMAIN log, NEW end \in DOMAIN log,
           NEW failed \in BOOLEAN
    PROVE  Handle(c, first, i, end, failed) \in Labelled
<1>1. log[i].wallet \in Buyers /\ log[i].amount \in Nat /\ DOMAIN log = 1..Len(log)
  BY LogFacts DEF Sale
<1> QED
  BY <1>1 DEF Handle, Labelled

(* The end of an event: the call, the checkpoint and what they promise,    *)
(* given that the rows only grow and, if all went well, have the event.    *)
LEMMA EndOfEventSafe ==
    ASSUME PurchaseInv, NEW c \in Callers, ~At(c, "idle"), NEW ok \in BOOLEAN,
           EndOfEvent(c, ok, "map"), UNCHANGED <<log, contract>>,
           DOMAIN purchases \subseteq DOMAIN purchases',
           ok => call[c].pos \in DOMAIN purchases'
    PROVE  /\ call' \in [Callers -> {Idle} \cup Labelled] /\ \A d \in Callers : call'[d].pos <= call'[d].end
           /\ checkpoint' \in 0..Len(log)
           /\ NoPurchaseDropped' /\ RunsLeaveNothing' /\ BuyersAreChecked'
<1> USE MirrorAssumption
<1>0. PurchaseTypeOK /\ NoPurchaseDropped /\ RunsLeaveNothing /\ BuyersAreChecked /\ contract = "Sale"
  BY DEF PurchaseInv
<1>1. /\ call[c] \in Labelled /\ call[c].pos <= call[c].end
      /\ call[c].pos \in DOMAIN log /\ call[c].end \in DOMAIN log /\ DOMAIN log = 1..Len(log) /\ Len(log) \in Nat
  BY <1>0, Busy, LogFacts
<1>2. /\ call \in [Callers -> {Idle} \cup Labelled] /\ \A d \in Callers : call[d].pos <= call[d].end
      /\ checkpoint \in 0..Len(log)
  BY <1>0 DEF PurchaseTypeOK, MirrorTypeOK, Labelled
<1>3. c \in Indexers /\ ~call[c].failed /\ ok
        => \A i \in DOMAIN log : i <= call[c].pos => i \in DOMAIN purchases'
  BY <1>0, <1>1 DEF RunsLeaveNothing, Labelled
<1>4. CASE c \in Indexers /\ call[c].pos < call[c].end
  <2> DEFINE next == Handle(c, "map", call[c].pos + 1, call[c].end, call[c].failed \/ ~ok)
  <2>1. call' = [call EXCEPT ![c] = next] /\ checkpoint' = checkpoint
    BY <1>4 DEF EndOfEvent
  <2>2. call[c].pos + 1 \in DOMAIN log
    BY <1>1, <1>4 DEF Labelled
  <2>3. (call[c].failed \/ ~ok) \in BOOLEAN
    OBVIOUS
  <2>4. next \in Labelled
    BY <1>0, <1>1, <2>2, <2>3, HandleType DEF PurchaseLabels
  <2>5. next.pos = call[c].pos + 1 /\ next.end = call[c].end /\ next.at = "map"
    BY DEF Handle
  <2>6. ~ next.failed => ~ call[c].failed /\ ok
    BY Zenon DEF Handle
  <2>7. call'[c] = next /\ \A d \in Callers : d # c => call'[d] = call[d]
    BY <1>2, <2>1
  <2>8. call' \in [Callers -> {Idle} \cup Labelled] /\ \A d \in Callers : call'[d].pos <= call'[d].end
    <3>1. call' \in [Callers -> {Idle} \cup Labelled]
      BY <1>2, <2>1, <2>4
    <3>2. call[c].pos + 1 <= call[c].end
      BY <1>1, <1>4 DEF Labelled
    <3> QED
      BY <1>2, <2>5, <2>7, <3>1, <3>2
  <2>9. NoPurchaseDropped'
    BY <1>0, <2>1 DEF NoPurchaseDropped
  <2>10. RunsLeaveNothing'
    <3> SUFFICES ASSUME NEW r \in Indexers, call'[r].at # "idle", ~ call'[r].failed,
                        NEW i \in DOMAIN log, i < call'[r].pos
                 PROVE  i \in DOMAIN purchases'
      BY DEF RunsLeaveNothing, At
    <3>1. CASE r = c
      <4>1. i <= call[c].pos
        BY <1>1, <2>5, <2>7, <3>1 DEF Labelled, Callers
      <4> QED
        BY <1>3, <2>6, <2>7, <3>1, <4>1 DEF Callers
    <3>2. CASE r # c
      BY <1>0, <2>7, <3>2 DEF RunsLeaveNothing, At, Callers
    <3> QED
      BY <3>1, <3>2
  <2>11. BuyersAreChecked'
    BY <1>0, <2>5, <2>7 DEF BuyersAreChecked, Event
  <2> QED
    BY <1>2, <2>1, <2>8, <2>9, <2>10, <2>11
<1>5. CASE ~ (c \in Indexers /\ call[c].pos < call[c].end)
  <2>1. /\ call' = [call EXCEPT ![c] = Idle]
        /\ checkpoint' = IF c \in Indexers /\ ok /\ ~call[c].failed THEN call[c].end ELSE checkpoint
    BY <1>5 DEF EndOfEvent
  <2>2. call'[c] = Idle /\ \A d \in Callers : d # c => call'[d] = call[d]
    BY <1>2, <2>1
  <2>3. call' \in [Callers -> {Idle} \cup Labelled] /\ \A d \in Callers : call'[d].pos <= call'[d].end
    <3>1. call' \in [Callers -> {Idle} \cup Labelled]
      BY <1>2, <2>1
    <3>2. Idle.pos <= Idle.end
      BY DEF Idle
    <3> QED
      BY <1>2, <2>2, <3>1, <3>2
  <2>4. checkpoint' \in 0..Len(log)
    BY <1>1, <1>2, <2>1
  <2>5. NoPurchaseDropped'
    <3>1. CASE c \in Indexers /\ ok /\ ~call[c].failed
      <4>1. checkpoint' = call[c].end /\ call[c].end = call[c].pos
        BY <1>1, <1>5, <2>1, <3>1 DEF Labelled
      <4> QED
        BY <1>3, <3>1, <4>1 DEF NoPurchaseDropped
    <3>2. CASE ~ (c \in Indexers /\ ok /\ ~call[c].failed)
      BY <1>0, <2>1, <3>2 DEF NoPurchaseDropped
    <3> QED
      BY <3>1, <3>2
  <2>6. RunsLeaveNothing'
    <3>1. Idle.at = "idle"
      BY DEF Idle
    <3> QED
      BY <1>0, <2>2, <3>1 DEF RunsLeaveNothing, At, Callers
  <2>7. BuyersAreChecked'
    <3>1. Idle.at = "idle"
      BY DEF Idle
    <3> QED
      BY <1>0, <2>2, <3>1 DEF BuyersAreChecked, Event
  <2> QED
    BY <2>3, <2>4, <2>5, <2>6, <2>7
<1> QED
  BY <1>4, <1>5

(* What the calls and the checkpoint promise, and what the rows promise. *)
CallsSafe ==
    /\ call \in [Callers -> {Idle} \cup Labelled] /\ \A d \in Callers : call[d].pos <= call[d].end
    /\ checkpoint \in 0..Len(log)
    /\ NoPurchaseDropped /\ RunsLeaveNothing /\ BuyersAreChecked
RowsSafe ==
    /\ DOMAIN purchases \subseteq DOMAIN log /\ purchases \in [DOMAIN purchases -> Row]
    /\ backfill \in [todo : SUBSET DOMAIN purchases, price : 0..MaxPrice]
    /\ RowsAreTheBuyers /\ BackfillIsFresh
RestSafe ==
    /\ contract = "Sale" /\ log \in Seq(Sale) /\ Len(log) <= MaxLog
    /\ users \subseteq Buyers /\ faults \in 0..MaxFaults /\ price \in 0..MaxPrice

LEMMA Parts == PurchaseInv <=> CallsSafe /\ RowsSafe /\ RestSafe
BY DEF PurchaseInv, PurchaseTypeOK, MirrorTypeOK, CallsSafe, RowsSafe, RestSafe, Sale, Row, Labelled

(* A call that goes on within its event. *)
LEMMA RelabelSafe ==
    ASSUME PurchaseInv, NEW c \in Callers, ~At(c, "idle"), call'[c] \in Labelled,
           call' \in [Callers -> {Idle} \cup Labelled], \A d \in Callers : d # c => call'[d] = call[d],
           call'[c].pos = call[c].pos, call'[c].end = call[c].end,
           call'[c].failed = call[c].failed, call'[c].wallet = call[c].wallet,
           call'[c].at \in {"user", "create", "upsert"} => call[c].wallet = Event(c).wallet,
           UNCHANGED <<log, contract, checkpoint, purchases>>
    PROVE  CallsSafe'
<1>0. CallsSafe
  BY Parts
<1>1. \A d \in Callers : call'[d].pos <= call'[d].end
  BY <1>0 DEF CallsSafe
<1>2. NoPurchaseDropped'
  BY <1>0 DEF CallsSafe, NoPurchaseDropped
<1>3. RunsLeaveNothing'
  <2> SUFFICES ASSUME NEW r \in Indexers, call'[r].at # "idle", ~ call'[r].failed,
                      NEW i \in DOMAIN log, i < call'[r].pos
               PROVE  i \in DOMAIN purchases
    BY DEF RunsLeaveNothing, At
  <2>1. ~At(r, "idle") /\ ~call[r].failed /\ i < call[r].pos
    BY DEF At, Callers
  <2> QED
    BY <1>0, <2>1 DEF CallsSafe, RunsLeaveNothing
<1>4. BuyersAreChecked'
  BY <1>0 DEF CallsSafe, BuyersAreChecked, Event
<1> QED
  BY <1>0, <1>1, <1>2, <1>3, <1>4 DEF CallsSafe, Labelled

LEMMA GotoSafe ==
    ASSUME PurchaseInv, NEW c \in Callers, ~At(c, "idle"), NEW label \in PurchaseLabels, Goto(c, label),
           label \in {"user", "create", "upsert"} => call[c].wallet = Event(c).wallet,
           UNCHANGED <<log, contract, purchases>>
    PROVE  CallsSafe'
<1>0. CallsSafe /\ PurchaseTypeOK
  BY Parts DEF PurchaseInv
<1>1. call[c] \in Labelled
  BY <1>0, Busy
<1>2. [call[c] EXCEPT !.at = label] \in Labelled
  BY <1>1 DEF Labelled
<1>3. /\ call'[c] = [call[c] EXCEPT !.at = label] /\ \A d \in Callers : d # c => call'[d] = call[d]
      /\ call' \in [Callers -> {Idle} \cup Labelled] /\ UNCHANGED checkpoint
  BY <1>0, <1>2 DEF Goto, CallsSafe
<1>4. /\ [call[c] EXCEPT !.at = label].pos = call[c].pos /\ [call[c] EXCEPT !.at = label].end = call[c].end
      /\ [call[c] EXCEPT !.at = label].failed = call[c].failed
      /\ [call[c] EXCEPT !.at = label].wallet = call[c].wallet /\ [call[c] EXCEPT !.at = label].at = label
  BY <1>1 DEF Labelled
<1> QED
  BY <1>2, <1>3, <1>4, RelabelSafe

LEMMA EndSafe ==
    ASSUME PurchaseInv, NEW c \in Callers, ~At(c, "idle"), NEW ok \in BOOLEAN,
           EndOfEvent(c, ok, "map"), UNCHANGED <<log, contract>>,
           DOMAIN purchases \subseteq DOMAIN purchases',
           ok => call[c].pos \in DOMAIN purchases'
    PROVE  CallsSafe'
<1>1. /\ call' \in [Callers -> {Idle} \cup Labelled] /\ \A d \in Callers : call'[d].pos <= call'[d].end
      /\ checkpoint' \in 0..Len(log)
      /\ NoPurchaseDropped' /\ RunsLeaveNothing' /\ BuyersAreChecked'
  BY EndOfEventSafe
<1> QED
  BY <1>1 DEF CallsSafe, Labelled

-----------------------------------------------------------------------------
LEMMA StartRunSafe ==
    ASSUME PurchaseInv, NEW r \in Callers, StartRun(r, "map"), UNCHANGED purchases
    PROVE  CallsSafe'
<1> USE MirrorAssumption
<1> DEFINE end == IF checkpoint + EventsPerRun < Len(log) THEN checkpoint + EventsPerRun ELSE Len(log)
           new == Handle(r, "map", checkpoint + 1, end, FALSE)
<1>0. CallsSafe /\ PurchaseTypeOK /\ Len(log) \in Nat /\ DOMAIN log = 1..Len(log)
  BY Parts, LogFacts DEF PurchaseInv
<1>1. /\ r \in Indexers /\ checkpoint < Len(log) /\ call' = [call EXCEPT ![r] = new]
      /\ UNCHANGED <<log, contract, checkpoint>>
  BY DEF StartRun, Stay
<1>2. checkpoint + 1 \in DOMAIN log /\ end \in DOMAIN log /\ checkpoint + 1 <= end
  BY <1>0, <1>1 DEF CallsSafe
<1>3. new \in Labelled
  BY <1>0, <1>2, HandleType DEF PurchaseLabels
<1>4. new.pos = checkpoint + 1 /\ new.end = end /\ new.at = "map"
  BY DEF Handle
<1>5. /\ call'[r] = new /\ \A d \in Callers : d # r => call'[d] = call[d]
      /\ call' \in [Callers -> {Idle} \cup Labelled]
  BY <1>0, <1>1, <1>3 DEF CallsSafe
<1>6. \A d \in Callers : call'[d].pos <= call'[d].end
  BY <1>0, <1>2, <1>4, <1>5 DEF CallsSafe
<1>7. RunsLeaveNothing'
  <2> SUFFICES ASSUME NEW d \in Indexers, call'[d].at # "idle", ~ call'[d].failed,
                      NEW i \in DOMAIN log, i < call'[d].pos
               PROVE  i \in DOMAIN purchases
    BY <1>1 DEF RunsLeaveNothing, At
  <2>1. CASE d = r
    <3>1. i <= checkpoint
      <4>1. call'[d].pos = checkpoint + 1
        BY <1>4, <1>5, <2>1
      <4>2. i \in Nat /\ checkpoint \in Nat
        BY <1>0 DEF CallsSafe
      <4> HIDE DEF new, end
      <4> QED
        BY <4>1, <4>2
    <3> QED
      BY <1>0, <3>1 DEF CallsSafe, NoPurchaseDropped, PurchaseInv
  <2>2. CASE d # r
    BY <1>0, <1>5, <2>2 DEF CallsSafe, RunsLeaveNothing, At, Callers
  <2> QED
    BY <2>1, <2>2
<1>8. BuyersAreChecked'
  BY <1>0, <1>1, <1>4, <1>5 DEF CallsSafe, BuyersAreChecked, Event
<1>9. NoPurchaseDropped'
  BY <1>0, <1>1 DEF CallsSafe, NoPurchaseDropped
<1> QED
  BY <1>0, <1>1, <1>5, <1>6, <1>7, <1>8, <1>9 DEF CallsSafe, Labelled

LEMMA StartReportSafe ==
    ASSUME PurchaseInv, NEW f \in Fronts, NEW i \in DOMAIN log, NEW w \in Buyers,
           StartReport(f, "find", i, w, log[i].amount), UNCHANGED purchases
    PROVE  CallsSafe'
<1> USE MirrorAssumption
<1> DEFINE new == Report("find", i, w, log[i].amount)
<1>0. CallsSafe /\ PurchaseTypeOK /\ log[i] \in Sale /\ f \in Callers
  BY Parts, LogFacts DEF PurchaseInv, Callers
<1>1. call' = [call EXCEPT ![f] = new] /\ UNCHANGED <<log, contract, checkpoint>>
  BY DEF StartReport, Stay
<1>3. new \in Labelled /\ new.pos = i /\ new.end = i /\ new.at = "find"
  <2>1. log[i].amount \in Nat
    BY <1>0 DEF Sale
  <2> QED
    BY <1>0, <2>1, LogFacts DEF Report, Labelled, PurchaseLabels
<1>4. /\ call'[f] = new /\ \A d \in Callers : d # f => call'[d] = call[d]
      /\ call' \in [Callers -> {Idle} \cup Labelled]
  BY <1>0, <1>1, <1>3 DEF CallsSafe
<1> HIDE DEF new
<1>5. \A d \in Callers : call'[d].pos <= call'[d].end
  <2>1. i <= i
    BY <1>0, LogFacts
  <2> QED
    BY <1>0, <1>3, <1>4, <2>1 DEF CallsSafe
<1>6. f \notin Indexers
  OBVIOUS
<1>7. RunsLeaveNothing'
  BY <1>0, <1>1, <1>4, <1>6 DEF CallsSafe, RunsLeaveNothing, At, Callers
<1>8. BuyersAreChecked'
  BY <1>0, <1>1, <1>3, <1>4 DEF CallsSafe, BuyersAreChecked, Event
<1>9. NoPurchaseDropped'
  BY <1>0, <1>1 DEF CallsSafe, NoPurchaseDropped
<1> QED
  BY <1>0, <1>1, <1>4, <1>5, <1>7, <1>8, <1>9 DEF CallsSafe, Labelled

LEMMA DieSafe ==
    ASSUME PurchaseInv, NEW c \in Callers, Die(c), UNCHANGED purchases
    PROVE  CallsSafe'
<1>0. CallsSafe
  BY Parts
<1>1. call' = [call EXCEPT ![c] = Idle] /\ UNCHANGED <<contract, log, checkpoint>>
  BY DEF Die
<1>2. /\ call'[c] = Idle /\ \A d \in Callers : d # c => call'[d] = call[d]
      /\ call' \in [Callers -> {Idle} \cup Labelled]
  BY <1>0, <1>1 DEF CallsSafe
<1>3. Idle.pos <= Idle.end /\ Idle.at = "idle"
  BY DEF Idle
<1>4. \A d \in Callers : call'[d].pos <= call'[d].end
  BY <1>0, <1>2, <1>3 DEF CallsSafe
<1>5. RunsLeaveNothing' /\ NoPurchaseDropped'
  BY <1>0, <1>1, <1>2, <1>3 DEF CallsSafe, RunsLeaveNothing, NoPurchaseDropped, At, Callers
<1>6. BuyersAreChecked'
  BY <1>0, <1>1, <1>2, <1>3 DEF CallsSafe, BuyersAreChecked, Event
<1> QED
  BY <1>0, <1>1, <1>2, <1>4, <1>5, <1>6 DEF CallsSafe, Labelled

(* A new event is behind everything the calls and the rows speak of. *)
LEMMA EmitSafe ==
    ASSUME PurchaseInv, NEW t \in {eth, stable, unknown}, NEW w \in Buyers, Purchased(t, w, 2)
    PROVE  PurchaseInv'
<1> DEFINE e == [type |-> t, wallet |-> w, amount |-> 2]
<1>0. CallsSafe /\ RowsSafe /\ RestSafe
  BY Parts
<1>1. /\ Len(log) < MaxLog /\ log' = Append(log, e)
      /\ UNCHANGED <<contract, checkpoint, users, call, faults, purchases, price, backfill>>
  BY DEF Purchased, Emit, purchaseVars
<1>2. e \in Sale
  BY DEF Sale
<1> HIDE DEF e
<1>3. log \in Seq(Sale) /\ Len(log) \in Nat /\ DOMAIN log = 1..Len(log)
  BY LogFacts DEF PurchaseInv
<1>4. /\ log' \in Seq(Sale) /\ Len(log') = Len(log) + 1 /\ DOMAIN log' = 1..(Len(log) + 1)
      /\ \A i \in 1..Len(log) : log'[i] = log[i]
  <2>1. /\ Append(log, e) \in Seq(Sale) /\ Len(Append(log, e)) = Len(log) + 1
        /\ \A i \in 1..Len(log) : Append(log, e)[i] = log[i]
    BY <1>2, <1>3, AppendProperties
  <2>2. DOMAIN Append(log, e) = 1..(Len(log) + 1)
    BY <2>1, LenProperties
  <2> QED
    BY <1>1, <2>1, <2>2
<1>5. Labelled \subseteq Labelled'
  BY <1>3, <1>4 DEF Labelled
<1>6. \A c \in Callers : ~At(c, "idle") => call[c].pos \in 1..Len(log)
  BY <1>3, Busy DEF PurchaseInv
<1>7. CallsSafe'
  <2>1. call' \in [Callers -> {Idle} \cup Labelled'] /\ \A d \in Callers : call'[d].pos <= call'[d].end
    BY <1>0, <1>1, <1>5 DEF CallsSafe
  <2>2. checkpoint' \in 0..Len(log')
    BY <1>0, <1>1, <1>3, <1>4 DEF CallsSafe
  <2>3. NoPurchaseDropped'
    BY <1>0, <1>1, <1>3, <1>4 DEF CallsSafe, NoPurchaseDropped
  <2>4. RunsLeaveNothing'
    <3> SUFFICES ASSUME NEW r \in Indexers, ~At(r, "idle"), ~call[r].failed,
                        NEW i \in DOMAIN log', i < call[r].pos
                 PROVE  i \in DOMAIN purchases
      BY <1>1 DEF RunsLeaveNothing, At
    <3>1. i \in DOMAIN log
      BY <1>3, <1>4, <1>6 DEF Callers
    <3> QED
      BY <1>0, <3>1 DEF CallsSafe, RunsLeaveNothing
  <2>5. BuyersAreChecked'
    <3> SUFFICES ASSUME NEW c \in Callers, call[c].at \in {"user", "create", "upsert"}
                 PROVE  call[c].wallet = log'[call[c].pos].wallet
      BY <1>1 DEF BuyersAreChecked, Event
    <3>1. ~At(c, "idle")
      BY DEF At
    <3> QED
      BY <1>0, <1>4, <1>6, <3>1 DEF CallsSafe, BuyersAreChecked, Event
  <2> QED
    BY <2>1, <2>2, <2>3, <2>4, <2>5 DEF CallsSafe
<1>8. RowsSafe'
  <2>1. \A i \in DOMAIN purchases : i \in 1..Len(log)
    BY <1>0, <1>3 DEF RowsSafe
  <2>2. RowsAreTheBuyers'
    BY <1>0, <1>1, <1>4, <2>1 DEF RowsSafe, RowsAreTheBuyers
  <2>3. DOMAIN purchases' \subseteq DOMAIN log'
    BY <1>1, <1>3, <1>4, <2>1
  <2> QED
    BY <1>0, <1>1, <2>2, <2>3 DEF RowsSafe, BackfillIsFresh, Nulls, Row
<1>9. RestSafe'
  <2>1. Len(log') <= MaxLog
    BY <1>1, <1>3, <1>4, MirrorAssumption
  <2> QED
    BY <1>0, <1>1, <1>4, <2>1 DEF RestSafe
<1> QED
  <2>1. (PurchaseInv <=> CallsSafe /\ RowsSafe /\ RestSafe)'
    BY Parts, PTL
  <2> QED
    BY <1>7, <1>8, <1>9, <2>1

(* A step that writes no row leaves the rows' promises. *)
LEMMA RowsStay ==
    ASSUME RowsSafe, UNCHANGED <<log, purchases, backfill>>
    PROVE  RowsSafe'
BY DEF RowsSafe, RowsAreTheBuyers, BackfillIsFresh, Nulls, Row

-----------------------------------------------------------------------------
LEMMA FindPurchaseSafe ==
    ASSUME PurchaseInv, NEW f \in Callers, FindPurchase(f)
    PROVE  CallsSafe'
<1>1. At(f, "find") /\ ~At(f, "idle") /\ UNCHANGED <<log, contract, purchases>>
  BY DEF FindPurchase, Stay, purchaseVars, At
<1>2. CASE call[f].pos \in DOMAIN purchases
  <2>1. EndOfEvent(f, TRUE, "map") /\ call[f].pos \in DOMAIN purchases'
    BY <1>1, <1>2 DEF FindPurchase
  <2> QED
    BY <1>1, <2>1, EndSafe
<1>3. CASE call[f].pos \notin DOMAIN purchases
  <2>1. Goto(f, "map") /\ "map" \in PurchaseLabels
    BY <1>3 DEF FindPurchase, PurchaseLabels
  <2> QED
    BY <1>1, <2>1, GotoSafe
<1> QED
  BY <1>2, <1>3

LEMMA MapEventSafe ==
    ASSUME PurchaseInv, NEW c \in Callers, MapEvent(c)
    PROVE  CallsSafe'
<1>0. CallsSafe /\ RestSafe /\ PurchaseTypeOK
  BY Parts DEF PurchaseInv
<1>1. At(c, "map") /\ ~At(c, "idle") /\ UNCHANGED <<log, contract, purchases>>
  BY DEF MapEvent, Stay, purchaseVars, At
<1>2. CASE Event(c).type = unknown \/ Event(c).wallet # call[c].wallet
  <2>1. EndOfEvent(c, FALSE, "map")
    BY <1>2 DEF MapEvent
  <2> QED
    BY <1>1, <2>1, EndSafe
<1>3. CASE ~ (Event(c).type = unknown \/ Event(c).wallet # call[c].wallet)
  <2> DEFINE checked == [call[c] EXCEPT !.at = "user"]
             mapped == [checked EXCEPT !.pick = UsdValue(c)]
  <2>1. call' = [call EXCEPT ![c].at = "user", ![c].pick = UsdValue(c)] /\ UNCHANGED checkpoint
    BY <1>3 DEF MapEvent
  <2>2. call[c] \in Labelled /\ Event(c) \in Sale
    BY <1>0, <1>1, Busy
  <2>3. UsdValue(c) \in Nat
    BY <1>0, <2>2, PurchaseAssumption DEF UsdValue, RestSafe, Sale
  <2>4. /\ checked \in Labelled /\ checked.at = "user" /\ checked.pos = call[c].pos /\ checked.end = call[c].end
        /\ checked.failed = call[c].failed /\ checked.wallet = call[c].wallet
    BY <2>2 DEF Labelled, PurchaseLabels
  <2> HIDE DEF checked
  <2>5. /\ mapped \in Labelled /\ mapped.at = "user" /\ mapped.pos = call[c].pos /\ mapped.end = call[c].end
        /\ mapped.failed = call[c].failed /\ mapped.wallet = call[c].wallet
    BY <2>3, <2>4 DEF Labelled
  <2>6. call' = [call EXCEPT ![c] = mapped]
    BY <1>0, <2>1, <2>2 DEF checked, CallsSafe
  <2> HIDE DEF mapped
  <2>7. /\ call'[c] = mapped /\ \A d \in Callers : d # c => call'[d] = call[d]
        /\ call' \in [Callers -> {Idle} \cup Labelled]
    BY <1>0, <2>5, <2>6 DEF CallsSafe
  <2>8. call[c].wallet = Event(c).wallet
    BY <1>3
  <2> QED
    BY <1>1, <2>1, <2>5, <2>7, <2>8, RelabelSafe
<1> QED
  BY <1>2, <1>3

LEMMA FindUserSafe ==
    ASSUME PurchaseInv, NEW c \in Callers, FindUser(c, "upsert"), UNCHANGED purchases
    PROVE  CallsSafe'
<1>1. At(c, "user") /\ ~At(c, "idle") /\ UNCHANGED <<log, contract>>
  BY DEF FindUser, Stay, At
<1>2. call[c].wallet = Event(c).wallet
  BY <1>1 DEF PurchaseInv, BuyersAreChecked, At
<1>3. PICK label \in {"upsert", "create"} : Goto(c, label)
  BY DEF FindUser
<1> QED
  BY <1>1, <1>2, <1>3, GotoSafe DEF PurchaseLabels

LEMMA CreateUserSafe ==
    ASSUME PurchaseInv, NEW c \in Callers, CreateUser(c, "upsert", "map"), UNCHANGED purchases
    PROVE  CallsSafe' /\ users' \subseteq Buyers
<1>0. RestSafe /\ PurchaseTypeOK
  BY Parts DEF PurchaseInv
<1>1. At(c, "create") /\ ~At(c, "idle") /\ UNCHANGED <<log, contract>>
  BY DEF CreateUser, At
<1>2. CASE call[c].wallet \in users
  <2>1. EndOfEvent(c, FALSE, "map") /\ UNCHANGED users
    BY <1>2 DEF CreateUser
  <2> QED
    BY <1>0, <1>1, <2>1, EndSafe DEF RestSafe
<1>3. CASE call[c].wallet \notin users
  <2>1. Goto(c, "upsert") /\ users' = users \cup {call[c].wallet}
    BY <1>3 DEF CreateUser
  <2>2. call[c].wallet = Event(c).wallet /\ call[c].wallet \in Buyers
    BY <1>0, <1>1, Busy DEF PurchaseInv, BuyersAreChecked, At, Labelled
  <2>3. CallsSafe'
    BY <1>1, <2>1, <2>2, GotoSafe DEF PurchaseLabels
  <2> QED
    BY <1>0, <2>1, <2>2, <2>3 DEF RestSafe
<1> QED
  BY <1>2, <1>3

LEMMA UpsertSafe ==
    ASSUME PurchaseInv, NEW c \in Callers, Upsert(c)
    PROVE  /\ CallsSafe' /\ RowsSafe'
           /\ \A i \in DOMAIN purchases : i \in DOMAIN purchases' /\ purchases'[i] = purchases[i]
<1> DEFINE row == [wallet |-> call[c].wallet, amount |-> Event(c).amount, usd |-> call[c].pick]
<1>0. CallsSafe /\ RowsSafe /\ RestSafe /\ PurchaseTypeOK
  BY Parts DEF PurchaseInv
<1>1. /\ At(c, "upsert") /\ ~At(c, "idle") /\ EndOfEvent(c, TRUE, "map")
      /\ UNCHANGED <<log, contract, backfill>>
      /\ purchases' = [i \in DOMAIN purchases \cup {call[c].pos} |->
                          IF i \in DOMAIN purchases THEN purchases[i] ELSE row]
  BY DEF Upsert, Stay, At
<1>2. call[c] \in Labelled /\ Event(c) \in Sale /\ call[c].pos \in DOMAIN log
  BY <1>0, <1>1, Busy
<1>3. row \in Row /\ row.wallet = Event(c).wallet
  <2>1. call[c].wallet = Event(c).wallet
    BY <1>0, <1>1 DEF CallsSafe, BuyersAreChecked, At
  <2> QED
    BY <1>2, <2>1 DEF Row, Labelled, Sale
<1> HIDE DEF row
<1>4. /\ DOMAIN purchases' = DOMAIN purchases \cup {call[c].pos}
      /\ \A i \in DOMAIN purchases : purchases'[i] = purchases[i]
      /\ call[c].pos \notin DOMAIN purchases => purchases'[call[c].pos] = row
  BY <1>1
<1>5. CallsSafe'
  BY <1>1, <1>4, EndSafe
<1>6. purchases' \in [DOMAIN purchases' -> Row]
  BY <1>0, <1>1, <1>3 DEF RowsSafe
<1>7. RowsAreTheBuyers'
  BY <1>0, <1>1, <1>3, <1>4 DEF RowsSafe, RowsAreTheBuyers, Event
<1>8. Nulls \subseteq Nulls'
  BY <1>4 DEF Nulls
<1>9. RowsSafe'
  <2>1. DOMAIN purchases' \subseteq DOMAIN log'
    BY <1>0, <1>1, <1>2, <1>4 DEF RowsSafe
  <2>2. backfill' \in [todo : SUBSET DOMAIN purchases', price : 0..MaxPrice]
    BY <1>0, <1>1, <1>4 DEF RowsSafe
  <2>3. BackfillIsFresh'
    BY <1>0, <1>1, <1>8 DEF RowsSafe, BackfillIsFresh
  <2> QED
    BY <1>6, <1>7, <2>1, <2>2, <2>3 DEF RowsSafe, Row
<1> QED
  BY <1>4, <1>5, <1>9

LEMMA FillSafe ==
    ASSUME PurchaseInv, Fill
    PROVE  /\ CallsSafe' /\ RowsSafe'
           /\ \A i \in DOMAIN purchases : purchases[i].usd # 0 => purchases'[i].usd = purchases[i].usd
<1>0. CallsSafe /\ RowsSafe
  BY Parts
<1>1. UNCHANGED <<log, contract, checkpoint, call>>
  BY DEF Fill, mirrorVars
<1>2. PICK i \in backfill.todo :
        /\ purchases' = [purchases EXCEPT ![i].usd = backfill.price]
        /\ backfill' = IF backfill.todo = {i} THEN NoBackfill ELSE [backfill EXCEPT !.todo = @ \ {i}]
  BY DEF Fill
<1>3. /\ purchases \in [DOMAIN purchases -> Row] /\ backfill.todo \subseteq DOMAIN purchases
      /\ backfill.price \in Nat /\ backfill.todo \subseteq Nulls
  BY <1>0, PurchaseAssumption DEF RowsSafe, BackfillIsFresh
<1>4. i \in DOMAIN purchases /\ purchases[i] \in Row /\ purchases[i].usd = 0
  BY <1>3 DEF Nulls
<1>5. [purchases[i] EXCEPT !.usd = backfill.price] \in Row
      /\ [purchases[i] EXCEPT !.usd = backfill.price].wallet = purchases[i].wallet
  BY <1>3, <1>4 DEF Row
<1>6. /\ purchases' \in [DOMAIN purchases -> Row] /\ DOMAIN purchases' = DOMAIN purchases
      /\ \A j \in DOMAIN purchases : j # i => purchases'[j] = purchases[j]
      /\ purchases'[i].wallet = purchases[i].wallet
  BY <1>2, <1>3, <1>4, <1>5
<1>7. backfill' \in [todo : SUBSET DOMAIN purchases, price : 0..MaxPrice] /\ backfill'.todo \subseteq backfill.todo \ {i}
  <2>1. CASE backfill.todo = {i}
    BY <1>2, <2>1, PurchaseAssumption DEF NoBackfill
  <2>2. CASE backfill.todo # {i}
    BY <1>0, <1>2, <2>2 DEF RowsSafe
  <2> QED
    BY <2>1, <2>2
<1>8. RowsSafe'
  <2>1. RowsAreTheBuyers'
    BY <1>0, <1>1, <1>6 DEF RowsSafe, RowsAreTheBuyers
  <2>2. BackfillIsFresh'
    BY <1>3, <1>6, <1>7 DEF BackfillIsFresh, Nulls
  <2> QED
    BY <1>0, <1>1, <1>6, <1>7, <2>1, <2>2 DEF RowsSafe, Row
<1>9. CallsSafe'
  BY <1>0, <1>1, <1>6 DEF CallsSafe, NoPurchaseDropped, RunsLeaveNothing, BuyersAreChecked, At, Event, Labelled
<1> QED
  BY <1>4, <1>6, <1>8, <1>9

LEMMA StartBackfillSafe ==
    ASSUME PurchaseInv, StartBackfill
    PROVE  RowsSafe'
<1>0. RowsSafe /\ RestSafe
  BY Parts
<1>1. backfill' = [todo |-> Nulls, price |-> price] /\ UNCHANGED <<log, purchases>>
  BY DEF StartBackfill, mirrorVars
<1>2. backfill' \in [todo : SUBSET DOMAIN purchases, price : 0..MaxPrice] /\ backfill'.todo = Nulls
  BY <1>0, <1>1 DEF RestSafe, Nulls
<1>3. BackfillIsFresh' /\ RowsAreTheBuyers'
  BY <1>0, <1>1, <1>2 DEF RowsSafe, BackfillIsFresh, RowsAreTheBuyers, Nulls
<1> QED
  BY <1>0, <1>1, <1>2, <1>3 DEF RowsSafe, Row

LEMMA CallsStay ==
    ASSUME CallsSafe, UNCHANGED <<contract, log, checkpoint, call, purchases>>
    PROVE  CallsSafe'
BY DEF CallsSafe, NoPurchaseDropped, RunsLeaveNothing, BuyersAreChecked, At, Event, Labelled

-----------------------------------------------------------------------------
(* Every step keeps the invariant, and no step changes a known value. *)
LEMMA PurchaseStepInv ==
    ASSUME PurchaseInv, [PurchaseNext]_purchaseMirrorVars
    PROVE  /\ PurchaseInv'
           /\ \A i \in DOMAIN purchases : purchases[i].usd # 0 => purchases'[i].usd = purchases[i].usd
<1> DEFINE Final == \A i \in DOMAIN purchases : purchases[i].usd # 0 => purchases'[i].usd = purchases[i].usd
<1> USE MirrorAssumption
<1>0. CallsSafe /\ RowsSafe /\ RestSafe
  BY Parts
<1>p. (PurchaseInv <=> CallsSafe /\ RowsSafe /\ RestSafe)'
  BY Parts, PTL
<1> SUFFICES CallsSafe' /\ RowsSafe' /\ RestSafe' /\ Final
  BY <1>p
<1>f. UNCHANGED purchases => Final
  OBVIOUS
<1>1. ASSUME NEW c \in Callers, StartRun(c, "map"), UNCHANGED purchaseVars
      PROVE  CallsSafe' /\ RowsSafe' /\ RestSafe' /\ Final
  <2>1. UNCHANGED <<contract, log, users, faults, purchases, price, backfill>>
    BY <1>1 DEF StartRun, Stay, purchaseVars
  <2> QED
    BY <1>0, <1>1, <1>f, <2>1, StartRunSafe, RowsStay DEF RestSafe
<1>2. ASSUME NEW c \in Callers, FindPurchase(c)
      PROVE  CallsSafe' /\ RowsSafe' /\ RestSafe' /\ Final
  <2>1. UNCHANGED <<contract, log, users, faults, purchases, price, backfill>>
    BY <1>2 DEF FindPurchase, Stay, purchaseVars
  <2> QED
    BY <1>0, <1>2, <1>f, <2>1, FindPurchaseSafe, RowsStay DEF RestSafe
<1>3. ASSUME NEW c \in Callers, MapEvent(c)
      PROVE  CallsSafe' /\ RowsSafe' /\ RestSafe' /\ Final
  <2>1. UNCHANGED <<contract, log, users, faults, purchases, price, backfill>>
    BY <1>3 DEF MapEvent, Stay, purchaseVars
  <2> QED
    BY <1>0, <1>3, <1>f, <2>1, MapEventSafe, RowsStay DEF RestSafe
<1>4. ASSUME NEW c \in Callers, Upsert(c)
      PROVE  CallsSafe' /\ RowsSafe' /\ RestSafe' /\ Final
  <2>1. UNCHANGED <<contract, log, users, faults, price>>
    BY <1>4 DEF Upsert, Stay
  <2> QED
    BY <1>0, <1>4, <2>1, UpsertSafe DEF RestSafe
<1>5. ASSUME NEW c \in Callers, FindUser(c, "upsert"), UNCHANGED purchaseVars
      PROVE  CallsSafe' /\ RowsSafe' /\ RestSafe' /\ Final
  <2>1. UNCHANGED <<contract, log, users, faults, purchases, price, backfill>>
    BY <1>5 DEF FindUser, Stay, purchaseVars
  <2> QED
    BY <1>0, <1>5, <1>f, <2>1, FindUserSafe, RowsStay DEF RestSafe
<1>6. ASSUME NEW c \in Callers, CreateUser(c, "upsert", "map"), UNCHANGED purchaseVars
      PROVE  CallsSafe' /\ RowsSafe' /\ RestSafe' /\ Final
  <2>1. UNCHANGED <<contract, log, faults, purchases, price, backfill>>
    BY <1>6 DEF CreateUser, purchaseVars
  <2> QED
    BY <1>0, <1>6, <1>f, <2>1, CreateUserSafe, RowsStay DEF RestSafe
<1>7. ASSUME NEW c \in Callers, Die(c), UNCHANGED purchaseVars
      PROVE  CallsSafe' /\ RowsSafe' /\ RestSafe' /\ Final
  <2>1. /\ UNCHANGED <<contract, log, users, purchases, price, backfill>>
        /\ faults < MaxFaults /\ faults' = faults + 1
    BY <1>7 DEF Die, purchaseVars
  <2>2. RestSafe'
    BY <1>0, <2>1 DEF RestSafe
  <2> QED
    BY <1>0, <1>7, <1>f, <2>1, <2>2, DieSafe, RowsStay
<1>8. ASSUME NEW t \in {eth, stable, unknown}, NEW w \in Buyers, Purchased(t, w, 2)
      PROVE  CallsSafe' /\ RowsSafe' /\ RestSafe' /\ Final
  <2>1. UNCHANGED purchases
    BY <1>8 DEF Purchased, purchaseVars
  <2> QED
    BY <1>8, <1>f, <1>p, <2>1, EmitSafe
<1>9. ASSUME NEW f \in Fronts, NEW i \in DOMAIN log, NEW w \in Buyers,
             StartReport(f, "find", i, w, log[i].amount), UNCHANGED purchaseVars
      PROVE  CallsSafe' /\ RowsSafe' /\ RestSafe' /\ Final
  <2>1. UNCHANGED <<contract, log, users, faults, purchases, price, backfill>>
    BY <1>9 DEF StartReport, Stay, purchaseVars
  <2> QED
    BY <1>0, <1>9, <1>f, <2>1, StartReportSafe, RowsStay DEF RestSafe
<1>10. ASSUME NEW p \in 0..MaxPrice, PriceMoves(p)
       PROVE  CallsSafe' /\ RowsSafe' /\ RestSafe' /\ Final
  <2>1. /\ UNCHANGED <<contract, log, checkpoint, users, call, purchases, backfill>>
        /\ price' = p /\ faults < MaxFaults /\ faults' = faults + 1
    BY <1>10 DEF PriceMoves
  <2>2. RestSafe'
    BY <1>0, <2>1 DEF RestSafe
  <2> QED
    BY <1>0, <1>f, <2>1, <2>2, CallsStay, RowsStay
<1>11. ASSUME StartBackfill
       PROVE  CallsSafe' /\ RowsSafe' /\ RestSafe' /\ Final
  <2>1. UNCHANGED <<contract, log, checkpoint, users, call, faults, purchases, price>>
    BY <1>11 DEF StartBackfill, mirrorVars
  <2> QED
    BY <1>0, <1>11, <1>f, <2>1, CallsStay, StartBackfillSafe DEF RestSafe
<1>12. ASSUME Fill
       PROVE  CallsSafe' /\ RowsSafe' /\ RestSafe' /\ Final
  <2>1. UNCHANGED <<contract, log, users, faults, price>>
    BY <1>12 DEF Fill, mirrorVars
  <2> QED
    BY <1>0, <1>12, <2>1, FillSafe DEF RestSafe
<1>13. ASSUME UNCHANGED purchaseMirrorVars
       PROVE  CallsSafe' /\ RowsSafe' /\ RestSafe' /\ Final
  <2>1. UNCHANGED <<contract, log, checkpoint, users, call, faults, purchases, price, backfill>>
    BY <1>13 DEF purchaseMirrorVars, mirrorVars, purchaseVars
  <2> QED
    BY <1>0, <1>f, <2>1, CallsStay, RowsStay DEF RestSafe
<1> HIDE DEF Final
<1> QED
  BY <1>1, <1>2, <1>3, <1>4, <1>5, <1>6, <1>7, <1>8, <1>9, <1>10, <1>11, <1>12, <1>13
     DEF PurchaseNext, PurchaseWork

LEMMA PurchaseInitInv ==
    ASSUME contract = "Sale", MirrorInit, PurchaseInit
    PROVE  PurchaseInv
<1> USE MirrorAssumption, PurchaseAssumption
<1>1. /\ log = << >> /\ checkpoint = 0 /\ users = {} /\ faults = 0
      /\ call = [c \in Callers |-> Idle] /\ purchases = << >> /\ price = 1
      /\ backfill = [todo |-> {}, price |-> 0]
  BY DEF MirrorInit, PurchaseInit, NoBackfill
<1>2. log \in Seq(Sale) /\ Len(log) = 0 /\ DOMAIN log = {} /\ DOMAIN purchases = {}
  BY <1>1
<1>3. Idle.at = "idle" /\ Idle.pos <= Idle.end
  BY DEF Idle
<1>4. CallsSafe
  BY <1>1, <1>2, <1>3 DEF CallsSafe, NoPurchaseDropped, RunsLeaveNothing, BuyersAreChecked, At, Callers
<1>5. RowsSafe
  BY <1>1, <1>2 DEF RowsSafe, RowsAreTheBuyers, BackfillIsFresh, Nulls
<1>6. RestSafe
  BY <1>1, <1>2 DEF RestSafe
<1> QED
  BY <1>4, <1>5, <1>6, Parts

LEMMA PurchaseAlways == PurchaseSpec => []PurchaseInv
<1>1. contract = "Sale" /\ MirrorInit /\ PurchaseInit => PurchaseInv
  BY PurchaseInitInv
<1>2. PurchaseInv /\ [PurchaseNext]_purchaseMirrorVars => PurchaseInv'
  BY PurchaseStepInv
<1> QED
  BY <1>1, <1>2, PTL DEF PurchaseSpec

(* Whatever the processes, the pages' reports and the restarts do, a       *)
(* purchase behind the checkpoint has its row, and a row is its buyer's.   *)
THEOREM PurchasesAreMirrored == PurchaseSpec => []PurchasesMirrored
<1>1. PurchaseInv => PurchasesMirrored
  BY DEF PurchaseInv, PurchasesMirrored
<1> QED
  BY <1>1, PurchaseAlways, PTL

(* Neither a second delivery of an event nor the backfill script changes a *)
(* purchase's value in dollars once it is known.                           *)
THEOREM UsdStaysFinal == PurchaseSpec => UsdIsFinal
<1>1. PurchaseInv /\ [PurchaseNext]_purchaseMirrorVars
        => [\A i \in DOMAIN purchases : purchases[i].usd # 0 => purchases'[i].usd = purchases[i].usd
           ]_purchaseMirrorVars
  BY PurchaseStepInv
<1> QED
  BY <1>1, PurchaseAlways, PTL DEF PurchaseSpec, UsdIsFinal

-----------------------------------------------------------------------------
(***************************************************************************)
(* VestingMirror.  An event is covered when it is behind the checkpoint or *)
(* a run without a failure has passed it; what is covered has been dealt   *)
(* with.  A schedule whose sum is out of date has a row that is not yet    *)
(* covered, whose event will be dealt with again, or that is no claim's.   *)
(***************************************************************************)
Deal == [type : {"ALLOCATED", "CLAIMED"}, wallet : Buyers, amount : Nat]
Schedule == [wallet : Buyers, total : Nat, claimed : Nat]
Worker == [at : VestingLabels, pos : Transactions, end : Transactions, failed : BOOLEAN,
           wallet : Buyers, amount : Nat, pick : Nat]

Covered(i) ==
    i <= checkpoint \/ \E r \in Indexers : ~At(r, "idle") /\ ~call[r].failed /\ i < call[r].pos
DealtWith(i) ==
    IF log[i].type = "CLAIMED" THEN i \in DOMAIN claims ELSE SchedulesOf(log[i].wallet) # {}

(* What the indexer has read of its event, what a report that says what is *)
(* so has been told, and what either has found in the tables so far.       *)
FromChain(k) ==
    /\ k.pos \in DOMAIN log /\ k.end \in DOMAIN log /\ k.wallet = log[k.pos].wallet /\ k.at # "find"
    /\ k.at \in {"schedule", "row", "insert", "sum", "save"} => log[k.pos].type = "CLAIMED"
    /\ k.at \in {"upsert", "write"} => log[k.pos].type = "ALLOCATED"
    /\ k.at # "save" => k.amount = log[k.pos].amount
FromPage(k) == k.pos \in misreported \cup DOMAIN claims \/ IsClaim(k.pos, k.wallet, k.amount)
InTables(k) ==
    /\ k.at \in {"row", "insert", "sum", "save"} => k.pick \in SchedulesOf(k.wallet)
    /\ k.at = "write" => k.pick = 0 \/ k.pick \in SchedulesOf(k.wallet)
    /\ k.at \in {"sum", "save"} => k.pos \in DOMAIN claims
GoodCall(c, k) == InTables(k) /\ (c \in Indexers => FromChain(k)) /\ (c \in Fronts => FromPage(k))

WorkersSafe ==
    /\ call \in [Callers -> {Idle} \cup Worker] /\ \A d \in Callers : call[d].pos <= call[d].end
    /\ checkpoint \in 0..Len(log)
    /\ \A d \in Callers : At(d, "idle") \/ GoodCall(d, call[d])

(* An allocation comes before its claims, and neither is of nothing. *)
LogInOrder ==
    \A i \in DOMAIN log :
        /\ log[i].amount > 0
        /\ log[i].type = "CLAIMED" =>
             \E j \in DOMAIN log : j < i /\ log[j].type = "ALLOCATED" /\ log[j].wallet = log[i].wallet
LogSafe ==
    /\ contract = "Vesting" /\ log \in Seq(Deal) /\ Len(log) <= MaxLog /\ LogInOrder
    /\ users \subseteq Buyers /\ faults \in 0..MaxFaults /\ raced \in BOOLEAN
    /\ misreported \subseteq Transactions

TablesSafe ==
    /\ schedules \in Seq(Schedule)
    /\ DOMAIN claims \subseteq Transactions
    /\ \A i \in DOMAIN claims :
         /\ claims[i] \in [schedule : DOMAIN schedules, amount : Nat, reported : BOOLEAN]
         /\ ~Misled(i) => IsClaim(i, schedules[claims[i].schedule].wallet, claims[i].amount)
         /\ ~claims[i].reported => claims[i].amount = log[i].amount

CoveredIsDealtWith == \A i \in DOMAIN log : Covered(i) => DealtWith(i)

(* Where no two calls have met. *)
OneScheduleEach ==
    \A s \in DOMAIN schedules, t \in DOMAIN schedules : schedules[s].wallet = schedules[t].wallet => s = t
SavesTheSum == \A c \in Callers : At(c, "save") => call[c].amount = Claimed(call[c].pick)
Outstanding(s) ==
    {i \in RowsOf(s) : ~Covered(i) \/ i \notin EventsOf(schedules[s].wallet, "CLAIMED")}
SumOrUncovered ==
    \A s \in DOMAIN schedules : schedules[s].claimed = Claimed(s) \/ Outstanding(s) # {}
TotalOrUncovered ==
    \A s \in DOMAIN schedules, j \in DOMAIN log :
        EventsOf(schedules[s].wallet, "ALLOCATED") = {j}
            => schedules[s].total = log[j].amount \/ ~Covered(j)
Unraced == ~raced => OneScheduleEach /\ SavesTheSum /\ SumOrUncovered /\ TotalOrUncovered

VestingIndInv == LogSafe /\ TablesSafe /\ WorkersSafe /\ CoveredIsDealtWith /\ Unraced

-----------------------------------------------------------------------------
LEMMA DealFacts ==
    ASSUME LogSafe
    PROVE  /\ Len(log) \in Nat /\ DOMAIN log = 1..Len(log)
           /\ \A i \in DOMAIN log : /\ log[i] \in Deal /\ log[i].wallet \in Buyers /\ log[i].amount \in Nat
                                    /\ log[i].type \in {"ALLOCATED", "CLAIMED"}
<1>1. log \in Seq(Deal)
  BY DEF LogSafe
<1>2. Len(log) \in Nat /\ DOMAIN log = 1..Len(log)
  BY <1>1, LenProperties
<1>3. \A i \in 1..Len(log) : log[i] \in Deal
  BY <1>1, ElementOfSeq
<1> QED
  BY <1>2, <1>3 DEF Deal

LEMMA DealsAreFinite ==
    ASSUME LogSafe
    PROVE  IsFiniteSet(1..Len(log))
<1>1. Len(log) \in Int
  BY DealFacts
<1> HIDE DEF LogSafe
<1> QED
  BY <1>1, FS_Interval

LEMMA TwoAreTwo ==
    ASSUME NEW i, NEW j, i # j
    PROVE  IsFiniteSet({i, j}) /\ Cardinality({i, j}) = 2
<1>1. IsFiniteSet({j}) /\ Cardinality({j}) = 1
  BY FS_Singleton
<1>2. IsFiniteSet({j} \cup {i}) /\ Cardinality({j} \cup {i}) = Cardinality({j}) + 1
  BY <1>1, i \notin {j}, FS_AddElement
<1>3. {j} \cup {i} = {i, j}
  OBVIOUS
<1> QED
  BY <1>1, <1>2, <1>3

LEMMA IdleIs == Idle.at = "idle" /\ Idle.pos = 0 /\ Idle.end = 0
BY DEF Idle

LEMMA WorkerFacts ==
    ASSUME LogSafe, WorkersSafe, NEW c \in Callers, ~At(c, "idle")
    PROVE  /\ call[c] \in Worker /\ call[c].pos <= call[c].end /\ GoodCall(c, call[c])
           /\ call[c].pos \in Nat /\ call[c].end \in Nat
           /\ c \in Indexers => FromChain(call[c])
<1>1. call[c] \in Worker /\ call[c].pos <= call[c].end /\ GoodCall(c, call[c])
  BY IdleIs DEF WorkersSafe, At
<1> QED
  BY <1>1, MirrorAssumption DEF Worker, Transactions, GoodCall

LEMMA ScheduleFacts ==
    ASSUME TablesSafe
    PROVE  /\ Len(schedules) \in Nat /\ DOMAIN schedules = 1..Len(schedules)
           /\ \A s \in DOMAIN schedules : /\ schedules[s] \in Schedule /\ schedules[s].wallet \in Buyers
                                          /\ schedules[s].claimed \in Nat
<1>1. schedules \in Seq(Schedule)
  BY DEF TablesSafe
<1>2. Len(schedules) \in Nat /\ DOMAIN schedules = 1..Len(schedules)
  BY <1>1, LenProperties
<1>3. \A i \in 1..Len(schedules) : schedules[i] \in Schedule
  BY <1>1, ElementOfSeq
<1> QED
  BY <1>2, <1>3 DEF Schedule

(* The rows of a schedule are finitely many, and so is their sum. *)
LEMMA ClaimedFacts ==
    ASSUME LogSafe, TablesSafe, NEW s
    PROVE  IsFiniteSet(RowsOf(s)) /\ Claimed(s) \in Nat /\ (RowsOf(s) = {} => Claimed(s) = 0)
<1>1. RowsOf(s) \subseteq 1..MaxLog + 1
  BY DEF RowsOf, TablesSafe, Transactions
<1>2. IsFiniteSet(1..MaxLog + 1)
  <2>1. MaxLog + 1 \in Int
    BY MirrorAssumption
  <2> QED
    BY <2>1, FS_Interval
<1>3. IsFiniteSet(RowsOf(s))
  BY <1>1, <1>2, FS_Subset
<1> DEFINE f == [i \in DOMAIN claims |-> claims[i].amount]
<1>4. \A i \in RowsOf(s) : f[i] \in Nat
  BY DEF RowsOf, TablesSafe
<1>5. Claimed(s) = SumFunctionOnSet(f, RowsOf(s))
  BY DEF Claimed
<1> HIDE DEF f
<1>6. Claimed(s) \in Nat
  BY <1>3, <1>4, <1>5, SumOfNaturals
<1> QED
  BY <1>3, <1>5, <1>6, SumOfNothing

(* The tables only grow, and rows stay where they are. *)
Grows ==
    /\ \A w : SchedulesOf(w) \subseteq SchedulesOf(w)'
    /\ DOMAIN claims \subseteq DOMAIN claims' /\ misreported \subseteq misreported'

(* The calls a step leaves alone. *)
LEMMA OthersStayGood ==
    ASSUME LogSafe, WorkersSafe, UNCHANGED log, Grows, NEW d \in Callers, call'[d] = call[d]
    PROVE  At(d, "idle")' \/ GoodCall(d, call[d])'
<1>1. CASE At(d, "idle")
  BY <1>1 DEF At
<1>2. CASE ~At(d, "idle")
  <2>1. GoodCall(d, call[d])
    BY <1>2, WorkerFacts
  <2> QED
    BY <2>1 DEF GoodCall, InTables, FromChain, FromPage, IsClaim, EventsOf, Grows
<1> QED
  BY <1>1, <1>2

(* A step that takes one call on and covers nothing. *)
LEMMA CallMoves ==
    ASSUME LogSafe, WorkersSafe, UNCHANGED <<log, checkpoint>>, Grows,
           NEW c \in Callers, NEW new \in Worker,
           call' = [call EXCEPT ![c] = new], new.pos <= new.end, GoodCall(c, new)',
           c \in Indexers => At(c, "idle") \/ (new.failed = call[c].failed),
           c \in Indexers /\ At(c, "idle") => new.pos = checkpoint + 1,
           ~At(c, "idle") => new.pos = call[c].pos
    PROVE  WorkersSafe' /\ \A i \in DOMAIN log : Covered(i)' => Covered(i)
<1>1. call \in [Callers -> {Idle} \cup Worker] /\ checkpoint \in 0..Len(log) /\ Worker' = Worker
  BY DEF WorkersSafe, Worker, Transactions
<1>2. /\ call'[c] = new /\ \A d \in Callers : d # c => call'[d] = call[d]
      /\ call' \in [Callers -> {Idle} \cup Worker]
  BY <1>1
<1>3. \A d \in Callers : call'[d].pos <= call'[d].end
  BY <1>2 DEF WorkersSafe
<1>4. \A d \in Callers : At(d, "idle")' \/ GoodCall(d, call[d])'
  <2>1. GoodCall(c, call[c])'
    BY <1>2 DEF GoodCall, InTables, FromChain, FromPage, IsClaim, EventsOf, SchedulesOf
  <2> QED
    BY <1>2, <2>1, OthersStayGood
<1>5. WorkersSafe'
  BY <1>1, <1>2, <1>3, <1>4 DEF WorkersSafe
<1>6. ASSUME NEW i \in DOMAIN log, Covered(i)' PROVE Covered(i)
  <2>1. CASE i <= checkpoint
    BY <2>1 DEF Covered
  <2>2. CASE ~ i <= checkpoint
    <3>1. PICK r \in Indexers : ~At(r, "idle")' /\ ~call'[r].failed /\ i < call'[r].pos
      BY <1>6, <2>2 DEF Covered
    <3>2. r \in Callers
      BY DEF Callers
    <3>3. CASE r # c
      BY <1>2, <3>1, <3>2, <3>3 DEF Covered, At
    <3>4. CASE r = c /\ ~At(c, "idle")
      BY <1>2, <3>1, <3>4 DEF Covered
    <3>5. CASE r = c /\ At(c, "idle")
      <4>1. i < checkpoint + 1
        BY <1>2, <3>1, <3>5
      <4> QED
        BY <1>1, <2>2, <4>1, DealFacts
    <3> QED
      BY <3>3, <3>4, <3>5
  <2> QED
    BY <2>1, <2>2
<1> QED
  BY <1>5, <1>6

(* The end of an event covers that event, if all went well, and no other.  *)
LEMMA EventEnds ==
    ASSUME LogSafe, WorkersSafe, UNCHANGED log, Grows,
           NEW c \in Callers, ~At(c, "idle"), NEW ok \in BOOLEAN, EndOfEvent(c, ok, "user")
    PROVE  /\ WorkersSafe'
           /\ \A d \in Callers : At(d, "save")' => At(d, "save") /\ call'[d] = call[d]
           /\ \A i \in DOMAIN log : Covered(i)' =>
                Covered(i) \/ (i = call[c].pos /\ c \in Indexers /\ ok /\ ~call[c].failed)
<1>1. /\ call[c] \in Worker /\ call[c].pos <= call[c].end /\ call[c].pos \in Nat /\ call[c].end \in Nat
      /\ DOMAIN log = 1..Len(log) /\ Len(log) \in Nat /\ call[c].failed \in BOOLEAN
      /\ c \in Indexers => call[c].pos \in DOMAIN log /\ call[c].end \in DOMAIN log
  BY WorkerFacts, DealFacts DEF Worker, FromChain
<1>2. /\ call \in [Callers -> {Idle} \cup Worker] /\ \A d \in Callers : call[d].pos <= call[d].end
      /\ checkpoint \in 0..Len(log) /\ Worker' = Worker
  BY DEF WorkersSafe, Worker, Transactions
<1>3. Indexers \subseteq Callers
  BY DEF Callers
<1> DEFINE Ended(i) == i = call[c].pos /\ c \in Indexers /\ ok /\ ~call[c].failed
<1>4. CASE c \in Indexers /\ call[c].pos < call[c].end
  <2>0. PICK next : next = Handle(c, "user", call[c].pos + 1, call[c].end, call[c].failed \/ ~ok)
    OBVIOUS
  <2>1. call' = [call EXCEPT ![c] = next] /\ checkpoint' = checkpoint
    BY <1>4, <2>0 DEF EndOfEvent
  <2>2. call[c].pos + 1 \in DOMAIN log /\ call[c].pos + 1 <= call[c].end
    <3>1. call[c].pos \in 1..Len(log) /\ call[c].end \in 1..Len(log)
      BY <1>1, <1>4
    <3> QED
      BY <1>1, <1>4, <3>1
  <2>3. (call[c].failed \/ ~ok) \in BOOLEAN
    OBVIOUS
  <2>4. log[call[c].pos + 1].wallet \in Buyers /\ log[call[c].pos + 1].amount \in Nat
    BY <2>2, DealFacts
  <2>5. next \in Worker
    <3>1. call[c].pos + 1 \in Transactions /\ call[c].end \in Transactions
      BY <1>1, <1>4, <2>2, MirrorAssumption DEF Transactions, LogSafe
    <3> QED
      BY <2>0, <2>3, <2>4, <3>1 DEF Handle, Worker, VestingLabels
  <2>6. /\ next.pos = call[c].pos + 1 /\ next.end = call[c].end /\ next.at = "user"
        /\ next.wallet = log[next.pos].wallet /\ next.amount = log[next.pos].amount
    BY <2>0 DEF Handle
  <2>7. ~ next.failed => ~ call[c].failed /\ ok
    BY <2>0, Zenon DEF Handle
  <2>8. /\ call'[c] = next /\ \A d \in Callers : d # c => call'[d] = call[d]
        /\ call' \in [Callers -> {Idle} \cup Worker]
    BY <1>2, <2>1, <2>5
  <2>9. \A d \in Callers : call'[d].pos <= call'[d].end
    BY <1>2, <2>2, <2>6, <2>8
  <2>10. next.amount <= next.amount
    BY <2>4, <2>6
  <2>11. GoodCall(c, call[c])'
    <3>1. c \in Indexers /\ c \notin Fronts
      BY <1>4, MirrorAssumption
    <3>2. /\ next.at \notin {"schedule", "row", "insert", "sum", "save"}
          /\ next.at \notin {"find", "upsert", "write"}
      BY <2>6
    <3>3. next.pos \in DOMAIN log /\ next.end \in DOMAIN log
      BY <1>1, <1>4, <2>2, <2>6
    <3>4. GoodCall(c, next)'
      BY <2>6, <3>1, <3>2, <3>3 DEF GoodCall, FromChain, InTables
    <3> QED
      BY <2>8, <3>4
  <2>12. WorkersSafe'
    BY <1>2, <2>1, <2>8, <2>9, <2>11, OthersStayGood DEF WorkersSafe
  <2>13. \A d \in Callers : At(d, "save")' => At(d, "save") /\ call'[d] = call[d]
    BY <2>6, <2>8 DEF At
  <2>14. ASSUME NEW i \in DOMAIN log, Covered(i)', ~Covered(i) PROVE Ended(i)
    <3>1. PICK r \in Indexers : ~At(r, "idle")' /\ ~call'[r].failed /\ i < call'[r].pos
      BY <2>1, <2>14 DEF Covered
    <3>2. r = c
      BY <1>3, <2>8, <2>14, <3>1 DEF Covered, At
    <3>3. ~call[c].failed /\ ok /\ i < call[c].pos + 1
      BY <2>6, <2>7, <2>8, <3>1, <3>2
    <3>4. ~ i < call[c].pos
      BY <1>4, <2>14, <3>3 DEF Covered
    <3> QED
      BY <1>1, <1>4, <3>3, <3>4
  <2> QED
    BY <2>12, <2>13, <2>14
<1>5. CASE ~ (c \in Indexers /\ call[c].pos < call[c].end)
  <2>1. /\ call' = [call EXCEPT ![c] = Idle]
        /\ checkpoint' = IF c \in Indexers /\ ok /\ ~call[c].failed THEN call[c].end ELSE checkpoint
    BY <1>5 DEF EndOfEvent
  <2>2. /\ call'[c] = Idle /\ \A d \in Callers : d # c => call'[d] = call[d]
        /\ call' \in [Callers -> {Idle} \cup Worker]
    BY <1>2, <2>1
  <2>3. \A d \in Callers : call'[d].pos <= call'[d].end
    BY <1>2, <2>2, IdleIs
  <2>4. checkpoint' \in 0..Len(log)
    BY <1>1, <1>2, <2>1
  <2>5. At(c, "idle")'
    BY <2>2, IdleIs DEF At
  <2>6. WorkersSafe'
    BY <1>2, <2>2, <2>3, <2>4, <2>5, OthersStayGood DEF WorkersSafe
  <2>7. \A d \in Callers : At(d, "save")' => At(d, "save") /\ call'[d] = call[d]
    BY <2>2, IdleIs DEF At
  <2>8. ASSUME NEW i \in DOMAIN log, Covered(i)', ~Covered(i) PROVE Ended(i)
    <3>1. ~ \E r \in Indexers : ~At(r, "idle")' /\ ~call'[r].failed /\ i < call'[r].pos
      BY <1>3, <2>2, <2>5, <2>8 DEF Covered, At
    <3>2. i <= checkpoint' /\ ~ i <= checkpoint
      BY <2>8, <3>1 DEF Covered
    <3>3. c \in Indexers /\ ok /\ ~call[c].failed /\ i <= call[c].end
      BY <2>1, <3>2
    <3>4. call[c].end = call[c].pos
      BY <1>1, <1>5, <3>3
    <3>5. ~ i < call[c].pos
      BY <2>8, <3>3 DEF Covered
    <3> QED
      BY <1>1, <3>3, <3>4, <3>5
  <2> QED
    BY <2>6, <2>7, <2>8
<1> QED
  BY <1>4, <1>5

(* What remains of the invariant where the tables stay as they are. *)
LEMMA Calm ==
    ASSUME VestingIndInv, LogSafe', WorkersSafe', UNCHANGED <<log, schedules, claims, raced>>,
           misreported \subseteq misreported',
           \A i \in DOMAIN log : Covered(i)' => Covered(i),
           ~raced /\ SavesTheSum => SavesTheSum'
    PROVE  VestingIndInv'
<1>0. /\ TablesSafe /\ CoveredIsDealtWith /\ Unraced
      /\ UNCHANGED <<log, schedules, claims, raced>> /\ misreported \subseteq misreported'
  BY DEF VestingIndInv
<1>1. TablesSafe'
  BY <1>0 DEF TablesSafe, Misled, IsClaim, EventsOf, Transactions
<1>2. CoveredIsDealtWith'
  BY <1>0 DEF CoveredIsDealtWith, DealtWith, SchedulesOf
<1>3. ASSUME ~raced PROVE OneScheduleEach' /\ SavesTheSum' /\ SumOrUncovered' /\ TotalOrUncovered'
  <2>1. OneScheduleEach' /\ SavesTheSum'
    BY <1>0, <1>3 DEF Unraced, OneScheduleEach
  <2>2. \A s : Claimed(s)' = Claimed(s) /\ RowsOf(s)' = RowsOf(s)
    BY <1>0 DEF Claimed, RowsOf
  <2>3. SumOrUncovered'
    <3>1. \A s \in DOMAIN schedules : Outstanding(s) \subseteq Outstanding(s)'
      BY <1>0, <2>2 DEF Outstanding, EventsOf
    <3>2. SumOrUncovered
      BY <1>0, <1>3 DEF Unraced
    <3> QED
      BY <1>0, <2>2, <3>1, <3>2 DEF SumOrUncovered
  <2>4. TotalOrUncovered'
    <3>1. \A w, t : EventsOf(w, t)' = EventsOf(w, t)
      BY <1>0 DEF EventsOf
    <3>2. TotalOrUncovered
      BY <1>0, <1>3 DEF Unraced
    <3> QED
      BY <1>0, <3>1, <3>2 DEF TotalOrUncovered
  <2> QED
    BY <2>1, <2>3, <2>4
<1>4. Unraced'
  BY <1>0, <1>3 DEF Unraced
<1> QED
  BY <1>1, <1>2, <1>4 DEF VestingIndInv

LEMMA StayGrows ==
    ASSUME UNCHANGED vestingVars
    PROVE  Grows
BY DEF Grows, SchedulesOf, vestingVars

LEMMA StayLog ==
    ASSUME LogSafe, UNCHANGED <<contract, log, users, faults, raced, misreported>>
    PROVE  LogSafe'
BY DEF LogSafe, LogInOrder, Transactions

LEMMA StaySums ==
    ASSUME UNCHANGED claims, \A d \in Callers : At(d, "save")' => At(d, "save") /\ call'[d] = call[d]
    PROVE  SavesTheSum => SavesTheSum'
<1>1. \A s : Claimed(s)' = Claimed(s)
  BY DEF Claimed, RowsOf
<1> QED
  BY <1>1 DEF SavesTheSum

LEMMA Relabelled ==
    ASSUME NEW k \in Worker, NEW label \in VestingLabels, NEW p \in Nat, NEW a \in Nat
    PROVE  /\ [k EXCEPT !.at = label] \in Worker /\ [k EXCEPT !.at = label, !.pick = p] \in Worker
           /\ [k EXCEPT !.at = label, !.amount = a] \in Worker
BY DEF Worker

LEMMA RelabelledFields ==
    ASSUME NEW k \in Worker, NEW label \in VestingLabels, NEW p \in Nat, NEW a \in Nat
    PROVE  /\ [k EXCEPT !.at = label].at = label
           /\ [k EXCEPT !.at = label, !.pick = p].at = label
           /\ [k EXCEPT !.at = label, !.amount = a].at = label
           /\ [k EXCEPT !.at = label].pick = k.pick /\ [k EXCEPT !.at = label].amount = k.amount
           /\ [k EXCEPT !.at = label, !.pick = p].pick = p
           /\ [k EXCEPT !.at = label, !.pick = p].amount = k.amount
           /\ [k EXCEPT !.at = label, !.amount = a].pick = k.pick
           /\ [k EXCEPT !.at = label, !.amount = a].amount = a
           /\ \A new \in {[k EXCEPT !.at = label], [k EXCEPT !.at = label, !.pick = p],
                          [k EXCEPT !.at = label, !.amount = a]} :
                /\ new.pos = k.pos /\ new.end = k.end /\ new.failed = k.failed /\ new.wallet = k.wallet
BY DEF Worker

(* A call goes on within its event and the tables stay as they are. *)
LEMMA CallGoesOn ==
    ASSUME VestingIndInv, LogSafe', UNCHANGED <<checkpoint, log, vestingVars>>,
           NEW c \in Callers, ~At(c, "idle"), NEW new \in Worker, call' = [call EXCEPT ![c] = new],
           new.pos = call[c].pos, new.end = call[c].end, new.failed = call[c].failed,
           GoodCall(c, new), new.at = "save" => new.amount = Claimed(new.pick)
    PROVE  VestingIndInv'
<1>0. LogSafe /\ WorkersSafe /\ Grows
  BY StayGrows DEF VestingIndInv
<1>1. GoodCall(c, new)'
  BY DEF GoodCall, InTables, FromChain, FromPage, IsClaim, EventsOf, SchedulesOf, vestingVars
<1>2. new.pos <= new.end
  BY <1>0, WorkerFacts
<1>3. WorkersSafe' /\ \A i \in DOMAIN log : Covered(i)' => Covered(i)
  BY <1>0, <1>1, <1>2, CallMoves
<1>4. SavesTheSum => SavesTheSum'
  <2>1. \A s : Claimed(s)' = Claimed(s)
    BY DEF Claimed, RowsOf, vestingVars
  <2>2. call'[c] = new /\ \A d \in Callers : d # c => call'[d] = call[d]
    BY <1>0 DEF WorkersSafe
  <2> QED
    BY <2>1, <2>2 DEF SavesTheSum, At
<1> QED
  BY <1>3, <1>4, Calm DEF vestingVars

(* Likewise with a new label only. *)
LEMMA CallIsAt ==
    ASSUME VestingIndInv, UNCHANGED <<contract, log, faults, vestingVars>>, users' \subseteq Buyers,
           NEW c \in Callers, ~At(c, "idle"), NEW label \in VestingLabels \ {"save"}, Goto(c, label),
           c \in Indexers /\ label \in {"schedule", "row", "insert", "sum"} => log[call[c].pos].type = "CLAIMED",
           label = "find" => c \in Fronts,
           c \in Indexers /\ label \in {"upsert", "write"} => log[call[c].pos].type = "ALLOCATED",
           call[c].at # "save",
           label \in {"row", "insert", "sum"} => call[c].pick \in SchedulesOf(call[c].wallet),
           label = "write" => call[c].pick = 0 \/ call[c].pick \in SchedulesOf(call[c].wallet),
           label = "sum" => call[c].pos \in DOMAIN claims
    PROVE  VestingIndInv'
<1>0. LogSafe /\ WorkersSafe /\ call[c] \in Worker /\ GoodCall(c, call[c])
  BY WorkerFacts DEF VestingIndInv
<1>1. LogSafe'
  BY <1>0 DEF LogSafe, LogInOrder, vestingVars, Transactions
<1>2. PICK new : new = [call[c] EXCEPT !.at = label]
  OBVIOUS
<1>3. /\ new \in Worker /\ new.at = label /\ new.pick = call[c].pick /\ new.amount = call[c].amount
      /\ new.pos = call[c].pos /\ new.end = call[c].end /\ new.failed = call[c].failed
      /\ new.wallet = call[c].wallet
  <2>1. new \in Worker
    BY <1>0, <1>2 DEF Worker
  <2> QED
    BY <1>0, <1>2, <2>1 DEF Worker
<1>4. call' = [call EXCEPT ![c] = new] /\ UNCHANGED checkpoint
  BY <1>2 DEF Goto
<1>5. c \in Fronts => c \notin Indexers
  BY MirrorAssumption
<1>6. GoodCall(c, new)
  BY <1>0, <1>3, <1>5 DEF GoodCall, InTables, FromChain, FromPage
<1>7. new.at # "save"
  BY <1>3
<1> QED
  BY <1>1, <1>3, <1>4, <1>6, <1>7, CallGoesOn

-----------------------------------------------------------------------------
(* The steps of a call that write nothing. *)
LEMMA FindUserVesting ==
    ASSUME VestingIndInv, NEW c \in Callers, FindUser(c, AfterUser(c)), UNCHANGED vestingVars
    PROVE  VestingIndInv'
<1>0. /\ LogSafe /\ WorkersSafe /\ At(c, "user") /\ ~At(c, "idle") /\ call[c].at = "user"
      /\ UNCHANGED <<contract, log, users, faults>>
  BY DEF VestingIndInv, FindUser, At, Stay
<1>1. GoodCall(c, call[c]) /\ users' \subseteq Buyers
  BY <1>0, WorkerFacts DEF LogSafe
<1>2. c \in Indexers => log[call[c].pos].type \in {"ALLOCATED", "CLAIMED"}
  BY <1>0, WorkerFacts, DealFacts DEF FromChain
<1>3. CASE call[c].wallet \in users
  <2>1. Goto(c, AfterUser(c))
    BY <1>3 DEF FindUser
  <2>2. CASE c \in Indexers /\ log[call[c].pos].type = "ALLOCATED"
    <3>1. AfterUser(c) = "upsert"
      BY <2>2 DEF AfterUser, Event
    <3> QED
      BY <1>0, <1>1, <2>1, <2>2, <3>1, CallIsAt DEF VestingLabels
  <2>3. CASE ~ (c \in Indexers /\ log[call[c].pos].type = "ALLOCATED")
    <3>1. AfterUser(c) = "schedule"
      BY <2>3 DEF AfterUser, Event
    <3>2. c \in Indexers => log[call[c].pos].type = "CLAIMED"
      BY <1>2, <2>3
    <3> QED
      BY <1>0, <1>1, <2>1, <3>1, <3>2, CallIsAt DEF VestingLabels
  <2> QED
    BY <2>2, <2>3
<1>4. CASE call[c].wallet \notin users
  <2>1. Goto(c, "create")
    BY <1>4 DEF FindUser
  <2> QED
    BY <1>0, <1>1, <2>1, CallIsAt DEF VestingLabels
<1> QED
  BY <1>3, <1>4

(* An event ends that was not dealt with, or that a report was about. *)
LEMMA EndsCalmly ==
    ASSUME VestingIndInv, UNCHANGED <<contract, log, users, faults, vestingVars>>,
           NEW c \in Callers, ~At(c, "idle"), NEW ok \in BOOLEAN, EndOfEvent(c, ok, "user"),
           ~ (c \in Indexers /\ ok /\ ~call[c].failed)
    PROVE  VestingIndInv'
<1>0. LogSafe /\ WorkersSafe /\ Grows /\ LogSafe'
  BY StayGrows, StayLog DEF VestingIndInv, vestingVars
<1>1. /\ WorkersSafe' /\ \A i \in DOMAIN log : Covered(i)' => Covered(i)
      /\ \A d \in Callers : At(d, "save")' => At(d, "save") /\ call'[d] = call[d]
  BY <1>0, EventEnds
<1> QED
  BY <1>0, <1>1, Calm, StaySums DEF vestingVars

LEMMA CreateUserVesting ==
    ASSUME VestingIndInv, NEW c \in Callers, CreateUser(c, AfterUser(c), "user"), UNCHANGED vestingVars
    PROVE  VestingIndInv'
<1>0. /\ LogSafe /\ WorkersSafe /\ At(c, "create") /\ ~At(c, "idle") /\ call[c].at = "create"
      /\ UNCHANGED <<contract, log, faults>>
  BY DEF VestingIndInv, CreateUser, At
<1>1. GoodCall(c, call[c]) /\ call[c].wallet \in Buyers
  BY <1>0, WorkerFacts DEF Worker
<1>2. c \in Indexers => log[call[c].pos].type \in {"ALLOCATED", "CLAIMED"}
  BY <1>0, WorkerFacts, DealFacts DEF FromChain
<1>3. CASE call[c].wallet \notin users
  <2>1. Goto(c, AfterUser(c)) /\ users' \subseteq Buyers
    BY <1>0, <1>1, <1>3 DEF CreateUser, LogSafe
  <2>2. CASE c \in Indexers /\ log[call[c].pos].type = "ALLOCATED"
    <3>1. AfterUser(c) = "upsert"
      BY <2>2 DEF AfterUser, Event
    <3> QED
      BY <1>0, <1>1, <2>1, <2>2, <3>1, CallIsAt DEF VestingLabels
  <2>3. CASE ~ (c \in Indexers /\ log[call[c].pos].type = "ALLOCATED")
    <3>1. AfterUser(c) = "schedule"
      BY <2>3 DEF AfterUser, Event
    <3>2. c \in Indexers => log[call[c].pos].type = "CLAIMED"
      BY <1>2, <2>3
    <3> QED
      BY <1>0, <1>1, <2>1, <3>1, <3>2, CallIsAt DEF VestingLabels
  <2> QED
    BY <2>2, <2>3
<1>4. CASE call[c].wallet \in users
  <2>1. EndOfEvent(c, FALSE, "user") /\ UNCHANGED users
    BY <1>4 DEF CreateUser
  <2> QED
    BY <1>0, <2>1, EndsCalmly
<1> QED
  BY <1>3, <1>4

LEMMA FindClaimVesting ==
    ASSUME VestingIndInv, NEW c \in Callers, FindClaim(c)
    PROVE  VestingIndInv'
<1>0. /\ LogSafe /\ WorkersSafe /\ At(c, "find") /\ ~At(c, "idle") /\ call[c].at = "find"
      /\ UNCHANGED <<contract, log, users, faults, vestingVars>>
  BY DEF VestingIndInv, FindClaim, At, Stay
<1>1. GoodCall(c, call[c]) /\ users' \subseteq Buyers
  BY <1>0, WorkerFacts DEF LogSafe
<1>2. c \notin Indexers
  BY <1>0, <1>1 DEF GoodCall, FromChain
<1>3. CASE call[c].pos \in DOMAIN claims
  <2>1. EndOfEvent(c, TRUE, "user")
    BY <1>3 DEF FindClaim
  <2> QED
    BY <1>0, <1>2, <2>1, EndsCalmly
<1>4. CASE call[c].pos \notin DOMAIN claims
  <2>1. Goto(c, "user")
    BY <1>4 DEF FindClaim
  <2> QED
    BY <1>0, <1>1, <1>2, <2>1, CallIsAt DEF VestingLabels
<1> QED
  BY <1>3, <1>4

LEMMA FindRowVesting ==
    ASSUME VestingIndInv, NEW c \in Callers, FindRow(c)
    PROVE  VestingIndInv'
<1>0. /\ LogSafe /\ WorkersSafe /\ At(c, "row") /\ ~At(c, "idle") /\ call[c].at = "row"
      /\ UNCHANGED <<contract, log, users, faults, vestingVars>>
  BY DEF VestingIndInv, FindRow, At, Stay
<1>1. GoodCall(c, call[c]) /\ users' \subseteq Buyers
  BY <1>0, WorkerFacts DEF LogSafe
<1>2. /\ c \in Indexers => log[call[c].pos].type = "CLAIMED"
      /\ call[c].pick \in SchedulesOf(call[c].wallet)
  BY <1>0, <1>1 DEF GoodCall, InTables, FromChain
<1>3. CASE call[c].pos \in DOMAIN claims
  <2>1. Goto(c, "sum")
    BY <1>3 DEF FindRow
  <2> QED
    BY <1>0, <1>1, <1>2, <1>3, <2>1, CallIsAt DEF VestingLabels
<1>4. CASE call[c].pos \notin DOMAIN claims
  <2>1. Goto(c, "insert")
    BY <1>4 DEF FindRow
  <2> QED
    BY <1>0, <1>1, <1>2, <2>1, CallIsAt DEF VestingLabels
<1> QED
  BY <1>3, <1>4

(* A schedule is found, or its absence. *)
LEMMA CallPicks ==
    ASSUME VestingIndInv, UNCHANGED <<contract, log, users, faults, vestingVars>>,
           NEW c \in Callers, ~At(c, "idle"), NEW s \in Nat, NEW label \in {"row", "write"}, Pick(c, s, label),
           label = "row" => s \in SchedulesOf(call[c].wallet),
           c \in Indexers /\ label = "row" => log[call[c].pos].type = "CLAIMED",
           c \in Indexers /\ label = "write" => log[call[c].pos].type = "ALLOCATED",
           s = 0 \/ s \in SchedulesOf(call[c].wallet), call[c].at # "save"
    PROVE  VestingIndInv'
<1>0. /\ LogSafe /\ WorkersSafe /\ call[c] \in Worker /\ GoodCall(c, call[c]) /\ LogSafe'
      /\ label \in VestingLabels /\ label \notin {"save", "schedule", "insert", "sum", "find", "upsert"}
  BY WorkerFacts, StayLog DEF VestingIndInv, VestingLabels, vestingVars
<1>1. PICK new : new = [call[c] EXCEPT !.at = label, !.pick = s]
  OBVIOUS
<1>2. /\ new \in Worker /\ new.at = label /\ new.pick = s /\ new.amount = call[c].amount
      /\ new.pos = call[c].pos /\ new.end = call[c].end /\ new.failed = call[c].failed
      /\ new.wallet = call[c].wallet
  <2>1. new \in Worker
    BY <1>0, <1>1 DEF Worker
  <2> QED
    BY <1>0, <1>1, <2>1 DEF Worker
<1>3. call' = [call EXCEPT ![c] = new] /\ UNCHANGED checkpoint
  BY <1>1 DEF Pick
<1>5. GoodCall(c, new)
  BY <1>0, <1>2 DEF GoodCall, InTables, FromChain, FromPage
<1>6. new.at # "save"
  BY <1>0, <1>2
<1> QED
  BY <1>0, <1>2, <1>3, <1>5, <1>6, CallGoesOn

LEMMA FindForUpsertVesting ==
    ASSUME VestingIndInv, NEW c \in Callers, FindForUpsert(c)
    PROVE  VestingIndInv'
<1>0. /\ LogSafe /\ WorkersSafe /\ At(c, "upsert") /\ ~At(c, "idle") /\ call[c].at = "upsert"
      /\ UNCHANGED <<contract, log, users, faults, vestingVars>>
  BY DEF VestingIndInv, FindForUpsert, At, Stay
<1>1. GoodCall(c, call[c])
  BY <1>0, WorkerFacts
<1>2. PICK s : Pick(c, s, "write") /\ (s = 0 \/ s \in SchedulesOf(call[c].wallet))
  BY DEF FindForUpsert
<1>3. s \in Nat
  BY <1>2, ScheduleFacts DEF SchedulesOf, VestingIndInv
<1>4. c \in Indexers => log[call[c].pos].type = "ALLOCATED"
  BY <1>0, <1>1 DEF GoodCall, FromChain
<1> QED
  BY <1>0, <1>2, <1>3, <1>4, CallPicks

(* A run without a failure finds the schedule of a claim's allocation. *)
LEMMA FindScheduleVesting ==
    ASSUME VestingIndInv, NEW c \in Callers, FindSchedule(c)
    PROVE  VestingIndInv'
<1>0. /\ LogSafe /\ WorkersSafe /\ At(c, "schedule") /\ ~At(c, "idle") /\ call[c].at = "schedule"
      /\ UNCHANGED <<contract, log, users, faults, vestingVars>>
  BY DEF VestingIndInv, FindSchedule, At, Stay
<1>1. GoodCall(c, call[c]) /\ users' \subseteq Buyers
  BY <1>0, WorkerFacts DEF LogSafe
<1>2. c \in Indexers => log[call[c].pos].type = "CLAIMED"
  BY <1>0, <1>1 DEF GoodCall, FromChain
<1>3. ASSUME NEW s \in SchedulesOf(call[c].wallet), Pick(c, s, "row") PROVE VestingIndInv'
  <2>1. s \in Nat
    BY <1>3, ScheduleFacts DEF SchedulesOf, VestingIndInv
  <2> QED
    BY <1>0, <1>2, <1>3, <2>1, CallPicks
<1>4. CASE SchedulesOf(call[c].wallet) = {} /\ c \in Fronts /\ Goto(c, "upsert")
  <2>1. c \notin Indexers
    BY <1>4, MirrorAssumption
  <2> QED
    BY <1>0, <1>1, <1>4, <2>1, CallIsAt DEF VestingLabels
<1>5. CASE SchedulesOf(call[c].wallet) = {} /\ c \notin Fronts /\ EndOfEvent(c, TRUE, "user")
  <2>0. FromChain(call[c])
    BY <1>0, <1>1, <1>5 DEF GoodCall, Callers
  <2>1. PICK j \in DOMAIN log : j < call[c].pos /\ log[j].type = "ALLOCATED" /\ log[j].wallet = call[c].wallet
    BY <1>0, <1>2, <1>5, <2>0 DEF LogSafe, LogInOrder, FromChain, Callers
  <2>2. ~DealtWith(j)
    BY <1>5, <2>1 DEF DealtWith
  <2>3. ~Covered(j)
    BY <2>2 DEF VestingIndInv, CoveredIsDealtWith
  <2>4. c \in Indexers => call[c].failed
    BY <1>0, <2>1, <2>3 DEF Covered
  <2> QED
    BY <1>0, <1>5, <2>4, EndsCalmly
<1> QED
  BY <1>3, <1>4, <1>5 DEF FindSchedule

LEMMA SumRowsVesting ==
    ASSUME VestingIndInv, NEW c \in Callers, SumRows(c)
    PROVE  VestingIndInv'
<1>0. /\ LogSafe /\ WorkersSafe /\ TablesSafe /\ At(c, "sum") /\ ~At(c, "idle") /\ call[c].at = "sum"
      /\ UNCHANGED <<contract, log, users, faults, checkpoint, vestingVars>>
  BY DEF VestingIndInv, SumRows, At, Stay
<1>1. call[c] \in Worker /\ GoodCall(c, call[c]) /\ LogSafe'
  BY <1>0, WorkerFacts, StayLog DEF vestingVars
<1>2. PICK sum : sum = Claimed(call[c].pick)
  OBVIOUS
<1>3. sum \in Nat
  BY <1>0, <1>2, ClaimedFacts
<1>4. PICK new : new = [call[c] EXCEPT !.at = "save", !.amount = sum]
  OBVIOUS
<1>5. /\ new \in Worker /\ new.at = "save" /\ new.pick = call[c].pick /\ new.amount = sum
      /\ new.pos = call[c].pos /\ new.end = call[c].end /\ new.failed = call[c].failed
      /\ new.wallet = call[c].wallet
  <2>1. new \in Worker
    BY <1>1, <1>3, <1>4 DEF Worker, VestingLabels
  <2> QED
    BY <1>1, <1>4, <2>1 DEF Worker
<1>6. call' = [call EXCEPT ![c] = new]
  BY <1>2, <1>4 DEF SumRows
<1>7. GoodCall(c, new)
  BY <1>0, <1>1, <1>5 DEF GoodCall, InTables, FromChain, FromPage
<1> QED
  BY <1>0, <1>1, <1>2, <1>5, <1>6, <1>7, CallGoesOn

-----------------------------------------------------------------------------
(* A call starts or dies, and an event is emitted. *)
LEMMA CallStarts ==
    ASSUME VestingIndInv, UNCHANGED <<contract, log, users, faults, checkpoint, vestingVars>>,
           NEW c \in Callers, At(c, "idle"), NEW new \in Worker, call' = [call EXCEPT ![c] = new],
           new.pos <= new.end, GoodCall(c, new), new.at # "save",
           c \in Indexers => new.pos = checkpoint + 1
    PROVE  VestingIndInv'
<1>0. LogSafe /\ WorkersSafe /\ Grows /\ LogSafe'
  BY StayGrows, StayLog DEF VestingIndInv, vestingVars
<1>1. GoodCall(c, new)'
  BY DEF GoodCall, InTables, FromChain, FromPage, IsClaim, EventsOf, SchedulesOf, vestingVars
<1>2. WorkersSafe' /\ \A i \in DOMAIN log : Covered(i)' => Covered(i)
  BY <1>0, <1>1, CallMoves
<1>3. call'[c] = new /\ \A d \in Callers : d # c => call'[d] = call[d]
  BY <1>0 DEF WorkersSafe
<1>4. \A d \in Callers : At(d, "save")' => At(d, "save") /\ call'[d] = call[d]
  BY <1>3 DEF At
<1> QED
  BY <1>0, <1>2, <1>4, Calm, StaySums DEF vestingVars

LEMMA StartRunVesting ==
    ASSUME VestingIndInv, NEW c \in Callers, StartRun(c, "user"), UNCHANGED vestingVars
    PROVE  VestingIndInv'
<1>0. /\ LogSafe /\ WorkersSafe /\ At(c, "idle") /\ c \in Indexers /\ c \notin Fronts /\ checkpoint < Len(log)
      /\ UNCHANGED <<contract, log, users, faults, checkpoint>>
  BY MirrorAssumption DEF VestingIndInv, StartRun, Stay
<1>1. checkpoint \in Nat /\ Len(log) \in Nat /\ DOMAIN log = 1..Len(log) /\ EventsPerRun \in Nat \ {0}
  BY <1>0, DealFacts, MirrorAssumption DEF WorkersSafe
<1>2. PICK end : /\ end = IF checkpoint + EventsPerRun < Len(log) THEN checkpoint + EventsPerRun ELSE Len(log)
                 /\ call' = [call EXCEPT ![c] = Handle(c, "user", checkpoint + 1, end, FALSE)]
  BY DEF StartRun
<1>3. checkpoint + 1 \in DOMAIN log /\ end \in DOMAIN log /\ checkpoint + 1 <= end
  <2>1. end \in Nat /\ checkpoint + 1 <= end /\ end <= Len(log)
    <3>1. CASE checkpoint + EventsPerRun < Len(log)
      BY <1>1, <1>2, <3>1
    <3>2. CASE ~ checkpoint + EventsPerRun < Len(log)
      BY <1>0, <1>1, <1>2, <3>2
    <3> QED
      BY <3>1, <3>2
  <2> QED
    BY <1>0, <1>1, <2>1
<1>4. PICK new : new = Handle(c, "user", checkpoint + 1, end, FALSE)
  OBVIOUS
<1>5. log[checkpoint + 1].wallet \in Buyers /\ log[checkpoint + 1].amount \in Nat
  BY <1>0, <1>3, DealFacts
<1>6. new \in Worker
  <2>1. checkpoint + 1 \in Transactions /\ end \in Transactions
    BY <1>0, <1>1, <1>3, MirrorAssumption DEF Transactions, LogSafe
  <2> QED
    BY <1>4, <1>5, <2>1 DEF Handle, Worker, VestingLabels
<1>7. /\ new.at = "user" /\ new.pos = checkpoint + 1 /\ new.end = end
      /\ new.wallet = log[new.pos].wallet /\ new.amount = log[new.pos].amount
  BY <1>4 DEF Handle
<1>9. GoodCall(c, new)
  BY <1>0, <1>3, <1>7 DEF GoodCall, InTables, FromChain
<1>10. new.at # "save"
  BY <1>7
<1> QED
  BY <1>0, <1>2, <1>3, <1>4, <1>6, <1>7, <1>9, <1>10, CallStarts

LEMMA ClaimVestingVesting ==
    ASSUME VestingIndInv, NEW f \in Fronts, NEW i \in Transactions, NEW w \in Buyers,
           NEW a \in PostedAmounts, claimVesting(f, i, w, a)
    PROVE  VestingIndInv'
<1>0. /\ LogSafe /\ WorkersSafe /\ TablesSafe /\ At(f, "idle") /\ f \in Callers /\ f \notin Indexers
      /\ UNCHANGED <<contract, log, users, faults, checkpoint, schedules, claims, raced>>
      /\ misreported \subseteq misreported' /\ misreported' \subseteq misreported \cup {i}
  BY MirrorAssumption DEF VestingIndInv, claimVesting, StartReport, Stay, Callers
<1>1. Grows /\ LogSafe'
  BY <1>0 DEF Grows, SchedulesOf, LogSafe, LogInOrder, Transactions
<1>2. i \in Nat /\ a \in Nat
  BY MirrorAssumption, VestingAssumption DEF Transactions
<1>3. PICK new : new = Report("find", i, w, a)
  OBVIOUS
<1>4. /\ new.at = "find" /\ new.pos = i /\ new.end = i /\ new.wallet = w /\ new.amount = a
      /\ new \in Worker
  BY <1>2, <1>3 DEF Report, Worker, VestingLabels
<1>5. call' = [call EXCEPT ![f] = new]
  BY <1>3 DEF claimVesting, StartReport
<1>6. FromPage(new)'
  <2>1. CASE IsClaim(i, w, a) \/ i \in DOMAIN claims
    BY <1>0, <1>4, <2>1 DEF FromPage, IsClaim, EventsOf
  <2>2. CASE ~(IsClaim(i, w, a) \/ i \in DOMAIN claims)
    <3>1. i \in misreported'
      BY <2>2 DEF claimVesting
    <3> QED
      BY <1>4, <3>1 DEF FromPage
  <2> QED
    BY <2>1, <2>2
<1>7. GoodCall(f, new)'
  BY <1>0, <1>4, <1>6 DEF GoodCall, InTables, FromPage, IsClaim, EventsOf
<1>8. WorkersSafe' /\ \A j \in DOMAIN log : Covered(j)' => Covered(j)
  <2>1. new.pos <= new.end
    BY <1>2, <1>4
  <2> QED
    BY <1>0, <1>1, <1>4, <1>5, <1>7, <2>1, CallMoves
<1>9. \A d \in Callers : At(d, "save")' => At(d, "save") /\ call'[d] = call[d]
  <2>1. call'[f] = new /\ \A d \in Callers : d # f => call'[d] = call[d]
    BY <1>0, <1>5 DEF WorkersSafe
  <2> QED
    BY <1>4, <2>1 DEF At
<1> QED
  BY <1>0, <1>1, <1>8, <1>9, Calm, StaySums

LEMMA DieVesting ==
    ASSUME VestingIndInv, NEW c \in Callers, Die(c), UNCHANGED vestingVars
    PROVE  VestingIndInv'
<1>0. /\ LogSafe /\ WorkersSafe /\ Grows /\ UNCHANGED <<contract, log, checkpoint, users>>
      /\ call' = [call EXCEPT ![c] = Idle] /\ faults < MaxFaults /\ faults' = faults + 1
  BY StayGrows DEF VestingIndInv, Die
<1>1. LogSafe'
  <2>1. faults' \in 0..MaxFaults
    BY <1>0, MirrorAssumption DEF LogSafe
  <2> QED
    BY <1>0, <2>1 DEF LogSafe, LogInOrder, vestingVars, Transactions
<1>2. /\ call \in [Callers -> {Idle} \cup Worker] /\ Worker' = Worker
      /\ call' \in [Callers -> {Idle} \cup Worker]
      /\ call'[c] = Idle /\ \A d \in Callers : d # c => call'[d] = call[d]
  BY <1>0 DEF WorkersSafe, Worker, Transactions
<1>3. At(c, "idle")' /\ \A d \in Callers : call'[d].pos <= call'[d].end
  BY <1>0, <1>2, IdleIs DEF At, WorkersSafe
<1>4. WorkersSafe'
  BY <1>0, <1>2, <1>3, OthersStayGood DEF WorkersSafe
<1>5. \A i \in DOMAIN log : Covered(i)' => Covered(i)
  BY <1>0, <1>2, <1>3 DEF Covered, At, Callers
<1>6. \A d \in Callers : At(d, "save")' => At(d, "save") /\ call'[d] = call[d]
  BY <1>2, IdleIs DEF At
<1> QED
  BY <1>0, <1>1, <1>4, <1>5, <1>6, Calm, StaySums DEF vestingVars

LEMMA EmitVesting ==
    ASSUME VestingIndInv, NEW e \in Deal, Emit(e), UNCHANGED vestingVars, e.amount > 0,
           e.type = "CLAIMED" => EventsOf(e.wallet, "ALLOCATED") # {}
    PROVE  VestingIndInv'
<1>0. /\ LogSafe /\ TablesSafe /\ WorkersSafe /\ CoveredIsDealtWith /\ Unraced
      /\ Len(log) < MaxLog /\ UNCHANGED <<contract, checkpoint, users, call, faults, vestingVars>>
      /\ UNCHANGED <<schedules, claims, raced, misreported>>
  BY DEF VestingIndInv, Emit, vestingVars
<1> DEFINE n == Len(log) + 1
<1>1. log \in Seq(Deal) /\ Len(log) \in Nat /\ DOMAIN log = 1..Len(log)
  BY <1>0, DealFacts DEF LogSafe
<1>2. /\ log' \in Seq(Deal) /\ Len(log') = n /\ DOMAIN log' = 1..n /\ log'[n] = e
      /\ \A i \in DOMAIN log : log'[i] = log[i]
  <2>1. log' = Append(log, e)
    BY DEF Emit
  <2> QED
    BY <1>1, <2>1, AppendProperties
<1> HIDE DEF n
<1>3. n \notin DOMAIN log /\ DOMAIN log' = DOMAIN log \cup {n} /\ n \in Nat /\ \A i \in DOMAIN log : i < n
  BY <1>1, <1>2 DEF n
<1>4. LogSafe'
  <2>1. LogInOrder'
    <3> SUFFICES ASSUME NEW i \in DOMAIN log'
                 PROVE  /\ log'[i].amount > 0
                        /\ log'[i].type = "CLAIMED" =>
                             \E j \in DOMAIN log' : /\ j < i /\ log'[j].type = "ALLOCATED"
                                                    /\ log'[j].wallet = log'[i].wallet
      BY DEF LogInOrder
    <3>1. CASE i \in DOMAIN log
      BY <1>0, <1>2, <1>3, <3>1 DEF LogSafe, LogInOrder
    <3>2. CASE i = n
      BY <1>2, <1>3, <3>2 DEF EventsOf
    <3> QED
      BY <1>3, <3>1, <3>2
  <2>2. Len(log') <= MaxLog
    BY <1>0, <1>1, <1>2, MirrorAssumption DEF n
  <2> QED
    BY <1>0, <1>2, <2>1, <2>2 DEF LogSafe, Transactions
<1>5. WorkersSafe'
  <2>1. Worker' = Worker
    BY DEF Worker, Transactions
  <2>2. call' \in [Callers -> {Idle} \cup Worker']
    BY <1>0, <2>1 DEF WorkersSafe
  <2>3. checkpoint' \in 0..Len(log')
    BY <1>0, <1>1, <1>2 DEF WorkersSafe, n
  <2>4. ASSUME NEW d \in Callers PROVE At(d, "idle")' \/ GoodCall(d, call[d])'
    <3>1. CASE At(d, "idle")
      BY <1>0, <3>1 DEF At
    <3>2. CASE ~At(d, "idle")
      <4>1. GoodCall(d, call[d])
        BY <1>0, <3>2, WorkerFacts
      <4>2. \A w : SchedulesOf(w)' = SchedulesOf(w)
        BY <1>0 DEF SchedulesOf
      <4>3. InTables(call[d])'
        BY <1>0, <4>1, <4>2 DEF GoodCall, InTables
      <4>4. d \in Indexers => FromChain(call[d])'
        BY <1>0, <1>2, <1>3, <4>1 DEF GoodCall, FromChain
      <4>5. d \in Fronts => FromPage(call[d])'
        BY <1>0, <1>2, <1>3, <4>1 DEF GoodCall, FromPage, IsClaim, EventsOf
      <4> QED
        BY <4>3, <4>4, <4>5 DEF GoodCall
    <3> QED
      BY <3>1, <3>2
  <2> QED
    BY <1>0, <2>2, <2>3, <2>4 DEF WorkersSafe
<1>6. \A i : Covered(i)' = Covered(i)
  BY <1>0 DEF Covered, At
<1>7. ~Covered(n)
  <2>1. ~ n <= checkpoint
    BY <1>0, <1>1 DEF WorkersSafe, n
  <2>2. ASSUME NEW r \in Indexers, ~At(r, "idle"), n < call[r].pos PROVE FALSE
    <3>1. call[r].pos \in DOMAIN log
      BY <1>0, <2>2, WorkerFacts DEF Callers, FromChain
    <3> QED
      BY <1>1, <2>2, <3>1 DEF n
  <2> QED
    BY <2>1, <2>2 DEF Covered
<1>8. TablesSafe'
  <2> SUFFICES ASSUME NEW i \in DOMAIN claims
               PROVE  /\ claims[i] \in [schedule : DOMAIN schedules, amount : Nat, reported : BOOLEAN]
                      /\ ~Misled(i) => IsClaim(i, schedules[claims[i].schedule].wallet, claims[i].amount)'
                      /\ ~claims[i].reported => claims[i].amount = log'[i].amount
    BY <1>0 DEF TablesSafe, Misled, Transactions
  <2>1. CASE Misled(i)
    BY <1>0, <2>1 DEF TablesSafe, Misled
  <2>2. CASE ~Misled(i)
    BY <1>0, <1>2, <1>3, <2>2 DEF TablesSafe, IsClaim, EventsOf
  <2> QED
    BY <2>1, <2>2
<1>9. CoveredIsDealtWith'
  BY ZenonT(40), <1>0, <1>2, <1>3, <1>6, <1>7 DEF CoveredIsDealtWith, DealtWith, SchedulesOf
<1>10. ASSUME ~raced PROVE OneScheduleEach' /\ SavesTheSum' /\ SumOrUncovered' /\ TotalOrUncovered'
  <2>0. OneScheduleEach /\ SavesTheSum /\ SumOrUncovered /\ TotalOrUncovered
    BY <1>0, <1>10 DEF Unraced
  <2>1. \A s : Claimed(s)' = Claimed(s) /\ RowsOf(s)' = RowsOf(s)
    BY <1>0 DEF Claimed, RowsOf
  <2>2. OneScheduleEach' /\ SavesTheSum'
    BY <1>0, <2>0, <2>1 DEF OneScheduleEach, SavesTheSum, At
  <2>3. SumOrUncovered'
    <3>1. ASSUME NEW s \in DOMAIN schedules PROVE Outstanding(s) \subseteq Outstanding(s)'
      <4> SUFFICES ASSUME NEW i \in RowsOf(s), Covered(i), i \notin EventsOf(schedules[s].wallet, "CLAIMED")
                   PROVE  i \notin EventsOf(schedules[s].wallet, "CLAIMED")'
        BY <1>0, <1>6, <2>1 DEF Outstanding
      <4>1. i # n
        BY <1>7
      <4> QED
        BY <1>0, <1>2, <1>3, <4>1 DEF EventsOf
    <3> QED
      BY <1>0, <2>0, <2>1, <3>1 DEF SumOrUncovered
  <2>4. ASSUME NEW s \in DOMAIN schedules, NEW j \in DOMAIN log',
               EventsOf(schedules[s].wallet, "ALLOCATED")' = {j}, Covered(j)
        PROVE  schedules[s].total = log'[j].amount
    <3>1. j # n /\ j \in DOMAIN log /\ log'[j] = log[j]
      BY <1>2, <1>3, <1>7, <2>4
    <3>2. EventsOf(schedules[s].wallet, "ALLOCATED") = {j}
      BY <1>0, <1>2, <1>3, <2>4, <3>1 DEF EventsOf
    <3> QED
      BY <2>0, <2>4, <3>1, <3>2 DEF TotalOrUncovered
  <2>5. TotalOrUncovered'
    BY <1>0, <1>6, <2>4 DEF TotalOrUncovered
  <2> QED
    BY <2>2, <2>3, <2>5
<1> QED
  BY <1>0, <1>4, <1>5, <1>8, <1>9, <1>10 DEF VestingIndInv, Unraced

(* Sums of events. *)
LEMMA OnChainFacts ==
    ASSUME LogSafe, NEW w, NEW type
    PROVE  /\ OnChain(w, type) \in Nat
           /\ EventsOf(w, type) = {} => OnChain(w, type) = 0
           /\ \A j : EventsOf(w, type) = {j} => OnChain(w, type) = log[j].amount
<1> DEFINE f == [i \in DOMAIN log |-> log[i].amount]
<1>1. IsFiniteSet(EventsOf(w, type))
  <2>1. IsFiniteSet(1..Len(log)) /\ EventsOf(w, type) \subseteq 1..Len(log)
    BY DealFacts, DealsAreFinite DEF EventsOf
  <2> QED
    BY <2>1, FS_Subset
<1>2. \A i \in EventsOf(w, type) : f[i] \in Nat /\ f[i] = log[i].amount
  BY DealFacts DEF EventsOf
<1>3. OnChain(w, type) = SumFunctionOnSet(f, EventsOf(w, type))
  BY DEF OnChain
<1> HIDE DEF f
<1>4. OnChain(w, type) \in Nat
  BY <1>1, <1>2, <1>3, SumOfNaturals
<1>5. ASSUME NEW j, EventsOf(w, type) = {j} PROVE OnChain(w, type) = log[j].amount
  <2>1. SumFunctionOnSet(f, {j}) = f[j] + SumFunctionOnSet(f, {j} \ {j})
    BY <1>1, <1>2, <1>5, SumSplits
  <2>2. {j} \ {j} = {} /\ f[j] = log[j].amount /\ log[j].amount \in Nat
    BY <1>2, <1>5
  <2> QED
    BY <1>3, <1>5, <2>1, <2>2, SumOfNothing
<1> QED
  BY <1>3, <1>4, <1>5, SumOfNothing

LEMMA AllocatedVesting ==
    ASSUME VestingIndInv, NEW w \in Beneficiaries, NEW a \in GrantSizes, Allocated(w, a)
    PROVE  VestingIndInv'
<1> DEFINE e == [type |-> "ALLOCATED", wallet |-> w, amount |-> a]
<1>1. e \in Deal /\ e.amount > 0 /\ e.type # "CLAIMED"
  BY VestingAssumption DEF Deal
<1>2. Emit(e) /\ UNCHANGED vestingVars
  BY DEF Allocated
<1> HIDE DEF e
<1> QED
  BY <1>1, <1>2, EmitVesting

LEMMA ClaimedOnChainVesting ==
    ASSUME VestingIndInv, NEW w \in Beneficiaries, NEW a \in Nat \ {0}, ClaimedOnChain(w, a)
    PROVE  VestingIndInv'
<1> DEFINE e == [type |-> "CLAIMED", wallet |-> w, amount |-> a]
<1>1. e \in Deal /\ e.amount > 0 /\ e.wallet = w
  BY VestingAssumption DEF Deal
<1>2. Emit(e) /\ UNCHANGED vestingVars /\ OnChain(w, "ALLOCATED") >= OnChain(w, "CLAIMED") + a
  BY DEF ClaimedOnChain
<1>3. EventsOf(w, "ALLOCATED") # {}
  <2>1. LogSafe
    BY DEF VestingIndInv
  <2>2. OnChain(w, "CLAIMED") \in Nat /\ (EventsOf(w, "ALLOCATED") = {} => OnChain(w, "ALLOCATED") = 0)
    BY <2>1, OnChainFacts
  <2> QED
    BY <1>2, <2>2
<1> HIDE DEF e
<1> QED
  BY <1>1, <1>2, <1>3, EmitVesting

-----------------------------------------------------------------------------
(* The steps that write. *)

(* upsertSchedule.  Creating beside a schedule of the wallet, or a report  *)
(* overwriting one, is a race; what else is written is the allocation's.   *)
LEMMA WriteScheduleTables ==
    ASSUME VestingIndInv, NEW c \in Callers, At(c, "write"), WriteSchedule(c), UNCHANGED log,
           NEW w, w = call[c].wallet
    PROVE  /\ Grows /\ TablesSafe' /\ UNCHANGED <<claims, misreported>>
           /\ SchedulesOf(w)' # {}
           /\ call[c].pick = 0 => Len(schedules) + 1 \in SchedulesOf(w)'
           /\ \A s \in DOMAIN schedules' : Claimed(s)' = Claimed(s) /\ RowsOf(s)' = RowsOf(s)
           /\ \A s \in DOMAIN schedules :
                /\ s \in DOMAIN schedules' /\ schedules'[s].wallet = schedules[s].wallet
                /\ schedules'[s].claimed = schedules[s].claimed
                /\ s # call[c].pick => schedules'[s] = schedules[s]
           /\ \A s \in DOMAIN schedules' \ DOMAIN schedules :
                /\ call[c].pick = 0 /\ schedules'[s].wallet = call[c].wallet /\ RowsOf(s) = {}
                /\ schedules'[s].claimed = 0 /\ schedules'[s].total = TotalWritten(c) /\ Claimed(s) = 0
                /\ s = Len(schedules) + 1
           /\ call[c].pick # 0 => schedules'[call[c].pick].total = TotalWritten(c)
<1>0. /\ LogSafe /\ TablesSafe /\ WorkersSafe /\ ~At(c, "idle") /\ call[c].at = "write"
      /\ UNCHANGED <<claims, misreported>>
  BY DEF VestingIndInv, At, WriteSchedule
<1>1. call[c] \in Worker /\ GoodCall(c, call[c])
  BY <1>0, WorkerFacts
<1>2. /\ schedules \in Seq(Schedule) /\ Len(schedules) \in Nat /\ DOMAIN schedules = 1..Len(schedules)
      /\ \A s \in DOMAIN schedules : schedules[s] \in Schedule
  BY <1>0, ScheduleFacts DEF TablesSafe
<1>3. TotalWritten(c) \in Nat /\ call[c].wallet \in Buyers
  BY <1>1 DEF TotalWritten, Worker
<1>4. \A s : Claimed(s)' = Claimed(s) /\ RowsOf(s)' = RowsOf(s)
  BY <1>0 DEF Claimed, RowsOf
<1>5. CASE call[c].pick = 0
  <2> DEFINE new == [wallet |-> call[c].wallet, total |-> TotalWritten(c), claimed |-> 0]
             n == Len(schedules) + 1
  <2>1. schedules' = Append(schedules, new)
    BY <1>5 DEF WriteSchedule
  <2>2. new \in Schedule
    BY <1>3 DEF Schedule
  <2>3. /\ schedules' \in Seq(Schedule) /\ Len(schedules') = n /\ DOMAIN schedules' = 1..n
        /\ schedules'[n] = new /\ \A s \in DOMAIN schedules : schedules'[s] = schedules[s]
    <3> HIDE DEF new
    <3> QED
      BY <1>2, <2>1, <2>2, AppendProperties
  <2>4. /\ n \notin DOMAIN schedules /\ DOMAIN schedules' = DOMAIN schedules \cup {n}
        /\ schedules'[n].wallet = call[c].wallet /\ schedules'[n].claimed = 0
        /\ schedules'[n].total = TotalWritten(c) /\ n \in SchedulesOf(w)'
    BY <1>2, <2>3 DEF SchedulesOf
  <2> HIDE DEF new
  <2>5. TablesSafe'
    BY <1>0, <2>3, <2>4 DEF TablesSafe, Misled, IsClaim, EventsOf, Transactions
  <2>6. RowsOf(n) = {}
    BY <1>0, <2>4 DEF RowsOf, TablesSafe
  <2>7. Claimed(n) = 0
    BY <1>0, <2>6, ClaimedFacts
  <2>8. Grows
    BY <1>0, <2>3, <2>4 DEF Grows, SchedulesOf
  <2>9. \A s \in DOMAIN schedules : s # 0
    BY <1>2
  <2> QED
    BY <1>0, <1>4, <1>5, <2>3, <2>4, <2>5, <2>6, <2>7, <2>8, <2>9
<1>6. CASE call[c].pick # 0
  <2> DEFINE s0 == call[c].pick
  <2>1. s0 \in DOMAIN schedules /\ schedules[s0].wallet = call[c].wallet
    BY <1>0, <1>1, <1>6 DEF GoodCall, InTables, SchedulesOf
  <2>2. PICK new : new = [schedules[s0] EXCEPT !.total = TotalWritten(c)]
    OBVIOUS
  <2>3. schedules' = [schedules EXCEPT ![s0] = new]
    BY <1>6, <2>2 DEF WriteSchedule
  <2>4. /\ new \in Schedule /\ new.wallet = schedules[s0].wallet /\ new.claimed = schedules[s0].claimed
        /\ new.total = TotalWritten(c)
    BY <1>2, <1>3, <2>1, <2>2 DEF Schedule
  <2>5. /\ schedules' \in Seq(Schedule) /\ DOMAIN schedules' = DOMAIN schedules
        /\ schedules'[s0] = new /\ \A s \in DOMAIN schedules : s # s0 => schedules'[s] = schedules[s]
    BY <1>2, <2>1, <2>3, <2>4, ExceptSeq
  <2>6. \A s \in DOMAIN schedules : /\ schedules'[s].wallet = schedules[s].wallet
                                    /\ schedules'[s].claimed = schedules[s].claimed
    BY <2>4, <2>5
  <2>7. TablesSafe'
    BY <1>0, <2>5, <2>6 DEF TablesSafe, Misled, IsClaim, EventsOf, Transactions
  <2>8. Grows /\ s0 \in SchedulesOf(w)'
    BY <1>0, <2>1, <2>5, <2>6 DEF Grows, SchedulesOf
  <2> QED
    BY <1>0, <1>4, <1>6, <2>4, <2>5, <2>6, <2>7, <2>8
<1> QED
  BY <1>5, <1>6

LEMMA WriteScheduleVesting ==
    ASSUME VestingIndInv, NEW c \in Callers, WriteSchedule(c)
    PROVE  VestingIndInv'
<1> DEFINE p == call[c].pos
<1>0. /\ LogSafe /\ TablesSafe /\ WorkersSafe /\ CoveredIsDealtWith /\ Unraced
      /\ At(c, "write") /\ ~At(c, "idle") /\ call[c].at = "write" /\ raced \in BOOLEAN
      /\ UNCHANGED <<contract, log, users, faults, claims, misreported>>
  BY DEF VestingIndInv, WriteSchedule, At, Stay, LogSafe
<1>1. call[c] \in Worker /\ GoodCall(c, call[c])
  BY <1>0, WorkerFacts
<1>2. PICK w : w = call[c].wallet
  OBVIOUS
<1>3. /\ Grows /\ TablesSafe' /\ SchedulesOf(w)' # {}
      /\ call[c].pick = 0 => Len(schedules) + 1 \in SchedulesOf(w)'
      /\ \A s \in DOMAIN schedules :
           /\ s \in DOMAIN schedules' /\ schedules'[s].wallet = schedules[s].wallet
           /\ schedules'[s].claimed = schedules[s].claimed
           /\ s # call[c].pick => schedules'[s] = schedules[s]
      /\ \A s \in DOMAIN schedules' \ DOMAIN schedules :
           /\ call[c].pick = 0 /\ schedules'[s].wallet = w /\ RowsOf(s) = {}
           /\ schedules'[s].claimed = 0 /\ schedules'[s].total = TotalWritten(c) /\ Claimed(s) = 0
           /\ s = Len(schedules) + 1
      /\ call[c].pick # 0 => schedules'[call[c].pick].total = TotalWritten(c)
  BY <1>0, <1>2, WriteScheduleTables
<1>4. \A s : Claimed(s)' = Claimed(s) /\ RowsOf(s)' = RowsOf(s)
  BY <1>0 DEF Claimed, RowsOf
<1>5. LogSafe'
  <2>1. raced' \in BOOLEAN
    BY Zenon DEF WriteSchedule
  <2> QED
    BY <1>0, <2>1 DEF LogSafe, LogInOrder, Transactions
<1>6. c \in Indexers => /\ c \notin Fronts /\ p \in DOMAIN log /\ log[p].wallet = w
                        /\ log[p].type = "ALLOCATED" /\ TotalWritten(c) = log[p].amount
  BY <1>0, <1>1, <1>2, MirrorAssumption DEF GoodCall, FromChain, TotalWritten
<1>7. /\ WorkersSafe' /\ \A d \in Callers : At(d, "save")' => At(d, "save") /\ call'[d] = call[d]
      /\ \A i \in DOMAIN log : Covered(i)' => Covered(i) \/ (i = p /\ c \in Indexers)
  <2>1. CASE c \in Fronts
    <3> DEFINE s == IF call[c].pick = 0 THEN Len(schedules) + 1 ELSE call[c].pick
    <3>1. Pick(c, s, "row")
      BY <2>1 DEF WriteSchedule
    <3>2. s \in SchedulesOf(w)'
      <4>1. CASE call[c].pick = 0
        BY <1>3, <4>1
      <4>2. CASE call[c].pick # 0
        BY <1>0, <1>1, <1>2, <1>3, <4>2 DEF GoodCall, InTables, Grows
      <4> QED
        BY <4>1, <4>2
    <3>3. s \in Nat
      BY <1>1, <1>0, ScheduleFacts DEF Worker
    <3> HIDE DEF s
    <3>4. PICK new : new = [call[c] EXCEPT !.at = "row", !.pick = s]
      OBVIOUS
    <3>5. /\ new \in Worker /\ new.at = "row" /\ new.pick = s /\ new.amount = call[c].amount
          /\ new.pos = call[c].pos /\ new.end = call[c].end /\ new.failed = call[c].failed
          /\ new.wallet = call[c].wallet
      <4>1. new \in Worker
        BY <1>1, <3>3, <3>4 DEF Worker, VestingLabels
      <4> QED
        BY <1>1, <3>4, <4>1 DEF Worker
    <3>6. call' = [call EXCEPT ![c] = new] /\ UNCHANGED checkpoint
      BY <3>1, <3>4 DEF Pick
    <3>7. new.pick \in SchedulesOf(new.wallet)'
      <4>1. new.wallet = w
        BY <1>2, <3>5
      <4> QED
        BY <3>2, <3>5, <4>1 DEF SchedulesOf
    <3>8. GoodCall(c, new)'
      BY <1>0, <1>1, <1>6, <2>1, <3>5, <3>7 DEF GoodCall, InTables, FromPage, IsClaim, EventsOf
    <3>9. new.pos <= new.end
      BY <1>0, <3>5, WorkerFacts
    <3>10. WorkersSafe' /\ \A i \in DOMAIN log : Covered(i)' => Covered(i)
      BY <1>0, <1>3, <3>5, <3>6, <3>8, <3>9, CallMoves
    <3>11. call'[c] = new /\ \A d \in Callers : d # c => call'[d] = call[d]
      BY <1>0, <3>6 DEF WorkersSafe
    <3> QED
      BY <3>5, <3>10, <3>11 DEF At
  <2>2. CASE c \notin Fronts
    <3>1. EndOfEvent(c, TRUE, "user")
      BY <2>2 DEF WriteSchedule
    <3> QED
      BY <1>0, <1>3, <3>1, EventEnds
  <2> QED
    BY <2>1, <2>2
<1>8. CoveredIsDealtWith'
  <2> SUFFICES ASSUME NEW i \in DOMAIN log, Covered(i)' PROVE DealtWith(i)'
    BY <1>0 DEF CoveredIsDealtWith
  <2>1. CASE Covered(i)
    BY <1>0, <1>3, <2>1 DEF CoveredIsDealtWith, DealtWith, Grows
  <2>2. CASE i = p /\ c \in Indexers
    <3>1. log'[i].type = "ALLOCATED" /\ log'[i].wallet = w
      BY <1>0, <1>6, <2>2
    <3> QED
      BY <1>3, <3>1 DEF DealtWith, SchedulesOf
  <2> QED
    BY <1>7, <2>1, <2>2
<1>9. ASSUME ~raced' PROVE OneScheduleEach' /\ SavesTheSum' /\ SumOrUncovered' /\ TotalOrUncovered'
  <2>0. /\ ~raced /\ OneScheduleEach /\ SavesTheSum /\ SumOrUncovered /\ TotalOrUncovered
        /\ call[c].pick = 0 => SchedulesOf(w) = {}
        /\ call[c].pick # 0 => c \notin Fronts
    BY <1>0, <1>2, <1>9 DEF Unraced, WriteSchedule
  <2>1. OneScheduleEach'
    <3> SUFFICES ASSUME NEW s \in DOMAIN schedules', NEW t \in DOMAIN schedules',
                        schedules'[s].wallet = schedules'[t].wallet
                 PROVE  s = t
      BY DEF OneScheduleEach
    <3>1. CASE s \in DOMAIN schedules /\ t \in DOMAIN schedules
      BY <1>3, <2>0, <3>1 DEF OneScheduleEach
    <3>2. CASE s \notin DOMAIN schedules /\ t \notin DOMAIN schedules
      BY <1>3, <3>2
    <3>3. CASE s \notin DOMAIN schedules /\ t \in DOMAIN schedules
      BY <1>3, <2>0, <3>3 DEF SchedulesOf
    <3>4. CASE s \in DOMAIN schedules /\ t \notin DOMAIN schedules
      BY <1>3, <2>0, <3>4 DEF SchedulesOf
    <3> QED
      BY <3>1, <3>2, <3>3, <3>4
  <2>2. SavesTheSum'
    BY <1>4, <1>7, <2>0 DEF SavesTheSum
  <2>3. SumOrUncovered'
    <3> SUFFICES ASSUME NEW s \in DOMAIN schedules', schedules'[s].claimed # Claimed(s)'
                 PROVE  Outstanding(s)' # {}
      BY DEF SumOrUncovered
    <3>1. s \in DOMAIN schedules /\ schedules[s].claimed # Claimed(s)
      BY <1>3, <1>4
    <3>2. PICK i \in RowsOf(s) : ~Covered(i) \/ i \notin EventsOf(schedules[s].wallet, "CLAIMED")
      BY <2>0, <3>1 DEF SumOrUncovered, Outstanding
    <3>3. ~Covered(i)' \/ i \notin EventsOf(schedules[s].wallet, "CLAIMED")
      BY <1>6, <1>7, <3>2 DEF EventsOf
    <3>4. EventsOf(schedules[s].wallet, "CLAIMED")' = EventsOf(schedules[s].wallet, "CLAIMED")
      BY <1>0, <1>3, <3>1 DEF EventsOf
    <3> QED
      BY <1>4, <3>2, <3>3, <3>4 DEF Outstanding
  <2>4. TotalOrUncovered'
    <3> SUFFICES ASSUME NEW s \in DOMAIN schedules', NEW j \in DOMAIN log',
                        EventsOf(schedules[s].wallet, "ALLOCATED")' = {j}, Covered(j)'
                 PROVE  schedules'[s].total = log'[j].amount
      BY DEF TotalOrUncovered
    <3>1. j \in DOMAIN log /\ log' = log
      BY <1>0
    <3>2. PICK v : v = schedules'[s].wallet
      OBVIOUS
    <3>3. EventsOf(v, "ALLOCATED") = {j}
      BY <1>0, <3>2 DEF EventsOf
    <3>4. c \in Indexers /\ v = w => j = p
      BY <1>1, <1>6, <3>3 DEF EventsOf
    <3>5. CASE s \in DOMAIN schedules /\ s # call[c].pick
      <4>1. schedules'[s] = schedules[s] /\ schedules[s].wallet = v
        BY <1>3, <3>2, <3>5
      <4>2. CASE Covered(j)
        BY <2>0, <3>1, <3>3, <3>5, <4>1, <4>2 DEF TotalOrUncovered
      <4>3. CASE j = p /\ c \in Indexers
        <5>1. v = w
          BY <1>6, <3>3, <4>3 DEF EventsOf
        <5>2. s \in SchedulesOf(w)
          BY <3>5, <4>1, <5>1 DEF SchedulesOf
        <5>3. call[c].pick \in SchedulesOf(w)
          BY <1>0, <1>1, <1>2, <2>0, <5>2 DEF GoodCall, InTables
        <5> QED
          BY <2>0, <3>5, <5>2, <5>3 DEF OneScheduleEach, SchedulesOf
      <4> QED
        BY <1>7, <3>1, <4>2, <4>3
    <3>6. CASE s \in DOMAIN schedules /\ s = call[c].pick
      <4>1. s # 0
        BY <1>0, <3>6, ScheduleFacts
      <4>2. c \in Indexers
        BY <2>0, <3>6, <4>1 DEF Callers
      <4>3. v = w
        BY <1>0, <1>1, <1>2, <1>3, <3>2, <3>6, <4>1 DEF GoodCall, InTables, SchedulesOf
      <4> QED
        BY <1>3, <1>6, <3>1, <3>4, <3>6, <4>1, <4>2, <4>3
    <3>7. CASE s \notin DOMAIN schedules
      <4>1. v = w /\ schedules'[s].total = TotalWritten(c) /\ SchedulesOf(w) = {}
        BY <1>3, <2>0, <3>2, <3>7
      <4>2. CASE c \in Indexers
        BY <1>6, <3>1, <3>4, <4>1, <4>2
      <4>3. CASE c \notin Indexers
        <5>1. Covered(j)
          BY <1>7, <3>1, <4>3
        <5>2. log[j].type = "ALLOCATED" /\ log[j].wallet = w
          BY <3>3, <4>1 DEF EventsOf
        <5> QED
          BY <1>0, <3>1, <4>1, <5>1, <5>2 DEF CoveredIsDealtWith, DealtWith
      <4> QED
        BY <4>2, <4>3
    <3> QED
      BY <3>5, <3>6, <3>7
  <2> QED
    BY <2>1, <2>2, <2>3, <2>4
<1> QED
  BY <1>3, <1>5, <1>7, <1>8, <1>9 DEF VestingIndInv, Unraced

(* A row is added for an event that is not covered yet: its schedule's sum *)
(* may now be out of date, and that event is still to be finished.         *)
LEMMA InsertRowVesting ==
    ASSUME VestingIndInv, NEW c \in Callers, InsertRow(c)
    PROVE  VestingIndInv'
<1> DEFINE p == call[c].pos
           q == call[c].pick
<1>0. /\ LogSafe /\ TablesSafe /\ WorkersSafe /\ CoveredIsDealtWith /\ Unraced
      /\ At(c, "insert") /\ ~At(c, "idle") /\ call[c].at = "insert" /\ raced \in BOOLEAN
      /\ UNCHANGED <<contract, log, users, faults, schedules, misreported>>
  BY DEF VestingIndInv, InsertRow, At, Stay, LogSafe
<1>1. CASE p \in DOMAIN claims
  <2>1. EndOfEvent(c, FALSE, "user") /\ UNCHANGED vestingVars
    BY <1>0, <1>1 DEF InsertRow, vestingVars
  <2> QED
    BY <1>0, <2>1, EndsCalmly
<1>2. CASE p \notin DOMAIN claims
  <2> DEFINE row == [schedule |-> q, amount |-> call[c].amount, reported |-> c \in Fronts]
  <2>1. /\ claims' = [i \in DOMAIN claims \cup {p} |-> IF i \in DOMAIN claims THEN claims[i] ELSE row]
        /\ raced' = (raced \/ \E d \in Callers : At(d, "save") /\ call[d].pick = q)
        /\ Goto(c, "sum")
    BY <1>2 DEF InsertRow
  <2>2. call[c] \in Worker /\ GoodCall(c, call[c]) /\ p \in Transactions
    BY <1>0, WorkerFacts DEF Worker
  <2>3. /\ q \in DOMAIN schedules /\ schedules[q].wallet = call[c].wallet /\ call[c].amount \in Nat
        /\ q \in SchedulesOf(call[c].wallet)
    BY <1>0, <2>2 DEF GoodCall, InTables, SchedulesOf, Worker
  <2>a. IsClaim(p, call[c].wallet, call[c].amount) \/ (c \in Fronts /\ p \in misreported)
    <3>1. CASE c \in Indexers
      <4>1. /\ p \in DOMAIN log /\ log[p].wallet = call[c].wallet /\ log[p].type = "CLAIMED"
            /\ call[c].amount = log[p].amount
        BY <1>0, <2>2, <3>1 DEF GoodCall, FromChain
      <4>2. call[c].amount <= call[c].amount
        BY <2>3
      <4> QED
        BY <4>1, <4>2 DEF IsClaim, EventsOf
    <3>2. CASE c \in Fronts
      BY <1>2, <2>2, <3>2 DEF GoodCall, FromPage
    <3> QED
      BY <3>1, <3>2 DEF Callers
  <2>b. c \notin Fronts => call[c].amount = log[p].amount
    BY <1>0, <2>2 DEF GoodCall, FromChain, Callers
  <2>4. /\ DOMAIN claims' = DOMAIN claims \cup {p} /\ \A i \in DOMAIN claims : claims'[i] = claims[i]
        /\ claims'[p] = row /\ row.schedule = q /\ row.amount = call[c].amount
        /\ row.reported = (c \in Fronts)
        /\ row \in [schedule : DOMAIN schedules, amount : Nat, reported : BOOLEAN]
    BY <1>2, <2>1, <2>3
  <2> HIDE DEF row
  <2>5. TablesSafe'
    <3> SUFFICES ASSUME NEW i \in DOMAIN claims'
                 PROVE  /\ i \in Transactions
                        /\ claims'[i] \in [schedule : DOMAIN schedules, amount : Nat, reported : BOOLEAN]
                        /\ ~Misled(i)' => IsClaim(i, schedules[claims'[i].schedule].wallet, claims'[i].amount)
                        /\ ~claims'[i].reported => claims'[i].amount = log[i].amount
      BY <1>0 DEF TablesSafe, IsClaim, EventsOf, Transactions
    <3>1. CASE i \in DOMAIN claims
      BY <1>0, <2>4, <3>1 DEF TablesSafe, Misled
    <3>2. CASE i = p
      BY <1>0, <2>2, <2>3, <2>4, <2>a, <2>b, <3>2 DEF Misled
    <3> QED
      BY <2>4, <3>1, <3>2
  <2>6. Grows
    BY <1>0, <2>4 DEF Grows, SchedulesOf
  <2>7. LogSafe'
    <3>1. raced' \in BOOLEAN
      BY <2>1, Zenon
    <3> QED
      BY <1>0, <3>1 DEF LogSafe, LogInOrder, Transactions
  <2>8. PICK new : new = [call[c] EXCEPT !.at = "sum"]
    OBVIOUS
  <2>9. /\ new \in Worker /\ new.at = "sum" /\ new.pick = q /\ new.amount = call[c].amount
        /\ new.pos = p /\ new.end = call[c].end /\ new.failed = call[c].failed
        /\ new.wallet = call[c].wallet
    <3>1. new \in Worker
      BY <2>2, <2>8 DEF Worker, VestingLabels
    <3> QED
      BY <2>2, <2>8, <3>1 DEF Worker
  <2>10. call' = [call EXCEPT ![c] = new] /\ UNCHANGED checkpoint
    BY <2>1, <2>8 DEF Goto
  <2>11. GoodCall(c, new)'
    <3>1. new.pick \in SchedulesOf(new.wallet)'
      BY <1>0, <2>3, <2>9 DEF SchedulesOf
    <3>2. new.pos \in DOMAIN claims'
      BY <2>4, <2>9
    <3>3. c \in Indexers => FromChain(new)'
      BY <1>0, <2>2, <2>9 DEF GoodCall, FromChain
    <3> QED
      BY <2>9, <3>1, <3>2, <3>3 DEF GoodCall, InTables, FromPage
  <2>12. new.pos <= new.end
    BY <1>0, <2>9, WorkerFacts
  <2>13. WorkersSafe' /\ \A i \in DOMAIN log : Covered(i)' => Covered(i)
    BY <1>0, <2>6, <2>9, <2>10, <2>11, <2>12, CallMoves
  <2>14. call'[c] = new /\ \A d \in Callers : d # c => call'[d] = call[d]
    BY <1>0, <2>10 DEF WorkersSafe
  <2>15. CoveredIsDealtWith'
    BY <1>0, <2>4, <2>13 DEF CoveredIsDealtWith, DealtWith, SchedulesOf
  <2>16. \A s : s # q => RowsOf(s)' = RowsOf(s) /\ Claimed(s)' = Claimed(s)
    <3> SUFFICES ASSUME NEW s, s # q PROVE RowsOf(s)' = RowsOf(s) /\ Claimed(s)' = Claimed(s)
      OBVIOUS
    <3>1. RowsOf(s)' = RowsOf(s) /\ RowsOf(s) \subseteq DOMAIN claims
      BY <2>4 DEF RowsOf
    <3> DEFINE f == [i \in DOMAIN claims |-> claims[i].amount]
               g == [i \in DOMAIN claims' |-> claims'[i].amount]
    <3>2. \A i \in RowsOf(s) : f[i] \in Int /\ f[i] = g[i]
      BY <1>0, <2>4, <3>1 DEF TablesSafe
    <3>3. IsFiniteSet(RowsOf(s))
      BY <1>0, ClaimedFacts
    <3>4. Claimed(s) = SumFunctionOnSet(f, RowsOf(s)) /\ Claimed(s)' = SumFunctionOnSet(g, RowsOf(s))
      BY <3>1 DEF Claimed
    <3> HIDE DEF f, g
    <3> QED
      BY <3>1, <3>2, <3>3, <3>4, SumOfEquals
  <2>17. ASSUME ~raced' PROVE OneScheduleEach' /\ SavesTheSum' /\ SumOrUncovered' /\ TotalOrUncovered'
    <3>0. /\ OneScheduleEach /\ SavesTheSum /\ SumOrUncovered /\ TotalOrUncovered
          /\ \A d \in Callers : At(d, "save") => call[d].pick # q
      BY <1>0, <2>1, <2>17 DEF Unraced
    <3>1. OneScheduleEach'
      BY <1>0, <3>0 DEF OneScheduleEach
    <3>2. SavesTheSum'
      <4> SUFFICES ASSUME NEW d \in Callers, At(d, "save")'
                   PROVE  call'[d].amount = Claimed(call[d].pick)'
        BY DEF SavesTheSum
      <4>1. d # c /\ call'[d] = call[d] /\ At(d, "save") /\ ~At(d, "idle") /\ call[d].at = "save"
        BY <2>9, <2>14 DEF At
      <4>6. call[d].pick # q
        BY <3>0, <4>1
      <4>7. PICK s : s = call[d].pick
        OBVIOUS
      <4>8. Claimed(s)' = Claimed(s)
        BY <2>16, <4>6, <4>7
      <4>9. call'[d].pick = s /\ call'[d].amount = Claimed(s)
        BY <3>0, <4>1, <4>7 DEF SavesTheSum
      <4> QED
        BY <4>8, <4>9 DEF Claimed, RowsOf
    <3>3. SumOrUncovered'
      <4> SUFFICES ASSUME NEW s \in DOMAIN schedules
                   PROVE  schedules[s].claimed = Claimed(s)' \/ Outstanding(s)' # {}
        BY <1>0 DEF SumOrUncovered
      <4>1. CASE s = q
        <5>0. PICK i : i = p
          OBVIOUS
        <5>1. i \in RowsOf(s)'
          BY <2>4, <4>1, <5>0 DEF RowsOf
        <5>2. ASSUME i \in EventsOf(schedules[s].wallet, "CLAIMED") PROVE ~Covered(i)'
          <6>1. i \in DOMAIN log /\ log[i].type = "CLAIMED"
            BY <5>2 DEF EventsOf
          <6>2. ~DealtWith(i)
            BY <1>2, <5>0, <6>1 DEF DealtWith
          <6> QED
            BY <1>0, <2>13, <6>1, <6>2 DEF CoveredIsDealtWith
        <5>3. EventsOf(schedules[s].wallet, "CLAIMED")' = EventsOf(schedules[s].wallet, "CLAIMED")
          BY <1>0 DEF EventsOf
        <5> QED
          BY <5>1, <5>2, <5>3 DEF Outstanding
      <4>2. CASE s # q
        <5>1. RowsOf(s)' = RowsOf(s) /\ Claimed(s)' = Claimed(s)
          BY <2>16, <4>2
        <5>2. Outstanding(s) \subseteq Outstanding(s)'
          BY <1>0, <2>13, <5>1 DEF Outstanding, EventsOf
        <5> QED
          BY <3>0, <5>1, <5>2 DEF SumOrUncovered
      <4> QED
        BY <4>1, <4>2
    <3>4. TotalOrUncovered'
      <4>1. \A w, t : EventsOf(w, t)' = EventsOf(w, t)
        BY <1>0 DEF EventsOf
      <4> QED
        BY <1>0, <2>13, <3>0, <4>1 DEF TotalOrUncovered
    <3> QED
      BY <3>1, <3>2, <3>3, <3>4
  <2> QED
    BY <2>5, <2>7, <2>13, <2>15, <2>17 DEF VestingIndInv, Unraced
<1> QED
  BY <1>1, <1>2

(* The sum that was read is saved, and the event is done. *)
LEMMA SaveStatsVesting ==
    ASSUME VestingIndInv, NEW c \in Callers, SaveStats(c)
    PROVE  VestingIndInv'
<1> DEFINE p == call[c].pos
           q == call[c].pick
<1>0. /\ LogSafe /\ TablesSafe /\ WorkersSafe /\ CoveredIsDealtWith /\ Unraced
      /\ At(c, "save") /\ ~At(c, "idle") /\ call[c].at = "save"
      /\ UNCHANGED <<contract, log, users, faults, claims, raced, misreported>> /\ EndOfEvent(c, TRUE, "user")
      /\ schedules' = [schedules EXCEPT ![q].claimed = call[c].amount]
  BY DEF VestingIndInv, SaveStats, At, Stay
<1>1. call[c] \in Worker /\ GoodCall(c, call[c]) /\ call[c].amount \in Nat
  BY <1>0, WorkerFacts DEF Worker
<1>2. /\ p \in DOMAIN claims /\ q \in DOMAIN schedules /\ schedules[q].wallet = call[c].wallet
      /\ c \in Indexers => log[p].type = "CLAIMED" /\ log[p].wallet = call[c].wallet
  BY <1>0, <1>1 DEF GoodCall, InTables, FromChain, SchedulesOf
<1>3. /\ schedules \in Seq(Schedule) /\ \A s \in DOMAIN schedules : schedules[s] \in Schedule
  BY <1>0, ScheduleFacts DEF TablesSafe
<1>4. PICK new : new = [schedules[q] EXCEPT !.claimed = call[c].amount]
  OBVIOUS
<1>5. /\ new \in Schedule /\ new.wallet = schedules[q].wallet /\ new.total = schedules[q].total
      /\ new.claimed = call[c].amount
  BY <1>1, <1>2, <1>3, <1>4 DEF Schedule
<1>6. schedules' = [schedules EXCEPT ![q] = new]
  BY <1>0, <1>4
<1>7. /\ schedules' \in Seq(Schedule) /\ DOMAIN schedules' = DOMAIN schedules
      /\ schedules'[q] = new /\ \A s \in DOMAIN schedules : s # q => schedules'[s] = schedules[s]
  BY <1>2, <1>3, <1>5, <1>6, ExceptSeq
<1>8. \A s \in DOMAIN schedules : /\ schedules'[s].wallet = schedules[s].wallet
                                  /\ schedules'[s].total = schedules[s].total
  BY <1>5, <1>7
<1>9. TablesSafe'
  BY <1>0, <1>7, <1>8 DEF TablesSafe, Misled, IsClaim, EventsOf, Transactions
<1>10. Grows /\ \A s : Claimed(s)' = Claimed(s) /\ RowsOf(s)' = RowsOf(s)
  BY <1>0, <1>7, <1>8 DEF Grows, SchedulesOf, Claimed, RowsOf
<1>11. LogSafe'
  BY <1>0, StayLog
<1>12. /\ WorkersSafe' /\ \A d \in Callers : At(d, "save")' => At(d, "save") /\ call'[d] = call[d]
       /\ \A i \in DOMAIN log : Covered(i)' => Covered(i) \/ (i = p /\ c \in Indexers)
  BY <1>0, <1>10, EventEnds
<1>13. CoveredIsDealtWith'
  BY <1>0, <1>2, <1>10, <1>12 DEF CoveredIsDealtWith, DealtWith, Grows
<1>14. ASSUME ~raced' PROVE OneScheduleEach' /\ SavesTheSum' /\ SumOrUncovered' /\ TotalOrUncovered'
  <2>0. OneScheduleEach /\ SavesTheSum /\ SumOrUncovered /\ TotalOrUncovered
    BY <1>0, <1>14 DEF Unraced
  <2>1. OneScheduleEach'
    BY <1>7, <1>8, <2>0 DEF OneScheduleEach
  <2>2. SavesTheSum'
    BY <1>10, <1>12, <2>0 DEF SavesTheSum
  <2>3. SumOrUncovered'
    <3> SUFFICES ASSUME NEW s \in DOMAIN schedules
                 PROVE  schedules'[s].claimed = Claimed(s) \/ Outstanding(s)' # {}
      BY <1>7, <1>10 DEF SumOrUncovered
    <3>1. CASE s = q
      BY <1>0, <1>5, <1>7, <2>0, <3>1 DEF SavesTheSum
    <3>2. CASE s # q
      <4>1. schedules'[s] = schedules[s]
        BY <1>7, <3>2
      <4>2. ASSUME NEW i \in Outstanding(s) PROVE i \in Outstanding(s)'
        <5>1. EventsOf(schedules[s].wallet, "CLAIMED")' = EventsOf(schedules[s].wallet, "CLAIMED")
          BY <1>0, <1>8 DEF EventsOf
        <5>2. ASSUME i \in EventsOf(schedules[s].wallet, "CLAIMED") PROVE ~Covered(i)'
          <6>1. i \in DOMAIN log /\ log[i].wallet = schedules[s].wallet /\ ~Covered(i)
            BY <4>2, <5>2 DEF EventsOf, Outstanding
          <6>2. ~(i = p /\ c \in Indexers)
            BY <1>2, <2>0, <3>2, <6>1 DEF OneScheduleEach
          <6> QED
            BY <1>12, <6>1, <6>2
        <5>3. schedules'[s].wallet = schedules[s].wallet /\ i \in RowsOf(s)'
          BY <1>8, <1>10, <4>2 DEF Outstanding
        <5> QED
          BY <1>0, <5>1, <5>2, <5>3 DEF Outstanding, EventsOf
      <4> QED
        BY <2>0, <4>1, <4>2 DEF SumOrUncovered
    <3> QED
      BY <3>1, <3>2
  <2>4. TotalOrUncovered'
    <3>1. UNCHANGED log
      BY <1>0
    <3>2. ASSUME NEW w, NEW j, EventsOf(w, "ALLOCATED") = {j} PROVE ~(j = p /\ c \in Indexers)
      BY <1>2, <3>2 DEF EventsOf
    <3> SUFFICES ASSUME NEW s \in DOMAIN schedules, NEW j \in DOMAIN log,
                        EventsOf(schedules'[s].wallet, "ALLOCATED") = {j}, Covered(j)'
                 PROVE  schedules'[s].total = log[j].amount
      BY <1>0, <1>7, <3>1 DEF TotalOrUncovered, EventsOf
    <3>3. EventsOf(schedules[s].wallet, "ALLOCATED") = {j}
      BY <1>8
    <3>4. Covered(j)
      BY <1>12, <3>2, <3>3
    <3> QED
      BY <1>8, <2>0, <3>3, <3>4 DEF TotalOrUncovered
  <2> QED
    BY <2>1, <2>2, <2>3, <2>4
<1> QED
  BY <1>9, <1>11, <1>12, <1>13, <1>14, <1>0 DEF VestingIndInv, Unraced

-----------------------------------------------------------------------------
LEMMA VestingInitInv ==
    ASSUME contract = "Vesting", MirrorInit, VestingMirrorInit
    PROVE  VestingIndInv
<1>1. /\ log = << >> /\ checkpoint = 0 /\ users = {} /\ faults = 0 /\ call = [c \in Callers |-> Idle]
      /\ schedules = << >> /\ claims = << >> /\ raced = FALSE /\ misreported = {}
  BY DEF MirrorInit, VestingMirrorInit
<1>2. /\ log \in Seq(Deal) /\ Len(log) = 0 /\ DOMAIN log = {} /\ schedules \in Seq(Schedule)
      /\ DOMAIN schedules = {} /\ DOMAIN claims = {}
  BY <1>1
<1>3. LogSafe
  <2>1. Len(log) <= MaxLog /\ faults \in 0..MaxFaults /\ users \subseteq Buyers
    BY <1>1, <1>2, MirrorAssumption
  <2>2. raced \in BOOLEAN
    BY <1>1, Zenon
  <2> QED
    BY <1>1, <1>2, <2>1, <2>2 DEF LogSafe, LogInOrder
<1>4. TablesSafe
  BY <1>2 DEF TablesSafe
<1>5. \A c \in Callers : At(c, "idle") /\ call[c].pos <= call[c].end
  BY <1>1, IdleIs DEF At
<1>6. WorkersSafe
  BY <1>1, <1>2, <1>5 DEF WorkersSafe
<1>7. CoveredIsDealtWith /\ OneScheduleEach /\ SumOrUncovered /\ TotalOrUncovered
  BY <1>2 DEF CoveredIsDealtWith, OneScheduleEach, SumOrUncovered, TotalOrUncovered
<1>8. SavesTheSum
  BY <1>1, IdleIs DEF SavesTheSum, At
<1> QED
  BY <1>3, <1>4, <1>6, <1>7, <1>8 DEF VestingIndInv, Unraced

LEMMA VestingStepInv ==
    ASSUME VestingIndInv, [VestingMirrorNext]_vestingMirrorVars
    PROVE  VestingIndInv'
<1>1. ASSUME NEW c \in Callers, VestingWork(c) PROVE VestingIndInv'
  <2>1. ASSUME StartRun(c, "user") \/ FindUser(c, AfterUser(c)) \/ CreateUser(c, AfterUser(c), "user"),
               UNCHANGED vestingVars
        PROVE  VestingIndInv'
    BY <2>1, StartRunVesting, FindUserVesting, CreateUserVesting
  <2> QED
    BY <1>1, <2>1, FindClaimVesting, FindScheduleVesting, FindForUpsertVesting, WriteScheduleVesting,
       FindRowVesting, InsertRowVesting, SumRowsVesting, SaveStatsVesting DEF VestingWork
<1>2. ASSUME NEW c \in Callers, Die(c), UNCHANGED vestingVars PROVE VestingIndInv'
  BY <1>2, DieVesting
<1>3. ASSUME NEW w \in Beneficiaries, NEW a \in GrantSizes,
             Allocated(w, a) \/ ClaimedOnChain(w, a) \/ ClaimedOnChain(w, 1)
      PROVE  VestingIndInv'
  <2>1. a \in Nat \ {0} /\ 1 \in Nat \ {0}
    BY VestingAssumption
  <2> QED
    BY <1>3, <2>1, AllocatedVesting, ClaimedOnChainVesting
<1>4. ASSUME NEW f \in Fronts, NEW i \in Transactions, NEW w \in Buyers, NEW a \in PostedAmounts,
             claimVesting(f, i, w, a)
      PROVE  VestingIndInv'
  BY <1>4, ClaimVestingVesting
<1>5. ASSUME UNCHANGED vestingMirrorVars PROVE VestingIndInv'
  <2>1. UNCHANGED <<contract, log, checkpoint, users, call, faults, vestingVars>>
    BY <1>5 DEF vestingMirrorVars, mirrorVars
  <2>2. LogSafe /\ WorkersSafe /\ LogSafe' /\ Grows /\ Worker' = Worker
    BY <2>1, StayLog, StayGrows DEF VestingIndInv, vestingVars, Worker, Transactions
  <2>3. WorkersSafe'
    BY <2>1, <2>2, OthersStayGood DEF WorkersSafe
  <2>4. \A i \in DOMAIN log : Covered(i)' => Covered(i)
    BY <2>1 DEF Covered, At
  <2>5. \A d \in Callers : At(d, "save")' => At(d, "save") /\ call'[d] = call[d]
    BY <2>1 DEF At
  <2> QED
    BY <2>1, <2>2, <2>3, <2>4, <2>5, Calm, StaySums DEF vestingVars
<1> QED
  BY <1>1, <1>2, <1>3, <1>4, <1>5 DEF VestingMirrorNext

(***************************************************************************)
(* Progress is a percentage.  No wallet has claimed more on chain than it  *)
(* was allocated, no schedule without a misled row says more than the      *)
(* wallet claimed, also in a sum that is about to be saved, and a total is *)
(* nothing or that of one of the wallet's allocations.                     *)
(***************************************************************************)
ChainPays == \A w \in Buyers : OnChain(w, "CLAIMED") <= OnChain(w, "ALLOCATED")
ClaimedWithin ==
    \A s \in DOMAIN schedules :
        HonestRows(s) => schedules[s].claimed <= OnChain(schedules[s].wallet, "CLAIMED")
SavesWithin ==
    \A d \in Callers :
        At(d, "save") /\ HonestRows(call[d].pick) => call[d].amount <= OnChain(call[d].wallet, "CLAIMED")
TotalIsAGrant ==
    \A s \in DOMAIN schedules :
        \/ schedules[s].total = 0
        \/ \E j \in EventsOf(schedules[s].wallet, "ALLOCATED") : schedules[s].total = log[j].amount
WithinGrants == ChainPays /\ ClaimedWithin /\ SavesWithin /\ TotalIsAGrant

LEMMA EventsAreFinite ==
    ASSUME LogSafe, NEW w, NEW type
    PROVE  IsFiniteSet(EventsOf(w, type)) /\ EventsOf(w, type) \subseteq DOMAIN log
<1>1. IsFiniteSet(1..Len(log)) /\ EventsOf(w, type) \subseteq 1..Len(log)
  BY DealFacts, DealsAreFinite DEF EventsOf
<1> QED
  BY <1>1, FS_Subset, DealFacts

(* A sum on a part, of no larger terms. *)
LEMMA SumOfFewer ==
    ASSUME NEW S, IsFiniteSet(S), NEW P \in SUBSET S, NEW f, NEW e,
           \A x \in S : f[x] \in Nat, \A x \in P : e[x] \in Nat /\ e[x] <= f[x]
    PROVE  SumFunctionOnSet(e, P) <= SumFunctionOnSet(f, S)
<1> DEFINE a == [x \in S |-> IF x \in P THEN e[x] ELSE 0]
           b == [x \in S |-> f[x] - a[x]]
<1>1. \A x \in S : a[x] \in Nat /\ b[x] \in Nat /\ f[x] = a[x] + b[x]
  OBVIOUS
<1>2. (\A x \in P : a[x] = e[x]) /\ \A x \in S \ P : a[x] = 0
  OBVIOUS
<1> HIDE DEF a, b
<1>3. IsFiniteSet(P)
  BY FS_Subset
<1>4. SumFunctionOnSet(f, S) = SumFunctionOnSet(a, S) + SumFunctionOnSet(b, S)
  BY <1>1, SumsAdd
<1>5. SumFunctionOnSet(b, S) \in Nat
  BY <1>1, SumOfNaturals
<1>6. SumFunctionOnSet(a, S) = SumFunctionOnSet(a, P)
  BY <1>1, <1>2, SumOfPart
<1>7. SumFunctionOnSet(a, P) = SumFunctionOnSet(e, P)
  BY <1>1, <1>2, <1>3, SumOfEquals
<1>8. SumFunctionOnSet(e, P) \in Nat
  BY <1>3, SumOfNaturals
<1> QED
  BY <1>4, <1>5, <1>6, <1>7, <1>8

(* The rows of a schedule add up to no more than the wallet's claims. *)
LEMMA RowsWithin ==
    ASSUME LogSafe, TablesSafe, NEW s \in DOMAIN schedules, NEW w, w = schedules[s].wallet, HonestRows(s)
    PROVE  Claimed(s) <= OnChain(w, "CLAIMED")
<1> DEFINE S == EventsOf(w, "CLAIMED")
           P == RowsOf(s)
           f == [i \in DOMAIN log |-> log[i].amount]
           e == [i \in DOMAIN claims |-> claims[i].amount]
<1>1. IsFiniteSet(S) /\ S \subseteq DOMAIN log
  BY EventsAreFinite
<1>2. P \subseteq S
  BY DEF TablesSafe, RowsOf, HonestRows, IsClaim
<1>3. \A i \in S : f[i] \in Nat
  BY <1>1, DealFacts
<1>4. \A i \in P : e[i] \in Nat /\ e[i] <= f[i]
  BY <1>1, <1>2 DEF RowsOf, TablesSafe, HonestRows, IsClaim
<1>5. OnChain(w, "CLAIMED") = SumFunctionOnSet(f, S) /\ Claimed(s) = SumFunctionOnSet(e, P)
  BY DEF OnChain, Claimed
<1> HIDE DEF S, P, f, e
<1> QED
  BY <1>1, <1>2, <1>3, <1>4, <1>5, SumOfFewer

(* An event more on chain. *)
LEMMA OnChainGrows ==
    ASSUME LogSafe, LogSafe', NEW e \in Deal, log' = Append(log, e), NEW w, NEW type
    PROVE  /\ EventsOf(w, type) \subseteq EventsOf(w, type)'
           /\ \A j \in EventsOf(w, type) : log'[j] = log[j]
           /\ OnChain(w, type)' = OnChain(w, type) + (IF e.wallet = w /\ e.type = type THEN e.amount ELSE 0)
<1> DEFINE n == Len(log) + 1
           S == EventsOf(w, type)
           T == EventsOf(w, type)'
           f == [i \in DOMAIN log |-> log[i].amount]
           g == [i \in DOMAIN log' |-> log'[i].amount]
<1>1. log \in Seq(Deal) /\ Len(log) \in Nat /\ DOMAIN log = 1..Len(log)
  BY DealFacts DEF LogSafe
<1>2. /\ DOMAIN log' = 1..n /\ log'[n] = e /\ \A i \in DOMAIN log : log'[i] = log[i]
  BY <1>1, AppendProperties
<1>3. n \notin DOMAIN log /\ DOMAIN log' = DOMAIN log \cup {n}
  BY <1>1, <1>2
<1>4. T = IF e.wallet = w /\ e.type = type THEN S \cup {n} ELSE S
  BY <1>2, <1>3 DEF EventsOf
<1>5. IsFiniteSet(S) /\ S \subseteq DOMAIN log /\ n \notin S
  BY <1>3, EventsAreFinite
<1>6. \A i \in S : f[i] \in Nat /\ g[i] = f[i]
  BY <1>2, <1>3, <1>5, DealFacts
<1>7. g[n] = e.amount /\ e.amount \in Nat
  BY <1>2, <1>3 DEF Deal
<1>8. OnChain(w, type) = SumFunctionOnSet(f, S) /\ OnChain(w, type)' = SumFunctionOnSet(g, T)
  BY DEF OnChain
<1>9. S \subseteq T /\ \A j \in S : log'[j] = log[j]
  BY <1>2, <1>4, <1>5
<1>a. S = EventsOf(w, type) /\ T = EventsOf(w, type)'
  OBVIOUS
<1> HIDE DEF S, T, f, g, n
<1>10. SumFunctionOnSet(f, S) = SumFunctionOnSet(g, S) /\ SumFunctionOnSet(f, S) \in Nat
  <2>1. \A i \in S : f[i] \in Int
    BY <1>6
  <2>2. SumFunctionOnSet(f, S) = SumFunctionOnSet(g, S)
    BY <1>5, <1>6, <2>1, SumOfEquals
  <2> QED
    BY <1>5, <1>6, <2>2, SumOfNaturals
<1>11. CASE e.wallet = w /\ e.type = type
  <2>1. T = S \cup {n} /\ T \ {n} = S /\ n \in T /\ IsFiniteSet(T)
    BY <1>4, <1>5, <1>11, FS_AddElement
  <2>2. \A i \in T : g[i] \in Int
    BY <1>6, <1>7, <2>1
  <2>3. SumFunctionOnSet(g, T) = g[n] + SumFunctionOnSet(g, S)
    BY <2>1, <2>2, SumSplits
  <2>4. OnChain(w, type)' = OnChain(w, type) + e.amount
    BY <1>7, <1>8, <1>10, <2>1, <2>3
  <2> QED
    BY <1>9, <1>11, <1>a, <2>4
<1>12. CASE ~(e.wallet = w /\ e.type = type)
  <2>1. T = S
    BY <1>4, <1>12
  <2>2. OnChain(w, type)' = OnChain(w, type) + 0
    BY <1>8, <1>10, <2>1
  <2> QED
    BY <1>9, <1>12, <1>a, <2>2
<1> QED
  BY <1>11, <1>12

(* The calls that are about to save a sum: as before, or they have just    *)
(* read it.                                                                *)
SavesAreRead ==
    \A d \in Callers : At(d, "save")' =>
        \/ At(d, "save") /\ call'[d] = call[d]
        \/ /\ call[d].pick \in SchedulesOf(call[d].wallet) /\ call'[d].wallet = call[d].wallet
           /\ call'[d].pick = call[d].pick /\ call'[d].amount = Claimed(call[d].pick)

(* The rows there are stay as they are, and a misled one misled.           *)
ClaimRowsStay ==
    /\ \A i \in DOMAIN claims : i \in DOMAIN claims' /\ claims'[i] = claims[i]
    /\ misreported \subseteq misreported'

LEMMA HonestBefore ==
    ASSUME ClaimRowsStay, NEW s, HonestRows(s)'
    PROVE  HonestRows(s)
BY DEF ClaimRowsStay, HonestRows, RowsOf, Misled

LEMMA CallTurns ==
    ASSUME WorkersSafe, NEW c \in Callers, NEW new, call' = [call EXCEPT ![c] = new], new.at # "save"
    PROVE  SavesAreRead
BY DEF WorkersSafe, SavesAreRead, At

LEMMA GotoTurns ==
    ASSUME WorkersSafe, NEW c \in Callers, call[c] \in Worker, NEW label, label # "save", Goto(c, label)
    PROVE  SavesAreRead
<1>1. PICK new : new = [call[c] EXCEPT !.at = label]
  OBVIOUS
<1>2. new.at = label
  BY <1>1 DEF Worker
<1> QED
  BY <1>1, <1>2, CallTurns DEF Goto

LEMMA PickTurns ==
    ASSUME WorkersSafe, NEW c \in Callers, call[c] \in Worker, NEW s, NEW label, label # "save",
           Pick(c, s, label)
    PROVE  SavesAreRead
<1>1. PICK new : new = [call[c] EXCEPT !.at = label, !.pick = s]
  OBVIOUS
<1>2. new.at = label
  BY <1>1 DEF Worker
<1> QED
  BY <1>1, <1>2, CallTurns DEF Pick

LEMMA EndTurns ==
    ASSUME WorkersSafe, NEW c \in Callers, NEW ok, EndOfEvent(c, ok, "user")
    PROVE  SavesAreRead
<1>1. PICK next : next = Handle(c, "user", call[c].pos + 1, call[c].end, call[c].failed \/ ~ok)
  OBVIOUS
<1>2. call' = [call EXCEPT ![c] = next] \/ call' = [call EXCEPT ![c] = Idle]
  BY <1>1 DEF EndOfEvent
<1>3. next.at = "user" /\ Idle.at = "idle"
  BY <1>1 DEF Handle, Idle
<1> QED
  BY <1>2, <1>3, CallTurns

(* No step but the reading of the sum brings a call to its save. *)
LEMMA WorkSaves ==
    ASSUME VestingIndInv, NEW c \in Callers, VestingWork(c)
    PROVE  UNCHANGED log /\ SavesAreRead
<1>0. LogSafe /\ WorkersSafe
  BY DEF VestingIndInv
<1>1. ASSUME StartRun(c, "user") PROVE UNCHANGED log /\ SavesAreRead
  <2>1. PICK end : call' = [call EXCEPT ![c] = Handle(c, "user", checkpoint + 1, end, FALSE)]
    BY <1>1 DEF StartRun
  <2>2. PICK new : new = Handle(c, "user", checkpoint + 1, end, FALSE)
    OBVIOUS
  <2>3. new.at = "user"
    BY <2>2 DEF Handle
  <2> QED
    BY <1>0, <1>1, <2>1, <2>2, <2>3, CallTurns DEF StartRun, Stay
<1>2. AfterUser(c) # "save"
  BY DEF AfterUser
<1>3. ASSUME ~At(c, "idle") PROVE call[c] \in Worker
  BY <1>0, <1>3, WorkerFacts
<1>4. ASSUME FindUser(c, AfterUser(c)) PROVE UNCHANGED log /\ SavesAreRead
  <2>1. call[c] \in Worker
    BY <1>3, <1>4 DEF FindUser, At
  <2>2. PICK label : label # "save" /\ Goto(c, label)
    BY <1>2, <1>4 DEF FindUser
  <2> QED
    BY <1>0, <1>4, <2>1, <2>2, GotoTurns DEF FindUser, Stay
<1>5. ASSUME CreateUser(c, AfterUser(c), "user") PROVE UNCHANGED log /\ SavesAreRead
  <2>1. call[c] \in Worker
    BY <1>3, <1>5 DEF CreateUser, At
  <2>2. EndOfEvent(c, FALSE, "user") \/ Goto(c, AfterUser(c))
    BY <1>5 DEF CreateUser
  <2> QED
    BY <1>0, <1>2, <1>5, <2>1, <2>2, GotoTurns, EndTurns DEF CreateUser
<1>6. ASSUME FindClaim(c) PROVE UNCHANGED log /\ SavesAreRead
  <2>1. call[c] \in Worker
    BY <1>3, <1>6 DEF FindClaim, At
  <2>2. EndOfEvent(c, TRUE, "user") \/ Goto(c, "user")
    BY <1>6 DEF FindClaim
  <2> QED
    BY <1>0, <1>6, <2>1, <2>2, GotoTurns, EndTurns DEF FindClaim, Stay
<1>7. ASSUME FindSchedule(c) PROVE UNCHANGED log /\ SavesAreRead
  <2>1. call[c] \in Worker
    BY <1>3, <1>7 DEF FindSchedule, At
  <2>2. EndOfEvent(c, TRUE, "user") \/ Goto(c, "upsert") \/ \E s : Pick(c, s, "row")
    BY <1>7 DEF FindSchedule
  <2> QED
    BY <1>0, <1>7, <2>1, <2>2, GotoTurns, EndTurns, PickTurns DEF FindSchedule, Stay
<1>8. ASSUME FindForUpsert(c) PROVE UNCHANGED log /\ SavesAreRead
  <2>1. call[c] \in Worker
    BY <1>3, <1>8 DEF FindForUpsert, At
  <2>2. \E s : Pick(c, s, "write")
    BY <1>8 DEF FindForUpsert
  <2> QED
    BY <1>0, <1>8, <2>1, <2>2, PickTurns DEF FindForUpsert, Stay
<1>9. ASSUME WriteSchedule(c) PROVE UNCHANGED log /\ SavesAreRead
  <2>1. call[c] \in Worker
    BY <1>3, <1>9 DEF WriteSchedule, At
  <2>2. EndOfEvent(c, TRUE, "user") \/ \E s : Pick(c, s, "row")
    BY <1>9 DEF WriteSchedule
  <2> QED
    BY <1>0, <1>9, <2>1, <2>2, EndTurns, PickTurns DEF WriteSchedule, Stay
<1>10. ASSUME FindRow(c) PROVE UNCHANGED log /\ SavesAreRead
  <2>1. call[c] \in Worker
    BY <1>3, <1>10 DEF FindRow, At
  <2>2. PICK label : label # "save" /\ Goto(c, label)
    BY <1>10 DEF FindRow
  <2> QED
    BY <1>0, <1>10, <2>1, <2>2, GotoTurns DEF FindRow, Stay
<1>11. ASSUME InsertRow(c) PROVE UNCHANGED log /\ SavesAreRead
  <2>1. call[c] \in Worker
    BY <1>3, <1>11 DEF InsertRow, At
  <2>2. EndOfEvent(c, FALSE, "user") \/ Goto(c, "sum")
    BY <1>11 DEF InsertRow
  <2> QED
    BY <1>0, <1>11, <2>1, <2>2, GotoTurns, EndTurns DEF InsertRow, Stay
<1>12. ASSUME SumRows(c) PROVE UNCHANGED log /\ SavesAreRead
  <2>1. At(c, "sum") /\ call[c].at = "sum" /\ call[c] \in Worker /\ GoodCall(c, call[c]) /\ UNCHANGED log
    BY <1>0, <1>12, WorkerFacts DEF SumRows, At, Stay
  <2>2. PICK new : new = [call[c] EXCEPT !.at = "save", !.amount = Claimed(call[c].pick)]
    OBVIOUS
  <2>3. new.wallet = call[c].wallet /\ new.pick = call[c].pick /\ new.amount = Claimed(call[c].pick)
    BY <2>1, <2>2 DEF Worker
  <2>4. call' = [call EXCEPT ![c] = new]
    BY <1>12, <2>2 DEF SumRows
  <2>5. call'[c] = new /\ \A d \in Callers : d # c => call'[d] = call[d]
    BY <1>0, <2>4 DEF WorkersSafe
  <2>6. call[c].pick \in SchedulesOf(call[c].wallet)
    BY <2>1 DEF GoodCall, InTables
  <2> QED
    BY <2>1, <2>3, <2>5, <2>6 DEF SavesAreRead, At
<1>13. ASSUME SaveStats(c) PROVE UNCHANGED log /\ SavesAreRead
  <2>1. EndOfEvent(c, TRUE, "user") /\ UNCHANGED log
    BY <1>13 DEF SaveStats, Stay
  <2> QED
    BY <1>0, <2>1, EndTurns
<1> QED
  BY <1>1, <1>4, <1>5, <1>6, <1>7, <1>8, <1>9, <1>10, <1>11, <1>12, <1>13 DEF VestingWork

LEMMA WorkRows ==
    ASSUME NEW c \in Callers, VestingWork(c)
    PROVE  ClaimRowsStay
<1>1. CASE InsertRow(c)
  BY <1>1 DEF InsertRow, ClaimRowsStay
<1>2. CASE ~InsertRow(c)
  <2>1. UNCHANGED <<claims, misreported>>
    BY <1>2 DEF VestingWork, vestingVars, FindClaim, FindSchedule, FindForUpsert, WriteSchedule, FindRow,
                SumRows, SaveStats
  <2> QED
    BY <2>1 DEF ClaimRowsStay
<1> QED
  BY <1>1, <1>2

(* Where the chain stays as it is and the schedules stay fair. *)
LEMMA WithinHere ==
    ASSUME VestingIndInv, WithinGrants, UNCHANGED log, SavesAreRead, ClaimRowsStay, ClaimedWithin', TotalIsAGrant'
    PROVE  WithinGrants'
<1>0. LogSafe /\ TablesSafe /\ WorkersSafe /\ ChainPays /\ SavesWithin
  BY DEF VestingIndInv, WithinGrants
<1>1. \A w, t : OnChain(w, t)' = OnChain(w, t)
  BY DEF OnChain, EventsOf
<1>2. ChainPays'
  BY <1>0, <1>1 DEF ChainPays
<1>3. ASSUME NEW d \in Callers, At(d, "save")', NEW s, s = call'[d].pick, HonestRows(s)'
      PROVE  call'[d].amount <= OnChain(call'[d].wallet, "CLAIMED")
  <2>0. HonestRows(s)
    BY <1>3, HonestBefore
  <2>1. CASE At(d, "save") /\ call'[d] = call[d]
    BY <1>0, <1>3, <2>0, <2>1 DEF SavesWithin
  <2>2. CASE ~(At(d, "save") /\ call'[d] = call[d])
    <3>1. /\ call[d].pick \in SchedulesOf(call[d].wallet) /\ call'[d].wallet = call[d].wallet
          /\ call'[d].pick = call[d].pick /\ call'[d].amount = Claimed(call[d].pick)
      BY <1>3, <2>2 DEF SavesAreRead
    <3>2. s \in DOMAIN schedules /\ s = call[d].pick /\ schedules[s].wallet = call[d].wallet
      BY <1>3, <3>1 DEF SchedulesOf
    <3> QED
      BY <1>0, <2>0, <3>1, <3>2, RowsWithin
  <2> QED
    BY <2>1, <2>2
<1>4. SavesWithin'
  <2> SUFFICES ASSUME NEW d \in Callers, At(d, "save")', HonestRows(call[d].pick)'
               PROVE  (call[d].amount <= OnChain(call[d].wallet, "CLAIMED"))'
    BY DEF SavesWithin
  <2>1. PICK s : s = call'[d].pick
    OBVIOUS
  <2>2. HonestRows(s)'
    BY <2>1 DEF HonestRows, RowsOf, Misled
  <2>3. PICK w : w = call'[d].wallet
    OBVIOUS
  <2>4. OnChain(w, "CLAIMED")' = OnChain(w, "CLAIMED")
    BY <1>1
  <2>5. call'[d].amount <= OnChain(w, "CLAIMED")'
    BY <1>3, <2>1, <2>2, <2>3, <2>4
  <2> QED
    BY <2>3, <2>5 DEF OnChain, EventsOf
<1> QED
  BY <1>2, <1>4 DEF WithinGrants

LEMMA WithinCalm ==
    ASSUME VestingIndInv, WithinGrants, UNCHANGED <<log, schedules>>, SavesAreRead, ClaimRowsStay
    PROVE  WithinGrants'
<1>1. \A w, t : OnChain(w, t)' = OnChain(w, t) /\ EventsOf(w, t)' = EventsOf(w, t)
  BY DEF OnChain, EventsOf
<1>2. ClaimedWithin' /\ TotalIsAGrant'
  BY <1>1, HonestBefore DEF WithinGrants, ClaimedWithin, TotalIsAGrant
<1> QED
  BY <1>2, WithinHere

(* A schedule is written with a total of nothing or of its allocation. *)
LEMMA WithinWrite ==
    ASSUME VestingIndInv, WithinGrants, NEW c \in Callers, WriteSchedule(c)
    PROVE  WithinGrants'
<1> DEFINE p == call[c].pos
<1>0. /\ LogSafe /\ TablesSafe /\ WorkersSafe /\ At(c, "write") /\ ~At(c, "idle") /\ call[c].at = "write"
      /\ UNCHANGED log /\ ClaimedWithin /\ TotalIsAGrant
  BY DEF VestingIndInv, WithinGrants, WriteSchedule, At, Stay
<1>1. call[c] \in Worker /\ GoodCall(c, call[c])
  BY <1>0, WorkerFacts
<1>2. PICK w : w = call[c].wallet
  OBVIOUS
<1>3. /\ \A s \in DOMAIN schedules :
           /\ s \in DOMAIN schedules' /\ schedules'[s].wallet = schedules[s].wallet
           /\ schedules'[s].claimed = schedules[s].claimed
           /\ s # call[c].pick => schedules'[s] = schedules[s]
      /\ \A s \in DOMAIN schedules' \ DOMAIN schedules :
           /\ call[c].pick = 0 /\ schedules'[s].wallet = w
           /\ schedules'[s].claimed = 0 /\ schedules'[s].total = TotalWritten(c)
      /\ call[c].pick # 0 => schedules'[call[c].pick].total = TotalWritten(c)
  BY <1>0, <1>2, WriteScheduleTables
<1>4. \A v, t : OnChain(v, t)' = OnChain(v, t) /\ EventsOf(v, t)' = EventsOf(v, t) /\ OnChain(v, t) \in Nat
  <2>1. \A v, t : OnChain(v, t)' = OnChain(v, t) /\ EventsOf(v, t)' = EventsOf(v, t)
    BY <1>0 DEF OnChain, EventsOf
  <2> QED
    BY <1>0, <2>1, OnChainFacts
<1>5. /\ \/ TotalWritten(c) = 0
         \/ p \in EventsOf(w, "ALLOCATED") /\ TotalWritten(c) = log[p].amount
      /\ call[c].pick # 0 => call[c].pick \in DOMAIN schedules /\ schedules[call[c].pick].wallet = w
  BY <1>0, <1>1, <1>2 DEF GoodCall, InTables, FromChain, TotalWritten, EventsOf, SchedulesOf, Callers
<1>a. ClaimRowsStay
  BY WorkRows DEF VestingWork
<1>6. ClaimedWithin'
  <2> SUFFICES ASSUME NEW s \in DOMAIN schedules', HonestRows(s)'
               PROVE  schedules'[s].claimed <= OnChain(schedules'[s].wallet, "CLAIMED")
    BY <1>4 DEF ClaimedWithin
  <2>1. CASE s \in DOMAIN schedules
    BY <1>0, <1>3, <1>a, <2>1, HonestBefore DEF ClaimedWithin
  <2>2. CASE s \notin DOMAIN schedules
    BY <1>3, <1>4, <2>2
  <2> QED
    BY <2>1, <2>2
<1>7. TotalIsAGrant'
  <2> SUFFICES ASSUME NEW s \in DOMAIN schedules'
               PROVE  \/ schedules'[s].total = 0
                      \/ \E j \in EventsOf(schedules'[s].wallet, "ALLOCATED") : schedules'[s].total = log[j].amount
    BY <1>0, <1>4 DEF TotalIsAGrant
  <2>1. CASE s \in DOMAIN schedules /\ s # call[c].pick
    BY <1>0, <1>3, <2>1 DEF TotalIsAGrant
  <2>2. CASE s \in DOMAIN schedules /\ s = call[c].pick
    <3>1. call[c].pick # 0
      BY <1>0, <2>2, ScheduleFacts
    <3> QED
      BY <1>3, <1>5, <2>2, <3>1
  <2>3. CASE s \notin DOMAIN schedules
    BY <1>3, <1>5, <2>3
  <2> QED
    BY <2>1, <2>2, <2>3
<1>8. SavesAreRead
  BY WorkSaves DEF VestingWork
<1> QED
  BY <1>0, <1>6, <1>7, <1>8, <1>a, WithinHere

(* The sum that is saved was within. *)
LEMMA WithinSave ==
    ASSUME VestingIndInv, WithinGrants, NEW c \in Callers, SaveStats(c)
    PROVE  WithinGrants'
<1>0. /\ LogSafe /\ TablesSafe /\ WorkersSafe /\ At(c, "save") /\ ~At(c, "idle") /\ call[c].at = "save"
      /\ UNCHANGED log /\ ClaimedWithin /\ TotalIsAGrant /\ SavesWithin
  BY DEF VestingIndInv, WithinGrants, SaveStats, At, Stay
<1> DEFINE s0 == call[c].pick
<1>1. GoodCall(c, call[c]) /\ s0 \in DOMAIN schedules /\ schedules[s0].wallet = call[c].wallet
  BY <1>0, WorkerFacts DEF GoodCall, InTables, SchedulesOf
<1>2. PICK new : new = [schedules[s0] EXCEPT !.claimed = call[c].amount]
  OBVIOUS
<1>3. new.wallet = call[c].wallet /\ new.claimed = call[c].amount /\ new.total = schedules[s0].total
  BY <1>0, <1>1, <1>2, ScheduleFacts DEF Schedule
<1>4. schedules' = [schedules EXCEPT ![s0] = new]
  BY <1>2 DEF SaveStats
<1>5. /\ DOMAIN schedules' = DOMAIN schedules /\ schedules'[s0] = new
      /\ \A s \in DOMAIN schedules : s # s0 => schedules'[s] = schedules[s]
  BY <1>1, <1>4
<1>6. \A v, t : OnChain(v, t)' = OnChain(v, t) /\ EventsOf(v, t)' = EventsOf(v, t)
  BY <1>0 DEF OnChain, EventsOf
<1>a. ClaimRowsStay
  BY WorkRows DEF VestingWork
<1>7. ClaimedWithin'
  <2> SUFFICES ASSUME NEW s \in DOMAIN schedules, HonestRows(s)'
               PROVE  schedules'[s].claimed <= OnChain(schedules'[s].wallet, "CLAIMED")
    BY <1>5, <1>6 DEF ClaimedWithin
  <2>1. HonestRows(s)
    BY <1>a, HonestBefore
  <2>2. CASE s = s0
    BY <1>0, <1>3, <1>5, <2>1, <2>2 DEF SavesWithin
  <2>3. CASE s # s0
    BY <1>0, <1>5, <2>1, <2>3 DEF ClaimedWithin
  <2> QED
    BY <2>2, <2>3
<1>8. TotalIsAGrant'
  BY <1>0, <1>1, <1>3, <1>5, <1>6 DEF TotalIsAGrant
<1>9. SavesAreRead
  BY WorkSaves DEF VestingWork
<1> QED
  BY <1>0, <1>7, <1>8, <1>9, <1>a, WithinHere

(* The contract pays no more than it has allocated. *)
LEMMA WithinEmit ==
    ASSUME VestingIndInv, VestingIndInv', WithinGrants, NEW e \in Deal, Emit(e), UNCHANGED vestingVars,
           e.type = "CLAIMED" => OnChain(e.wallet, "ALLOCATED") >= OnChain(e.wallet, "CLAIMED") + e.amount
    PROVE  WithinGrants'
<1>0. /\ LogSafe /\ LogSafe' /\ TablesSafe /\ WorkersSafe /\ log' = Append(log, e)
      /\ ChainPays /\ ClaimedWithin /\ SavesWithin /\ TotalIsAGrant /\ UNCHANGED <<call, schedules, claims, misreported>>
  BY DEF VestingIndInv, WithinGrants, Emit, vestingVars
<1>1. \A w, t : /\ EventsOf(w, t) \subseteq EventsOf(w, t)'
                /\ \A j \in EventsOf(w, t) : log'[j] = log[j]
                /\ OnChain(w, t)' = OnChain(w, t) + (IF e.wallet = w /\ e.type = t THEN e.amount ELSE 0)
  BY <1>0, OnChainGrows
<1>2. e.amount \in Nat /\ e.type \in {"ALLOCATED", "CLAIMED"} /\ \A w, t : OnChain(w, t) \in Nat
  BY <1>0, OnChainFacts DEF Deal
<1>3. \A w, t : OnChain(w, t) <= OnChain(w, t)' /\ OnChain(w, t)' \in Nat
  BY <1>1, <1>2
<1>4. ASSUME NEW w \in Buyers PROVE OnChain(w, "CLAIMED")' <= OnChain(w, "ALLOCATED")'
  <2>1. OnChain(w, "CLAIMED") <= OnChain(w, "ALLOCATED")
    BY <1>0 DEF ChainPays
  <2>2. CASE e.type = "CLAIMED" /\ e.wallet = w
    <3>1. OnChain(w, "CLAIMED")' = OnChain(w, "CLAIMED") + e.amount
      BY <1>1, <2>2
    <3> QED
      BY <1>2, <1>3, <2>2, <3>1
  <2>3. CASE ~(e.type = "CLAIMED" /\ e.wallet = w)
    <3>1. OnChain(w, "CLAIMED")' = OnChain(w, "CLAIMED")
      BY <1>1, <1>2, <2>3
    <3> QED
      BY <1>2, <1>3, <2>1, <3>1
  <2> QED
    BY <2>2, <2>3
<1>5. ChainPays'
  BY <1>4 DEF ChainPays
<1>6. ClaimedWithin'
  <2> SUFFICES ASSUME NEW s \in DOMAIN schedules, NEW w, w = schedules[s].wallet,
                      HonestRows(s)
               PROVE  schedules[s].claimed <= OnChain(w, "CLAIMED")'
    BY <1>0 DEF ClaimedWithin, HonestRows, RowsOf, Misled
  <2>1. schedules[s].claimed \in Nat /\ schedules[s].claimed <= OnChain(w, "CLAIMED")
    BY <1>0, ScheduleFacts DEF ClaimedWithin
  <2> QED
    BY <1>2, <1>3, <2>1
<1>7. SavesWithin'
  <2> SUFFICES ASSUME NEW d \in Callers, At(d, "save"), NEW w, w = call[d].wallet,
                      HonestRows(call[d].pick)
               PROVE  call[d].amount <= OnChain(w, "CLAIMED")'
    BY <1>0 DEF SavesWithin, At, HonestRows, RowsOf, Misled
  <2>1. call[d].amount \in Nat /\ call[d].amount <= OnChain(w, "CLAIMED")
    <3>1. ~At(d, "idle")
      BY DEF At
    <3> QED
      BY <1>0, <3>1, WorkerFacts DEF Worker, SavesWithin
  <2> QED
    BY <1>2, <1>3, <2>1
<1>8. TotalIsAGrant'
  <2> SUFFICES ASSUME NEW s \in DOMAIN schedules, NEW w, w = schedules[s].wallet
               PROVE  \/ schedules[s].total = 0
                      \/ \E j \in EventsOf(w, "ALLOCATED")' : schedules[s].total = log'[j].amount
    BY <1>0 DEF TotalIsAGrant
  <2>1. CASE schedules[s].total = 0
    BY <2>1
  <2>2. CASE schedules[s].total # 0
    <3>1. PICK j \in EventsOf(w, "ALLOCATED") : schedules[s].total = log[j].amount
      BY <1>0, <2>2 DEF TotalIsAGrant
    <3>2. j \in EventsOf(w, "ALLOCATED")' /\ log'[j] = log[j]
      BY <1>1
    <3>3. schedules[s].total = log'[j].amount
      BY <3>1, <3>2
    <3> QED
      BY <3>2, <3>3
  <2> QED
    BY <2>1, <2>2
<1> QED
  BY <1>5, <1>6, <1>7, <1>8 DEF WithinGrants

LEMMA WithinStep ==
    ASSUME VestingIndInv, VestingIndInv', WithinGrants, [VestingMirrorNext]_vestingMirrorVars
    PROVE  WithinGrants'
<1>0. WorkersSafe
  BY DEF VestingIndInv
<1>1. ASSUME NEW c \in Callers, VestingWork(c) PROVE WithinGrants'
  <2>1. UNCHANGED log /\ SavesAreRead /\ ClaimRowsStay
    BY <1>1, WorkSaves, WorkRows
  <2>2. WriteSchedule(c) \/ SaveStats(c) \/ UNCHANGED schedules
    BY <1>1 DEF VestingWork, vestingVars, FindClaim, FindSchedule, FindForUpsert, FindRow, InsertRow, SumRows
  <2> QED
    BY <2>1, <2>2, WithinWrite, WithinSave, WithinCalm
<1>2. ASSUME NEW c \in Callers, Die(c), UNCHANGED vestingVars PROVE WithinGrants'
  <2>1. call' = [call EXCEPT ![c] = Idle] /\ Idle.at # "save" /\ UNCHANGED <<log, schedules>> /\ ClaimRowsStay
    BY <1>2, IdleIs DEF Die, vestingVars, ClaimRowsStay
  <2> QED
    BY <1>0, <2>1, CallTurns, WithinCalm
<1>3. ASSUME NEW w \in Beneficiaries, NEW a \in GrantSizes, Allocated(w, a) PROVE WithinGrants'
  <2>1. PICK e : e = [type |-> "ALLOCATED", wallet |-> w, amount |-> a]
    OBVIOUS
  <2>2. e \in Deal /\ e.type = "ALLOCATED" /\ Emit(e) /\ UNCHANGED vestingVars
    BY <1>3, <2>1, VestingAssumption DEF Deal, Allocated
  <2> QED
    BY <2>2, WithinEmit
<1>4. ASSUME NEW w \in Beneficiaries, NEW a \in Nat, ClaimedOnChain(w, a) PROVE WithinGrants'
  <2>1. PICK e : e = [type |-> "CLAIMED", wallet |-> w, amount |-> a]
    OBVIOUS
  <2>2. /\ e \in Deal /\ e.wallet = w /\ e.amount = a /\ Emit(e) /\ UNCHANGED vestingVars
        /\ OnChain(w, "ALLOCATED") >= OnChain(w, "CLAIMED") + a
    BY <1>4, <2>1, VestingAssumption DEF Deal, ClaimedOnChain
  <2> QED
    BY <2>2, WithinEmit
<1>5. GrantSizes \subseteq Nat /\ 1 \in Nat
  BY VestingAssumption
<1>6. ASSUME NEW f \in Fronts, NEW i, NEW w, NEW a, claimVesting(f, i, w, a)
      PROVE  WithinGrants'
  <2>1. PICK new : new = Report("find", i, w, a)
    OBVIOUS
  <2>2. new.at = "find"
    BY <2>1 DEF Report
  <2>3. call' = [call EXCEPT ![f] = new] /\ UNCHANGED <<log, schedules>> /\ f \in Callers /\ ClaimRowsStay
    BY <1>6, <2>1 DEF claimVesting, StartReport, Stay, Callers, ClaimRowsStay
  <2> QED
    BY <1>0, <2>2, <2>3, CallTurns, WithinCalm
<1>7. ASSUME UNCHANGED vestingMirrorVars PROVE WithinGrants'
  <2>1. UNCHANGED <<log, schedules>> /\ SavesAreRead /\ ClaimRowsStay
    BY <1>7 DEF vestingMirrorVars, mirrorVars, vestingVars, SavesAreRead, ClaimRowsStay, At
  <2> QED
    BY <2>1, WithinCalm
<1> QED
  BY <1>1, <1>2, <1>3, <1>4, <1>5, <1>6, <1>7 DEF VestingMirrorNext

LEMMA WithinInit ==
    ASSUME contract = "Vesting", MirrorInit, VestingMirrorInit
    PROVE  WithinGrants
<1>0. log = << >> /\ schedules = << >> /\ call = [c \in Callers |-> Idle]
  BY DEF MirrorInit, VestingMirrorInit
<1>1. VestingIndInv /\ DOMAIN log = {} /\ DOMAIN schedules = {} /\ call = [c \in Callers |-> Idle]
  BY <1>0, VestingInitInv
<1>2. \A w, t : EventsOf(w, t) = {}
  BY <1>1 DEF EventsOf
<1>3. ChainPays
  BY <1>1, <1>2, OnChainFacts DEF ChainPays, VestingIndInv
<1> QED
  BY <1>1, <1>3, IdleIs DEF WithinGrants, ClaimedWithin, SavesWithin, TotalIsAGrant, At

(* A part of a whole, in percent. *)
LEMMA PercentOfWhole ==
    ASSUME NEW x \in Nat, NEW y \in Nat, y > 0, x <= y
    PROVE  /\ (x * 100) \div y \in 0..100
           /\ (x * 100) \div y = 100 <=> x = y
<1>1. x * 100 \in Nat /\ (x * 100) \div y \in Nat
  OBVIOUS
<1> DEFINE q == (x * 100) \div y
<1>2. q * y <= x * 100 /\ x * 100 < (q + 1) * y
  BY <1>1
<1> HIDE DEF q
<1>3. q \in Nat
  BY <1>1 DEF q
<1>4. q <= 100
  <2>1. q * y <= 100 * y
    BY <1>2, <1>3
  <2> QED
    BY <1>3, <2>1
<1>5. ASSUME q = 100 PROVE x = y
  BY <1>2, <1>5
<1>6. ASSUME x = y PROVE q = 100
  <2>1. 100 * y < (q + 1) * y
    BY <1>2, <1>6
  <2>2. 100 < q + 1
    BY <1>3, <2>1
  <2> QED
    BY <1>3, <1>4, <2>2
<1> QED
  BY <1>3, <1>4, <1>5, <1>6 DEF q

LEMMA ProgressFacts ==
    ASSUME VestingIndInv, WithinGrants
    PROVE  ProgressIsAPercentage
<1>0. LogSafe /\ TablesSafe /\ ChainPays /\ ClaimedWithin /\ TotalIsAGrant
  BY DEF VestingIndInv, WithinGrants
<1> SUFFICES ASSUME NEW s \in DOMAIN schedules, NEW row, row = schedules[s], NEW w, w = row.wallet,
                    Cardinality(EventsOf(w, "ALLOCATED")) <= 1, HonestRows(s)
             PROVE  /\ calculateProgress(row) <= 100
                    /\ deriveClaimStatus(row) = "COMPLETED" <=> calculateProgress(row) = 100
                    /\ row.total > 0 => row.claimed + calculateRemaining(row.total, row.claimed) = row.total
  BY DEF ProgressIsAPercentage
<1>1. row \in Schedule /\ row.total \in Nat /\ row.claimed \in Nat /\ w \in Buyers
  BY <1>0, ScheduleFacts DEF Schedule
<1>2. CASE row.total = 0
  <2>1. calculateProgress(row) = 0
    BY <1>2 DEF calculateProgress
  <2>2. deriveClaimStatus(row) # "COMPLETED"
    BY <1>2 DEF deriveClaimStatus
  <2> QED
    BY <1>1, <1>2, <2>1, <2>2
<1>3. CASE row.total > 0
  <2>1. PICK j \in EventsOf(w, "ALLOCATED") : row.total = log[j].amount
    BY <1>0, <1>3 DEF TotalIsAGrant
  <2>2. EventsOf(w, "ALLOCATED") = {j}
    <3>1. IsFiniteSet(EventsOf(w, "ALLOCATED"))
      BY <1>0, EventsAreFinite
    <3>2. \A i \in EventsOf(w, "ALLOCATED") : i = j
      <4> SUFFICES ASSUME NEW i \in EventsOf(w, "ALLOCATED"), i # j PROVE FALSE
        OBVIOUS
      <4>1. Cardinality({i, j}) = 2 /\ IsFiniteSet({i, j})
        BY TwoAreTwo
      <4>2. Cardinality({i, j}) <= Cardinality(EventsOf(w, "ALLOCATED"))
        BY <3>1, FS_Subset
      <4>3. Cardinality(EventsOf(w, "ALLOCATED")) \in Nat
        BY <3>1, FS_CardinalityType
      <4> QED
        BY <4>1, <4>2, <4>3
    <3> QED
      BY <2>1, <3>2
  <2>3. OnChain(w, "ALLOCATED") = row.total
    BY <1>0, <2>1, <2>2, OnChainFacts
  <2>4. OnChain(w, "CLAIMED") \in Nat /\ OnChain(w, "CLAIMED") <= row.total /\ row.claimed <= OnChain(w, "CLAIMED")
    BY <1>0, <1>1, <2>3, OnChainFacts DEF ChainPays, ClaimedWithin
  <2>5. row.claimed <= row.total
    BY <1>1, <2>4
  <2>6. /\ (row.claimed * 100) \div row.total \in 0..100
        /\ (row.claimed * 100) \div row.total = 100 <=> row.claimed = row.total
    BY <1>1, <1>3, <2>5, PercentOfWhole
  <2>7. calculateProgress(row) = (row.claimed * 100) \div row.total
    BY <1>1, <1>3 DEF calculateProgress
  <2>8. deriveClaimStatus(row) = "COMPLETED" <=> row.claimed = row.total
    BY <1>1, <1>3, <2>5 DEF deriveClaimStatus
  <2>9. row.claimed + calculateRemaining(row.total, row.claimed) = row.total
    BY <1>1, <2>5 DEF calculateRemaining
  <2> QED
    BY <2>6, <2>7, <2>8, <2>9
<1> QED
  BY <1>1, <1>2, <1>3

LEMMA VestingInvImplies ==
    ASSUME VestingIndInv, WithinGrants
    PROVE  VestingMirrored
<1>5. ProgressIsAPercentage
  BY ProgressFacts
<1>0. LogSafe /\ TablesSafe /\ WorkersSafe /\ CoveredIsDealtWith /\ Unraced
  BY DEF VestingIndInv
<1>1. VestingMirrorTypeOK
  BY <1>0 DEF VestingMirrorTypeOK, MirrorTypeOK, LogSafe, TablesSafe, WorkersSafe, Deal, Schedule, Worker,
           Transactions
<1>2. ClaimsMirrored
  <2>1. ASSUME NEW i \in DOMAIN log, i <= checkpoint, log[i].type = "CLAIMED" PROVE i \in DOMAIN claims
    BY <1>0, <2>1 DEF CoveredIsDealtWith, Covered, DealtWith
  <2> QED
    BY <1>0, <2>1 DEF ClaimsMirrored, TablesSafe
<1>3. StatsAddUp
  <2> SUFFICES ASSUME NEW s \in DOMAIN schedules, ~raced, BehindCheckpoint(schedules[s].wallet),
                      RowsOf(s) \subseteq EventsOf(schedules[s].wallet, "CLAIMED")
               PROVE  schedules[s].claimed = Claimed(s)
    BY DEF StatsAddUp
  <2>1. ASSUME NEW i \in RowsOf(s) PROVE Covered(i)
    <3>1. i \in DOMAIN log /\ log[i].wallet = schedules[s].wallet
      BY DEF EventsOf
    <3> QED
      BY <3>1 DEF BehindCheckpoint, Covered
  <2> QED
    BY <1>0, <2>1 DEF Unraced, SumOrUncovered, Outstanding
<1>4. SingleGrantMirrored
  <2> SUFFICES ASSUME NEW s \in DOMAIN schedules, NEW w, w = schedules[s].wallet, ~raced, BehindCheckpoint(w),
                      Cardinality(EventsOf(w, "ALLOCATED")) = 1
               PROVE  schedules[s].total = OnChain(w, "ALLOCATED")
    BY DEF SingleGrantMirrored
  <2>1. IsFiniteSet(EventsOf(w, "ALLOCATED"))
    <3>1. IsFiniteSet(1..Len(log))
      BY <1>0, DealsAreFinite
    <3>2. EventsOf(w, "ALLOCATED") \subseteq 1..Len(log)
      BY <1>0, DealFacts DEF EventsOf
    <3> QED
      BY <3>1, <3>2, FS_Subset
  <2>2. PICK j : EventsOf(w, "ALLOCATED") = {j}
    BY <2>1, FS_Singleton
  <2>3. j \in DOMAIN log /\ log[j].wallet = w
    BY <2>2 DEF EventsOf
  <2>4. Covered(j)
    BY <2>3 DEF BehindCheckpoint, Covered
  <2>5. schedules[s].total = log[j].amount
    BY <1>0, <2>2, <2>3, <2>4 DEF Unraced, TotalOrUncovered
  <2> QED
    BY <1>0, <2>2, <2>5, OnChainFacts
<1> QED
  BY <1>1, <1>2, <1>3, <1>4, <1>5 DEF VestingMirrored

(* Behind the checkpoint every claim has its row, and whatever is posted,  *)
(* a row that was not misreported is of a claim of its schedule's wallet;  *)
(* unless two calls met at a schedule its claimed is the sum of its rows,  *)
(* if these are claims of the wallet, and a single grant's total is the    *)
(* contract's.  The progress of a single grant without a misled row is a   *)
(* percentage whoever meets where.                                         *)
THEOREM VestingIsMirrored == VestingMirrorSpec => []VestingMirrored
<1>1. contract = "Vesting" /\ MirrorInit /\ VestingMirrorInit => VestingIndInv /\ WithinGrants
  BY VestingInitInv, WithinInit
<1>2. VestingIndInv /\ WithinGrants /\ [VestingMirrorNext]_vestingMirrorVars => (VestingIndInv /\ WithinGrants)'
  <2> SUFFICES ASSUME VestingIndInv, WithinGrants, [VestingMirrorNext]_vestingMirrorVars
               PROVE  VestingIndInv' /\ WithinGrants'
    OBVIOUS
  <2>1. VestingIndInv'
    BY VestingStepInv
  <2> QED
    BY <2>1, WithinStep
<1>3. VestingIndInv /\ WithinGrants => VestingMirrored
  BY VestingInvImplies
<1> QED
  BY <1>1, <1>2, <1>3, PTL DEF VestingMirrorSpec

-----------------------------------------------------------------------------
(***************************************************************************)
(* AdaptiveFetch.  The parts of a batch lie end to end and make up the     *)
(* batch, however they were split; their events put one after the other    *)
(* are its blocks.                                                         *)
(***************************************************************************)
Part == [span : [from : FromBlock .. ToBlock, to : FromBlock .. ToBlock], attempts : 1 .. MaxRetries,
         status : {"asked", "answered", "failed"}]
EndToEnd(q) ==
    /\ q \in Seq(Part) /\ Len(q) >= 1 /\ q[1].span.from = FromBlock /\ q[Len(q)].span.to = ToBlock
    /\ \A i \in 1 .. Len(q) : q[i].span.from <= q[i].span.to
    /\ \A i \in 2 .. Len(q) : q[i].span.from = q[i - 1].span.to + 1
UpTo(t) == [k \in 1 .. t - FromBlock + 1 |-> FromBlock + k - 1]
FetchInv ==
    /\ EndToEnd(parts) /\ batch \in {"pending", "resolved", "rejected"} /\ FailureRejectsBatch
    /\ batch = "resolved" => events = UpTo(ToBlock) /\ \A i \in DOMAIN parts : parts[i].status = "answered"

LEMMA UpToGrows ==
    ASSUME NEW a \in Nat, NEW b \in Nat, FromBlock <= a, a + 1 <= b,
           NEW span, span.from = a + 1, span.to = b
    PROVE  UpTo(a) \o BlocksInOrder(span) = UpTo(b)
<1> USE FetchAssumption
<1> DEFINE m == a - FromBlock + 1
           n == b - a
<1>1. m \in Nat /\ n \in Nat /\ m + n = b - FromBlock + 1 /\ Width(span) = n
  BY DEF Width
<1>2. UpTo(a) \in Seq(Nat) /\ Len(UpTo(a)) = m /\ \A k \in 1 .. m : UpTo(a)[k] = FromBlock + k - 1
  <2>1. UpTo(a) = [k \in 1 .. m |-> FromBlock + k - 1] /\ \A k \in 1 .. m : FromBlock + k - 1 \in Nat
    BY <1>1 DEF UpTo
  <2>2. UpTo(a) \in [1 .. m -> Nat]
    BY <2>1
  <2>3. UpTo(a) \in Seq(Nat) /\ DOMAIN UpTo(a) = 1 .. m
    BY <1>1, <2>2, SeqDef
  <2> QED
    BY <1>1, <2>1, <2>3, LenProperties
<1>3. /\ BlocksInOrder(span) \in Seq(Nat) /\ Len(BlocksInOrder(span)) = n
      /\ \A k \in 1 .. n : BlocksInOrder(span)[k] = a + 1 + k - 1
  <2>1. BlocksInOrder(span) = [k \in 1 .. n |-> a + 1 + k - 1] /\ \A k \in 1 .. n : a + 1 + k - 1 \in Nat
    BY <1>1 DEF BlocksInOrder
  <2>2. BlocksInOrder(span) \in [1 .. n -> Nat]
    BY <2>1
  <2>3. BlocksInOrder(span) \in Seq(Nat) /\ DOMAIN BlocksInOrder(span) = 1 .. n
    BY <1>1, <2>2, SeqDef
  <2> QED
    BY <1>1, <2>1, <2>3, LenProperties
<1>4. UpTo(b) \in Seq(Nat) /\ Len(UpTo(b)) = m + n /\ \A k \in 1 .. m + n : UpTo(b)[k] = FromBlock + k - 1
  <2>1. UpTo(b) = [k \in 1 .. m + n |-> FromBlock + k - 1] /\ \A k \in 1 .. m + n : FromBlock + k - 1 \in Nat
    BY <1>1 DEF UpTo
  <2>2. UpTo(b) \in [1 .. m + n -> Nat] /\ m + n \in Nat
    BY <1>1, <2>1
  <2>3. UpTo(b) \in Seq(Nat) /\ DOMAIN UpTo(b) = 1 .. m + n
    BY <1>1, <2>2, SeqDef
  <2> QED
    BY <1>1, <2>1, <2>3, LenProperties
<1> DEFINE both == UpTo(a) \o BlocksInOrder(span)
<1>5. /\ both \in Seq(Nat) /\ Len(both) = m + n
      /\ \A k \in 1 .. m + n : both[k] = IF k <= m THEN UpTo(a)[k] ELSE BlocksInOrder(span)[k - m]
  <2>1. PICK one : one = UpTo(a)
    OBVIOUS
  <2>2. PICK two : two = BlocksInOrder(span)
    OBVIOUS
  <2>3. /\ one \o two \in Seq(Nat) /\ Len(one \o two) = Len(one) + Len(two)
        /\ \A k \in 1 .. Len(one) + Len(two) :
             (one \o two)[k] = IF k <= Len(one) THEN one[k] ELSE two[k - Len(one)]
    BY <1>2, <1>3, <2>1, <2>2, ConcatProperties
  <2>4. Len(one) = m /\ Len(two) = n
    BY <1>2, <1>3, <2>1, <2>2
  <2> HIDE DEF m, n
  <2> QED
    BY <2>1, <2>2, <2>3, <2>4
<1> HIDE DEF both
<1>6. ASSUME NEW k \in 1 .. m + n PROVE both[k] = UpTo(b)[k]
  <2>1. CASE k <= m
    BY <1>1, <1>2, <1>4, <1>5, <2>1
  <2>2. CASE ~ k <= m
    <3>1. k - m \in 1 .. n
      BY <1>1, <2>2
    <3>2. BlocksInOrder(span)[k - m] = a + 1 + (k - m) - 1
      BY <1>3, <3>1
    <3> QED
      BY <1>1, <1>4, <1>5, <2>2, <3>2
  <2> QED
    BY <2>1, <2>2
<1> HIDE DEF m, n
<1> QED
  BY <1>4, <1>5, <1>6, SeqEqual DEF both

(* What the recursion of FlattenSeq computes, exhibited part by part. *)
IsFlat(f, seqs) == f = [i \in 1 .. Len(seqs) |-> IF i = 1 THEN seqs[i] ELSE f[i - 1] \o seqs[i]]

LEMMA FlattenIs ==
    ASSUME NEW seqs, Len(seqs) \in Nat, Len(seqs) # 0
    PROVE  FlattenSeq(seqs) = (CHOOSE f : IsFlat(f, seqs))[Len(seqs)]
BY DEF FlattenSeq, IsFlat

LEMMA FlatIsUnique ==
    ASSUME NEW seqs, NEW n \in Nat, n # 0, Len(seqs) = n, NEW f, IsFlat(f, seqs), NEW g, IsFlat(g, seqs)
    PROVE  f[n] = g[n]
<1> DEFINE Bad == {T \in SUBSET (1 .. n) : \E i \in 1 .. n : T = 1 .. i /\ f[i] # g[i]}
<1> SUFFICES ASSUME f[n] # g[n] PROVE FALSE
  OBVIOUS
<1>1. Bad \subseteq SUBSET (1 .. n) /\ 1 .. n \in Bad /\ IsFiniteSet(1 .. n)
  BY FS_Interval
<1>2. PICK T \in Bad : \A x \in T : T \ {x} \notin Bad
  <2> HIDE DEF Bad
  <2> QED
    BY <1>1, SmallestCounterexample
<1>3. PICK i \in 1 .. n : T = 1 .. i /\ f[i] # g[i]
  BY <1>2
<1>4. i # 1
  BY <1>3 DEF IsFlat
<1>5. i - 1 \in 1 .. n /\ i \in T /\ T \ {i} = 1 .. i - 1 /\ T \ {i} \in SUBSET (1 .. n)
  BY <1>3, <1>4
<1>6. f[i - 1] = g[i - 1]
  BY <1>2, <1>5
<1>7. f[i] = f[i - 1] \o seqs[i] /\ g[i] = g[i - 1] \o seqs[i]
  BY <1>4 DEF IsFlat
<1> QED
  BY <1>3, <1>6, <1>7

LEMMA GatheredIsTheBatch ==
    ASSUME NEW q, EndToEnd(q)
    PROVE  Gathered(q) = UpTo(ToBlock)
<1> USE FetchAssumption
<1> DEFINE n == Len(q)
           seqs == [i \in DOMAIN q |-> BlocksInOrder(q[i].span)]
           g == [i \in 1 .. n |-> UpTo(q[i].span.to)]
<1>1. /\ n \in Nat /\ n # 0 /\ DOMAIN q = 1 .. n /\ \A i \in 1 .. n : q[i] \in Part
  BY ElementOfSeq, LenProperties DEF EndToEnd
<1>2. \A i \in 1 .. n : /\ q[i].span.from \in Nat /\ q[i].span.to \in Nat
                        /\ FromBlock <= q[i].span.from /\ FromBlock <= q[i].span.to
                        /\ q[i].span.from <= q[i].span.to
  BY <1>1 DEF Part, EndToEnd
<1>3. seqs = [i \in 1 .. n |-> BlocksInOrder(q[i].span)]
  BY <1>1
<1>4. Len(seqs) = n
  BY <1>1, <1>3
<1>5. \A i \in 1 .. n : seqs[i] = BlocksInOrder(q[i].span) /\ g[i] = UpTo(q[i].span.to)
  BY <1>3
<1>6. seqs[1] = g[1]
  <2>1. q[1].span.from = FromBlock /\ 1 \in 1 .. n
    BY <1>1 DEF EndToEnd
  <2> QED
    <3>1. q[1].span.to - q[1].span.from + 1 = q[1].span.to - FromBlock + 1
      BY <2>1
    <3>2. BlocksInOrder(q[1].span) = UpTo(q[1].span.to)
      BY <2>1, <3>1 DEF BlocksInOrder, UpTo, Width
    <3> QED
      BY <1>5, <2>1, <3>2
<1>7. ASSUME NEW i \in 1 .. n, i # 1 PROVE g[i] = g[i - 1] \o seqs[i]
  <2>1. i - 1 \in 1 .. n /\ i \in 2 .. n
    BY <1>1, <1>7
  <2>2. q[i].span.from = q[i - 1].span.to + 1
    BY <2>1 DEF EndToEnd
  <2>3. UpTo(q[i - 1].span.to) \o BlocksInOrder(q[i].span) = UpTo(q[i].span.to)
    BY <1>2, <2>1, <2>2, UpToGrows
  <2> QED
    BY <1>5, <2>1, <2>3
<1>8. IsFlat(g, seqs)
  <2>1. g = [i \in 1 .. n |-> g[i]]
    OBVIOUS
  <2> HIDE DEF g, seqs
  <2>2. \A i \in 1 .. n : g[i] = IF i = 1 THEN seqs[i] ELSE g[i - 1] \o seqs[i]
    BY <1>6, <1>7
  <2>3. [i \in 1 .. n |-> g[i]] = [i \in 1 .. n |-> IF i = 1 THEN seqs[i] ELSE g[i - 1] \o seqs[i]]
    BY <2>2
  <2> QED
    BY <1>4, <2>1, <2>3 DEF IsFlat
<1> HIDE DEF g, seqs
<1>9. PICK f : f = CHOOSE h : IsFlat(h, seqs)
  OBVIOUS
<1>10. IsFlat(f, seqs)
  BY <1>8, <1>9
<1>11. FlattenSeq(seqs) = f[n]
  BY <1>1, <1>4, <1>9, FlattenIs
<1>12. f[n] = g[n]
  BY <1>1, <1>4, <1>8, <1>10, FlatIsUnique
<1>13. g[n] = UpTo(ToBlock)
  BY <1>1, <1>5 DEF EndToEnd
<1> QED
  BY <1>11, <1>12, <1>13 DEF Gathered, seqs

(* A part changes but for its span. *)
LEMMA PartChanges ==
    ASSUME NEW q, EndToEnd(q), NEW i \in DOMAIN q, NEW new \in Part, new.span = q[i].span
    PROVE  /\ EndToEnd([q EXCEPT ![i] = new]) /\ DOMAIN [q EXCEPT ![i] = new] = DOMAIN q
           /\ \A j \in DOMAIN q : [q EXCEPT ![i] = new][j] = IF j = i THEN new ELSE q[j]
<1>1. q \in Seq(Part) /\ Len(q) \in Nat /\ DOMAIN q = 1 .. Len(q) /\ Len(q) >= 1
  BY LenProperties DEF EndToEnd
<1>2. PICK r : r = [q EXCEPT ![i] = new]
  OBVIOUS
<1>3. r \in Seq(Part) /\ Len(r) = Len(q) /\ \A j \in 1 .. Len(q) : r[j] = IF j = i THEN new ELSE q[j]
  BY <1>1, <1>2, ExceptSeq
<1>4. DOMAIN r = DOMAIN q
  BY <1>1, <1>3, LenProperties
<1>5. \A j \in 1 .. Len(q) : r[j].span = q[j].span
  BY <1>1, <1>3
<1>6. EndToEnd(r)
  <2>1. r[1].span = q[1].span /\ r[Len(q)].span = q[Len(q)].span
    BY <1>1, <1>5
  <2>2. \A j \in 2 .. Len(q) : r[j].span = q[j].span /\ r[j - 1].span = q[j - 1].span
    <3>1. \A j \in 2 .. Len(q) : j \in 1 .. Len(q) /\ j - 1 \in 1 .. Len(q)
      BY <1>1
    <3> QED
      BY <1>5, <3>1
  <2>3. \A j \in 2 .. Len(q) : r[j].span.from = r[j - 1].span.to + 1
    BY <2>2 DEF EndToEnd
  <2>4. \A j \in 1 .. Len(q) : r[j].span.from <= r[j].span.to
    BY <1>5 DEF EndToEnd
  <2> QED
    BY <1>1, <1>3, <2>1, <2>3, <2>4 DEF EndToEnd
<1> QED
  BY <1>1, <1>2, <1>3, <1>4, <1>6

(* Putting two elements in the place of one. *)
Spliced(q, i, a, b) == SubSeq(q, 1, i - 1) \o << a, b >> \o SubSeq(q, i + 1, Len(q))

LEMMA SpliceIs ==
    ASSUME NEW S, NEW q \in Seq(S), NEW i \in 1 .. Len(q), NEW a \in S, NEW b \in S
    PROVE  /\ Spliced(q, i, a, b) \in Seq(S) /\ Len(Spliced(q, i, a, b)) = Len(q) + 1
           /\ \A j \in 1 .. Len(q) + 1 :
                /\ j < i => Spliced(q, i, a, b)[j] = q[j]
                /\ j > i + 1 => Spliced(q, i, a, b)[j] = q[j - 1]
           /\ Spliced(q, i, a, b)[i] = a /\ Spliced(q, i, a, b)[i + 1] = b
<1>0. PICK n : n = Len(q)
  OBVIOUS
<1>r. PICK r : r = Spliced(q, i, a, b)
  OBVIOUS
<1>1. n \in Nat /\ i \in 1 .. n /\ i \in Nat /\ \A j \in 1 .. n : q[j] \in S
  BY <1>0, ElementOfSeq, LenProperties
<1>2. PICK x : x = SubSeq(q, 1, i - 1)
  OBVIOUS
<1>3. PICK z : z = SubSeq(q, i + 1, n)
  OBVIOUS
<1>4. PICK y : y = << a, b >>
  OBVIOUS
<1>5. PICK xy : xy = x \o y
  OBVIOUS
<1>6. r = xy \o z
  BY <1>0, <1>r, <1>2, <1>3, <1>4, <1>5 DEF Spliced
<1>7. x \in Seq(S) /\ Len(x) = i - 1 /\ \A j \in 1 .. i - 1 : x[j] = q[j]
  <2>1. (\A j \in 1 .. i - 1 : q[j] \in S) /\ 1 \in Int /\ i - 1 \in Int
    BY <1>1
  <2>2. /\ x \in Seq(S) /\ Len(x) = IF 1 <= i - 1 THEN i - 1 - 1 + 1 ELSE 0
        /\ \A j \in 1 .. i - 1 - 1 + 1 : x[j] = q[1 + j - 1]
    BY <1>2, <2>1, SubSeqProperties
  <2> QED
    BY <1>1, <2>2
<1>8. z \in Seq(S) /\ Len(z) = n - i /\ \A j \in 1 .. n - i : z[j] = q[i + j]
  <2>1. (\A j \in i + 1 .. n : q[j] \in S) /\ n \in Int /\ i + 1 \in Int
    BY <1>1
  <2>2. /\ z \in Seq(S) /\ Len(z) = IF i + 1 <= n THEN n - (i + 1) + 1 ELSE 0
        /\ \A j \in 1 .. n - (i + 1) + 1 : z[j] = q[i + 1 + j - 1]
    BY <1>3, <2>1, SubSeqProperties
  <2>3. Len(z) = n - i /\ n - (i + 1) + 1 = n - i
    BY <1>1, <2>2
  <2>4. \A j \in 1 .. n - i : i + 1 + j - 1 = i + j
    BY <1>1
  <2> QED
    BY <2>2, <2>3, <2>4
<1>9. y \in Seq(S) /\ Len(y) = 2 /\ y[1] = a /\ y[2] = b
  BY <1>4
<1>10. /\ xy \in Seq(S) /\ Len(xy) = Len(x) + Len(y)
       /\ \A j \in 1 .. Len(x) + Len(y) : xy[j] = IF j <= Len(x) THEN x[j] ELSE y[j - Len(x)]
  BY <1>5, <1>7, <1>9, ConcatProperties
<1>11. Len(x) = i - 1 /\ Len(xy) = i + 1 /\ Len(x) + Len(y) = i + 1
  BY <1>1, <1>7, <1>9, <1>10
<1>12. /\ r \in Seq(S) /\ Len(r) = Len(xy) + Len(z)
       /\ \A j \in 1 .. Len(xy) + Len(z) : r[j] = IF j <= Len(xy) THEN xy[j] ELSE z[j - Len(xy)]
  <2>1. xy \in Seq(S) /\ z \in Seq(S)
    BY <1>8, <1>10
  <2>2. /\ xy \o z \in Seq(S) /\ Len(xy \o z) = Len(xy) + Len(z)
        /\ \A j \in 1 .. Len(xy) + Len(z) :
             (xy \o z)[j] = IF j <= Len(xy) THEN xy[j] ELSE z[j - Len(xy)]
    BY <2>1, ConcatProperties
  <2> QED
    BY <1>6, <2>2
<1>13. Len(xy) + Len(z) = n + 1
  BY <1>1, <1>8, <1>11
<1>14. ASSUME NEW j \in Nat, 1 <= j, j < i PROVE r[j] = q[j]
  <2>1. j \in 1 .. n + 1 /\ j <= i + 1 /\ j \in 1 .. i + 1 /\ j <= i - 1 /\ j \in 1 .. i - 1
    BY <1>1, <1>14
  <2> QED
    BY <1>7, <1>10, <1>11, <1>12, <1>13, <2>1
<1>15. ASSUME NEW j \in Nat, j > i + 1, j <= n + 1 PROVE r[j] = q[j - 1]
  <2>1. j \in 1 .. n + 1 /\ ~ j <= i + 1 /\ j - (i + 1) \in 1 .. n - i /\ i + (j - (i + 1)) = j - 1
    BY <1>1, <1>15
  <2> QED
    BY <1>8, <1>11, <1>12, <1>13, <2>1
<1>16. r[i] = a
  <2>1. i \in 1 .. n + 1 /\ i <= i + 1 /\ i \in 1 .. i + 1 /\ ~ i <= i - 1 /\ i - (i - 1) = 1
    BY <1>1
  <2> QED
    BY <1>9, <1>10, <1>11, <1>12, <1>13, <2>1
<1>17. r[i + 1] = b
  <2>1. i + 1 \in 1 .. n + 1 /\ i + 1 <= i + 1 /\ i + 1 \in 1 .. i + 1 /\ ~ i + 1 <= i - 1 /\ i + 1 - (i - 1) = 2
    BY <1>1
  <2>2. xy[i + 1] = y[2]
    BY <1>10, <1>11, <2>1
  <2>3. r[i + 1] = xy[i + 1]
    BY <1>11, <1>12, <1>13, <2>1
  <2> QED
    BY <1>9, <2>2, <2>3
<1>18. \A j \in 1 .. n + 1 : j \in Nat /\ 1 <= j /\ j <= n + 1
  OBVIOUS
<1> QED
  BY <1>0, <1>r, <1>12, <1>13, <1>14, <1>15, <1>16, <1>17, <1>18

IsSpliced(r, q, n, i, a, b) ==
    /\ n \in Nat /\ i \in 1 .. n /\ r \in Seq(Part) /\ Len(r) = n + 1 /\ r[i] = a /\ r[i + 1] = b
    /\ \A j \in 1 .. n + 1 : (j < i => r[j] = q[j]) /\ (j > i + 1 => r[j] = q[j - 1])

LEMMA SplicedParts ==
    ASSUME NEW q \in Seq(Part), NEW i \in 1 .. Len(q), NEW a \in Part, NEW b \in Part
    PROVE  IsSpliced(Spliced(q, i, a, b), q, Len(q), i, a, b)
<1>1. /\ Spliced(q, i, a, b) \in Seq(Part) /\ Len(Spliced(q, i, a, b)) = Len(q) + 1
      /\ \A j \in 1 .. Len(q) + 1 :
           /\ j < i => Spliced(q, i, a, b)[j] = q[j]
           /\ j > i + 1 => Spliced(q, i, a, b)[j] = q[j - 1]
      /\ Spliced(q, i, a, b)[i] = a /\ Spliced(q, i, a, b)[i + 1] = b
  BY SpliceIs
<1>2. Len(q) \in Nat
  BY LenProperties
<1> QED
  BY <1>1, <1>2 DEF IsSpliced

(* A part is replaced by two that make it up. *)
LEMMA HalvesFit ==
    ASSUME NEW q, EndToEnd(q), NEW i \in 1 .. Len(q), NEW a \in Part, NEW b \in Part,
           a.span.from = q[i].span.from, b.span.to = q[i].span.to,
           a.span.from <= a.span.to, b.span.from = a.span.to + 1, b.span.from <= b.span.to,
           NEW r, r = Spliced(q, i, a, b)
    PROVE  /\ EndToEnd(r)
           /\ \A j \in DOMAIN r : r[j] = a \/ r[j] = b \/ \E k \in 1 .. Len(q) : r[j] = q[k]
<1>n. PICK n : n = Len(q)
  OBVIOUS
<1>q. q \in Seq(Part)
  BY DEF EndToEnd
<1>r. /\ n \in Nat /\ i \in 1 .. n /\ r \in Seq(Part) /\ Len(r) = n + 1 /\ r[i] = a /\ r[i + 1] = b
      /\ \A j \in 1 .. n + 1 : (j < i => r[j] = q[j]) /\ (j > i + 1 => r[j] = q[j - 1])
  <2>1. IsSpliced(r, q, n, i, a, b)
    BY <1>n, <1>q, SplicedParts
  <2> QED
    BY <2>1 DEF IsSpliced
<1>0. i \in Nat /\ 1 <= i /\ i <= n /\ n \in Nat
  BY <1>r
<1>1. /\ q[1].span.from = FromBlock /\ q[n].span.to = ToBlock
      /\ \A j \in 1 .. n : q[j].span.from <= q[j].span.to
      /\ \A j \in 2 .. n : q[j].span.from = q[j - 1].span.to + 1
  BY <1>n DEF EndToEnd
<1>2. r[1].span.from = FromBlock
  <2>1. CASE i = 1
    BY <1>1, <1>r, <2>1
  <2>2. CASE i # 1
    <3>1. 1 \in 1 .. n + 1 /\ 1 < i
      BY <1>0, <2>2
    <3> QED
      BY <1>1, <1>r, <3>1
  <2> QED
    BY <2>1, <2>2
<1>3. r[n + 1].span.to = ToBlock
  <2>1. CASE i = n
    BY <1>1, <1>r, <2>1
  <2>2. CASE i # n
    <3>1. n + 1 \in 1 .. n + 1 /\ n + 1 > i + 1 /\ n + 1 - 1 = n
      BY <1>0, <2>2
    <3>2. r[n + 1] = q[n]
      BY <1>r, <3>1
    <3> QED
      BY <1>1, <3>2
  <2> QED
    BY <2>1, <2>2
<1>4. ASSUME NEW j \in 1 .. n + 1 PROVE r[j].span.from <= r[j].span.to
  <2>0. j < i \/ j = i \/ j = i + 1 \/ j > i + 1
    BY <1>0
  <2>1. CASE j < i
    <3>1. j \in 1 .. n /\ r[j] = q[j]
      BY <1>0, <1>r, <2>1
    <3> QED
      BY <1>1, <3>1
  <2>2. CASE j > i + 1
    <3>1. j - 1 \in 1 .. n /\ r[j] = q[j - 1]
      BY <1>0, <1>r, <2>2
    <3> QED
      BY <1>1, <3>1
  <2>3. CASE j = i
    BY <1>r, <2>3
  <2>4. CASE j = i + 1
    BY <1>r, <2>4
  <2> QED
    BY <2>0, <2>1, <2>2, <2>3, <2>4
<1>5. ASSUME NEW j \in 2 .. n + 1 PROVE r[j].span.from = r[j - 1].span.to + 1
  <2>0. /\ j \in 1 .. n + 1 /\ j - 1 \in 1 .. n + 1
        /\ j < i \/ j = i \/ j = i + 1 \/ j = i + 2 \/ j > i + 2
    BY <1>0
  <2>1. CASE j < i
    <3>1. j \in 2 .. n /\ r[j] = q[j] /\ j - 1 < i
      BY <1>0, <1>r, <2>0, <2>1
    <3>2. r[j - 1] = q[j - 1]
      BY <1>r, <2>0, <3>1
    <3> QED
      BY <1>1, <3>1, <3>2
  <2>2. CASE j = i
    <3>1. i \in 2 .. n /\ i - 1 \in 1 .. n + 1 /\ i - 1 < i
      BY <1>0, <1>r, <2>2
    <3>2. r[i - 1] = q[i - 1]
      BY <1>r, <3>1
    <3>3. q[i].span.from = q[i - 1].span.to + 1
      BY <1>1, <3>1
    <3> QED
      BY <1>r, <2>2, <3>2, <3>3
  <2>3. CASE j = i + 1
    <3>1. j - 1 = i
      BY <1>0, <1>r, <2>3
    <3> QED
      BY <1>r, <2>3, <3>1
  <2>4. CASE j = i + 2
    <3>1. j - 1 = i + 1 /\ j > i + 1 /\ i + 1 \in 2 .. n /\ i + 1 - 1 = i
      BY <1>0, <1>r, <2>0, <2>4
    <3>2. r[j] = q[j - 1] /\ r[j - 1] = b
      BY <1>r, <2>0, <3>1
    <3>3. q[i + 1].span.from = q[i].span.to + 1
      BY <1>1, <3>1
    <3> QED
      BY <1>r, <3>1, <3>2, <3>3
  <2>5. CASE j > i + 2
    <3>1. j > i + 1 /\ j - 1 > i + 1 /\ j - 1 \in 2 .. n
      BY <1>0, <1>r, <2>0, <2>5
    <3>2. r[j] = q[j - 1] /\ r[j - 1] = q[j - 1 - 1]
      BY <1>r, <2>0, <3>1
    <3> QED
      BY <1>1, <3>1, <3>2
  <2> QED
    BY <2>0, <2>1, <2>2, <2>3, <2>4, <2>5
<1>6. Len(r) >= 1
  BY <1>0, <1>r
<1>7. EndToEnd(r)
  BY <1>2, <1>3, <1>4, <1>5, <1>6, <1>r DEF EndToEnd
<1>8. ASSUME NEW j \in DOMAIN r PROVE r[j] = a \/ r[j] = b \/ \E k \in 1 .. n : r[j] = q[k]
  <2>1. j \in 1 .. n + 1
    BY <1>r, LenProperties
  <2>2. j < i \/ j = i \/ j = i + 1 \/ j > i + 1
    BY <1>0, <2>1
  <2>3. CASE j < i
    <3>1. j \in 1 .. n /\ r[j] = q[j]
      BY <1>0, <1>r, <2>1, <2>3
    <3> QED
      BY <3>1
  <2>4. CASE j > i + 1
    <3>1. j - 1 \in 1 .. n /\ r[j] = q[j - 1]
      BY <1>0, <1>r, <2>1, <2>4
    <3> QED
      BY <3>1
  <2> QED
    BY <1>r, <2>2, <2>3, <2>4
<1> QED
  BY <1>n, <1>7, <1>8

LEMMA PartFacts ==
    ASSUME FetchInv, NEW i \in DOMAIN parts
    PROVE  /\ parts[i] \in Part /\ parts \in Seq(Part) /\ Len(parts) \in Nat /\ DOMAIN parts = 1 .. Len(parts)
           /\ i \in 1 .. Len(parts)
           /\ parts[i].span.from \in Nat /\ parts[i].span.to \in Nat
           /\ parts[i].span.from <= parts[i].span.to
           /\ FromBlock <= parts[i].span.from /\ parts[i].span.to <= ToBlock
           /\ parts[i].span.from <= ToBlock /\ FromBlock <= parts[i].span.to
<1>1. parts \in Seq(Part) /\ \A j \in 1 .. Len(parts) : parts[j].span.from <= parts[j].span.to
  BY DEF FetchInv, EndToEnd
<1>2. Len(parts) \in Nat /\ DOMAIN parts = 1 .. Len(parts) /\ parts[i] \in Part
  BY <1>1, ElementOfSeq, LenProperties
<1> QED
  BY <1>1, <1>2, FetchAssumption DEF Part

(* A request fails for good: the batch is rejected if it was pending, and  *)
(* a batch with a request under way was not resolved.                      *)
LEMMA FailKeeps ==
    ASSUME FetchInv, NEW i \in DOMAIN parts, parts[i].status = "asked",
           parts' = [parts EXCEPT ![i].status = "failed"], Reject
    PROVE  FetchInv'
<1>1. parts[i] \in Part
  BY PartFacts
<1>2. PICK new : new = [parts[i] EXCEPT !.status = "failed"]
  OBVIOUS
<1>3. new \in Part /\ new.span = parts[i].span /\ new.status = "failed"
  BY <1>1, <1>2 DEF Part
<1>4. parts' = [parts EXCEPT ![i] = new]
  BY <1>2
<1>5. EndToEnd(parts)'
  <2>1. PICK q : q = [parts EXCEPT ![i] = new]
    OBVIOUS
  <2>2. EndToEnd(q)
    BY <1>3, <2>1, PartChanges DEF FetchInv
  <2> QED
    BY <1>4, <2>1, <2>2 DEF EndToEnd, Part
<1>6. batch # "resolved" /\ batch' = "rejected"
  BY DEF FetchInv, Reject
<1> QED
  BY <1>5, <1>6 DEF FetchInv, FailureRejectsBatch

LEMMA AnswerKeeps ==
    ASSUME FetchInv, NEW i \in DOMAIN parts, Answer(i)
    PROVE  FetchInv'
<1>1. parts[i] \in Part /\ parts[i].status = "asked"
  BY PartFacts DEF Answer
<1>2. PICK new : new = [parts[i] EXCEPT !.status = "answered"]
  OBVIOUS
<1>3. new \in Part /\ new.span = parts[i].span /\ new.status = "answered"
  BY <1>1, <1>2 DEF Part
<1>4. PICK q : q = [parts EXCEPT ![i] = new]
  OBVIOUS
<1>5. parts' = q /\ Settle(q)
  BY <1>2, <1>4 DEF Answer
<1>6. /\ EndToEnd(q) /\ DOMAIN q = DOMAIN parts
      /\ \A j \in DOMAIN parts : q[j] = IF j = i THEN new ELSE parts[j]
  BY <1>3, <1>4, PartChanges DEF FetchInv
<1>7. EndToEnd(parts)'
  BY <1>5, <1>6 DEF EndToEnd, Part
<1>8. batch # "resolved"
  BY <1>1 DEF FetchInv
<1>9. CASE batch = "pending" /\ \A j \in DOMAIN q : q[j].status = "answered"
  <2>1. batch' = "resolved" /\ events' = Gathered(q)
    BY <1>5, <1>9 DEF Settle
  <2>2. Gathered(q) = UpTo(ToBlock)
    BY <1>6, GatheredIsTheBatch
  <2>3. UpTo(ToBlock)' = UpTo(ToBlock)
    BY DEF UpTo
  <2>4. FailureRejectsBatch'
    BY <1>5, <1>9 DEF FailureRejectsBatch
  <2> QED
    BY <1>5, <1>7, <1>9, <2>1, <2>2, <2>3, <2>4 DEF FetchInv
<1>10. CASE ~ (batch = "pending" /\ \A j \in DOMAIN q : q[j].status = "answered")
  <2>1. batch' = batch
    BY <1>5, <1>10 DEF Settle
  <2>2. FailureRejectsBatch'
    BY <1>3, <1>5, <1>6, <2>1 DEF FetchInv, FailureRejectsBatch
  <2> QED
    BY <1>7, <1>8, <2>1, <2>2 DEF FetchInv
<1> QED
  BY <1>9, <1>10

LEMMA TransientKeeps ==
    ASSUME FetchInv, NEW i \in DOMAIN parts, Transient(i)
    PROVE  FetchInv'
<1>1. parts[i] \in Part /\ parts[i].status = "asked" /\ batch # "resolved"
  BY PartFacts DEF Transient, FetchInv
<1>2. CASE parts[i].attempts < MaxRetries
  <2>0. PICK n : n = parts[i].attempts + 1
    OBVIOUS
  <2>1. PICK new : new = [parts[i] EXCEPT !.attempts = n]
    OBVIOUS
  <2>2. n \in 1 .. MaxRetries
    BY <1>1, <1>2, <2>0, FetchAssumption DEF Part
  <2>3. new \in Part /\ new.span = parts[i].span /\ new.status = "asked"
    BY <1>1, <2>1, <2>2 DEF Part
  <2>4. parts' = [parts EXCEPT ![i] = new] /\ UNCHANGED << batch, events >>
    BY <1>2, <2>0, <2>1 DEF Transient
  <2>5. /\ EndToEnd(parts') /\ DOMAIN parts' = DOMAIN parts
        /\ \A j \in DOMAIN parts : parts'[j] = IF j = i THEN new ELSE parts[j]
    BY <2>3, <2>4, PartChanges DEF FetchInv
  <2>6. EndToEnd(parts)'
    BY <2>5 DEF EndToEnd, Part
  <2>7. FailureRejectsBatch'
    BY <2>3, <2>4, <2>5 DEF FetchInv, FailureRejectsBatch
  <2> QED
    BY <1>1, <2>4, <2>6, <2>7 DEF FetchInv
<1>3. CASE ~ parts[i].attempts < MaxRetries
  BY <1>1, <1>3, FailKeeps DEF Transient
<1> QED
  BY <1>2, <1>3

LEMMA TooLargeKeeps ==
    ASSUME FetchInv, NEW i \in DOMAIN parts, TooLarge(i)
    PROVE  FetchInv'
<1> USE FetchAssumption
<1> DEFINE f == parts[i].span.from
           t == parts[i].span.to
           mid == f + (t - f) \div 2
<1>1. /\ parts[i] \in Part /\ parts[i].status = "asked" /\ batch # "resolved"
      /\ f \in Nat /\ t \in Nat /\ f <= t /\ FromBlock <= f /\ t <= ToBlock
  BY PartFacts DEF TooLarge, FetchInv
<1>2. CASE t <= f
  <2>1. splitRange(parts[i].span) = << >>
    BY <1>2 DEF splitRange
  <2> QED
    BY <1>1, <2>1, FailKeeps DEF TooLarge
<1>3. CASE f < t
  <2>1. mid \in Nat /\ f <= mid /\ mid < t
    BY <1>1, <1>3
  <2>2. splitRange(parts[i].span) = << Span(f, mid), Span(mid + 1, t) >>
    BY <1>1, <1>3 DEF splitRange
  <2> HIDE DEF mid
  <2>3. PICK a : a = Asked(Span(f, mid))
    OBVIOUS
  <2>4. PICK b : b = Asked(Span(mid + 1, t))
    OBVIOUS
  <2>5. /\ a \in Part /\ a.span.from = f /\ a.span.to = mid /\ a.status = "asked"
    BY <1>1, <1>3, <2>1, <2>3 DEF Asked, Span, Part
  <2>6. /\ b \in Part /\ b.span.from = mid + 1 /\ b.span.to = t /\ b.status = "asked"
    BY <1>1, <1>3, <2>1, <2>4 DEF Asked, Span, Part
  <2>7. /\ parts' = SubSeq(parts, 1, i - 1) \o << a, b >> \o SubSeq(parts, i + 1, Len(parts))
        /\ UNCHANGED << batch, events >>
    <3>1. PICK halves : halves = splitRange(parts[i].span)
      OBVIOUS
    <3>2. halves # << >> /\ a = Asked(halves[1]) /\ b = Asked(halves[2])
      BY <2>2, <2>3, <2>4, <3>1
    <3> QED
      BY <3>1, <3>2 DEF TooLarge
  <2>8. EndToEnd(parts) /\ i \in 1 .. Len(parts) /\ DOMAIN parts = 1 .. Len(parts)
    BY PartFacts DEF FetchInv
  <2>9. a.span.from <= a.span.to /\ b.span.from = a.span.to + 1 /\ b.span.from <= b.span.to
    BY <1>1, <2>1, <2>5, <2>6
  <2>10. PICK r : r = Spliced(parts, i, a, b)
    OBVIOUS
  <2>11. parts' = r
    BY <2>7, <2>10 DEF Spliced
  <2>12. /\ EndToEnd(r)
         /\ \A j \in DOMAIN r : r[j] = a \/ r[j] = b \/ \E k \in 1 .. Len(parts) : r[j] = parts[k]
    <3> HIDE DEF f, t
    <3>1. a \in Part /\ b \in Part /\ a.span.from = parts[i].span.from /\ b.span.to = parts[i].span.to
      BY <2>5, <2>6 DEF f, t
    <3> QED
      BY <2>8, <2>9, <2>10, <3>1, HalvesFit
  <2>13. EndToEnd(parts)'
    BY <2>11, <2>12 DEF EndToEnd, Part
  <2>14. ASSUME NEW j \in DOMAIN r, r[j].status = "failed"
         PROVE  \E k \in DOMAIN parts : parts[k].status = "failed"
    BY <2>5, <2>6, <2>8, <2>12, <2>14
  <2>15. FailureRejectsBatch'
    BY <2>7, <2>11, <2>14 DEF FetchInv, FailureRejectsBatch
  <2> QED
    BY <1>1, <2>7, <2>13, <2>15 DEF FetchInv
<1> QED
  BY <1>1, <1>2, <1>3

LEMMA FetchStepInv ==
    ASSUME FetchInv, [Next]_vars
    PROVE  FetchInv'
<1>1. ASSUME NEW i \in DOMAIN parts, Reply(i) PROVE FetchInv'
  <2>1. PlanLimit(i) => FetchInv'
    BY FailKeeps DEF PlanLimit
  <2> QED
    BY <1>1, <2>1, AnswerKeeps, TooLargeKeeps, TransientKeeps DEF Reply
<1>2. ASSUME UNCHANGED vars PROVE FetchInv'
  BY <1>2 DEF vars, FetchInv, EndToEnd, Part, FailureRejectsBatch, UpTo
<1> QED
  BY <1>1, <1>2 DEF Next

LEMMA FetchInitInv == Init => FetchInv
<1> USE FetchAssumption
<1> SUFFICES ASSUME Init PROVE FetchInv
  OBVIOUS
<1>1. PICK a : a = Asked(Span(FromBlock, ToBlock))
  OBVIOUS
<1>2. a \in Part /\ a.span.from = FromBlock /\ a.span.to = ToBlock /\ a.status = "asked"
  BY <1>1 DEF Asked, Span, Part
<1>3. parts = << a >> /\ batch = "pending"
  BY <1>1 DEF Init
<1>4. parts \in Seq(Part) /\ Len(parts) = 1 /\ parts[1] = a /\ DOMAIN parts = 1 .. 1
  BY <1>2, <1>3
<1>5. EndToEnd(parts)
  BY <1>2, <1>4 DEF EndToEnd
<1> QED
  BY <1>2, <1>3, <1>4, <1>5 DEF FetchInv, FailureRejectsBatch

(* However a batch is split, retried and refused, its answer is each block *)
(* of it once and in order, or the batch fails.                            *)
THEOREM FetchesAreWhole == Spec => []FetchIsWhole
<1>1. FetchInv => FetchIsWhole
  <2> SUFFICES ASSUME FetchInv PROVE FetchIsWhole
    OBVIOUS
  <2>1. TypeOK
    <3>1. batch \in {"pending", "resolved", "rejected"}
      BY DEF FetchInv
    <3>2. ASSUME NEW i \in DOMAIN parts
          PROVE  /\ parts[i].span \in [from : FromBlock .. ToBlock, to : FromBlock .. ToBlock]
                 /\ parts[i].attempts \in 1 .. MaxRetries
                 /\ parts[i].status \in {"asked", "answered", "failed"}
      <4>1. parts[i] \in Part
        BY PartFacts
      <4> QED
        BY <4>1 DEF Part
    <3> QED
      BY <3>1, <3>2 DEF TypeOK
  <2>2. ResolvedBatchIsComplete
    BY DEF FetchInv, ResolvedBatchIsComplete, UpTo
  <2> QED
    BY <2>1, <2>2 DEF FetchInv, FetchIsWhole
<1> QED
  BY <1>1, FetchInitInv, FetchStepInv, PTL DEF Spec

(***************************************************************************)
(* BlockTimestamps.  A fetch accounts for every block it has found an      *)
(* event in: it has a time, is asked for, or is still missing.             *)
(***************************************************************************)

Dated(t, b, F) == t = b \/ (t = Unavailable /\ b \in F)

CacheOK(cache, F) ==
    /\ cache \in Seq(Entry) /\ Len(cache) <= MAX_TIMESTAMP_CACHE
    /\ \A i, j \in DOMAIN cache : cache[i].block = cache[j].block => i = j
    /\ \A i \in DOMAIN cache : Dated(cache[i].time, cache[i].block, F)

Found(k, Types) == {b \in k.span : \E type \in Types : b \in EventBlocks[type]}

AttemptOK(k, c, F) ==
    /\ k \in Attempt /\ k.types \subseteq TypesOf[c]
    /\ k.at \in {"idle", "logs"} => k.missing = {} /\ k.asked = {} /\ DOMAIN k.result = {}
    /\ k.at = "logs" => k.found = Found(k, TypesOf[c] \ k.types)
    /\ k.at \in {"times", "done"} =>
         k.found = Found(k, TypesOf[c]) /\ k.found = DOMAIN k.result \cup k.missing \cup k.asked
    /\ k.at = "done" => k.missing = {} /\ k.asked = {}
    /\ \A b \in DOMAIN k.result : Dated(k.result[b], b, F)
    /\ Cardinality(k.asked) <= TIMESTAMP_CONCURRENCY

TimesInv ==
    /\ refused \subseteq Chain /\ CacheOK(timestampCache, refused)
    /\ fetch \in [Fetches -> Attempt]
    /\ \A c \in Fetches : AttemptOK(fetch[c], c, refused)

(* What has refused stays refused. *)
LEMMA ToldForGood ==
    ASSUME NEW F, NEW G, F \subseteq G
    PROVE  /\ \A cache : CacheOK(cache, F) => CacheOK(cache, G)
           /\ \A k, c : AttemptOK(k, c, F) => AttemptOK(k, c, G)
<1>1. \A t, b : Dated(t, b, F) => Dated(t, b, G)
  BY DEF Dated
<1>2. ASSUME NEW cache, CacheOK(cache, F) PROVE CacheOK(cache, G)
  BY <1>1, <1>2 DEF CacheOK
<1>3. ASSUME NEW k, NEW c, AttemptOK(k, c, F) PROVE AttemptOK(k, c, G)
  BY <1>1, <1>3 DEF AttemptOK
<1> QED
  BY <1>2, <1>3

(* A fetch's step leaves the others as they are. *)
LEMMA OneFetchMoves ==
    ASSUME TimesInv, refused \subseteq refused', refused' \subseteq Chain,
           CacheOK(timestampCache', refused'),
           NEW c \in Fetches, NEW k \in Attempt, AttemptOK(k, c, refused'),
           fetch' = [fetch EXCEPT ![c] = k]
    PROVE  TimesInv'
<1>1. fetch' \in [Fetches -> Attempt] /\ \A d \in Fetches : fetch'[d] = IF d = c THEN k ELSE fetch[d]
  BY DEF TimesInv
<1>2. ASSUME NEW d \in Fetches PROVE AttemptOK(fetch'[d], d, refused')
  <2>1. AttemptOK(fetch[d], d, refused')
    BY ToldForGood DEF TimesInv
  <2> QED
    BY <1>1, <2>1
<1> QED
  BY <1>1, <1>2 DEF TimesInv

-----------------------------------------------------------------------------
(* The cache. *)
LEMMA CacheDropsOne ==
    ASSUME NEW F, NEW cache, CacheOK(cache, F), cache # << >>
    PROVE  CacheOK(Tail(cache), F) /\ Len(Tail(cache)) = Len(cache) - 1
<1> DEFINE rest == Tail(cache)
<1>1. cache \in Seq(Entry) /\ Len(cache) \in Nat /\ DOMAIN cache = 1..Len(cache)
  BY LenProperties DEF CacheOK
<1>2. rest \in Seq(Entry) /\ Len(rest) = Len(cache) - 1 /\ \A i \in 1..Len(rest) : rest[i] = cache[i + 1]
  BY <1>1, HeadTailProperties
<1>3. DOMAIN rest = 1..Len(rest) /\ \A i \in DOMAIN rest : i + 1 \in DOMAIN cache /\ rest[i] = cache[i + 1]
  BY <1>1, <1>2, LenProperties
<1>4. \A i, j \in DOMAIN rest : rest[i].block = rest[j].block => i = j
  <2>1. \A i, j \in DOMAIN rest : rest[i].block = rest[j].block => i + 1 = j + 1
    BY <1>3 DEF CacheOK
  <2> QED
    BY <1>2, <1>3, <2>1
<1>5. \A i \in DOMAIN rest : Dated(rest[i].time, rest[i].block, F)
  BY <1>3 DEF CacheOK
<1>6. Len(rest) <= MAX_TIMESTAMP_CACHE
  BY <1>1, <1>2, TimestampsAssumption DEF CacheOK
<1> HIDE DEF rest
<1>7. CacheOK(rest, F)
  BY <1>2, <1>4, <1>5, <1>6 DEF CacheOK
<1> QED
  BY <1>2, <1>7 DEF rest

LEMMA CachePuts ==
    ASSUME NEW F, NEW cache, CacheOK(cache, F), Len(cache) < MAX_TIMESTAMP_CACHE,
           NEW b \in Chain, NEW t \in Times, Dated(t, b, F)
    PROVE  CacheOK(Put(cache, b, t), F)
<1>1. cache \in Seq(Entry) /\ Len(cache) \in Nat /\ DOMAIN cache = 1..Len(cache)
  BY LenProperties DEF CacheOK
<1>2. PICK e : e = [block |-> b, time |-> t]
  OBVIOUS
<1>3. e \in Entry /\ e.block = b /\ e.time = t
  BY <1>2 DEF Entry
<1>4. CASE \E i \in DOMAIN cache : cache[i].block = b
  <2>1. PICK new : new = [i \in DOMAIN cache |-> IF cache[i].block = b THEN e ELSE cache[i]]
    OBVIOUS
  <2>2. Put(cache, b, t) = new
    BY <1>2, <1>4, <2>1 DEF Put
  <2>3. \A i \in DOMAIN cache : cache[i] \in Entry
    BY <1>1, ElementOfSeq
  <2>4. /\ DOMAIN new = 1..Len(cache)
        /\ \A i \in DOMAIN new : new[i] = IF cache[i].block = b THEN e ELSE cache[i]
    BY <1>1, <2>1
  <2>5. new \in [1..Len(cache) -> Entry]
    BY <1>1, <1>3, <2>1, <2>3
  <2>6. new \in Seq(Entry) /\ Len(new) = Len(cache)
    BY <1>1, <2>5, SeqDef, LenProperties
  <2>7. \A i \in DOMAIN new : new[i].block = cache[i].block
    BY <1>3, <2>4
  <2>8. \A i, j \in DOMAIN new : new[i].block = new[j].block => i = j
    BY <1>1, <2>4, <2>7 DEF CacheOK
  <2>9. \A i \in DOMAIN new : Dated(new[i].time, new[i].block, F)
    BY <1>1, <1>3, <2>4 DEF CacheOK
  <2> QED
    BY <1>1, <2>2, <2>6, <2>8, <2>9, TimestampsAssumption DEF CacheOK
<1>5. CASE ~ \E i \in DOMAIN cache : cache[i].block = b
  <2>1. PICK new : new = Append(cache, e)
    OBVIOUS
  <2>2. Put(cache, b, t) = new
    BY <1>2, <1>5, <2>1 DEF Put
  <2>3. /\ new \in Seq(Entry) /\ Len(new) = Len(cache) + 1
        /\ \A i \in 1..Len(cache) : new[i] = cache[i]
        /\ new[Len(cache) + 1] = e
    BY <1>1, <1>3, <2>1, AppendProperties
  <2>4. DOMAIN new = 1..(Len(cache) + 1)
    BY <2>3, LenProperties
  <2>5. ASSUME NEW i \in DOMAIN new PROVE (i \in DOMAIN cache /\ new[i] = cache[i]) \/ (i = Len(cache) + 1 /\ new[i] = e)
    BY <1>1, <2>3, <2>4
  <2>6. \A i, j \in DOMAIN new : new[i].block = new[j].block => i = j
    BY <1>3, <1>5, <2>5 DEF CacheOK
  <2>7. \A i \in DOMAIN new : Dated(new[i].time, new[i].block, F)
    BY <1>3, <2>5 DEF CacheOK
  <2>8. Len(new) <= MAX_TIMESTAMP_CACHE
    BY <1>1, <2>3, TimestampsAssumption
  <2> QED
    BY <2>2, <2>3, <2>6, <2>7, <2>8 DEF CacheOK
<1> QED
  BY <1>4, <1>5

(* Whatever is put into the cache, it stays within its limit and true. *)
LEMMA CacheStaysTrue ==
    ASSUME NEW F, CacheOK(timestampCache, F), NEW b \in Chain, NEW t \in Times, Dated(t, b, F),
           cacheTimestamp(b, t)
    PROVE  CacheOK(timestampCache', F)
<1>1. timestampCache \in Seq(Entry) /\ Len(timestampCache) \in Nat
  BY LenProperties DEF CacheOK
<1>2. CASE Len(timestampCache) >= MAX_TIMESTAMP_CACHE
  <2>1. timestampCache # << >> /\ Len(timestampCache) = MAX_TIMESTAMP_CACHE
    BY <1>1, <1>2, EmptySeq, TimestampsAssumption DEF CacheOK
  <2>2. CacheOK(Tail(timestampCache), F) /\ Len(Tail(timestampCache)) < MAX_TIMESTAMP_CACHE
    BY <2>1, CacheDropsOne, TimestampsAssumption
  <2>3. timestampCache' = Put(Tail(timestampCache), b, t)
    BY <1>2 DEF cacheTimestamp
  <2> QED
    BY <2>2, <2>3, CachePuts
<1>3. CASE ~ (Len(timestampCache) >= MAX_TIMESTAMP_CACHE)
  <2>1. Len(timestampCache) < MAX_TIMESTAMP_CACHE
    BY <1>1, <1>3, TimestampsAssumption
  <2>2. timestampCache' = Put(timestampCache, b, t)
    BY <1>3 DEF cacheTimestamp
  <2> QED
    BY <2>1, <2>2, CachePuts
<1> QED
  BY <1>2, <1>3

-----------------------------------------------------------------------------
(* The steps. *)
LEMMA NoFetchIsSound ==
    ASSUME NEW F, NEW c \in Fetches
    PROVE  NoFetch \in Attempt /\ AttemptOK(NoFetch, c, F)
<1>1. PICK none : none = [b \in {} |-> b]
  OBVIOUS
<1>2. DOMAIN none = {} /\ none \in [{} -> Times]
  BY <1>1
<1>3. none \in Results
  BY <1>2 DEF Results
<1>4. PICK k : k = NoFetch
  OBVIOUS
<1>5. k = [at |-> "idle", span |-> {}, types |-> {}, found |-> {}, missing |-> {}, asked |-> {}, result |-> none]
  BY <1>1, <1>4 DEF NoFetch
<1>6. k \in Attempt
  BY <1>3, <1>5 DEF Attempt
<1>7. Cardinality({}) = 0
  BY FS_EmptySet
<1>8. AttemptOK(k, c, F)
  BY <1>2, <1>5, <1>6, <1>7, TimestampsAssumption DEF AttemptOK
<1> QED
  BY <1>4, <1>6, <1>8

LEMMA AsksLogs ==
    ASSUME TimesInv, NEW c \in Fetches, NEW from \in Chain, NEW to \in Chain, AskLogs(c, from, to)
    PROVE  TimesInv'
<1>1. PICK none : none = [b \in {} |-> b]
  OBVIOUS
<1>2. DOMAIN none = {} /\ none \in Results
  <2>1. DOMAIN none = {} /\ none \in [{} -> Times]
    BY <1>1
  <2> QED
    BY <2>1 DEF Results
<1>3. PICK span : span = {b \in Chain : from <= b /\ b <= to}
  OBVIOUS
<1>4. PICK k : k = [NoFetch EXCEPT !.at = "logs", !.span = span, !.types = TypesOf[c]]
  OBVIOUS
<1>5. k = [at |-> "logs", span |-> span, types |-> TypesOf[c], found |-> {}, missing |-> {}, asked |-> {}, result |-> none]
  BY <1>1, <1>4 DEF NoFetch
<1>6. k \in Attempt
  BY <1>2, <1>3, <1>5, TimestampsAssumption DEF Attempt
<1>7. Cardinality({}) = 0
  BY FS_EmptySet
<1>8. k.found = Found(k, TypesOf[c] \ k.types)
  BY <1>5 DEF Found
<1>9. AttemptOK(k, c, refused)
  <2>1. k.at = "logs" /\ k.types = TypesOf[c] /\ k.missing = {} /\ k.asked = {} /\ DOMAIN k.result = {}
    BY <1>2, <1>5
  <2> QED
    BY <1>6, <1>7, <1>8, <2>1, TimestampsAssumption DEF AttemptOK
<1>10. fetch' = [fetch EXCEPT ![c] = k] /\ timestampCache' = timestampCache /\ refused' = refused
  BY <1>3, <1>4 DEF AskLogs
<1> QED
  BY <1>6, <1>9, <1>10, OneFetchMoves DEF TimesInv

LEMMA LogsAnswer ==
    ASSUME TimesInv, NEW c \in Fetches, NEW type \in TypesOf[c], LogsAnswered(c, type)
    PROVE  TimesInv'
<1>1. PICK k : k = fetch[c]
  OBVIOUS
<1>2. k \in Attempt /\ AttemptOK(k, c, refused) /\ k.at = "logs" /\ type \in k.types
  BY <1>1 DEF TimesInv, LogsAnswered
<1>3. PICK types : types = k.types \ {type}
  OBVIOUS
<1>4. PICK found : found = k.found \cup (EventBlocks[type] \cap k.span)
  OBVIOUS
<1>5. PICK new : new = [k EXCEPT !.types = types, !.found = found]
  OBVIOUS
<1>6. /\ new \in Attempt
      /\ new.at = "logs" /\ new.types = types /\ new.found = found
      /\ new.span = k.span /\ new.missing = k.missing /\ new.asked = k.asked /\ new.result = k.result
  BY <1>2, <1>3, <1>4, <1>5 DEF Attempt
<1>7. TypesOf[c] \ types = (TypesOf[c] \ k.types) \cup {type}
  BY <1>2, <1>3
<1>8. found = Found(new, TypesOf[c] \ types)
  BY <1>2, <1>4, <1>6, <1>7 DEF Found, AttemptOK
<1>9. AttemptOK(new, c, refused)
  BY <1>2, <1>3, <1>6, <1>8 DEF AttemptOK
<1>10. /\ fetch' = [fetch EXCEPT ![c] = new]
       /\ timestampCache' = timestampCache /\ refused' = refused
  <2>1. fetch' = [fetch EXCEPT ![c].types = fetch[c].types \ {type},
                               ![c].found = fetch[c].found \cup (EventBlocks[type] \cap fetch[c].span)]
    BY DEF LogsAnswered
  <2> QED
    BY <1>1, <1>2, <1>3, <1>4, <1>5, <2>1 DEF LogsAnswered, TimesInv, Attempt
<1> QED
  BY <1>6, <1>9, <1>10, OneFetchMoves DEF TimesInv

LEMMA LooksUp ==
    ASSUME TimesInv, NEW c \in Fetches, LookUp(c)
    PROVE  TimesInv'
<1>1. PICK k : k = fetch[c]
  OBVIOUS
<1>2. k \in Attempt /\ AttemptOK(k, c, refused) /\ k.at = "logs" /\ k.types = {}
  BY <1>1 DEF TimesInv, LookUp
<1>3. PICK known : known = {b \in k.found : Cached(b) # {}}
  OBVIOUS
<1>4. PICK result : result = [b \in known |-> timestampCache[CHOOSE i \in Cached(b) : TRUE].time]
  OBVIOUS
<1>5. ASSUME NEW b \in known
      PROVE  result[b] \in Times /\ Dated(result[b], b, refused)
  <2>1. Cached(b) # {}
    BY <1>3
  <2>2. PICK i : i = CHOOSE j \in Cached(b) : TRUE
    OBVIOUS
  <2>3. i \in Cached(b)
    BY <2>1, <2>2
  <2>4. i \in DOMAIN timestampCache /\ timestampCache[i].block = b
    BY <2>3 DEF Cached
  <2>5. timestampCache \in Seq(Entry) /\ DOMAIN timestampCache = 1..Len(timestampCache)
    BY LenProperties DEF TimesInv, CacheOK
  <2>6. timestampCache[i] \in Entry
    BY <2>4, <2>5, ElementOfSeq
  <2>7. Dated(timestampCache[i].time, b, refused)
    BY <2>4 DEF TimesInv, CacheOK
  <2>8. result[b] = timestampCache[i].time
    BY <1>4, <2>2
  <2> QED
    BY <2>6, <2>7, <2>8 DEF Entry
<1>6. PICK missing : missing = k.found \ known
  OBVIOUS
<1>7. PICK new : new = [k EXCEPT !.at = "times", !.missing = missing, !.result = result]
  OBVIOUS
<1>8. known \in SUBSET Chain /\ missing \in SUBSET Chain
  BY <1>2, <1>3, <1>6 DEF Attempt
<1>9. result \in [known -> Times] /\ DOMAIN result = known
  BY <1>4, <1>5
<1>10. result \in Results
  BY <1>8, <1>9 DEF Results
<1>11. /\ new \in Attempt
       /\ new.at = "times" /\ new.missing = missing /\ new.result = result
       /\ new.types = k.types /\ new.found = k.found /\ new.span = k.span /\ new.asked = k.asked
  BY <1>2, <1>7, <1>8, <1>10 DEF Attempt
<1>12. new.found = Found(new, TypesOf[c])
  <2>1. TypesOf[c] \ k.types = TypesOf[c]
    BY <1>2
  <2> QED
    BY <1>2, <1>11, <2>1 DEF Found, AttemptOK
<1>13. new.found = DOMAIN new.result \cup new.missing \cup new.asked
  BY <1>2, <1>3, <1>6, <1>9, <1>11 DEF AttemptOK
<1>14. AttemptOK(new, c, refused)
  BY <1>2, <1>5, <1>9, <1>11, <1>12, <1>13 DEF AttemptOK
<1>15. /\ fetch' = [fetch EXCEPT ![c] = new]
       /\ timestampCache' = timestampCache /\ refused' = refused
  <2>1. fetch' = [fetch EXCEPT ![c].at = "times", ![c].missing = missing, ![c].result = result]
    BY <1>1, <1>3, <1>4, <1>6 DEF LookUp
  <2> QED
    BY <1>1, <1>2, <1>7, <2>1 DEF LookUp, TimesInv, Attempt
<1> QED
  BY <1>11, <1>14, <1>15, OneFetchMoves DEF TimesInv

LEMMA SliceIsAsked ==
    ASSUME TimesInv, NEW c \in Fetches, AskSlice(c)
    PROVE  TimesInv'
<1>1. PICK k : k = fetch[c]
  OBVIOUS
<1>2. k \in Attempt /\ AttemptOK(k, c, refused) /\ k.at = "times" /\ k.asked = {}
  BY <1>1 DEF TimesInv, AskSlice
<1>3. PICK slice \in SUBSET k.missing :
         /\ Cardinality(slice) <= TIMESTAMP_CONCURRENCY
         /\ fetch' = [fetch EXCEPT ![c].asked = slice, ![c].missing = k.missing \ slice]
  BY <1>1 DEF AskSlice
<1>4. PICK new : new = [k EXCEPT !.asked = slice, !.missing = k.missing \ slice]
  OBVIOUS
<1>5. /\ new \in Attempt
      /\ new.at = "times" /\ new.missing = k.missing \ slice /\ new.asked = slice /\ new.result = k.result
      /\ new.types = k.types /\ new.found = k.found /\ new.span = k.span
  BY <1>2, <1>4 DEF Attempt
<1>6. new.found = Found(new, TypesOf[c]) /\ new.found = DOMAIN new.result \cup new.missing \cup new.asked
  BY <1>2, <1>3, <1>5 DEF Found, AttemptOK
<1>7. AttemptOK(new, c, refused)
  BY <1>2, <1>3, <1>5, <1>6 DEF AttemptOK
<1>8. /\ fetch' = [fetch EXCEPT ![c] = new]
      /\ timestampCache' = timestampCache /\ refused' = refused
  BY <1>1, <1>2, <1>3, <1>4 DEF AskSlice, TimesInv, Attempt
<1> QED
  BY <1>5, <1>7, <1>8, OneFetchMoves DEF TimesInv

LEMMA BlockIsTimed ==
    ASSUME TimesInv, NEW c \in Fetches, NEW b \in fetch[c].asked, NEW t \in {b, Unavailable},
           BlockAnswered(c, b, t)
    PROVE  TimesInv'
<1>1. PICK k : k = fetch[c]
  OBVIOUS
<1>2. k \in Attempt /\ AttemptOK(k, c, refused) /\ k.at = "times" /\ b \in k.asked /\ b \in Chain /\ t \in Times
  BY <1>1 DEF TimesInv, BlockAnswered, Attempt, Times
<1>3. refused \subseteq refused' /\ refused' \subseteq Chain /\ Dated(t, b, refused')
  BY <1>2 DEF BlockAnswered, TimesInv, Dated
<1>4. CacheOK(timestampCache', refused')
  <2>1. CacheOK(timestampCache, refused')
    BY <1>3, ToldForGood DEF TimesInv
  <2> QED
    BY <1>2, <1>3, <2>1, CacheStaysTrue DEF BlockAnswered
<1>5. PICK result : result = [d \in DOMAIN k.result \cup {b} |-> IF d = b THEN t ELSE k.result[d]]
  OBVIOUS
<1>6. PICK S \in SUBSET Chain : k.result \in [S -> Times]
  BY <1>2 DEF Attempt, Results
<1>7. DOMAIN result = S \cup {b} /\ result \in [S \cup {b} -> Times] /\ S \cup {b} \in SUBSET Chain
  BY <1>2, <1>5, <1>6
<1>8. result \in Results
  BY <1>7 DEF Results
<1>9. PICK new : new = [k EXCEPT !.asked = k.asked \ {b}, !.result = result]
  OBVIOUS
<1>10. /\ new \in Attempt
       /\ new.at = "times" /\ new.missing = k.missing /\ new.asked = k.asked \ {b} /\ new.result = result
       /\ new.types = k.types /\ new.found = k.found /\ new.span = k.span
  BY <1>2, <1>8, <1>9 DEF Attempt
<1>11. AttemptOK(k, c, refused')
  BY <1>2, <1>3, ToldForGood
<1>12. \A d \in DOMAIN result : Dated(result[d], d, refused')
  BY <1>3, <1>5, <1>6, <1>7, <1>11 DEF AttemptOK
<1>13. new.found = Found(new, TypesOf[c])
  BY <1>2, <1>10 DEF Found, AttemptOK
<1>14. new.found = DOMAIN new.result \cup new.missing \cup new.asked
  BY <1>2, <1>6, <1>7, <1>10 DEF AttemptOK
<1>15. Cardinality(new.asked) <= TIMESTAMP_CONCURRENCY
  <2>1. IsFiniteSet(k.asked)
    BY <1>2, FS_Subset, TimestampsAssumption DEF Attempt
  <2>2. Cardinality(k.asked \ {b}) <= Cardinality(k.asked)
        /\ Cardinality(k.asked) \in Nat /\ Cardinality(k.asked \ {b}) \in Nat
    BY <2>1, FS_Subset, FS_CardinalityType
  <2> QED
    BY <1>2, <1>10, <2>2, TimestampsAssumption DEF AttemptOK
<1>16. AttemptOK(new, c, refused')
  BY <1>10, <1>11, <1>12, <1>13, <1>14, <1>15 DEF AttemptOK
<1>17. fetch' = [fetch EXCEPT ![c] = new]
  <2>1. fetch' = [fetch EXCEPT ![c].asked = k.asked \ {b}, ![c].result = result]
    BY <1>1, <1>5 DEF BlockAnswered
  <2> QED
    BY <1>1, <1>2, <1>9, <2>1 DEF TimesInv, Attempt
<1> QED
  BY <1>3, <1>4, <1>10, <1>16, <1>17, OneFetchMoves

LEMMA TimesReturn ==
    ASSUME TimesInv, NEW c \in Fetches, Return(c) \/ LogsRefused(c)
    PROVE  TimesInv'
<1>1. CASE LogsRefused(c)
  BY <1>1, NoFetchIsSound, OneFetchMoves DEF LogsRefused, TimesInv
<1>2. CASE Return(c)
  <2>1. PICK k : k = fetch[c]
    OBVIOUS
  <2>2. k \in Attempt /\ AttemptOK(k, c, refused) /\ k.at = "times" /\ k.asked = {} /\ k.missing = {}
    BY <1>2, <2>1 DEF TimesInv, Return
  <2>3. PICK new : new = [k EXCEPT !.at = "done"]
    OBVIOUS
  <2>4. /\ new \in Attempt
        /\ new.at = "done" /\ new.missing = {} /\ new.asked = {} /\ new.result = k.result
        /\ new.types = k.types /\ new.found = k.found /\ new.span = k.span
    BY <2>2, <2>3 DEF Attempt
  <2>5. new.found = Found(new, TypesOf[c])
    BY <2>2, <2>4 DEF Found, AttemptOK
  <2>6. Cardinality({}) = 0
    BY FS_EmptySet
  <2>7. AttemptOK(new, c, refused)
    BY <2>2, <2>4, <2>5, <2>6, TimestampsAssumption DEF AttemptOK
  <2>8. /\ fetch' = [fetch EXCEPT ![c] = new]
        /\ timestampCache' = timestampCache /\ refused' = refused
    BY <1>2, <2>1, <2>2, <2>3 DEF Return, TimesInv, Attempt
  <2> QED
    BY <2>4, <2>7, <2>8, OneFetchMoves DEF TimesInv
<1> QED
  BY <1>1, <1>2

LEMMA TimesStep == TimesInv /\ [TimestampsNext]_timestampVars => TimesInv'
<1> SUFFICES ASSUME TimesInv, [TimestampsNext]_timestampVars PROVE TimesInv'
  OBVIOUS
<1>1. CASE UNCHANGED timestampVars
  BY <1>1 DEF timestampVars, TimesInv
<1>2. CASE TimestampsNext
  BY <1>2, AsksLogs, LogsAnswer, LooksUp, SliceIsAsked, BlockIsTimed, TimesReturn DEF TimestampsNext
<1> QED
  BY <1>1, <1>2

LEMMA TimesInit == TimestampsInit => TimesInv
<1> SUFFICES ASSUME TimestampsInit PROVE TimesInv
  OBVIOUS
<1>1. CacheOK(<< >>, {})
  BY LenProperties, EmptySeq, TimestampsAssumption DEF CacheOK
<1>2. \A c \in Fetches : NoFetch \in Attempt /\ AttemptOK(NoFetch, c, {})
  BY NoFetchIsSound
<1> QED
  BY <1>1, <1>2 DEF TimestampsInit, TimesInv

LEMMA TimesInvSays == TimesInv => TimesAreTrue
<1> SUFFICES ASSUME TimesInv PROVE TimesAreTrue
  OBVIOUS
<1>1. CacheIsTrue
  BY DEF TimesInv, CacheOK, Dated, CacheIsTrue
<1>2. ASSUME NEW c \in Fetches
      PROVE  /\ Cardinality(fetch[c].asked) <= TIMESTAMP_CONCURRENCY
             /\ fetch[c].at = "done" =>
                  /\ DOMAIN fetch[c].result = Concerned(c, TypesOf[c])
                  /\ \A b \in DOMAIN fetch[c].result :
                       fetch[c].result[b] = b \/ (fetch[c].result[b] = Unavailable /\ b \in refused)
  <2>1. AttemptOK(fetch[c], c, refused)
    BY DEF TimesInv
  <2> QED
    BY <2>1 DEF AttemptOK, Dated, Found, Concerned
<1>3. TimestampsTypeOK
  BY DEF TimesInv, CacheOK, TimestampsTypeOK
<1> QED
  BY <1>1, <1>2, <1>3 DEF TimesAreTrue, BatchIsDated, FewAtATime

(* The times a fetch returns are the chain's or were refused, whatever the *)
(* other fetches do with the cache meanwhile.                              *)
THEOREM TimesStayTrue == TimestampsSpec => []TimesAreTrue
BY TimesInit, TimesStep, TimesInvSays, PTL DEF TimestampsSpec

(* A batch that resolves is whole and in order, and its attempts date each *)
(* of their blocks by the chain, or not at all.                            *)
THEOREM FetchesStaySound == BatchSpec => []FetchesAreSound
BY FetchesAreWhole, TimesStayTrue, PTL DEF BatchSpec, FetchesAreSound

-----------------------------------------------------------------------------
(***************************************************************************)
(* Dashboards.  Between two queries rows are only added, and their events  *)
(* stay what they are: what was counted is still there.                    *)
(***************************************************************************)

(* Only purchases in a known currency come to a row. *)
CallKnown(k) == k.at \in {"user", "create", "upsert"} => log[k.pos].type \in {eth, stable}
KnownPaid ==
    /\ \A i \in DOMAIN purchases : log[i].type \in {eth, stable}
    /\ \A c \in Callers : CallKnown(call[c])

LogGrows == \A i \in DOMAIN log : i \in DOMAIN log' /\ log'[i] = log[i]
RowsStayThere == DOMAIN purchases \subseteq DOMAIN purchases'

LEMMA PurchaserFacts ==
    ASSUME PurchaseInv
    PROVE  /\ call \in [Callers -> {Idle} \cup Labelled] /\ DOMAIN purchases \subseteq DOMAIN log
           /\ \A c \in Callers : ~At(c, "idle") => call[c] \in Labelled /\ call[c].pos \in DOMAIN log
           /\ \A i \in DOMAIN log : log[i].type \in {eth, stable, unknown}
<1>1. PurchaseTypeOK /\ CallsSafe /\ RowsSafe
  BY Parts DEF PurchaseInv
<1>2. \A c \in Callers : ~At(c, "idle") => call[c] \in Labelled /\ call[c].pos \in DOMAIN log
  BY <1>1, Busy
<1>3. \A i \in DOMAIN log : log[i].type \in {eth, stable, unknown}
  BY <1>1, LogFacts DEF Sale
<1> QED
  BY <1>1, <1>2, <1>3 DEF CallsSafe, RowsSafe

(* A call that starts afresh, or goes on with an event whose currency is   *)
(* known.                                                                  *)
LEMMA CallStaysKnown ==
    ASSUME PurchaseInv, KnownPaid, UNCHANGED log, NEW c \in Callers, NEW new,
           call' = [call EXCEPT ![c] = new], CallKnown(new)
    PROVE  \A d \in Callers : CallKnown(call[d])'
<1>1. call'[c] = new /\ \A d \in Callers : d # c => call'[d] = call[d]
  BY PurchaserFacts
<1>2. ASSUME NEW d \in Callers PROVE CallKnown(call[d])'
  <2>1. CASE d = c
    BY <1>1, <2>1 DEF CallKnown
  <2>2. CASE d # c
    BY <1>1, <2>2 DEF CallKnown, KnownPaid
  <2> QED
    BY <2>1, <2>2
<1> QED
  BY <1>2

LEMMA GotoStaysKnown ==
    ASSUME PurchaseInv, KnownPaid, UNCHANGED log, NEW c \in Callers, ~At(c, "idle"), NEW label, Goto(c, label),
           label \in {"idle", "map", "find"} \/ call[c].at \in {"user", "create", "upsert"}
    PROVE  \A d \in Callers : CallKnown(call[d])'
<1>1. PICK new : new = [call[c] EXCEPT !.at = label]
  OBVIOUS
<1>2. call[c] \in Labelled /\ CallKnown(call[c])
  BY PurchaserFacts DEF KnownPaid
<1>3. new.at = label /\ new.pos = call[c].pos
  BY <1>1, <1>2 DEF Labelled
<1>4. CallKnown(new)
  BY <1>2, <1>3 DEF CallKnown
<1> QED
  BY <1>1, <1>4, CallStaysKnown DEF Goto

LEMMA EndStaysKnown ==
    ASSUME PurchaseInv, KnownPaid, UNCHANGED log, NEW c \in Callers, NEW ok, EndOfEvent(c, ok, "map")
    PROVE  \A d \in Callers : CallKnown(call[d])'
<1>1. PICK next : next = Handle(c, "map", call[c].pos + 1, call[c].end, call[c].failed \/ ~ok)
  OBVIOUS
<1>2. call' = [call EXCEPT ![c] = next] \/ call' = [call EXCEPT ![c] = Idle]
  BY <1>1 DEF EndOfEvent
<1>3. CallKnown(next) /\ CallKnown(Idle)
  BY <1>1 DEF Handle, Idle, CallKnown
<1> QED
  BY <1>2, <1>3, CallStaysKnown

SaleMoves == LogGrows /\ RowsStayThere /\ KnownPaid'

LEMMA SaleCalm ==
    ASSUME PurchaseInv, KnownPaid, UNCHANGED <<log, purchases>>, \A d \in Callers : CallKnown(call[d])'
    PROVE  SaleMoves
BY DEF SaleMoves, LogGrows, RowsStayThere, KnownPaid

LEMMA UpsertMoves ==
    ASSUME PurchaseInv, KnownPaid, NEW c \in Callers, Upsert(c)
    PROVE  SaleMoves
<1>1. call[c].at = "upsert" /\ ~At(c, "idle") /\ EndOfEvent(c, TRUE, "map") /\ UNCHANGED log
  BY DEF Upsert, At, Stay
<1>2. log[call[c].pos].type \in {eth, stable}
  BY <1>1 DEF KnownPaid, CallKnown
<1>3. DOMAIN purchases' = DOMAIN purchases \cup {call[c].pos}
  BY DEF Upsert
<1>4. \A d \in Callers : CallKnown(call[d])'
  BY <1>1, EndStaysKnown
<1>5. \A i \in DOMAIN purchases' : log'[i].type \in {eth, stable}
  BY <1>1, <1>2, <1>3 DEF KnownPaid
<1> QED
  BY <1>1, <1>3, <1>4, <1>5 DEF SaleMoves, LogGrows, RowsStayThere, KnownPaid

LEMMA PurchaseWorkMoves ==
    ASSUME PurchaseInv, KnownPaid, NEW c \in Callers, PurchaseWork(c)
    PROVE  SaleMoves
<1>1. ASSUME StartRun(c, "map"), UNCHANGED purchaseVars PROVE SaleMoves
  <2>1. PICK end : call' = [call EXCEPT ![c] = Handle(c, "map", checkpoint + 1, end, FALSE)]
    BY <1>1 DEF StartRun
  <2>2. PICK new : new = Handle(c, "map", checkpoint + 1, end, FALSE)
    OBVIOUS
  <2>3. CallKnown(new)
    BY <2>2 DEF Handle, CallKnown
  <2>4. UNCHANGED <<log, purchases>>
    BY <1>1 DEF StartRun, Stay, purchaseVars
  <2> QED
    BY <2>1, <2>2, <2>3, <2>4, CallStaysKnown, SaleCalm
<1>2. ASSUME FindPurchase(c) PROVE SaleMoves
  <2>1. UNCHANGED <<log, purchases>> /\ ~At(c, "idle")
    BY <1>2 DEF FindPurchase, Stay, purchaseVars, At
  <2>2. EndOfEvent(c, TRUE, "map") \/ Goto(c, "map")
    BY <1>2 DEF FindPurchase
  <2> QED
    BY <2>1, <2>2, GotoStaysKnown, EndStaysKnown, SaleCalm
<1>3. ASSUME MapEvent(c) PROVE SaleMoves
  <2>1. UNCHANGED <<log, purchases>> /\ ~At(c, "idle")
    BY <1>3 DEF MapEvent, Stay, purchaseVars, At
  <2>2. call[c] \in Labelled /\ log[call[c].pos].type \in {eth, stable, unknown}
    BY <2>1, PurchaserFacts
  <2>3. PICK new : new = [call[c] EXCEPT !.at = "user", !.pick = UsdValue(c)]
    OBVIOUS
  <2>4. new.pos = call[c].pos
    BY <2>2, <2>3 DEF Labelled
  <2>5. \/ EndOfEvent(c, FALSE, "map")
        \/ call' = [call EXCEPT ![c] = new] /\ log[call[c].pos].type # unknown
    BY <1>3, <2>3 DEF MapEvent, Event
  <2>6. log[call[c].pos].type # unknown => CallKnown(new)
    BY <2>2, <2>4 DEF CallKnown
  <2> QED
    BY <2>1, <2>5, <2>6, EndStaysKnown, CallStaysKnown, SaleCalm
<1>4. ASSUME FindUser(c, "upsert"), UNCHANGED purchaseVars PROVE SaleMoves
  <2>1. UNCHANGED <<log, purchases>> /\ ~At(c, "idle") /\ call[c].at = "user"
    BY <1>4 DEF FindUser, Stay, purchaseVars, At
  <2>2. \E label : Goto(c, label)
    BY <1>4 DEF FindUser
  <2> QED
    BY <2>1, <2>2, GotoStaysKnown, SaleCalm
<1>5. ASSUME CreateUser(c, "upsert", "map"), UNCHANGED purchaseVars PROVE SaleMoves
  <2>1. UNCHANGED <<log, purchases>> /\ ~At(c, "idle") /\ call[c].at = "create"
    BY <1>5 DEF CreateUser, purchaseVars, At
  <2>2. EndOfEvent(c, FALSE, "map") \/ Goto(c, "upsert")
    BY <1>5 DEF CreateUser
  <2> QED
    BY <2>1, <2>2, GotoStaysKnown, EndStaysKnown, SaleCalm
<1> QED
  BY <1>1, <1>2, <1>3, <1>4, <1>5, UpsertMoves DEF PurchaseWork

LEMMA EmitMoves ==
    ASSUME PurchaseInv, KnownPaid, NEW t, NEW w, Purchased(t, w, 2)
    PROVE  SaleMoves
<1>1. PICK e : log' = Append(log, e)
  BY DEF Purchased, Emit
<1>2. UNCHANGED <<purchases, call>>
  BY DEF Purchased, Emit, purchaseVars
<1>3. log \in Seq(Sale) /\ Len(log) \in Nat /\ DOMAIN log = 1..Len(log)
  BY LogFacts DEF PurchaseInv
<1>4. /\ DOMAIN log \subseteq DOMAIN log'
      /\ \A i \in DOMAIN log : log'[i] = log[i]
  BY <1>1, <1>3
<1>5. ASSUME NEW d \in Callers PROVE CallKnown(call[d])'
  <2>1. call[d].at \in {"user", "create", "upsert"} => call[d].pos \in DOMAIN log
    BY PurchaserFacts DEF At
  <2> QED
    BY <1>2, <1>4, <2>1 DEF CallKnown, KnownPaid
<1>6. \A i \in DOMAIN purchases' : log'[i].type \in {eth, stable}
  BY <1>2, <1>4, PurchaserFacts DEF KnownPaid
<1> QED
  BY <1>2, <1>4, <1>5, <1>6 DEF SaleMoves, LogGrows, RowsStayThere, KnownPaid

LEMMA SaleStepMoves ==
    ASSUME PurchaseInv, KnownPaid, [PurchaseNext]_purchaseMirrorVars
    PROVE  SaleMoves
<1>1. ASSUME UNCHANGED <<log, call>>, DOMAIN purchases' = DOMAIN purchases PROVE SaleMoves
  BY <1>1 DEF SaleMoves, LogGrows, RowsStayThere, KnownPaid, CallKnown
<1>2. ASSUME NEW c \in Callers, Die(c), UNCHANGED purchaseVars PROVE SaleMoves
  <2>1. call' = [call EXCEPT ![c] = Idle] /\ UNCHANGED <<log, purchases>>
    BY <1>2 DEF Die, purchaseVars
  <2>2. CallKnown(Idle)
    BY IdleIs DEF CallKnown
  <2> QED
    BY <2>1, <2>2, CallStaysKnown, SaleCalm
<1>3. ASSUME NEW f \in Fronts, NEW i \in DOMAIN log, NEW w \in Buyers,
             StartReport(f, "find", i, w, log[i].amount), UNCHANGED purchaseVars
      PROVE  SaleMoves
  <2>1. PICK new : new = Report("find", i, w, log[i].amount)
    OBVIOUS
  <2>2. call' = [call EXCEPT ![f] = new] /\ UNCHANGED <<log, purchases>> /\ f \in Callers
    BY <1>3, <2>1 DEF StartReport, Stay, purchaseVars, Callers
  <2>3. CallKnown(new)
    BY <2>1 DEF Report, CallKnown
  <2> QED
    BY <2>2, <2>3, CallStaysKnown, SaleCalm
<1>4. ASSUME NEW p, PriceMoves(p) PROVE SaleMoves
  BY <1>1, <1>4 DEF PriceMoves
<1>5. ASSUME StartBackfill PROVE SaleMoves
  BY <1>1, <1>5 DEF StartBackfill, mirrorVars
<1>6. ASSUME Fill PROVE SaleMoves
  BY <1>1, <1>6 DEF Fill, mirrorVars
<1>7. ASSUME UNCHANGED purchaseMirrorVars PROVE SaleMoves
  BY <1>1, <1>7 DEF purchaseMirrorVars, mirrorVars, purchaseVars
<1> QED
  BY <1>2, <1>3, <1>4, <1>5, <1>6, <1>7, PurchaseWorkMoves, EmitMoves DEF PurchaseNext

-----------------------------------------------------------------------------
(* A row keeps its buyer, and its value does not fall. *)
PurchasesHold ==
    \A i \in DOMAIN purchases :
        /\ i \in DOMAIN purchases' /\ purchases'[i].wallet = purchases[i].wallet
        /\ purchases[i].usd \in Nat /\ purchases'[i].usd \in Nat /\ purchases[i].usd <= purchases'[i].usd

LEMMA PurchaseRows ==
    ASSUME PurchaseInv
    PROVE  /\ DOMAIN purchases \subseteq DOMAIN log /\ IsFiniteSet(DOMAIN purchases)
           /\ \A i \in DOMAIN purchases : purchases[i].usd \in Nat /\ purchases[i].wallet = log[i].wallet
<1>1. RowsSafe /\ PurchaseTypeOK
  BY Parts DEF PurchaseInv
<1>2. IsFiniteSet(1..Len(log)) /\ DOMAIN log = 1..Len(log)
  BY <1>1, LogFacts, FS_Interval
<1>3. IsFiniteSet(DOMAIN purchases)
  BY <1>1, <1>2, FS_Subset DEF RowsSafe
<1>4. ASSUME NEW i \in DOMAIN purchases PROVE purchases[i].usd \in Nat /\ purchases[i].wallet = log[i].wallet
  BY <1>1, <1>4 DEF RowsSafe, Row, RowsAreTheBuyers
<1> QED
  BY <1>1, <1>3, <1>4 DEF RowsSafe

LEMMA PurchasesStay ==
    ASSUME PurchaseInv, PurchaseInv', KnownPaid, [PurchaseNext]_purchaseMirrorVars
    PROVE  PurchasesHold
<1>1. SaleMoves
  BY SaleStepMoves
<1>2. \A i \in DOMAIN purchases : purchases[i].usd # 0 => purchases'[i].usd = purchases[i].usd
  BY PurchaseStepInv
<1>3. \A i \in DOMAIN purchases' : purchases'[i].usd \in Nat /\ purchases'[i].wallet = log'[i].wallet
  <2>1. (PurchaseInv <=> CallsSafe /\ RowsSafe /\ RestSafe)'
    BY Parts, PTL
  <2>2. RowsSafe'
    BY <2>1
  <2> QED
    BY <2>2 DEF RowsSafe, Row, RowsAreTheBuyers
<1>4. ASSUME NEW i \in DOMAIN purchases
      PROVE  /\ i \in DOMAIN purchases' /\ purchases'[i].wallet = purchases[i].wallet
             /\ purchases[i].usd \in Nat /\ purchases'[i].usd \in Nat /\ purchases[i].usd <= purchases'[i].usd
  <2>1. i \in DOMAIN purchases' /\ i \in DOMAIN log /\ log'[i] = log[i]
    BY <1>1, PurchaseRows DEF SaleMoves, RowsStayThere, LogGrows
  <2>2. purchases[i].usd \in Nat /\ purchases'[i].usd \in Nat /\ purchases'[i].wallet = purchases[i].wallet
    BY <1>3, <2>1, PurchaseRows
  <2>3. purchases[i].usd <= purchases'[i].usd
    BY <1>2, <2>2
  <2> QED
    BY <2>1, <2>2, <2>3
<1> QED
  BY <1>4 DEF PurchasesHold

(* The vesting mirror's steps: schedules are only added, and keep their    *)
(* wallets, and claim rows stay as they are.                               *)
SchedulesStayThere ==
    /\ Len(schedules) <= Len(schedules')
    /\ \A s \in DOMAIN schedules : s \in DOMAIN schedules' /\ schedules'[s].wallet = schedules[s].wallet
VestingMoves == LogGrows /\ SchedulesStayThere /\ ClaimRowsStay

LEMMA VestingStepMoves ==
    ASSUME VestingIndInv, [VestingMirrorNext]_vestingMirrorVars
    PROVE  VestingMoves
<1>0. LogSafe /\ TablesSafe
  BY DEF VestingIndInv
<1>1. /\ log \in Seq(Deal) /\ Len(log) \in Nat /\ DOMAIN log = 1..Len(log)
      /\ schedules \in Seq(Schedule) /\ Len(schedules) \in Nat
  BY <1>0, DealFacts, ScheduleFacts DEF LogSafe, TablesSafe
<1>2. ASSUME UNCHANGED <<log, schedules>>, ClaimRowsStay PROVE VestingMoves
  BY <1>1, <1>2 DEF VestingMoves, LogGrows, SchedulesStayThere
<1>3. ASSUME NEW s, NEW n, UNCHANGED log, ClaimRowsStay,
             schedules' = [schedules EXCEPT ![s].total = n] \/ schedules' = [schedules EXCEPT ![s].claimed = n]
      PROVE  VestingMoves
  <2>1. Len(schedules') = Len(schedules) /\ DOMAIN schedules' = DOMAIN schedules
    BY <1>1, <1>3
  <2>2. ASSUME NEW r \in DOMAIN schedules PROVE schedules'[r].wallet = schedules[r].wallet
    <3>1. schedules[r] \in Schedule
      BY <1>1
    <3>2. \/ schedules'[r] = schedules[r] \/ schedules'[r] = [schedules[r] EXCEPT !.total = n]
          \/ schedules'[r] = [schedules[r] EXCEPT !.claimed = n]
      BY <1>3
    <3> QED
      BY <3>1, <3>2 DEF Schedule
  <2> QED
    BY <1>1, <1>3, <2>1, <2>2 DEF VestingMoves, LogGrows, SchedulesStayThere
<1>4. ASSUME NEW row, UNCHANGED log, ClaimRowsStay, schedules' = Append(schedules, row) PROVE VestingMoves
  <2>1. Len(schedules') = Len(schedules) + 1
    BY <1>1, <1>4
  <2>2. \A r \in DOMAIN schedules : r \in DOMAIN schedules' /\ schedules'[r] = schedules[r]
    BY <1>1, <1>4
  <2> QED
    BY <1>1, <1>4, <2>1, <2>2 DEF VestingMoves, LogGrows, SchedulesStayThere
<1>5. ASSUME NEW e, Emit(e), UNCHANGED vestingVars PROVE VestingMoves
  <2>1. log' = Append(log, e) /\ UNCHANGED schedules /\ ClaimRowsStay
    BY <1>5 DEF Emit, vestingVars, ClaimRowsStay
  <2>2. \A i \in DOMAIN log : i \in DOMAIN log' /\ log'[i] = log[i]
    BY <1>1, <2>1
  <2> QED
    BY <1>1, <2>1, <2>2 DEF VestingMoves, LogGrows, SchedulesStayThere
<1>6. ASSUME NEW c \in Callers, VestingWork(c) PROVE VestingMoves
  <2>1. UNCHANGED log /\ ClaimRowsStay
    BY <1>6, WorkSaves, WorkRows
  <2>2. WriteSchedule(c) \/ SaveStats(c) \/ UNCHANGED schedules
    BY <1>6 DEF VestingWork, vestingVars, FindClaim, FindSchedule, FindForUpsert, FindRow, InsertRow, SumRows
  <2>3. ASSUME WriteSchedule(c) PROVE VestingMoves
    <3>1. \/ \E row : schedules' = Append(schedules, row)
          \/ \E s, n : schedules' = [schedules EXCEPT ![s].total = n]
      BY <2>3 DEF WriteSchedule
    <3> QED
      BY <1>3, <1>4, <2>1, <3>1
  <2>4. ASSUME SaveStats(c) PROVE VestingMoves
    BY <1>3, <2>1, <2>4 DEF SaveStats
  <2> QED
    BY <1>2, <2>1, <2>2, <2>3, <2>4
<1>7. ASSUME NEW c \in Callers, Die(c), UNCHANGED vestingVars PROVE VestingMoves
  BY <1>2, <1>7 DEF Die, vestingVars, ClaimRowsStay
<1>8. ASSUME NEW w, NEW a, Allocated(w, a) \/ ClaimedOnChain(w, a) PROVE VestingMoves
  BY <1>5, <1>8 DEF Allocated, ClaimedOnChain
<1>9. ASSUME NEW f, NEW i, NEW w, NEW a, claimVesting(f, i, w, a)
      PROVE  VestingMoves
  BY <1>2, <1>9 DEF claimVesting, StartReport, Stay, ClaimRowsStay
<1>10. ASSUME UNCHANGED vestingMirrorVars PROVE VestingMoves
  BY <1>2, <1>10 DEF vestingMirrorVars, mirrorVars, vestingVars, ClaimRowsStay
<1> QED
  BY <1>6, <1>7, <1>8, <1>9, <1>10 DEF VestingMirrorNext

-----------------------------------------------------------------------------
(* What the queries' answers have to do with each other. *)

(* Counting the elements of a set in two parts. *)
LEMMA CountInParts ==
    ASSUME NEW S, IsFiniteSet(S), NEW A, NEW B, A \cup B = S, A \cap B = {}
    PROVE  /\ IsFiniteSet(A) /\ IsFiniteSet(B) /\ Cardinality(A) \in Nat /\ Cardinality(B) \in Nat
           /\ Cardinality(A) + Cardinality(B) = Cardinality(S)
<1>1. IsFiniteSet(A) /\ IsFiniteSet(B)
  BY FS_Subset
<1>2. Cardinality(A) \in Nat /\ Cardinality(B) \in Nat /\ Cardinality({}) = 0
  BY <1>1, FS_CardinalityType, FS_EmptySet
<1>3. Cardinality(A \cup B) = Cardinality(A) + Cardinality(B) - Cardinality(A \cap B)
  BY <1>1, FS_Union
<1>4. Cardinality(A \cup B) = Cardinality(S) /\ Cardinality(A \cap B) = 0
  BY <1>2
<1>5. \A a, b \in Nat : a + b - 0 = a + b
  OBVIOUS
<1> QED
  BY <1>1, <1>2, <1>3, <1>4, <1>5

LEMMA SaleFigures ==
    ASSUME PurchaseInv, KnownPaid
    PROVE  /\ countAll \in Nat /\ countUniqueBuyers <= countAll
           /\ Cardinality(RowsPaid(eth)) + Cardinality(RowsPaid(stable)) = countAll
           /\ Cardinality(RowsPaid(eth)) \in Nat /\ Cardinality(RowsPaid(stable)) \in Nat
<1>1. IsFiniteSet(DOMAIN purchases)
  BY PurchaseRows
<1>2. countAll \in Nat
  BY <1>1, FS_CardinalityType DEF countAll
<1>3. /\ RowsPaid(eth) \cup RowsPaid(stable) = DOMAIN purchases
      /\ RowsPaid(eth) \cap RowsPaid(stable) = {}
  BY PurchaseAssumption DEF RowsPaid, KnownPaid
<1>4. countUniqueBuyers <= countAll
  <2> DEFINE T == {purchases[i].wallet : i \in DOMAIN purchases}
             f == [i \in DOMAIN purchases |-> purchases[i].wallet]
  <2>1. f \in Surjection(DOMAIN purchases, T)
    BY DEF Surjection
  <2> HIDE DEF f
  <2>2. Cardinality(T) <= Cardinality(DOMAIN purchases)
    BY <1>1, <2>1, FS_Surjection
  <2> QED
    BY <2>2 DEF countUniqueBuyers, countAll
<1> QED
  BY <1>1, <1>2, <1>3, <1>4, CountInParts DEF countAll

LEMMA VestingFigures ==
    ASSUME VestingIndInv, IsFiniteSet(entrants)
    PROVE  /\ InStatus("NOT_STARTED") = findNeverClaimed /\ InStatus("COMPLETED") = findFullyClaimed
           /\ Len(schedules) - findNeverClaimed - findFullyClaimed = InStatus("PARTIAL")
           /\ classifiedSchedules.both + classifiedSchedules.buyerOnly = Len(schedules)
           /\ ~raced => classifiedSchedules.both + participantOnly = Cardinality(entrants)
<1> DEFINE D == DOMAIN schedules
           N == {s \in D : schedules[s].claimed = 0}
           F == {s \in D : schedules[s].claimed >= schedules[s].total /\ schedules[s].total > 0}
           P == {s \in D : deriveClaimStatus(schedules[s]) = "PARTIAL"}
<1>0. TablesSafe /\ Unraced
  BY DEF VestingIndInv
<1>1. /\ Len(schedules) \in Nat /\ D = 1..Len(schedules)
      /\ \A s \in D : schedules[s] \in Schedule /\ schedules[s].claimed \in Nat /\ schedules[s].total \in Nat
  BY <1>0, ScheduleFacts DEF Schedule
<1>2. IsFiniteSet(D) /\ Cardinality(D) = Len(schedules)
  BY <1>1, FS_Interval
<1>3. /\ N = {s \in D : deriveClaimStatus(schedules[s]) = "NOT_STARTED"}
      /\ F = {s \in D : deriveClaimStatus(schedules[s]) = "COMPLETED"}
      /\ (N \cup F) \cup P = D /\ (N \cup F) \cap P = {} /\ N \cap F = {}
  BY <1>1 DEF deriveClaimStatus
<1>4. /\ findNeverClaimed = Cardinality(N) /\ findFullyClaimed = Cardinality(F)
      /\ InStatus("PARTIAL") = Cardinality(P)
  BY DEF findNeverClaimed, findFullyClaimed, InStatus
<1>5. InStatus("NOT_STARTED") = findNeverClaimed /\ InStatus("COMPLETED") = findFullyClaimed
  BY <1>3, <1>4 DEF InStatus
<1>6. Len(schedules) - findNeverClaimed - findFullyClaimed = InStatus("PARTIAL")
  <2> HIDE DEF D, N, F, P
  <2>1. /\ IsFiniteSet(N \cup F) /\ Cardinality(N \cup F) + Cardinality(P) = Cardinality(D)
        /\ Cardinality(P) \in Nat
    BY <1>2, <1>3, CountInParts
  <2>2. PICK U : U = N \cup F
    OBVIOUS
  <2>3. IsFiniteSet(U) /\ N \cap F = {} /\ N \cup F = U
    BY <1>3, <2>1, <2>2
  <2>4. Cardinality(N) + Cardinality(F) = Cardinality(U) /\ Cardinality(N) \in Nat /\ Cardinality(F) \in Nat
    BY <2>3, CountInParts
  <2> QED
    BY <1>1, <1>2, <1>4, <2>1, <2>2, <2>4
<1> DEFINE B == {s \in D : schedules[s].wallet \in entrants}
           C == {s \in D : schedules[s].wallet \notin entrants}
           V == {w \in entrants : SchedulesOf(w) # {}}
           O == {w \in entrants : SchedulesOf(w) = {}}
<1>7. classifiedSchedules.both = Cardinality(B) /\ classifiedSchedules.buyerOnly = Cardinality(C)
      /\ participantOnly = Cardinality(O)
  BY DEF classifiedSchedules, participantOnly
<1>8. B \cup C = D /\ B \cap C = {} /\ V \cup O = entrants /\ V \cap O = {}
  OBVIOUS
<1>9. ASSUME ~raced PROVE Cardinality(B) = Cardinality(V)
  <2> DEFINE f == [s \in B |-> schedules[s].wallet]
  <2>1. f \in [B -> V]
    BY DEF SchedulesOf
  <2>2. f \in Injection(B, V)
    BY <1>0, <1>9, <2>1 DEF Injection, IsInjective, Unraced, OneScheduleEach
  <2>3. \A w \in V : \E s \in B : f[s] = w
    BY DEF SchedulesOf
  <2>4. f \in Bijection(B, V)
    BY <2>1, <2>2, <2>3 DEF Bijection, Surjection
  <2> HIDE DEF f
  <2>5. IsFiniteSet(B)
    BY <1>2, FS_Subset
  <2> HIDE DEF B, V
  <2> QED
    BY <2>4, <2>5, FS_Bijection DEF ExistsBijection
<1> HIDE DEF B, C, V, O
<1>10. /\ Cardinality(B) + Cardinality(C) = Cardinality(D)
       /\ Cardinality(V) + Cardinality(O) = Cardinality(entrants)
  BY <1>2, <1>8, CountInParts
<1> QED
  BY <1>2, <1>5, <1>6, <1>7, <1>9, <1>10

-----------------------------------------------------------------------------
(* What the tables keep, whichever contract it is, and what that gives the *)
(* dashboards.                                                             *)
TablesHold ==
    \/ contract = "Sale" /\ PurchaseInv /\ KnownPaid
    \/ contract = "Vesting" /\ VestingIndInv /\ WithinGrants
Rows == IF contract = "Sale" THEN countAll ELSE Len(schedules)

(* Rows are only added, a purchase keeps its buyer and never loses value.  *)
TablesGrow ==
    /\ contract' = contract /\ LogGrows /\ Rows <= Rows'
    /\ contract = "Sale" => PurchasesHold /\ IsFiniteSet(DOMAIN purchases')
    /\ contract = "Vesting" => SchedulesStayThere /\ ClaimRowsStay

LEMMA RowsType ==
    ASSUME TablesHold
    PROVE  Rows \in Nat /\ contract \in {"Sale", "Vesting"}
<1>1. CASE contract = "Sale" /\ PurchaseInv /\ KnownPaid
  BY <1>1, SaleFigures DEF Rows
<1>2. CASE contract = "Vesting" /\ VestingIndInv /\ WithinGrants
  BY <1>2, ScheduleFacts DEF Rows, VestingIndInv
<1> QED
  BY <1>1, <1>2 DEF TablesHold

LEMMA PurchasesAreFinite == PurchaseInv => IsFiniteSet(DOMAIN purchases)
BY PurchaseRows

LEMMA PurchasesHaveValue == PurchaseInv => \A i \in DOMAIN purchases : purchases[i].usd \in Nat
BY PurchaseRows

LEMMA RowsAreNatural == TablesHold => Rows \in Nat
BY RowsType

LEMMA LogIsFinite == LogSafe => IsFiniteSet(DOMAIN log)
<1> SUFFICES ASSUME LogSafe PROVE IsFiniteSet(DOMAIN log)
  OBVIOUS
<1> QED
  BY DealFacts, DealsAreFinite

LEMMA UnmovedTables ==
    ASSUME TablesHold, UNCHANGED <<mirrorVars, purchaseVars, vestingVars>>
    PROVE  TablesHold'
<1>1. CASE contract = "Sale" /\ PurchaseInv /\ KnownPaid
  <2>1. [PurchaseNext]_purchaseMirrorVars /\ contract' = "Sale"
    BY <1>1 DEF purchaseMirrorVars, mirrorVars
  <2> QED
    BY <1>1, <2>1, PurchaseStepInv, SaleStepMoves DEF TablesHold, SaleMoves
<1>2. CASE contract = "Vesting" /\ VestingIndInv /\ WithinGrants
  <2>1. [VestingMirrorNext]_vestingMirrorVars /\ contract' = "Vesting"
    BY <1>2 DEF vestingMirrorVars, mirrorVars
  <2>2. VestingIndInv'
    BY <1>2, <2>1, VestingStepInv
  <2>3. WithinGrants'
    BY <1>2, <2>1, <2>2, WithinStep
  <2> QED
    BY <2>1, <2>2, <2>3 DEF TablesHold
<1> QED
  BY <1>1, <1>2 DEF TablesHold

LEMMA WrittenTables ==
    ASSUME TablesHold, TablesWritten
    PROVE  TablesHold' /\ TablesGrow
<1>1. ASSUME contract = "Sale", PurchaseInv, KnownPaid, PurchaseNext PROVE TablesHold' /\ TablesGrow
  <2>1. PurchaseInv' /\ SaleMoves
    BY <1>1, PurchaseStepInv, SaleStepMoves
  <2>2. contract' = "Sale"
    <3>1. (PurchaseInv <=> CallsSafe /\ RowsSafe /\ RestSafe)'
      BY Parts, PTL
    <3> QED
      BY <2>1, <3>1 DEF RestSafe
  <2>3. PurchasesHold
    BY <1>1, <2>1, PurchasesStay
  <2>4. IsFiniteSet(DOMAIN purchases')
    <3>1. (PurchaseInv => IsFiniteSet(DOMAIN purchases))'
      BY PurchasesAreFinite, PTL
    <3> QED
      BY <2>1, <3>1
  <2>5. Cardinality(DOMAIN purchases) <= Cardinality(DOMAIN purchases')
    BY <2>1, <2>4, FS_Subset DEF SaleMoves, RowsStayThere
  <2>6. Rows <= Rows'
    BY <1>1, <2>2, <2>5 DEF Rows, countAll
  <2> QED
    BY <1>1, <2>1, <2>2, <2>3, <2>4, <2>6 DEF TablesHold, TablesGrow, SaleMoves
<1>2. ASSUME contract = "Vesting", VestingIndInv, WithinGrants, VestingMirrorNext
      PROVE  TablesHold' /\ TablesGrow
  <2>1. VestingIndInv' /\ LogGrows /\ SchedulesStayThere /\ ClaimRowsStay
    BY <1>2, VestingStepInv, VestingStepMoves DEF VestingMoves
  <2>2. WithinGrants'
    BY <1>2, <2>1, WithinStep
  <2>3. contract' = "Vesting"
    BY <2>1 DEF VestingIndInv, LogSafe
  <2> QED
    BY <1>2, <2>1, <2>2, <2>3 DEF TablesHold, TablesGrow, Rows, SchedulesStayThere
<1> QED
  BY <1>1, <1>2 DEF TablesHold, TablesWritten

(* An answer changes only when a table does. *)
LEMMA AnswersStand ==
    ASSUME TablesHold, LogGrows, UNCHANGED <<contract, purchases, schedules, entrants>>, NEW q \in Queries
    PROVE  AnswerTo(q)' = AnswerTo(q)
<1>1. CASE contract = "Sale" /\ PurchaseInv /\ KnownPaid
  <2>1. \A i \in DOMAIN purchases : log'[i] = log[i]
    BY <1>1, PurchaseRows DEF LogGrows
  <2>2. \A t : RowsPaid(t)' = RowsPaid(t)
    BY <2>1 DEF RowsPaid
  <2>3. RowsPaid(eth)' = RowsPaid(eth) /\ RowsPaid(stable)' = RowsPaid(stable)
    BY <2>2
  <2>4. getStatsByAsset' = getStatsByAsset
    BY <2>3 DEF getStatsByAsset
  <2>5. countAll' = countAll /\ countUniqueBuyers' = countUniqueBuyers
    BY DEF countAll, countUniqueBuyers
  <2>6. q \in {"count", "buyers", "byAsset", "bySource"}
    BY <1>1 DEF Queries, Stats
  <2> QED
    BY <1>1, <2>4, <2>5, <2>6 DEF AnswerTo
<1>2. CASE contract = "Vesting" /\ VestingIndInv /\ WithinGrants
  <2>1. q \in {"totals", "never", "full", "bySource", "classified", "participantOnly"}
    BY <1>2 DEF Queries, Analytics
  <2>2. /\ getAggregatedTotals' = getAggregatedTotals /\ getStatsBySource' = getStatsBySource
        /\ findNeverClaimed' = findNeverClaimed /\ findFullyClaimed' = findFullyClaimed
        /\ classifiedSchedules' = classifiedSchedules /\ participantOnly' = participantOnly
    BY DEF getAggregatedTotals, getStatsBySource, Sums, findNeverClaimed, findFullyClaimed,
           classifiedSchedules, participantOnly, SchedulesOf
  <2> QED
    BY <1>2, <2>1, <2>2 DEF AnswerTo
<1> QED
  BY <1>1, <1>2 DEF TablesHold

(* The rows counted in an answer are those of the moment. *)
LEMMA AnswersCount ==
    ASSUME TablesHold, NEW q \in Queries, NEW a, a = AnswerTo(q)
    PROVE  /\ q = "totals" => a.count = Rows
           /\ q = "count" => a = Rows
           /\ q = "byAsset" => a.eth + a.stable = Rows
<1>1. q = "totals" => a.count = Len(schedules) /\ contract # "Sale"
  BY DEF AnswerTo, getAggregatedTotals, Sums, Queries, Stats
<1>2. q = "count" => a = countAll /\ contract = "Sale"
  BY DEF AnswerTo, Queries, Analytics
<1>3. ASSUME q = "byAsset" PROVE a.eth + a.stable = Rows
  <2>1. contract = "Sale"
    BY <1>3 DEF Queries, Analytics
  <2>2. PurchaseInv /\ KnownPaid
    BY <2>1 DEF TablesHold
  <2>3. a = getStatsByAsset
    BY <1>3 DEF AnswerTo
  <2>4. a.eth = Cardinality(RowsPaid(eth)) /\ a.stable = Cardinality(RowsPaid(stable))
    BY <2>3 DEF getStatsByAsset
  <2> QED
    BY <2>1, <2>2, <2>4, SaleFigures DEF Rows
<1> QED
  BY <1>1, <1>2, <1>3 DEF Rows

-----------------------------------------------------------------------------
(* The inductive invariant: a dashboard's answers count what there was     *)
(* when it was asked for, and are those of now if nothing has moved; and   *)
(* what a profile says, old as it may be, stays below what there is.       *)
AnswerHolds(q, a) ==
    /\ ~moved => a = AnswerTo(q)
    /\ q = "totals" => a.count \in Nat /\ before <= a.count /\ a.count <= Rows
    /\ q = "count" => a \in Nat /\ before <= a /\ a <= Rows
    /\ q = "byAsset" => a.eth + a.stable \in Nat /\ before <= a.eth + a.stable /\ a.eth + a.stable <= Rows
BoardHolds ==
    /\ dashboard = [asked |-> dashboard.asked, got |-> dashboard.got] /\ DOMAIN dashboard.got \subseteq Queries
    /\ before \in Nat /\ before <= Rows /\ IsFiniteSet(entrants)
    /\ \A q \in DOMAIN dashboard.got : AnswerHolds(q, dashboard.got[q])
BuyerHolds ==
    profile.at = "told" /\ contract = "Sale" =>
        /\ profile.row.totalPurchases \in Nat
        /\ profile.row.totalPurchases <= Cardinality(PurchasesOf(profile.wallet))
        /\ profile.row.totalSpentUsd \in Nat /\ profile.row.totalSpentUsd <= Spent(profile.wallet)
AllHonest(w) == \A s \in SchedulesOf(w) : HonestRows(s)
BeneficiaryHolds ==
    profile.at = "told" /\ contract = "Vesting" /\ Cardinality(EventsOf(profile.wallet, "ALLOCATED")) <= 1
        /\ AllHonest(profile.wallet) => calculateProgress(profile.row) <= 100
ProfileHolds ==
    /\ profile = [at |-> profile.at, wallet |-> profile.wallet, entrant |-> profile.entrant, row |-> profile.row]
    /\ profile.entrant => profile.wallet \in entrants
    /\ BuyerHolds /\ BeneficiaryHolds
DashInv == TablesHold /\ BoardHolds /\ ProfileHolds

LEMMA DashInit ==
    contract \in {"Sale", "Vesting"} /\ MirrorInit /\ PurchaseInit /\ VestingMirrorInit /\ DashboardsInit
        => DashInv
<1> SUFFICES ASSUME contract \in {"Sale", "Vesting"}, MirrorInit, PurchaseInit, VestingMirrorInit, DashboardsInit
             PROVE  DashInv
  OBVIOUS
<1>1. TablesHold
  <2>1. CASE contract = "Sale"
    <3>1. \A c \in Callers : CallKnown(call[c])
      BY IdleIs DEF MirrorInit, CallKnown
    <3>2. KnownPaid
      BY <3>1 DEF KnownPaid, PurchaseInit
    <3> QED
      BY <2>1, <3>2, PurchaseInitInv DEF TablesHold
  <2>2. CASE contract = "Vesting"
    BY <2>2, VestingInitInv, WithinInit DEF TablesHold
  <2> QED
    BY <2>1, <2>2
<1>2. BoardHolds
  <2>1. dashboard = [asked |-> FALSE, got |-> << >>] /\ before = 0 /\ entrants = {}
    BY DEF DashboardsInit
  <2>2. DOMAIN dashboard.got = {} /\ dashboard = [asked |-> dashboard.asked, got |-> dashboard.got]
    BY <2>1
  <2>3. 0 <= Rows
    BY <1>1, RowsType
  <2> QED
    BY <2>1, <2>2, <2>3, FS_EmptySet DEF BoardHolds
<1>3. ProfileHolds
  <2>1. profile = [at |-> "none", wallet |-> "", entrant |-> FALSE, row |-> << >>]
    BY DEF DashboardsInit, NoProfile
  <2> QED
    BY <2>1 DEF ProfileHolds, BuyerHolds, BeneficiaryHolds
<1> QED
  BY <1>1, <1>2, <1>3 DEF DashInv

(* The tables are written. *)
LEMMA WritingHolds ==
    ASSUME DashInv, TablesWritten
    PROVE  DashInv'
<1>0. /\ TablesHold /\ BoardHolds /\ ProfileHolds /\ TablesHold' /\ TablesGrow
      /\ UNCHANGED <<entrants, dashboard, profile, before>> /\ contract' = contract
  BY WrittenTables DEF DashInv, TablesWritten, TablesGrow
<1>1. Rows \in Nat /\ Rows' \in Nat /\ Rows <= Rows'
  <2>1. (TablesHold => Rows \in Nat)'
    BY RowsAreNatural, PTL
  <2> QED
    BY <1>0, <2>1, RowsType DEF TablesGrow
<1>2. BoardHolds'
  <2>1. ASSUME NEW q \in DOMAIN dashboard.got, NEW a, a = dashboard.got[q] PROVE AnswerHolds(q, a)'
    <3>1. AnswerHolds(q, a) /\ q \in Queries /\ before \in Nat
      BY <1>0, <2>1 DEF BoardHolds
    <3>2. ASSUME ~moved' PROVE a = AnswerTo(q)'
      <4>1. ~moved /\ UNCHANGED <<purchases, schedules>>
        BY <3>2 DEF TablesWritten
      <4> QED
        BY <1>0, <3>1, <4>1, AnswersStand DEF AnswerHolds, TablesGrow
    <3> QED
      BY <1>0, <1>1, <3>1, <3>2 DEF AnswerHolds
  <2>2. Queries' = Queries
    BY <1>0 DEF Queries, Stats, Analytics
  <2>3. \A q \in DOMAIN dashboard'.got : AnswerHolds(q, dashboard.got[q])'
    BY <1>0, <2>1
  <2>4. before' \in Nat /\ before' <= Rows'
    BY <1>0, <1>1 DEF BoardHolds
  <2> QED
    BY <1>0, <2>2, <2>3, <2>4 DEF BoardHolds
<1>3. BuyerHolds'
  <2> SUFFICES ASSUME profile.at = "told", contract = "Sale", NEW w, w = profile.wallet
               PROVE  /\ profile.row.totalPurchases \in Nat /\ profile.row.totalSpentUsd \in Nat
                      /\ profile.row.totalPurchases <= Cardinality(PurchasesOf(w)')
                      /\ profile.row.totalSpentUsd <= Spent(w)'
    BY <1>0 DEF BuyerHolds
  <2>1. /\ profile.row.totalPurchases \in Nat /\ profile.row.totalSpentUsd \in Nat
        /\ profile.row.totalPurchases <= Cardinality(PurchasesOf(w)) /\ profile.row.totalSpentUsd <= Spent(w)
    BY <1>0 DEF ProfileHolds, BuyerHolds
  <2>2. PurchasesHold /\ IsFiniteSet(DOMAIN purchases')
    BY <1>0 DEF TablesGrow
  <2>3. PICK P : P = PurchasesOf(w)
    OBVIOUS
  <2>4. PICK Q : Q = PurchasesOf(w)'
    OBVIOUS
  <2>5. P \subseteq DOMAIN purchases /\ P \subseteq Q /\ Q \subseteq DOMAIN purchases'
    BY <2>2, <2>3, <2>4 DEF PurchasesOf, PurchasesHold
  <2>6. IsFiniteSet(Q) /\ IsFiniteSet(P)
    BY <2>2, <2>5, FS_Subset
  <2>7. Cardinality(P) <= Cardinality(Q) /\ Cardinality(P) \in Nat /\ Cardinality(Q) \in Nat
    BY <2>5, <2>6, FS_Subset, FS_CardinalityType
  <2>8. Spent(w) <= Spent(w)' /\ Spent(w) \in Nat /\ Spent(w)' \in Nat
    <3>1. PICK e : e = [i \in DOMAIN purchases |-> purchases[i].usd]
      OBVIOUS
    <3>2. PICK f : f = [i \in DOMAIN purchases' |-> purchases'[i].usd]
      OBVIOUS
    <3>3. Spent(w) = SumFunctionOnSet(e, P) /\ Spent(w)' = SumFunctionOnSet(f, Q)
      BY <2>3, <2>4, <3>1, <3>2 DEF Spent
    <3>4. \A i \in P : e[i] \in Nat /\ f[i] \in Nat /\ e[i] <= f[i]
      BY <2>2, <2>5, <3>1, <3>2 DEF PurchasesHold
    <3>5. \A i \in Q : f[i] \in Nat
      <4>1. (PurchaseInv => \A i \in DOMAIN purchases : purchases[i].usd \in Nat)'
        BY PurchasesHaveValue, PTL
      <4>2. PurchaseInv'
        BY <1>0 DEF TablesHold
      <4> QED
        BY <2>5, <3>2, <4>1, <4>2
    <3>6. SumFunctionOnSet(e, P) <= SumFunctionOnSet(f, Q)
      BY <2>5, <2>6, <3>4, <3>5, SumOfFewer
    <3> QED
      BY <2>6, <3>3, <3>4, <3>5, <3>6, SumOfNaturals
  <2> QED
    BY <2>1, <2>3, <2>4, <2>7, <2>8
<1>4. BeneficiaryHolds'
  <2> SUFFICES ASSUME profile.at = "told", contract = "Vesting", NEW w, w = profile.wallet,
                      Cardinality(EventsOf(w, "ALLOCATED")') <= 1, AllHonest(w)'
               PROVE  calculateProgress(profile.row) <= 100
    BY <1>0 DEF BeneficiaryHolds, calculateProgress, AllHonest, SchedulesOf
  <2>1. LogGrows /\ LogSafe /\ LogSafe'
    BY <1>0 DEF TablesGrow, TablesHold, VestingIndInv
  <2>2. PICK E : E = EventsOf(w, "ALLOCATED")
    OBVIOUS
  <2>3. PICK F : F = EventsOf(w, "ALLOCATED")'
    OBVIOUS
  <2>4. E \subseteq F
    BY <2>1, <2>2, <2>3 DEF LogGrows, EventsOf
  <2>5. IsFiniteSet(F)
    <3>1. (LogSafe => IsFiniteSet(DOMAIN log))'
      BY LogIsFinite, PTL
    <3>2. F \subseteq DOMAIN log'
      BY <2>3 DEF EventsOf
    <3> QED
      BY <2>1, <3>1, <3>2, FS_Subset
  <2>6. Cardinality(E) <= Cardinality(F) /\ Cardinality(E) \in Nat /\ Cardinality(F) \in Nat
    BY <2>4, <2>5, FS_Subset, FS_CardinalityType
  <2>7. Cardinality(E) <= 1
    BY <2>3, <2>6
  <2>8. AllHonest(w)
    <3>1. SchedulesStayThere /\ ClaimRowsStay
      BY <1>0 DEF TablesGrow
    <3>2. ASSUME NEW s \in SchedulesOf(w) PROVE HonestRows(s)
      <4>1. s \in SchedulesOf(w)'
        BY <3>1 DEF SchedulesOf, SchedulesStayThere
      <4>2. HonestRows(s)'
        BY <4>1 DEF AllHonest
      <4> QED
        BY <3>1, <4>2, HonestBefore
    <3> QED
      BY <3>2 DEF AllHonest
  <2> QED
    BY <1>0, <2>2, <2>7, <2>8 DEF ProfileHolds, BeneficiaryHolds
<1>5. ProfileHolds'
  BY <1>0, <1>3, <1>4 DEF ProfileHolds
<1> QED
  BY <1>0, <1>2, <1>5 DEF DashInv

(* A question is asked or answered, and the tables stay. *)
StayTables == UNCHANGED <<mirrorVars, purchaseVars, vestingVars>>

LEMMA StillCounts ==
    ASSUME StayTables, UNCHANGED <<entrants, before, moved>>, NEW q, NEW a, AnswerHolds(q, a)
    PROVE  AnswerHolds(q, a)'
<1>1. UNCHANGED <<contract, log, purchases, schedules>>
  BY DEF StayTables, mirrorVars, purchaseVars, vestingVars
<1>2. Rows' = Rows
  BY <1>1 DEF Rows, countAll
<1>3. AnswerTo(q)' = AnswerTo(q)
  BY <1>1 DEF AnswerTo, getAggregatedTotals, getStatsBySource, Sums, findNeverClaimed, findFullyClaimed,
     classifiedSchedules, participantOnly, SchedulesOf, countAll, countUniqueBuyers, getStatsByAsset, RowsPaid
<1> QED
  BY <1>2, <1>3 DEF AnswerHolds

LEMMA SameProfileHolds ==
    ASSUME ProfileHolds, StayTables, UNCHANGED profile, entrants \subseteq entrants'
    PROVE  ProfileHolds'
<1>1. UNCHANGED <<contract, log, purchases, schedules, claims, misreported>>
  BY DEF StayTables, mirrorVars, purchaseVars, vestingVars
<1>2. BuyerHolds' /\ BeneficiaryHolds'
  BY <1>1 DEF ProfileHolds, BuyerHolds, BeneficiaryHolds, PurchasesOf, Spent, EventsOf, calculateProgress,
     AllHonest, SchedulesOf, HonestRows, RowsOf, Misled
<1> QED
  BY <1>2 DEF ProfileHolds

LEMMA SameBoardHolds ==
    ASSUME BoardHolds, StayTables, UNCHANGED <<entrants, dashboard, before, moved>>
    PROVE  BoardHolds'
<1>1. Rows' = Rows /\ Queries' = Queries
  BY DEF StayTables, mirrorVars, purchaseVars, vestingVars, Rows, countAll, Queries, Stats, Analytics
<1>2. ASSUME NEW q \in DOMAIN dashboard.got, NEW a, a = dashboard.got[q] PROVE AnswerHolds(q, a)'
  <2>1. AnswerHolds(q, a)
    BY <1>2 DEF BoardHolds
  <2> QED
    BY <2>1, StillCounts
<1>3. \A q \in DOMAIN dashboard'.got : AnswerHolds(q, dashboard.got[q])'
  BY <1>2
<1> QED
  BY <1>1, <1>3 DEF BoardHolds

(* A dashboard without an answer. *)
LEMMA BlankBoardHolds ==
    ASSUME BoardHolds, UNCHANGED <<contract, entrants>>, NEW asked, dashboard' = [asked |-> asked, got |-> << >>],
           before' \in Nat, before' <= Rows'
    PROVE  BoardHolds'
<1>1. DOMAIN dashboard'.got = {} /\ dashboard' = [asked |-> dashboard'.asked, got |-> dashboard'.got]
  OBVIOUS
<1> QED
  BY <1>1 DEF BoardHolds

LEMMA AnsweringHolds ==
    ASSUME TablesHold, BoardHolds, StayTables, NEW q \in Queries, QueryAnswered(q)
    PROVE  BoardHolds'
<1>0. /\ UNCHANGED <<entrants, before, moved>> /\ Rows' = Rows /\ Queries' = Queries
      /\ AnswerTo(q)' = AnswerTo(q)
  <2>1. UNCHANGED <<contract, log, purchases, schedules, entrants, before, moved>>
    BY DEF QueryAnswered, StayTables, mirrorVars, purchaseVars, vestingVars
  <2>2. LogGrows
    BY <2>1 DEF LogGrows
  <2> QED
    BY <2>1, <2>2, AnswersStand DEF Rows, countAll, Queries, Stats, Analytics
<1>1. PICK got : got = dashboard.got
  OBVIOUS
<1>2. PICK new : new = [p \in DOMAIN got \cup {q} |-> IF p = q THEN AnswerTo(q) ELSE got[p]]
  OBVIOUS
<1>3. /\ DOMAIN new = DOMAIN got \cup {q} /\ new[q] = AnswerTo(q)
      /\ \A p \in DOMAIN got : p # q => new[p] = got[p]
  BY <1>2
<1>4. dashboard = [asked |-> dashboard.asked, got |-> got] /\ dashboard' = [dashboard EXCEPT !.got = new]
  BY <1>1, <1>2 DEF BoardHolds, QueryAnswered
<1>5. dashboard' = [asked |-> dashboard.asked, got |-> new]
  BY <1>4
<1>6. dashboard'.got = new /\ dashboard' = [asked |-> dashboard'.asked, got |-> dashboard'.got]
  BY <1>5
<1>7. before \in Nat /\ before <= Rows /\ Rows \in Nat /\ IsFiniteSet(entrants)
  BY RowsType DEF BoardHolds
<1>8. ASSUME NEW a, a = AnswerTo(q) PROVE AnswerHolds(q, a)
  BY <1>7, <1>8, AnswersCount DEF AnswerHolds
<1>9. ASSUME NEW p \in DOMAIN new, NEW a, a = new[p] PROVE AnswerHolds(p, a)'
  <2>1. AnswerHolds(p, a)
    BY <1>1, <1>3, <1>8, <1>9 DEF BoardHolds
  <2> QED
    BY <1>0, <2>1, StillCounts
<1>10. \A p \in DOMAIN dashboard'.got : AnswerHolds(p, new[p])'
  BY <1>6, <1>9
<1>11. DOMAIN dashboard'.got \subseteq Queries'
  BY <1>0, <1>1, <1>3, <1>6 DEF BoardHolds
<1>12. \A p \in DOMAIN dashboard'.got : AnswerHolds(p, dashboard.got[p])'
  BY <1>6, <1>10
<1>13. before' \in Nat /\ before' <= Rows' /\ IsFiniteSet(entrants')
  BY <1>0, <1>7
<1> QED
  BY <1>6, <1>11, <1>12, <1>13 DEF BoardHolds

(* A profile is found, and told. *)
LEMMA ProfileTold ==
    ASSUME NEW p, p = [at |-> p.at, wallet |-> p.wallet, entrant |-> p.entrant, row |-> p.row], NEW row, NEW q,
           q = [p EXCEPT !.at = "told", !.row = row]
    PROVE  q = [at |-> "told", wallet |-> p.wallet, entrant |-> p.entrant, row |-> row]
<1>1. PICK m : m = [p EXCEPT !.at = "told"]
  OBVIOUS
<1>2. m = [at |-> "told", wallet |-> p.wallet, entrant |-> p.entrant, row |-> p.row]
  BY <1>1
<1>3. q = [m EXCEPT !.row = row]
  BY <1>1
<1> QED
  BY <1>2, <1>3

LEMMA ToldProfileHolds ==
    ASSUME TablesHold, ProfileHolds, StayTables, UNCHANGED entrants, getParticipantProfile \/ getBuyerProfile
    PROVE  ProfileHolds'
<1>1. UNCHANGED <<contract, log, purchases, schedules, claims, misreported>>
  BY DEF StayTables, mirrorVars, purchaseVars, vestingVars
<1>2. PICK w : w = profile.wallet
  OBVIOUS
<1>4. profile.entrant => w \in entrants'
  BY <1>2 DEF ProfileHolds
<1>5. CASE profile' = NoProfile
  BY <1>5 DEF NoProfile, ProfileHolds, BuyerHolds, BeneficiaryHolds
<1>6. ASSUME NEW row, profile' = [profile EXCEPT !.at = "told", !.row = row],
             contract = "Sale" =>
                /\ row.totalPurchases \in Nat /\ row.totalPurchases <= Cardinality(PurchasesOf(w))
                /\ row.totalSpentUsd \in Nat /\ row.totalSpentUsd <= Spent(w),
             contract = "Vesting" /\ Cardinality(EventsOf(w, "ALLOCATED")) <= 1 /\ AllHonest(w)
                => calculateProgress(row) <= 100
      PROVE  ProfileHolds'
  <2>1. profile' = [at |-> "told", wallet |-> w, entrant |-> profile.entrant, row |-> row]
    <3>1. PICK q : q = profile'
      OBVIOUS
    <3>2. q = [profile EXCEPT !.at = "told", !.row = row]
      BY <1>6, <3>1
    <3>3. profile = [at |-> profile.at, wallet |-> profile.wallet, entrant |-> profile.entrant, row |-> profile.row]
      BY DEF ProfileHolds
    <3>4. q = [at |-> "told", wallet |-> profile.wallet, entrant |-> profile.entrant, row |-> row]
      BY <3>2, <3>3, ProfileTold
    <3> QED
      BY <1>2, <3>1, <3>4
  <2>2. profile'.at = "told" /\ profile'.wallet = w /\ profile'.entrant = profile.entrant /\ profile'.row = row
    BY <2>1
  <2>3. profile' = [at |-> profile'.at, wallet |-> profile'.wallet, entrant |-> profile'.entrant, row |-> profile'.row]
    BY <2>1
  <2>4. BuyerHolds'
    BY <1>1, <1>6, <2>2 DEF BuyerHolds, PurchasesOf, Spent
  <2>5. BeneficiaryHolds'
    BY <1>1, <1>6, <2>2 DEF BeneficiaryHolds, EventsOf, calculateProgress, AllHonest, SchedulesOf, HonestRows,
       RowsOf, Misled
  <2> QED
    BY <1>4, <2>2, <2>3, <2>4, <2>5 DEF ProfileHolds
<1>7. ASSUME getParticipantProfile PROVE ProfileHolds'
  <2>1. contract = "Vesting" /\ VestingIndInv /\ WithinGrants
    BY <1>7 DEF getParticipantProfile, TablesHold
  <2>2. \A s \in SchedulesOf(w) :
            Cardinality(EventsOf(w, "ALLOCATED")) <= 1 /\ AllHonest(w) => calculateProgress(schedules[s]) <= 100
    BY <2>1, ProgressFacts DEF ProgressIsAPercentage, SchedulesOf, AllHonest
  <2>3. \/ profile' = NoProfile
        \/ \E s \in SchedulesOf(w) : profile' = [profile EXCEPT !.at = "told", !.row = schedules[s]]
    BY <1>2, <1>7 DEF getParticipantProfile
  <2>4. ASSUME NEW s \in SchedulesOf(w), NEW row, row = schedules[s],
               profile' = [profile EXCEPT !.at = "told", !.row = row]
        PROVE  ProfileHolds'
    <3>1. Cardinality(EventsOf(w, "ALLOCATED")) <= 1 /\ AllHonest(w) => calculateProgress(row) <= 100
      BY <2>2, <2>4
    <3> QED
      BY <1>6, <2>1, <2>4, <3>1
  <2> QED
    BY <1>5, <2>3, <2>4
<1>8. ASSUME getBuyerProfile PROVE ProfileHolds'
  <2>1. contract = "Sale" /\ PurchaseInv
    BY <1>8 DEF getBuyerProfile, TablesHold
  <2>2. PICK row : row = [totalPurchases |-> Cardinality(PurchasesOf(w)), totalSpentUsd |-> Spent(w)]
    OBVIOUS
  <2>3. profile' = NoProfile \/ profile' = [profile EXCEPT !.at = "told", !.row = row]
    BY <1>2, <1>8, <2>2 DEF getBuyerProfile
  <2>4. Cardinality(PurchasesOf(w)) \in Nat /\ Spent(w) \in Nat
    <3>1. IsFiniteSet(DOMAIN purchases) /\ \A i \in DOMAIN purchases : purchases[i].usd \in Nat
      BY <2>1, PurchaseRows
    <3>2. PICK P : P = PurchasesOf(w)
      OBVIOUS
    <3>3. P \subseteq DOMAIN purchases /\ IsFiniteSet(P)
      BY <3>1, <3>2, FS_Subset DEF PurchasesOf
    <3>4. PICK f : f = [i \in DOMAIN purchases |-> purchases[i].usd]
      OBVIOUS
    <3>5. \A i \in P : f[i] \in Nat
      BY <3>1, <3>3, <3>4
    <3>6. SumFunctionOnSet(f, P) \in Nat /\ Cardinality(P) \in Nat
      BY <3>3, <3>5, SumOfNaturals, FS_CardinalityType
    <3> QED
      BY <3>2, <3>4, <3>6 DEF Spent
  <2>5. /\ row.totalPurchases \in Nat /\ row.totalPurchases <= Cardinality(PurchasesOf(w))
        /\ row.totalSpentUsd \in Nat /\ row.totalSpentUsd <= Spent(w)
    BY <2>2, <2>4
  <2> QED
    BY <1>5, <1>6, <2>1, <2>3, <2>5
<1> QED
  BY <1>7, <1>8

LEMMA DashToldStep ==
    ASSUME DashInv, Told
    PROVE  DashInv'
<1>0. StayTables /\ TablesHold /\ BoardHolds /\ ProfileHolds /\ TablesHold'
  BY UnmovedTables DEF DashInv, Told, StayTables
<1>1. /\ contract' = contract /\ users' = users /\ Rows' = Rows /\ Rows \in Nat
      /\ before \in Nat /\ before <= Rows /\ dashboard = [asked |-> dashboard.asked, got |-> dashboard.got]
  BY <1>0, RowsType DEF StayTables, mirrorVars, purchaseVars, vestingVars, Rows, countAll, BoardHolds
<1>2. ASSUME AskDashboard PROVE BoardHolds' /\ ProfileHolds'
  <2>1. UNCHANGED <<entrants, profile>> /\ dashboard' = [asked |-> TRUE, got |-> << >>] /\ before' = Rows
    BY <1>2 DEF AskDashboard, Rows
  <2> QED
    BY <1>0, <1>1, <2>1, BlankBoardHolds, SameProfileHolds
<1>3. ASSUME QueryRefused PROVE BoardHolds' /\ ProfileHolds'
  <2>1. UNCHANGED <<entrants, profile, before>> /\ dashboard' = [asked |-> FALSE, got |-> << >>]
    BY <1>3 DEF QueryRefused
  <2> QED
    BY <1>0, <1>1, <2>1, BlankBoardHolds, SameProfileHolds
<1>4. ASSUME NEW q \in Queries, QueryAnswered(q) PROVE BoardHolds' /\ ProfileHolds'
  <2>1. UNCHANGED <<entrants, profile>>
    BY <1>4 DEF QueryAnswered
  <2> QED
    BY <1>0, <1>4, <2>1, AnsweringHolds, SameProfileHolds
<1>5. ASSUME getParticipantProfile \/ getBuyerProfile PROVE BoardHolds' /\ ProfileHolds'
  <2>1. UNCHANGED <<entrants, dashboard, before, moved>>
    BY <1>5 DEF getParticipantProfile, getBuyerProfile
  <2> QED
    BY <1>0, <1>5, <2>1, SameBoardHolds, ToldProfileHolds
<1>6. ASSUME NEW w \in Buyers, FindProfile(w) PROVE BoardHolds' /\ ProfileHolds'
  <2>1. UNCHANGED <<entrants, dashboard, before, moved>>
        /\ profile' = [at |-> "user", wallet |-> w, entrant |-> w \in entrants, row |-> << >>]
    BY <1>6 DEF FindProfile
  <2>2. /\ profile'.at = "user" /\ profile'.wallet = w /\ profile'.row = << >>
        /\ profile' = [at |-> profile'.at, wallet |-> profile'.wallet, entrant |-> profile'.entrant, row |-> profile'.row]
    BY <2>1
  <2>3. profile'.entrant = (w \in entrants)
    BY <2>1
  <2>4. profile'.entrant => w \in entrants'
    BY <2>1, <2>3
  <2>5. BuyerHolds' /\ BeneficiaryHolds'
    BY <2>2 DEF BuyerHolds, BeneficiaryHolds
  <2>6. ProfileHolds'
    BY <2>2, <2>4, <2>5 DEF ProfileHolds
  <2> QED
    BY <1>0, <2>1, <2>6, SameBoardHolds
<1>7. ASSUME NEW w \in Buyers, Enter(w) PROVE BoardHolds' /\ ProfileHolds'
  <2>1. UNCHANGED <<dashboard, profile, before>> /\ entrants' = entrants \cup {w} /\ moved' = TRUE
    BY <1>7 DEF Enter
  <2>2. IsFiniteSet(entrants')
    BY <1>0, <2>1, FS_AddElement DEF BoardHolds
  <2>3. ASSUME NEW q \in DOMAIN dashboard.got, NEW a, a = dashboard.got[q] PROVE AnswerHolds(q, a)'
    <3>1. AnswerHolds(q, a)
      BY <1>0, <2>3 DEF BoardHolds
    <3> QED
      BY <1>1, <2>1, <3>1 DEF AnswerHolds
  <2>4. \A q \in DOMAIN dashboard'.got : AnswerHolds(q, dashboard.got[q])'
    BY <2>1, <2>3
  <2>5. Queries' = Queries
    BY <1>1 DEF Queries, Stats, Analytics
  <2>6. BoardHolds'
    BY <1>0, <1>1, <2>1, <2>2, <2>4, <2>5 DEF BoardHolds
  <2> QED
    BY <1>0, <2>1, <2>6, SameProfileHolds
<1> QED
  BY <1>0, <1>2, <1>3, <1>4, <1>5, <1>6, <1>7 DEF DashInv, Told

LEMMA DashStep == DashInv /\ [DashboardsNext]_dashboardsVars => DashInv'
<1> SUFFICES ASSUME DashInv, [DashboardsNext]_dashboardsVars PROVE DashInv'
  OBVIOUS
<1>1. CASE UNCHANGED dashboardsVars
  <2>1. StayTables /\ UNCHANGED <<entrants, dashboard, profile, before, moved>>
    BY <1>1 DEF dashboardsVars, dashboardVars, StayTables
  <2>2. TablesHold'
    BY <2>1, UnmovedTables DEF DashInv, StayTables
  <2> QED
    BY <2>1, <2>2, SameBoardHolds, SameProfileHolds DEF DashInv
<1> QED
  BY <1>1, WritingHolds, DashToldStep DEF DashboardsNext

(* What the dashboards show, from the answers they got. *)
LEMMA DashInvSays == DashInv => DashboardsInv
<1> SUFFICES ASSUME DashInv PROVE DashboardsInv
  OBVIOUS
<1>0. TablesHold /\ BoardHolds /\ ProfileHolds
  BY DEF DashInv
<1>1. ASSUME NEW q \in Queries, Shown PROVE AnswerHolds(q, dashboard.got[q])
  BY <1>0, <1>1 DEF Shown, BoardHolds
<1>2. AnalyticsAddUp
  <2> SUFFICES ASSUME contract = "Vesting", Shown PROVE AnalyticsAddUp
    BY DEF AnalyticsAddUp
  <2>1. VestingIndInv /\ Rows = Len(schedules) /\ IsFiniteSet(entrants)
    BY <1>0 DEF TablesHold, Rows, BoardHolds
  <2>2. "totals" \in Queries /\ "never" \in Queries /\ "full" \in Queries /\ "classified" \in Queries
        /\ "participantOnly" \in Queries
    BY DEF Queries, Analytics
  <2>3. before <= dashboard.got["totals"].count /\ dashboard.got["totals"].count <= Len(schedules)
    BY <1>1, <2>1, <2>2 DEF AnswerHolds
  <2>4. ASSUME ~moved
        PROVE  /\ computeAnalytics.notStarted = InStatus("NOT_STARTED")
               /\ computeAnalytics.partial = InStatus("PARTIAL")
               /\ computeAnalytics.completed = InStatus("COMPLETED")
               /\ dashboard.got["classified"].both + dashboard.got["classified"].buyerOnly
                    = dashboard.got["totals"].count
               /\ ~raced => dashboard.got["classified"].both + dashboard.got["participantOnly"]
                              = Cardinality(entrants)
    <3>1. \A q \in Queries : dashboard.got[q] = AnswerTo(q)
      BY <1>1, <2>4 DEF AnswerHolds
    <3>2. /\ dashboard.got["totals"] = Sums /\ dashboard.got["never"] = findNeverClaimed
          /\ dashboard.got["full"] = findFullyClaimed /\ dashboard.got["classified"] = classifiedSchedules
          /\ dashboard.got["participantOnly"] = participantOnly
      BY <2>2, <3>1 DEF AnswerTo, getAggregatedTotals
    <3>3. dashboard.got["totals"].count = Len(schedules)
      BY <3>2 DEF Sums
    <3>4. /\ computeAnalytics.notStarted = findNeverClaimed /\ computeAnalytics.completed = findFullyClaimed
          /\ computeAnalytics.partial = Len(schedules) - findNeverClaimed - findFullyClaimed
      BY <3>2, <3>3 DEF computeAnalytics
    <3> QED
      BY <2>1, <3>2, <3>3, <3>4, VestingFigures
  <2> QED
    BY <2>3, <2>4 DEF AnalyticsAddUp
<1>3. StatsAreRecorded
  <2> SUFFICES ASSUME contract = "Sale", Shown PROVE StatsAreRecorded
    BY DEF StatsAreRecorded
  <2>1. PurchaseInv /\ KnownPaid /\ Rows = countAll /\ before \in Nat
    BY <1>0 DEF TablesHold, Rows, BoardHolds
  <2>2. "count" \in Queries /\ "buyers" \in Queries /\ "byAsset" \in Queries
    BY DEF Queries, Stats
  <2>3. before <= dashboard.got["count"] /\ dashboard.got["count"] <= countAll /\ countAll \in Nat
    BY <1>1, <2>1, <2>2, SaleFigures DEF AnswerHolds
  <2>4. dashboard.got["byAsset"].eth + dashboard.got["byAsset"].stable \in before..countAll
    BY <1>1, <2>1, <2>2, <2>3 DEF AnswerHolds
  <2>5. ASSUME ~moved
        PROVE  /\ dashboard.got["byAsset"].eth + dashboard.got["byAsset"].stable = dashboard.got["count"]
               /\ dashboard.got["buyers"] <= dashboard.got["count"]
    <3>1. \A q \in Queries : dashboard.got[q] = AnswerTo(q)
      BY <1>1, <2>5 DEF AnswerHolds
    <3>2. /\ dashboard.got["count"] = countAll /\ dashboard.got["buyers"] = countUniqueBuyers
          /\ dashboard.got["byAsset"] = getStatsByAsset
      BY <2>2, <3>1 DEF AnswerTo
    <3>3. /\ getStatsByAsset.eth = Cardinality(RowsPaid(eth))
          /\ getStatsByAsset.stable = Cardinality(RowsPaid(stable))
      BY DEF getStatsByAsset
    <3> QED
      BY <2>1, <3>2, <3>3, SaleFigures
  <2> QED
    BY <2>3, <2>4, <2>5 DEF StatsAreRecorded
<1>4. ProfilesHold
  <2>1. classification.participant = profile.entrant /\ classification.buyer = (profile.at = "told")
    BY DEF classification
  <2>2. classification.participant => profile.wallet \in entrants
    BY <1>0, <2>1 DEF ProfileHolds
  <2>3. classification.buyer /\ contract = "Sale" =>
          /\ profile.row.totalPurchases <= Cardinality(PurchasesOf(profile.wallet))
          /\ profile.row.totalSpentUsd <= Spent(profile.wallet)
    BY <1>0, <2>1 DEF ProfileHolds, BuyerHolds
  <2>4. classification.buyer /\ contract = "Vesting"
          /\ Cardinality(EventsOf(profile.wallet, "ALLOCATED")) <= 1
          /\ (\A s \in SchedulesOf(profile.wallet) : HonestRows(s)) => buildParticipantProfile.progress <= 100
    <3>1. buildParticipantProfile.progress = calculateProgress(profile.row)
      BY DEF buildParticipantProfile
    <3> QED
      BY <1>0, <2>1, <3>1 DEF ProfileHolds, BeneficiaryHolds, AllHonest
  <2> QED
    BY <2>2, <2>3, <2>4 DEF ProfilesHold
<1> QED
  BY <1>2, <1>3, <1>4 DEF DashboardsInv

(* The dashboards miss nothing recorded when they were asked for, and add  *)
(* up if nothing is written meanwhile; a profile never says more than      *)
(* there is.                                                               *)
THEOREM DashboardsAreSound == DashboardsSpec => []DashboardsInv
BY DashInit, DashStep, DashInvSays, PTL DEF DashboardsSpec
=============================================================================
