----------------------------- MODULE EventMirror -----------------------------
(***************************************************************************)
(* What the purchase and the vesting mirrors (f/src/modules/purchase,      *)
(* vesting) share: the events of a contract, the checkpoint of their       *)
(* indexer (SyncEngine says how ranges are chosen; here a run is a batch), *)
(* user rows, and calls: runs of the indexer, in two processes at worst,   *)
(* and requests of the front end that report one transaction.  Every       *)
(* await of a call is a step; one event is emitted per transaction.        *)
(***************************************************************************)
EXTENDS Naturals, Sequences, FiniteSets

CONSTANTS Buyers, Indexers, Fronts,
          EventsPerRun,    \* env.sync.batchSize, in events
          MaxLog,       \* events in a behaviour
          MaxCalls,     \* calls at a time
          MaxFaults     \* calls that die or are refused by a service

ASSUME MirrorAssumption ==
    /\ Indexers \cap Fronts = {} /\ EventsPerRun \in Nat \ {0}
    /\ MaxLog \in Nat /\ MaxCalls \in Nat /\ MaxFaults \in Nat

VARIABLES
    contract,       \* whose events they are, "Sale" or "Vesting"
    log,            \* the contract's events: [type, wallet, amount]
    checkpoint,     \* how many of them SyncState covers
    users,          \* wallets with a User row
    call,           \* what each caller is doing
    faults

mirrorVars == <<contract, log, checkpoint, users, call, faults>>

Callers == Indexers \cup Fronts
Idle == [at |-> "idle", pos |-> 0, end |-> 0, failed |-> FALSE, wallet |-> "", amount |-> 0,
         pick |-> 0]

MirrorTypeOK(Types, Labels, Transactions) ==
    /\ log \in Seq([type : Types, wallet : Buyers, amount : Nat]) /\ Len(log) <= MaxLog
    /\ checkpoint \in 0..Len(log) /\ users \subseteq Buyers /\ faults \in 0..MaxFaults
    /\ call \in [Callers -> {Idle} \cup
          [at : Labels, pos : Transactions, end : Transactions, failed : BOOLEAN, wallet : Buyers,
           amount : Nat, pick : Nat]]
    /\ \A c \in Callers : call[c].pos <= call[c].end

MirrorInit ==
    /\ log = << >> /\ checkpoint = 0 /\ users = {} /\ faults = 0
    /\ call = [c \in Callers |-> Idle]

Emit(e) ==
    Len(log) < MaxLog /\ log' = Append(log, e) /\ UNCHANGED <<contract, checkpoint, users, call, faults>>

At(c, label) == call[c].at = label
Event(c) == log[call[c].pos]
Goto(c, label) == call' = [call EXCEPT ![c].at = label] /\ UNCHANGED checkpoint
Stay == UNCHANGED <<contract, log, users, faults>>

-----------------------------------------------------------------------------
Handle(c, first, i, end, failed) ==
    [at |-> first, pos |-> i, end |-> end, failed |-> failed, wallet |-> log[i].wallet,
     amount |-> log[i].amount, pick |-> 0]

Room == Cardinality({c \in Callers : ~At(c, "idle")}) < MaxCalls

StartRun(r, first) ==
    /\ r \in Indexers /\ Room /\ At(r, "idle") /\ checkpoint < Len(log)
    /\ LET end == IF checkpoint + EventsPerRun < Len(log) THEN checkpoint + EventsPerRun ELSE Len(log)
       IN  call' = [call EXCEPT ![r] = Handle(r, first, checkpoint + 1, end, FALSE)]
    /\ UNCHANGED checkpoint /\ Stay

(* Somebody reports transaction i as wallet w's: both are as posted. *)
Report(first, i, w, a) ==
    [at |-> first, pos |-> i, end |-> i, failed |-> FALSE, wallet |-> w, amount |-> a, pick |-> 0]
StartReport(f, first, i, w, a) ==
    /\ f \in Fronts /\ Room /\ At(f, "idle")
    /\ call' = [call EXCEPT ![f] = Report(first, i, w, a)]
    /\ UNCHANGED checkpoint /\ Stay

(* Mutant: the checkpoint is saved although an event failed. *)
EndOfEventAnyway(c, ok, first) ==
    IF c \in Indexers /\ call[c].pos < call[c].end
    THEN /\ call' = [call EXCEPT ![c] = Handle(c, first, @.pos + 1, @.end, @.failed \/ ~ok)]
         /\ UNCHANGED checkpoint
    ELSE /\ call' = [call EXCEPT ![c] = Idle]
         /\ checkpoint' = IF c \in Indexers THEN call[c].end ELSE checkpoint

(* An event is dealt with or has thrown: on to the next one of the batch,  *)
(* and the checkpoint is saved after the last if none has thrown.  A       *)
(* request just ends.                                                      *)
EndOfEvent(c, ok, first) ==
    IF c \in Indexers /\ call[c].pos < call[c].end
    THEN /\ call' = [call EXCEPT ![c] = Handle(c, first, @.pos + 1, @.end, @.failed \/ ~ok)]
         /\ UNCHANGED checkpoint
    ELSE /\ call' = [call EXCEPT ![c] = Idle]
         /\ checkpoint' = IF c \in Indexers /\ ok /\ ~call[c].failed THEN call[c].end ELSE checkpoint

(* The process of a call restarts. *)
Die(c) ==
    /\ ~At(c, "idle") /\ faults < MaxFaults /\ faults' = faults + 1
    /\ call' = [call EXCEPT ![c] = Idle] /\ UNCHANGED <<contract, log, checkpoint, users>>

(* findOrCreate: two calls may both find nothing; the second to create     *)
(* meets the unique walletAddress and throws.                              *)
FindUser(c, next) ==
    /\ At(c, "user") /\ Goto(c, IF call[c].wallet \in users THEN next ELSE "create") /\ Stay
CreateUser(c, next, first) ==
    /\ At(c, "create") /\ UNCHANGED <<contract, log, faults>>
    /\ IF call[c].wallet \in users THEN EndOfEvent(c, FALSE, first) /\ UNCHANGED users
       ELSE Goto(c, next) /\ users' = users \cup {call[c].wallet}
=============================================================================
