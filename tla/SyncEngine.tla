----------------------------- MODULE SyncEngine -----------------------------
(***************************************************************************)
(* runEventSync (f/src/core/blockchain/sync-engine.ts): the resumable      *)
(* indexer loop shared by the Purchase and the Vesting sync.  A call of it *)
(* (the five-minute cron, the admin route, the registration route) runs in *)
(* a Node process; each of its awaits is a step, so calls of different     *)
(* processes interleave between any two database or RPC requests.          *)
(*                                                                         *)
(* A block stands for the events the contract emitted in it.  The tables   *)
(* the events are written to are the set `indexed'; the handlers are       *)
(* idempotent, so storing a block again changes nothing.                   *)
(***************************************************************************)
EXTENDS SyncRanges, FiniteSets

CONSTANTS
    Calls,            \* callers of runEventSync for one label
    Processes,        \* Node processes (instances of the backend)
    ProcessOf,        \* the process each caller runs in
    ConfiguredStart,  \* SALE_START_BLOCK / VESTING_START_BLOCK, 0 when unset
    BatchSize,        \* SYNC_LOG_BATCH_SIZE
    Lookback,         \* SYNC_SAFE_LOOKBACK_BLOCKS
    ProviderWindow,   \* how many recent blocks the RPC plan really serves
    PoisonBlocks,     \* blocks with an event no handler can store
    HeadLag,          \* how far behind the head an RPC node may answer
    InitialHead,      \* height of the chain when the backend is deployed
    MaxHead,          \* bound: the chain stops growing there
    MaxFaults         \* bound: exceptions and crashes in a behaviour

ASSUME SyncAssumption ==
    /\ ProcessOf \in [Calls -> Processes]
    /\ ConfiguredStart \in Nat
    /\ BatchSize \in Nat \ {0}
    /\ Lookback \in Nat \ {0}
    /\ ProviderWindow \in Nat \ {0}
    /\ PoisonBlocks \subseteq Nat
    /\ HeadLag \in Nat
    /\ InitialHead \in Nat
    /\ MaxHead \in Nat
    /\ MaxFaults \in Nat

VARIABLES
    chain,        \* height of the Sepolia chain
    checkpoint,   \* SyncState[stateKey], 0 when absent
    gapRecord,    \* SyncState[gapKey], NoBlocks when absent
    indexed,      \* blocks whose events are stored
    reported,     \* history: every block ever written to SyncState[gapKey]
    inFlight,     \* processes whose in-flight set holds the label
    pc,           \* what each call awaits
    head,         \* local `head' of each call
    from,         \* local `fromBlock'
    cursor,       \* local `cursor'
    gap,          \* local `gap', returned to the caller
    faults        \* exceptions and crashes so far

store == << checkpoint, gapRecord, indexed, reported >>
locals == << head, from, cursor, gap >>
vars == << chain, store, inFlight, pc, locals, faults >>

Running == {"head", "checkpoint", "startGap", "fetch", "planLimit", "skip",
            "process", "commit"}
Stopped == {"idle", "returned"}

(* The batch a call is at: cursor .. batchTo. *)
Batch(c) ==
    Span(cursor[c], Least(cursor[c] + BatchSize - 1, head[c]))

(* The provider refuses a range that reaches below its window. *)
Serves(block) == block >= queryableFloor(chain, ProviderWindow)

Init ==
    /\ chain = InitialHead
    /\ checkpoint = 0
    /\ gapRecord = NoBlocks
    /\ indexed = {}
    /\ reported = {}
    /\ inFlight = {}
    /\ pc = [c \in Calls |-> "idle"]
    /\ head = [c \in Calls |-> 0]
    /\ from = [c \in Calls |-> 1]
    /\ cursor = [c \in Calls |-> 1]
    /\ gap = [c \in Calls |-> NoBlocks]
    /\ faults = 0

-----------------------------------------------------------------------------
(* Pieces of a run. *)

Goto(c, label) == pc' = [pc EXCEPT ![c] = label]

(* The locals of a call that is over (or has not begun). *)
Forget(c) ==
    /\ head' = [head EXCEPT ![c] = 0]
    /\ from' = [from EXCEPT ![c] = 1]
    /\ cursor' = [cursor EXCEPT ![c] = 1]
    /\ gap' = [gap EXCEPT ![c] = NoBlocks]

(* The finally block. *)
Release(c) == inFlight' = inFlight \ {ProcessOf[c]}

(* Mutated form of Throws. *)
ThrowsHoldingLabel(c) == Goto(c, "idle") /\ Forget(c) /\ UNCHANGED inFlight

(* An exception leaves runEventSync. *)
Throws(c) == Goto(c, "idle") /\ Forget(c) /\ Release(c)

(* The loop is entered, or continued, at block `next'. *)
LoopAt(c, next, lastBlock) ==
    IF next > lastBlock
    THEN Goto(c, "returned") /\ Release(c)
    ELSE Goto(c, "fetch") /\ UNCHANGED inFlight

(* One row per gapKey: an upsert replaces the previous record. *)
RecordGap(g) ==
    /\ gapRecord' = g
    /\ reported' = reported \cup Blocks(g)

(* setLastBlock(batchTo), then on to the next batch. *)
FinishBatch(c) ==
    /\ checkpoint' = Batch(c).to
    /\ cursor' = [cursor EXCEPT ![c] = Batch(c).to + 1]
    /\ LoopAt(c, Batch(c).to + 1, head[c])
    /\ UNCHANGED << head, from, gap >>

-----------------------------------------------------------------------------
(* Mutated forms: plausible mistakes the properties must notice. *)

StartUnguarded(c) ==
    /\ pc[c] \in Stopped
    /\ inFlight' = inFlight \cup {ProcessOf[c]}
    /\ Goto(c, "head")
    /\ Forget(c)
    /\ UNCHANGED << chain, store, faults >>

PersistFailsUnnoticed(c) ==
    /\ pc[c] = "process"
    /\ \E stored \in SUBSET (Blocks(Batch(c)) \ PoisonBlocks) :
        indexed' = indexed \cup stored
    /\ Goto(c, "commit")
    /\ UNCHANGED << chain, checkpoint, gapRecord, reported, inFlight, locals,
                    faults >>

ClampRetries(c) ==
    /\ pc[c] = "planLimit"
    /\ Goto(c, "fetch")
    /\ UNCHANGED << chain, store, inFlight, locals, faults >>

-----------------------------------------------------------------------------
(* Steps of a call. *)

(* A trigger fires.  While the label is in flight in this process the call *)
(* returns at once with skippedRun, which changes nothing.                 *)
Start(c) ==
    /\ pc[c] \in Stopped
    /\ ProcessOf[c] \notin inFlight
    /\ inFlight' = inFlight \cup {ProcessOf[c]}
    /\ Goto(c, "head")
    /\ Forget(c)
    /\ UNCHANGED << chain, store, faults >>

(* assertSepoliaNetwork and getBlockNumber; a wrong chain is a Throw.  A   *)
(* load-balanced provider may answer from a node that lags.                *)
ReadHead(c) ==
    /\ pc[c] = "head"
    /\ \E h \in Greatest(0, chain - HeadLag) .. chain :
        head' = [head EXCEPT ![c] = h]
    /\ Goto(c, "checkpoint")
    /\ UNCHANGED << chain, store, inFlight, from, cursor, gap, faults >>

(* getLastBlock and resolveStartBlock. *)
ReadCheckpoint(c) ==
    /\ pc[c] = "checkpoint"
    /\ LET resolved == resolveStartBlock(checkpoint, ConfiguredStart, head[c],
                                         Lookback)
       IN  /\ from' = [from EXCEPT ![c] = resolved.from]
           /\ cursor' = [cursor EXCEPT ![c] = resolved.from]
           /\ gap' = [gap EXCEPT ![c] = resolved.gap]
           /\ IF resolved.gap # NoBlocks
              THEN Goto(c, "startGap") /\ UNCHANGED inFlight
              ELSE LoopAt(c, resolved.from, head[c])
    /\ UNCHANGED << chain, store, head, faults >>

(* persistGap(resolved.gap), before anything is indexed. *)
PersistStartGap(c) ==
    /\ pc[c] = "startGap"
    /\ RecordGap(gap[c])
    /\ LoopAt(c, from[c], head[c])
    /\ UNCHANGED << chain, checkpoint, indexed, locals, faults >>

(* fetchRangeAdaptive answers the whole batch (see AdaptiveFetch). *)
Fetch(c) ==
    /\ pc[c] = "fetch"
    /\ Serves(cursor[c])
    /\ Goto(c, "process")
    /\ UNCHANGED << chain, store, inFlight, locals, faults >>

(* fetchRangeAdaptive throws PLAN_LIMIT. *)
FetchRefused(c) ==
    /\ pc[c] = "fetch"
    /\ ~ Serves(cursor[c])
    /\ Goto(c, "planLimit")
    /\ UNCHANGED << chain, store, inFlight, locals, faults >>

(* The PLAN_LIMIT branch: clamp to the window below the head this run      *)
(* read, record what is given up, and go on.                               *)
Clamp(c) ==
    /\ pc[c] = "planLimit"
    /\ LET clamped == clampRangeToFloor(Batch(c),
                                        queryableFloor(head[c], Lookback))
       IN  /\ IF clamped.gap # NoBlocks
              THEN /\ gap' = [gap EXCEPT ![c] = mergeGap(@, clamped.gap)]
                   /\ RecordGap(clamped.gap)
              ELSE UNCHANGED << gap, gapRecord, reported >>
           /\ IF clamped.range = NoBlocks
              THEN Goto(c, "skip") /\ UNCHANGED cursor
              ELSE /\ Goto(c, "fetch")
                   /\ cursor' = [cursor EXCEPT ![c] = clamped.range.from]
    /\ UNCHANGED << chain, checkpoint, indexed, inFlight, head, from, faults >>

(* setLastBlock for a batch that wholly predates the window. *)
Skip(c) ==
    /\ pc[c] = "skip"
    /\ FinishBatch(c)
    /\ UNCHANGED << chain, gapRecord, indexed, reported, faults >>

(* processEvents stores every event of the batch. *)
Persist(c) ==
    /\ pc[c] = "process"
    /\ Blocks(Batch(c)) \cap PoisonBlocks = {}
    /\ indexed' = indexed \cup Blocks(Batch(c))
    /\ Goto(c, "commit")
    /\ UNCHANGED << chain, checkpoint, gapRecord, reported, inFlight, locals,
                    faults >>

(* An event no handler can store (an unmapped currency): the others are    *)
(* stored, the error count makes the run throw.                            *)
PersistPoison(c) ==
    /\ pc[c] = "process"
    /\ Blocks(Batch(c)) \cap PoisonBlocks # {}
    /\ indexed' = indexed \cup (Blocks(Batch(c)) \ PoisonBlocks)
    /\ Throws(c)
    /\ UNCHANGED << chain, checkpoint, gapRecord, reported, faults >>

(* Some events fail for a passing reason: again the run throws. *)
PersistFails(c) ==
    /\ pc[c] = "process"
    /\ faults < MaxFaults
    /\ faults' = faults + 1
    /\ \E stored \in SUBSET (Blocks(Batch(c)) \ PoisonBlocks) :
        indexed' = indexed \cup stored
    /\ Throws(c)
    /\ UNCHANGED << chain, checkpoint, gapRecord, reported >>

(* setLastBlock after the batch is stored. *)
Commit(c) ==
    /\ pc[c] = "commit"
    /\ FinishBatch(c)
    /\ UNCHANGED << chain, gapRecord, indexed, reported, faults >>

(* The pending await rejects: RPC retries exhausted, wrong network, a      *)
(* database error.                                                         *)
Throw(c) ==
    /\ pc[c] \in Running
    /\ faults < MaxFaults
    /\ faults' = faults + 1
    /\ Throws(c)
    /\ UNCHANGED << chain, store >>

(* A process dies and restarts: its calls and its in-flight set are gone. *)
Crash(p) ==
    /\ faults < MaxFaults
    /\ faults' = faults + 1
    /\ p \in inFlight
    /\ inFlight' = inFlight \ {p}
    /\ LET dead == {c \in Calls : ProcessOf[c] = p}
       IN  /\ pc' = [c \in Calls |-> IF c \in dead THEN "idle" ELSE pc[c]]
           /\ head' = [c \in Calls |-> IF c \in dead THEN 0 ELSE head[c]]
           /\ from' = [c \in Calls |-> IF c \in dead THEN 1 ELSE from[c]]
           /\ cursor' = [c \in Calls |-> IF c \in dead THEN 1 ELSE cursor[c]]
           /\ gap' = [c \in Calls |-> IF c \in dead THEN NoBlocks ELSE gap[c]]
    /\ UNCHANGED << chain, store >>

(* The chain grows while runs are going on. *)
Mine ==
    /\ chain < MaxHead
    /\ chain' = chain + 1
    /\ UNCHANGED << store, inFlight, pc, locals, faults >>

(* What the event loop runs without being asked again. *)
Step(c) ==
    \/ ReadHead(c) \/ ReadCheckpoint(c) \/ PersistStartGap(c)
    \/ Fetch(c) \/ FetchRefused(c) \/ Clamp(c) \/ Skip(c)
    \/ Persist(c) \/ PersistPoison(c) \/ Commit(c)

Next ==
    \/ \E c \in Calls : Start(c) \/ Step(c) \/ PersistFails(c) \/ Throw(c)
    \/ \E p \in Processes : Crash(p)
    \/ Mine

Spec == Init /\ [][Next]_vars

(* A pending await settles; the cron keeps firing. *)
Fairness == \A c \in Calls : WF_vars(Step(c)) /\ WF_vars(Start(c))

FairSpec == Spec /\ Fairness

-----------------------------------------------------------------------------
(* Properties. *)

(* The type invariant: every variable of the engine stays in its type. *)
TypeOK ==
    /\ chain \in Nat
    /\ checkpoint \in Nat
    /\ gapRecord \in [from : Nat, to : Nat]
    /\ indexed \subseteq Nat
    /\ reported \subseteq Nat
    /\ inFlight \subseteq Processes
    /\ pc \in [Calls -> Running \cup Stopped]
    /\ head \in [Calls -> Nat]
    /\ from \in [Calls -> Nat]
    /\ cursor \in [Calls -> Nat]
    /\ gap \in [Calls -> [from : Nat, to : Nat]]
    /\ faults \in Nat

(* The contract cannot have emitted anything before its deployment block. *)
FirstBlock == Greatest(1, ConfiguredStart)

Accounted == indexed \cup reported

(* "No silent event loss": whatever runs overlap, throw or crash, a block  *)
(* at or below the stored checkpoint, which no later run will ask for      *)
(* again, is either stored or was written to SyncState as a gap.           *)
NoSilentLoss ==
    \A b \in FirstBlock .. checkpoint : b \in Accounted

(* The gap a run returns to the API is honest: every block the run has     *)
(* moved past since its fromBlock is stored or lies in that gap.           *)
RunAccountsForItsRange ==
    \A c \in Calls : pc[c] \notin {"idle", "head", "checkpoint"} =>
        \A b \in from[c] .. cursor[c] - 1 :
            b \in indexed \/ b \in Blocks(gap[c])

(* The engine never gives up a block that the documented window still      *)
(* covers: a reported gap only holds blocks older than the last            *)
(* safeLookbackBlocks of the chain.                                        *)
NothingRecentGivenUp ==
    \A b \in reported : b < queryableFloor(chain, Lookback)

(* Whatever a run clamps and skips, each block of its range is stored or   *)
(* given up openly, and none is given up that the provider still serves.   *)
RunKeepsItsRange == RunAccountsForItsRange /\ NothingRecentGivenUp

(* The detailed engine implements the promise of IndexLedger. *)
Ledger == INSTANCE IndexLedger WITH accounted <- Accounted
ImplementsLedger == Ledger!LedgerSpec

(* With a single process the in-flight set keeps runs apart, so the        *)
(* checkpoint never moves back: no range is scanned again once it is done. *)
CheckpointNeverMovesBack == [][checkpoint' >= checkpoint]_checkpoint

(* A started run ends, so the in-flight label is released and the next     *)
(* cron tick can work.  sync-engine.ts:28-30 promises a plan limit "clamps *)
(* the range instead of retrying the same impossible request forever".     *)
RunEnds ==
    \A c \in Calls : (pc[c] \in Running) ~> (pc[c] \in Stopped)

(* Every mined block is eventually stored or reported, whatever finite     *)
(* number of exceptions and crashes happens on the way.                    *)
EveryBlockAccountedFor ==
    \A b \in 1 .. MaxHead :
        (FirstBlock <= b /\ b <= chain) ~> (b \in Accounted)

(* persistGap's comment: "Persist + log an unindexed block range so it is  *)
(* never silently lost"; sync-state.repository.ts:74-77 "kept until an     *)
(* operator backfills them".  What was skipped can still be read from the  *)
(* stored record.                                                          *)
SkippedBlocksStayRecorded ==
    \A b \in FirstBlock .. checkpoint : b \in indexed \cup Blocks(gapRecord)
=============================================================================
