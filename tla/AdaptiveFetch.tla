---------------------------- MODULE AdaptiveFetch ---------------------------
(***************************************************************************)
(* fetchRangeAdaptive with its retry loop (f/src/core/blockchain/          *)
(* sync-engine.ts and retry.service.ts): one batch is asked of the RPC     *)
(* provider; a part rejected as too large is replaced by its two halves,   *)
(* asked concurrently (Promise.all); a passing failure is retried; any     *)
(* other failure rejects the whole batch while the parts already under way *)
(* keep running unobserved.                                                *)
(*                                                                         *)
(* `parts' lists the leaves of the recursion from left to right, which is  *)
(* the order [...left, ...right] puts the events in.                       *)
(***************************************************************************)
EXTENDS SyncRanges, SequencesExt

CONSTANTS
    FromBlock, ToBlock,  \* the batch
    MaxRetries,          \* SYNC_MAX_RETRIES: attempts per request
    MaxAnswer            \* the most blocks the provider answers at once; it
                         \* may also reject less (too many logs)

ASSUME FetchAssumption ==
    /\ FromBlock \in Nat /\ ToBlock \in Nat /\ FromBlock <= ToBlock
    /\ MaxRetries \in Nat \ {0}
    /\ MaxAnswer \in Nat

VARIABLES
    parts,     \* Seq of [span, attempts, status]
    batch,     \* "pending", "resolved" or "rejected": the awaited promise
    events     \* what the resolved promise carries: a sequence of blocks

vars == << parts, batch, events >>

Asked(span) == [span |-> span, attempts |-> 1, status |-> "asked"]

Init ==
    /\ parts = << Asked(Span(FromBlock, ToBlock)) >>
    /\ batch = "pending"
    /\ events = << >>

Width(span) == span.to - span.from + 1

(* The events of the parts, in the order of the recursion. *)
BlocksInOrder(span) == [k \in 1 .. Width(span) |-> span.from + k - 1]

Gathered(seq) == FlattenSeq([i \in DOMAIN seq |-> BlocksInOrder(seq[i].span)])

(* Promise.all settles: resolved when every part is answered. *)
Settle(seq) ==
    IF batch = "pending" /\ \A i \in DOMAIN seq : seq[i].status = "answered"
    THEN batch' = "resolved" /\ events' = Gathered(seq)
    ELSE UNCHANGED << batch, events >>

Reject == (batch' = IF batch = "pending" THEN "rejected" ELSE batch)
          /\ UNCHANGED events

-----------------------------------------------------------------------------
(* Mutated forms: plausible mistakes the properties must notice. *)

PlanLimitSwallowed(i) ==
    /\ parts[i].status = "asked"
    /\ parts' = [parts EXCEPT ![i].status = "failed"]
    /\ UNCHANGED << batch, events >>

-----------------------------------------------------------------------------
(* The provider answers part i. *)
Answer(i) ==
    /\ parts[i].status = "asked"
    /\ Width(parts[i].span) <= MaxAnswer
    /\ LET answered == [parts EXCEPT ![i].status = "answered"]
       IN  parts' = answered /\ Settle(answered)

(* RANGE_TOO_LARGE is not retried: the part is halved; a single block that *)
(* is still too large fails.                                               *)
TooLarge(i) ==
    /\ parts[i].status = "asked"
    /\ LET halves == splitRange(parts[i].span)
       IN  IF halves # << >>
           THEN /\ parts' = SubSeq(parts, 1, i - 1)
                            \o << Asked(halves[1]), Asked(halves[2]) >>
                            \o SubSeq(parts, i + 1, Len(parts))
                /\ UNCHANGED << batch, events >>
           ELSE parts' = [parts EXCEPT ![i].status = "failed"] /\ Reject

(* TRANSIENT, RATE_LIMITED or UNKNOWN: retried up to MaxRetries attempts. *)
Transient(i) ==
    /\ parts[i].status = "asked"
    /\ IF parts[i].attempts < MaxRetries
       THEN /\ parts' = [parts EXCEPT ![i].attempts = @ + 1]
            /\ UNCHANGED << batch, events >>
       ELSE parts' = [parts EXCEPT ![i].status = "failed"] /\ Reject

(* PLAN_LIMIT fails at once. *)
PlanLimit(i) ==
    /\ parts[i].status = "asked"
    /\ parts' = [parts EXCEPT ![i].status = "failed"]
    /\ Reject

Reply(i) == Answer(i) \/ TooLarge(i) \/ Transient(i) \/ PlanLimit(i)

Next == \E i \in DOMAIN parts : Reply(i)

(* Every request is answered in some way (the client has a timeout). *)
Spec == Init /\ [][Next]_vars /\ WF_vars(Next)

-----------------------------------------------------------------------------
(* Properties. *)

(* The type invariant. *)
TypeOK ==
    /\ batch \in {"pending", "resolved", "rejected"}
    /\ \A i \in DOMAIN parts :
        /\ parts[i].span \in [from : FromBlock .. ToBlock,
                              to : FromBlock .. ToBlock]
        /\ parts[i].attempts \in 1 .. MaxRetries
        /\ parts[i].status \in {"asked", "answered", "failed"}

(* However the provider splits the work and in whatever order the parts    *)
(* are answered, a resolved batch holds each block of the range once, in   *)
(* chain order: the engine may move its checkpoint to the end of it.       *)
ResolvedBatchIsComplete ==
    batch = "resolved" =>
        events = [k \in 1 .. ToBlock - FromBlock + 1 |-> FromBlock + k - 1]

(* A failed part is never covered up: the promise of a batch with a failed *)
(* part does not resolve, even when the rest is answered afterwards.       *)
FailureRejectsBatch ==
    (\E i \in DOMAIN parts : parts[i].status = "failed") => batch = "rejected"

(* However a batch is split, retried and refused, its answer is the whole  *)
(* of it, or the batch fails.                                              *)
FetchIsWhole == TypeOK /\ ResolvedBatchIsComplete /\ FailureRejectsBatch

(* Splitting and retrying come to an end: in the end the await has settled.*)
(* ("Block range too large" splits the range in half and makes progress.)  *)
BatchSettled == batch # "pending"
=============================================================================
