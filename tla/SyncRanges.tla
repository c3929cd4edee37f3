----------------------------- MODULE SyncRanges -----------------------------
(***************************************************************************)
(* The pure block-range arithmetic of the event indexers                   *)
(* (f/src/core/blockchain/sync-utils.ts): where a run starts, what is done *)
(* with a batch the RPC provider refuses, how gaps are merged and how a    *)
(* batch that is too large is halved.                                      *)
(*                                                                         *)
(* A range of blocks is a record [from, to].  The source's null is the     *)
(* empty range NoBlocks; its reason strings are left out.                  *)
(***************************************************************************)
EXTENDS Integers

Span(from, to) == [from |-> from, to |-> to]

NoBlocks == Span(1, 0)

Blocks(span) == span.from .. span.to

Least(a, b) == IF a <= b THEN a ELSE b
Greatest(a, b) == IF a >= b THEN a ELSE b

-----------------------------------------------------------------------------
(* Mutated forms: plausible mistakes the properties must notice. *)

ClampForgetsPrefix(span, floor) ==
    IF span.to < floor
    THEN [range |-> NoBlocks, gap |-> span]
    ELSE [range |-> Span(Greatest(span.from, floor), span.to),
          gap   |-> NoBlocks]

ClampWholeBatch(span, floor) ==
    IF span.from < floor
    THEN [range |-> NoBlocks, gap |-> span]
    ELSE [range |-> span, gap |-> NoBlocks]

-----------------------------------------------------------------------------
(* The oldest block a provider that keeps `lookback' blocks of logs serves. *)
queryableFloor(head, lookback) ==
    Greatest(1, head - Greatest(1, lookback) + 1)

(* The hull of two gaps. *)
mergeGap(a, b) ==
    IF a = NoBlocks THEN b
    ELSE IF b = NoBlocks THEN a
    ELSE Span(Least(a.from, b.from), Greatest(a.to, b.to))

(* Where a run starts, and the history it gives up on the very first run.  *)
(* checkpoint = 0: no checkpoint yet; configuredStart = 0: no start block. *)
resolveStartBlock(checkpoint, configuredStart, head, lookback) ==
    IF checkpoint > 0
    THEN [from |-> checkpoint + 1, gap |-> NoBlocks]
    ELSE IF configuredStart > 0
    THEN [from |-> Least(configuredStart, head), gap |-> NoBlocks]
    ELSE LET floor == queryableFloor(head, lookback)
         IN  [from |-> floor,
              gap  |-> IF floor > 1 THEN Span(1, floor - 1) ELSE NoBlocks]

(* What is still asked of the provider after it refused `span', and what *)
(* has to be given up.                                                    *)
clampRangeToFloor(span, floor) ==
    IF span.to < floor
    THEN [range |-> NoBlocks, gap |-> span]
    ELSE IF span.from < floor
    THEN [range |-> Span(floor, span.to),
          gap   |-> Span(span.from, floor - 1)]
    ELSE [range |-> span, gap |-> NoBlocks]

(* The two halves of a span, << >> when it is a single block. *)
splitRange(span) ==
    IF span.to <= span.from
    THEN << >>
    ELSE LET mid == span.from + (span.to - span.from) \div 2
         IN  << Span(span.from, mid), Span(mid + 1, span.to) >>
=============================================================================
