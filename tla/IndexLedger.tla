---------------------------- MODULE IndexLedger -----------------------------
(***************************************************************************)
(* What an event indexer promises, whatever runs, retries, crashes and     *)
(* provider refusals happen inside it: a block becomes accounted for (its  *)
(* events are stored, or it was reported as a history gap, or it precedes  *)
(* the contract) and stays so, and the checkpoint only ever names a block  *)
(* up to which every block is accounted for.                               *)
(***************************************************************************)
EXTENDS Integers

CONSTANT FirstBlock     \* blocks before it cannot hold events of the contract

VARIABLES accounted, checkpoint

ledgerVars == << accounted, checkpoint >>

Complete(n, blocks) == \A b \in FirstBlock .. n : b \in blocks

LedgerInit ==
    /\ accounted = {}
    /\ checkpoint = 0

(* More blocks are indexed or reported; the checkpoint does not move. *)
Account ==
    /\ accounted \subseteq accounted'
    /\ UNCHANGED checkpoint

(* The checkpoint moves, forward or (two runs in different processes)      *)
(* backward, to a block with no hole at or below it.                       *)
MoveCheckpoint ==
    /\ checkpoint' \in Nat
    /\ Complete(checkpoint', accounted)
    /\ UNCHANGED accounted

LedgerNext == Account \/ MoveCheckpoint

LedgerSpec == LedgerInit /\ [][LedgerNext]_ledgerVars
=============================================================================
