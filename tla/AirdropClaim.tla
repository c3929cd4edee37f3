----------------------------- MODULE AirdropClaim -----------------------------
(***************************************************************************)
(* Recording an airdrop claim: somebody posts a wallet and the hash of a   *)
(* transaction, its claim or any other; the backend validates, asks the    *)
(* verification gate, writes a PENDING row and waits for the receipt, of   *)
(* which it looks at the status alone.  Several requests of    *)
(* one user may run at once, and the process may stop at any await.  The   *)
(* links of Telegram accounts that users are asked for (DeepLink) come     *)
(* about beside it: Verification sees no more of a link than that it is    *)
(* there.                                                                  *)
(***************************************************************************)
EXTENDS Verification, DeepLink

CONSTANTS
    Claimants,  \* the gate's callers that come from recordClaim
    Txs,        \* transactions whose hash may be posted
    AirdropTxs, \* those that are the wallet's claims at the Airdrop
    TxOf        \* the hash each request carries

ASSUME ClaimAssumption ==
    /\ Claimants \subseteq Gates
    /\ TxOf \in [Claimants -> Txs] /\ AirdropTxs \subseteq Txs

VARIABLES
    row,       \* DistributionClaim.status of the row a request made
    chain,     \* what became of each transaction
    blocked,   \* is the user's status other than ACTIVE?
    proven,    \* has the wallet a valid proof under the active root?
    desk,      \* where a request is in recordClaim, outside the gate
    met,       \* history: requests that were between check and row together
    cut,       \* history: requests that ended without settling their row
    changes

claimOnly == <<row, chain, blocked, proven, desk, met, cut, changes>>
claimVars == <<verifVars, claimOnly>>

RowStatus == {"none", "PENDING", "CLAIMED", "FAILED"}

ClaimTypeOK ==
    /\ VerifTypeOK
    /\ row \in [Claimants -> RowStatus]
    /\ chain \in [Txs -> {"sent", "success", "reverted"}]
    /\ blocked \in BOOLEAN /\ proven \in BOOLEAN
    /\ desk \in [Claimants -> {"idle", "existing", "gate", "waiting", "marking", "done"}]
    /\ met \in [Claimants -> SUBSET Claimants] /\ cut \subseteq Claimants
    /\ changes \in 0..cast.changes

ClaimInit ==
    /\ VerifInit
    /\ row = [g \in Claimants |-> "none"]
    /\ chain = [x \in Txs |-> "sent"]
    /\ blocked = FALSE /\ proven = TRUE
    /\ desk = [g \in Claimants |-> "idle"]
    /\ met = [g \in Claimants |-> {}] /\ cut = {}
    /\ changes = 0

-----------------------------------------------------------------------------
(* Around the requests: the contract pays a wallet once, which says        *)
(* nothing of other transactions; a rebuild may replace the root, the      *)
(* fraud detector may block the user.                                      *)

Mine(x) ==
    /\ chain[x] = "sent" /\ \E g \in Claimants : TxOf[g] = x /\ ~At(g, "off")
    /\ \/ /\ x \in AirdropTxs => \A y \in AirdropTxs : chain[y] # "success"
          /\ chain' = [chain EXCEPT ![x] = "success"]
       \/ chain' = [chain EXCEPT ![x] = "reverted"]
    /\ UNCHANGED <<verifVars, row, blocked, proven, desk, met, cut, changes>>

Changed == changes < cast.changes /\ changes' = changes + 1

\* the root and the user's status are read once, by validateClaim
Awaited == \E g \in Claimants : desk[g] = "idle" /\ At(g, "idle")

Rebuild ==
    /\ Changed /\ Awaited
    /\ proven' = ~proven
    /\ UNCHANGED <<verifVars, row, chain, blocked, desk, met, cut>>

BlockUser ==
    /\ Changed /\ Awaited /\ ~blocked
    /\ blocked' = TRUE
    /\ UNCHANGED <<verifVars, row, chain, proven, desk, met, cut>>

-----------------------------------------------------------------------------
\* past the check for an existing row, and without a row yet
Deciding == {g \in Claimants : desk[g] = "gate"}

\* the reads of validateClaim up to the proof
validateClaim(g) ==
    /\ desk[g] = "idle" /\ At(g, "idle")
    /\ desk' = [desk EXCEPT ![g] =
                  IF blocked \/ ~proven THEN "done" ELSE "existing"]
    /\ UNCHANGED <<verifVars, row, chain, blocked, proven, met, cut, changes>>

\* no row of the user may be PENDING or CLAIMED
FindExisting(g) ==
    LET found == \E h \in Claimants : row[h] \in {"PENDING", "CLAIMED"} IN
    /\ desk[g] = "existing"
    /\ desk' = [desk EXCEPT ![g] = IF found THEN "done" ELSE "gate"]
    /\ call' = [call EXCEPT ![g].at = IF found THEN "idle" ELSE "gate"]
    /\ met' = [h \in Claimants |->
                 CASE h = g -> Deciding
                   [] h \in Deciding -> met[h] \cup {g}
                   [] OTHER -> met[h]]
    /\ UNCHANGED <<world, record, caches, errors, row, chain, blocked, proven,
                   cut, changes>>

Refused(g) ==
    /\ desk[g] = "gate" /\ At(g, "refused")
    /\ desk' = [desk EXCEPT ![g] = "done"]
    /\ UNCHANGED <<verifVars, row, chain, blocked, proven, met, cut, changes>>

\* the participant is found and the row written
createClaim(g) ==
    /\ desk[g] = "gate" /\ At(g, "passed")
    /\ row' = [row EXCEPT ![g] = "PENDING"]
    /\ desk' = [desk EXCEPT ![g] = "waiting"]
    /\ UNCHANGED <<verifVars, chain, blocked, proven, met, cut, changes>>

\* waitForTransaction returns a receipt
Receipt(g) ==
    LET ok == chain[TxOf[g]] = "success" IN
    /\ desk[g] = "waiting" /\ chain[TxOf[g]] # "sent"
    /\ row' = [row EXCEPT ![g] = IF ok THEN "CLAIMED" ELSE "FAILED"]
    /\ desk' = [desk EXCEPT ![g] = "done"]
    /\ UNCHANGED <<verifVars, chain, blocked, proven, met, cut, changes>>

\* mutant: no catch around the wait
ReceiptThrowsOn(g) ==
    /\ desk[g] = "waiting"
    /\ errors < cast.errors /\ errors' = errors + 1
    /\ desk' = [desk EXCEPT ![g] = "done"]
    /\ UNCHANGED <<world, record, caches, call, row, chain, blocked, proven, met,
                   cut, changes>>

\* ... or throws, as does a write of the outcome: the row is to be FAILED
ReceiptThrows(g) ==
    /\ desk[g] = "waiting"
    /\ errors < cast.errors /\ errors' = errors + 1
    /\ desk' = [desk EXCEPT ![g] = "marking"]
    /\ UNCHANGED <<world, record, caches, call, row, chain, blocked, proven, met,
                   cut, changes>>

markClaimFailed(g) ==
    /\ desk[g] = "marking"
    /\ row' = [row EXCEPT ![g] = "FAILED"]
    /\ desk' = [desk EXCEPT ![g] = "done"]
    /\ UNCHANGED <<verifVars, chain, blocked, proven, met, cut, changes>>

\* a second error in a row leaves syncClaimTransaction
MarkThrows(g) ==
    /\ desk[g] = "marking"
    /\ errors < cast.errors /\ errors' = errors + 1
    /\ desk' = [desk EXCEPT ![g] = "done"]
    /\ cut' = cut \cup {g}
    /\ UNCHANGED <<world, record, caches, call, row, chain, blocked, proven, met,
                   changes>>

\* the process stops: requests and jobs in it are gone, BullMQ runs jobs again
Restart ==
    /\ Changed
    /\ desk' = [g \in Claimants |-> IF desk[g] = "idle" THEN "idle" ELSE "done"]
    /\ cut' = cut \cup {g \in Claimants : desk[g] \in {"waiting", "marking"}}
    /\ call' = [p \in Callers |->
                  CASE At(p, "off") -> call[p]
                    [] p \in Jobs /\ ~At(p, "off") /\ ~At(p, "idle") ->
                         [Home EXCEPT !.at = "ensure", !.task = call[p].task]
                    [] OTHER -> Home]
    /\ UNCHANGED <<world, record, caches, errors, row, chain, blocked, proven, met>>

recordClaim(g) ==
    \/ validateClaim(g) \/ FindExisting(g) \/ Refused(g) \/ createClaim(g)
    \/ Receipt(g) \/ ReceiptThrows(g) \/ markClaimFailed(g) \/ MarkThrows(g)

ClaimNext ==
    \/ VerifSteps /\ UNCHANGED claimOnly
    \/ \E g \in Gates \ Claimants : AskGate(g) /\ UNCHANGED claimOnly
    \/ \E g \in Claimants : recordClaim(g)
    \/ \E x \in Txs : Mine(x)
    \/ Rebuild \/ BlockUser \/ Restart

ClaimSpec == ClaimInit /\ [][ClaimNext]_claimVars

-----------------------------------------------------------------------------
(* Properties.                                                             *)

\* Whoever passes the gate was in the channel of every task that was active
\* when the gate began, at some moment since: no cached answer, no earlier
\* VERIFIED and no interleaved job or sweep stands in for the live check.
GateIsLive ==
    \A g \in Gates : At(g, "passed") => call[g].required \subseteq wasMember[g]

\* A task becomes VERIFIED only for a user who was in its channel once: an
\* error, a missing row or a failed answer is never taken for membership.
NeverFabricated ==
    [][\A t \in VTasks : record[t] # "VERIFIED" /\ record'[t] = "VERIFIED"
         => t \in everMember]_claimVars

\* A second row that counts (PENDING or CLAIMED) can only come from a request
\* that was past the check for an existing row before the first was written.
SecondClaimOverlaps ==
    \A g, h \in Claimants :
      g # h /\ row[g] \in {"PENDING", "CLAIMED"} /\ row[h] \in {"PENDING", "CLAIMED"}
        => g \in met[h]

\* A PENDING row blocks every later claim of the user, so somebody is waiting
\* for its receipt, unless a restart or a second error cut the request off.
PendingIsAttended ==
    \A g \in Claimants :
      row[g] = "PENDING" => desk[g] \in {"waiting", "marking"} \/ g \in cut

\* CLAIMED stands for a posted hash that succeeded, and two such rows never
\* name two of the wallet's Airdrop claims.  Nothing asks what else a hash is or
\* whether another row has it: overlapping requests can both end CLAIMED, with
\* one hash, or with one that is no claim of this wallet.
ClaimedIsMined ==
    \A g, h \in Claimants :
      row[g] = "CLAIMED" /\ row[h] = "CLAIMED"
        => /\ chain[TxOf[g]] = "success"
           /\ TxOf[g] = TxOf[h] \/ ~({TxOf[g], TxOf[h]} \subseteq AirdropTxs)

\* A user who leaves a channel for good is in the end neither VERIFIED for it
\* nor told to be eligible, where the cron runs: sweeps ask Telegram, and cached
\* answers expire.  Until they do, a job may still find "yes" in memberCache and
\* make him VERIFIED again after a sweep: reverification never clears it.
RevokedInTheEnd ==
    \A t \in VTasks : \A s \in Sweeps :
      <>[](~member[t] /\ active[t] /\ ~At(s, "off"))
        => <>[](record[t] # "VERIFIED" /\ eligCache # "yes")

\* The rows of a wallet's claims are attended to and settled by what was mined.
ClaimsInv == ClaimTypeOK /\ SecondClaimOverlaps /\ PendingIsAttended /\ ClaimedIsMined

-----------------------------------------------------------------------------
(* Claims and links, side by side. *)
ClaimsSpec == ClaimSpec /\ LinkSpec

(* No user becomes VERIFIED who never was a member, and no bot update for  *)
(* one user takes another's link.  Who asks the site to unlink a wallet,   *)
(* or for a token in its name, is not checked there: both are public.      *)
NothingUnasked == NeverFabricated /\ LinkNotTaken
=============================================================================
