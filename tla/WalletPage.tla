------------------------------ MODULE WalletPage ------------------------------
(***************************************************************************)
(* What the airdrop, vesting and buy pages (front/src/pages) share: the    *)
(* wallet connection, a click handler that asks the wallet to sign and     *)
(* keeps the hash of the transaction, the receipt query, the effect that   *)
(* reports a confirmed transaction to the backend, and its retries.  A     *)
(* React component is sequential, but its handlers are async: between two  *)
(* awaits the user may switch the wallet or click again, an answer may     *)
(* come late, and the tab may be reloaded.                                 *)
(***************************************************************************)
EXTENDS Naturals, Sequences, FiniteSets

CONSTANTS Wallets, NoWallet,
          Routes,       \* route -> number of attempts of its report
          MaxTxs,       \* transactions sent in a behaviour
          MaxJolts      \* wallet and network switches, reloads, rejections

ASSUME WalletAssumption ==
    /\ NoWallet \notin Wallets /\ MaxTxs \in Nat /\ MaxJolts \in Nat
    /\ Routes \in [DOMAIN Routes -> Nat \ {0}]

VARIABLES
    route,      \* the page shown
    wallet,     \* useAccount().address
    sepolia,    \* isSepoliaChain(chainId)
    jolts,
    step,       \* claimStep, step
    flows,      \* click handlers that await the wallet
    txs,        \* every transaction ever sent from the page, in order
    tx,         \* claimTxHash, txHash: an index of txs, 0 for null
    told,       \* what useWaitForTransactionReceipt has answered for tx
    success, syncError, retrying,   \* claimSuccess/success, syncError # null, syncRetrying
    syncs,      \* running calls of syncClaimWithBackend, syncPurchaseWithBackend
    reports,    \* the reports the backend has received
    overlap     \* a click came while a report was being retried

connVars == <<wallet, sepolia, jolts>>
sendVars == <<step, flows, txs, tx, told, overlap>>
syncVars == <<success, syncError, retrying, syncs, reports>>
pageVars == <<route, connVars, sendVars, syncVars>>

Steps == {"idle", "claiming", "approving", "approved", "purchasing", "waiting", "syncing"}
Kinds == {"claim", "approve", "paused", "buy"}
Tx(f) == [from |-> f.from, kind |-> f.kind, arg |-> f.arg, state |-> "pending",
          paid |-> 0, kept |-> f.kept /\ f.from = wallet, asked |-> FALSE]

PageTypeOK(Args) ==
    /\ route \in DOMAIN Routes /\ wallet \in Wallets \cup {NoWallet} /\ sepolia \in BOOLEAN
    /\ jolts \in 0..MaxJolts /\ step \in Steps /\ overlap \in BOOLEAN
    /\ flows \subseteq [from : Wallets, kind : Kinds, arg : Args, kept : BOOLEAN] /\ Cardinality(flows) <= 2
    /\ txs \in Seq([from : Wallets, kind : Kinds, arg : Args, paid : Nat, kept : BOOLEAN,
                    asked : BOOLEAN, state : {"pending", "mined", "reverted"}])
    /\ tx \in 0..Len(txs) /\ told \in {"no", "mined", "reverted"}
    /\ success \in BOOLEAN /\ syncError \in BOOLEAN /\ retrying \in BOOLEAN
    /\ syncs \subseteq [wallet : Wallets, tx : 1..Len(txs), attempt : 1..Routes[route]]
    /\ reports \subseteq [wallet : Wallets, tx : 1..Len(txs)]

PageInit ==
    /\ route \in DOMAIN Routes /\ wallet = NoWallet /\ sepolia = TRUE /\ jolts = 0
    /\ step = "idle" /\ flows = {} /\ tx = 0 /\ told = "no" /\ overlap = FALSE
    /\ success = FALSE /\ syncError = FALSE /\ retrying = FALSE /\ syncs = {}
    /\ txs = << >> /\ reports = {}

Disturbed == [i \in DOMAIN txs |-> [txs[i] EXCEPT !.kept = FALSE]]
Disturb == txs' = Disturbed /\ flows' = {[f EXCEPT !.kept = FALSE] : f \in flows}
Jolt == jolts < MaxJolts /\ jolts' = jolts + 1

-----------------------------------------------------------------------------
Connect(w) ==
    /\ wallet = NoWallet /\ w # NoWallet /\ wallet' = w
    /\ UNCHANGED <<route, sepolia, jolts, sendVars, syncVars>>

SwitchWallet(w) ==
    /\ wallet # NoWallet /\ w # wallet /\ wallet' = w /\ Jolt
    /\ Disturb
    /\ UNCHANGED <<route, sepolia, step, tx, told, overlap, syncVars>>

SwitchNetwork ==
    /\ sepolia' = ~sepolia /\ Jolt
    /\ UNCHANGED <<route, wallet, sendVars, syncVars>>

(* The tab is reloaded: every useState starts again, the wallet stays. *)
Reload ==
    /\ Jolt /\ txs' = Disturbed
    /\ step' = "idle" /\ flows' = {} /\ tx' = 0 /\ told' = "no"
    /\ success' = FALSE /\ syncError' = FALSE /\ retrying' = FALSE /\ syncs' = {}
    /\ UNCHANGED <<route, wallet, sepolia, overlap, reports>>

-----------------------------------------------------------------------------
(* The handler's guards; a handler that returns early only shows an error. *)
MayClick == wallet # NoWallet /\ sepolia /\ step = "idle"

Click(kind, arg, next, fresh) ==
    /\ MayClick /\ Cardinality(flows) < 2 /\ Len(txs) < MaxTxs
    /\ flows' = flows \cup {[from |-> wallet, kind |-> kind, arg |-> arg, kept |-> fresh]}
    /\ step' = next /\ syncError' = FALSE /\ overlap' = (overlap \/ syncs # {})
    /\ UNCHANGED <<route, connVars, txs, tx, told, retrying, syncs, reports>>

(* The wallet refuses, or its simulation fails: the handler's catch. *)
Reject(f) ==
    /\ f \in flows /\ flows' = flows \ {f} /\ step' = "idle" /\ Jolt
    /\ UNCHANGED <<route, wallet, sepolia, txs, tx, told, overlap, syncVars>>

(* Mutant: a handler that does not set the step after signing. *)
SignWithoutStep(f, next, rest) ==
    /\ f \in flows /\ Len(txs) < MaxTxs
    /\ txs' = Append(txs, Tx(f)) /\ tx' = Len(txs') /\ told' = "no"
    /\ step' = step /\ flows' = (flows \ {f}) \cup rest
    /\ UNCHANGED <<route, connVars, overlap, syncVars>>

Sign(f, next, rest) ==
    /\ f \in flows /\ Len(txs) < MaxTxs
    /\ txs' = Append(txs, Tx(f)) /\ tx' = Len(txs') /\ told' = "no"
    /\ step' = next /\ flows' = (flows \ {f}) \cup rest
    /\ UNCHANGED <<route, connVars, overlap, syncVars>>

(* A block takes transaction i; another pending one of its sender was      *)
(* prepared before the sender's state changed.                             *)
MineTx(i, accepted, amount) ==
    /\ i \in DOMAIN txs /\ txs[i].state = "pending"
    /\ \A j \in DOMAIN txs : txs[j].from = txs[i].from /\ j < i => txs[j].state # "pending"
    /\ txs' = [j \in DOMAIN txs |->
                 IF j = i THEN [txs[i] EXCEPT !.state = IF accepted THEN "mined" ELSE "reverted",
                                              !.paid = amount]
                 ELSE IF txs[j].from = txs[i].from /\ txs[j].state = "pending"
                      THEN [txs[j] EXCEPT !.kept = FALSE] ELSE txs[j]]
    /\ flows' = {[f EXCEPT !.kept = @ /\ f.from # txs[i].from] : f \in flows}
    /\ UNCHANGED <<route, connVars, step, tx, told, overlap, syncVars>>

-----------------------------------------------------------------------------
Asked == txs' = [txs EXCEPT ![tx].asked = TRUE]
StartSync == syncs' = syncs \cup {[wallet |-> wallet, tx |-> tx, attempt |-> 1]} /\ syncError' = FALSE

(* Mutant: the effect asks only whether the query has ended. *)
LearnAnyReceipt(ready) ==
    /\ tx # 0 /\ told = "no" /\ txs[tx].state # "pending" /\ told' = txs[tx].state
    /\ IF step = "waiting" /\ wallet # NoWallet /\ ready
       THEN step' = "syncing" /\ StartSync /\ Asked
       ELSE UNCHANGED <<step, syncs, syncError, txs>>
    /\ UNCHANGED <<route, connVars, flows, tx, overlap, retrying, reports>>

(* The receipt query answers; the effect on [confirmed, step] runs once,   *)
(* and its report gives up at once without an address (or eligibility).    *)
LearnReceipt(ready) ==
    /\ tx # 0 /\ told = "no" /\ txs[tx].state # "pending" /\ told' = txs[tx].state
    /\ IF told' = "mined" /\ step = "waiting" /\ wallet # NoWallet /\ ready
       THEN step' = "syncing" /\ StartSync /\ Asked
       ELSE UNCHANGED <<step, syncs, syncError, txs>>
    /\ UNCHANGED <<route, connVars, flows, tx, overlap, retrying, reports>>

(* The Retry Sync button of the vesting and buy pages. *)
RetrySync ==
    /\ syncError /\ ~retrying /\ wallet # NoWallet /\ tx # 0
    /\ retrying' = TRUE /\ StartSync /\ Asked
    /\ UNCHANGED <<route, connVars, step, flows, tx, told, overlap, success, reports>>

(* An attempt ends: answered, refused, or aborted after 15 s, in which     *)
(* case the backend may have had the report all the same.                  *)
SyncAnswer(s, ok, succeedsAnyway) ==
    /\ s \in syncs
    /\ \/ reports' = reports \cup {[wallet |-> s.wallet, tx |-> s.tx]}
       \/ ~ok /\ reports' = reports
    /\ IF ok \/ s.attempt = Routes[route]
       THEN /\ syncs' = syncs \ {s} /\ step' = "idle" /\ retrying' = FALSE
            /\ syncError' = ~ok /\ success' = (ok \/ succeedsAnyway \/ success)
       ELSE /\ syncs' = (syncs \ {s}) \cup {[s EXCEPT !.attempt = @ + 1]}
            /\ UNCHANGED <<step, retrying, syncError, success>>
    /\ UNCHANGED <<route, connVars, flows, txs, tx, told, overlap>>

-----------------------------------------------------------------------------
(* Unless the page was used while a report was being retried, a report     *)
(* names a transaction that was mined and is not an approval, and the      *)
(* wallet that sent it if that wallet stayed connected                     *)
(* (syncClaimWithBackend and syncPurchaseWithBackend post the address of   *)
(* now with the hash of then).                                             *)
ReportsAreOwn ==
    \A r \in reports : LET t == txs[r.tx] IN
        ~overlap => t.state = "mined" /\ t.kind # "approve" /\ (t.kept => r.wallet = t.from)

Confirmed(i) == i \in DOMAIN txs => txs[i].state = "mined" /\ txs[i].kind # "approve"
Reported(i) == i \in DOMAIN txs => txs[i].asked \/ ~txs[i].kept \/ overlap

(* A purchase or claim that is mined is reported in the end, or at least   *)
(* the report is tried, if the wallet stays, the tab is not reloaded, the  *)
(* eligibility not looked up again, and nothing was clicked while an       *)
(* earlier report was being retried.                                       *)
ConfirmedIsReported ==
    \A i \in 1..MaxTxs : (i \in DOMAIN txs /\ Confirmed(i)) ~> Reported(i)
=============================================================================
