------------------------------ MODULE RewardsMC ------------------------------
(***************************************************************************)
(* From a social task to its reward, for TLC, in scenes: the rewards of    *)
(* one user (TaskReward); the pages through which tasks are managed,       *)
(* reviewed and submitted and accounts linked (AdminPages, TelegramLink);  *)
(* the middleware in front of the routes (ApiGate); and the scans for      *)
(* fraud that submissions start (FraudScan).                               *)
(***************************************************************************)
EXTENDS TaskReward, AdminPages, TelegramLink, FraudScan, TLC

CONSTANTS alice, bob, follow, share, reviewer, second, strict, walletLimit

VARIABLE scene

MCPeople == {alice, bob}
MCTasks == {follow, share}
MCReviewers == {reviewer, second}
(* Only invariants are checked, and nothing tells the reviewers apart. *)
EitherReviewer == Permutations(MCReviewers)
AutoVerified == {share}

(* The strict limiter of the admin routes and the one of the wallet routes. *)
MCMaxOf == strict :> 1 @@ walletLimit :> 2

(* At most one role is held, by alice. *)
OneRole ==
    \E S \in SUBSET Roles : Cardinality(S) <= 1 /\ holders = [r \in Roles |-> IF r \in S THEN {alice} ELSE {}]

MCInit ==
    /\ scene \in {"tasks", "gate", "admin", "cards", "link", "fraud"}
    /\ TaskInit /\ GateInit /\ AdminInit /\ VisitorInit /\ FraudInit
    /\ stored.rows = {follow}
    /\ IF scene = "admin" THEN OneRole ELSE holders = [r \in Roles |-> {}] /\ adminPage = "tasks"
    /\ scene # "gate" => \A r \in ClaimRequests : claimRequest[r].key = "k"
    /\ scene # "link" => bound = {}
    /\ scene # "fraud" => ~farming /\ ~rapid

(* The tasks scene has an upset, or a block of the user. *)
TaskBudget == banned' => edits' + mishaps' = 0

(* The admin scene trades calls for switches of the wallet, of which the   *)
(* first connects it.                                                      *)
AdminBudget == made' + 2 * switches' <= 7

MCNext ==
    \/ scene = "tasks" /\ TaskNext /\ TaskBudget /\ UNCHANGED <<scene, gateVars, adminVars, cardVars, linkPageVars, fraudVars>>
    \/ scene = "gate" /\ GateNext /\ UNCHANGED <<scene, taskVars, adminVars, cardVars, linkPageVars, fraudVars>>
    \/ scene = "admin" /\ AdminNext /\ AdminBudget /\ UNCHANGED <<scene, taskVars, cardVars, linkPageVars, fraudVars>>
    \/ scene = "cards" /\ CardNext /\ UNCHANGED <<scene, taskVars, gateVars, adminVars, linkPageVars, fraudVars>>
    \/ scene = "link" /\ LinkPageNext /\ UNCHANGED <<scene, taskVars, gateVars, adminVars, cardVars, fraudVars>>
    \/ scene = "fraud" /\ FraudNext
         /\ UNCHANGED <<scene, taskVars, gateVars, adminVars, cardVars, linkPageVars>>

MCSpec == MCInit /\ [][MCNext]_<<scene, taskVars, gateVars, adminVars, cardVars, linkPageVars, fraudVars>>
=============================================================================
