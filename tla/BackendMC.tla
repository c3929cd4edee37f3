------------------------------ MODULE BackendMC ------------------------------
(***************************************************************************)
(* The backend's mirrors of the Sale and of the Vesting contract, the      *)
(* dashboards that are told of them, and the fetch of one batch of events  *)
(* with its block times, for TLC: each is the scene of a behaviour, in     *)
(* which the variables of the others stand still.                          *)
(***************************************************************************)
EXTENDS Dashboards, BlockTimestamps, TLC

CONSTANTS ann, ben, cron, manual, page

VARIABLE watched        \* who looks on: "dashboard", "profile" or "nobody"

MCBuyers == {ann, ben}
MCIndexers == {cron, manual}

(* Three blocks with purchases or grants, and what each indexer asks for. *)
MCEventBlocks == "PURCHASED" :> {1, 2, 3} @@ "ALLOCATED" :> {1} @@ "CLAIMED" :> {3}
MCTypesOf == "purchases" :> {"PURCHASED"} @@ "vesting" :> {"ALLOCATED", "CLAIMED"}

MCvars == <<watched, dashboardsVars, vars, timestampVars>>

MCInit ==
    /\ contract \in {"Sale", "Vesting", "batch", "times"}
    /\ watched \in {"nobody", "dashboard", "profile"}
    /\ watched # "nobody" => contract \in {"Sale", "Vesting"}
    /\ MirrorInit /\ PurchaseInit /\ VestingMirrorInit /\ DashboardsInit
    /\ Init /\ TimestampsInit

Mirrors ==
    \/ contract = "Sale" /\ PurchaseNext /\ UNCHANGED vestingVars
    \/ contract = "Vesting" /\ VestingMirrorNext /\ UNCHANGED purchaseVars

(* A report of a recorded transaction ends at once whatever it says, so it *)
(* says the truth.  At most one transaction is misreported, as of 2; then  *)
(* there are one indexer, two events and no fault.  A report meets two     *)
(* events at most; the second indexer runs beside the first, not beside a  *)
(* report or after a fault.                                                *)
Posts ==
    \A f \in Fronts : At(f, "idle") /\ At(f, "find")' =>
        \/ misreported' # misreported /\ call'[f].amount = 2
        \/ IsClaim(call'[f].pos, call'[f].wallet, call'[f].amount)
FewLies ==
    contract = "Vesting" =>
        /\ Posts /\ misreported' \in {{}, {1}, {2}}
        /\ misreported' # {} => Len(log') <= 2 /\ faults' = 0 /\ call'[manual] = Idle
        /\ call'[manual] # Idle => call'[page] = Idle /\ faults' = 0
        /\ call'[page] # Idle => Len(log') <= 2

(* Where someone looks there are two events on chain, one indexer and no   *)
(* fault.  A page reports when the indexer has not begun, which is how a   *)
(* schedule comes to have no total; where it lies under the dashboard      *)
(* it names transaction 2, and there is one event.                         *)
Looked ==
    /\ DashboardsNext /\ Len(log') <= 2 /\ faults' = 0
    /\ call'[manual] = Idle /\ (call'[cron] = Idle \/ call'[page] = Idle)
    /\ call'[page] # Idle => contract = "Vesting" /\ checkpoint = 0
    /\ watched = "dashboard" =>
         /\ profile' = NoProfile
         /\ misreported' \subseteq {2} /\ (misreported' # {} => Len(log') <= 1)
    /\ watched = "profile" => ~dashboard'.asked

(* Of the chain, all is asked for or what a checkpoint after the first     *)
(* block leaves.                                                           *)
Spans == \A c \in Fetches : fetch'[c].span \in {{}, Chain, Chain \ {1}}

MCNext ==
    \/ watched = "nobody" /\ Mirrors /\ FewLies /\ UNCHANGED <<watched, dashboardVars, vars, timestampVars>>
    \/ watched # "nobody" /\ Looked /\ FewLies /\ UNCHANGED <<watched, vars, timestampVars>>
    \/ contract = "batch" /\ Next /\ UNCHANGED <<watched, dashboardsVars, timestampVars>>
    \/ contract = "times" /\ TimestampsNext /\ Spans /\ UNCHANGED <<watched, dashboardsVars, vars>>

(* The cron calls the indexers every five minutes, awaits settle, and the  *)
(* provider answers or refuses. *)
Work ==
    /\ watched = "nobody" /\ UNCHANGED <<watched, dashboardVars, timestampVars>>
    /\ \/ contract = "Sale" /\ (\E r \in Indexers : PurchaseWork(r)) /\ UNCHANGED <<vestingVars, vars>>
       \/ contract = "Vesting" /\ (\E r \in Indexers : VestingWork(r)) /\ UNCHANGED <<purchaseVars, vars>>
       \/ contract = "batch" /\ Next /\ UNCHANGED <<mirrorVars, purchaseVars, vestingVars>>

MCSpec == MCInit /\ [][MCNext]_MCvars /\ WF_MCvars(Work)

(* What is on chain is in the tables in the end and stays there, and no    *)
(* batch hangs.                                                            *)
MirrorsCatchUp ==
    <>[](watched = "nobody" =>
           /\ PurchasesCaughtUp /\ ClaimsCaughtUp
           /\ contract = "batch" => BatchSettled)
=============================================================================
