----------------------------- MODULE Dashboards -----------------------------
(***************************************************************************)
(* What is told of the mirrors' tables: getAnalytics and                   *)
(* getParticipantProfile of f/src/modules/vesting, getPurchaseStats and    *)
(* getBuyerProfile of f/src/modules/purchase.  A dashboard asks several    *)
(* queries at once (Promise.all), a profile two in turn, and each is       *)
(* answered from the tables of its own moment, while indexers and reports  *)
(* write there.                                                            *)
(***************************************************************************)
EXTENDS PurchaseMirror, VestingMirror

VARIABLES
    entrants,   \* wallets with an AirdropParticipant row
    dashboard,  \* the queries answered, by name, and whether it has been asked for
    profile,    \* a wallet's profile: who it is about, then what is told
    before,     \* history: how many rows there were when the dashboard was asked for
    moved       \* history: the tables have changed since

dashboardVars == <<entrants, dashboard, profile, before, moved>>
dashboardsVars == <<mirrorVars, purchaseVars, vestingVars, dashboardVars>>

NoProfile == [at |-> "none", wallet |-> "", entrant |-> FALSE, row |-> << >>]

Analytics == {"totals", "never", "full", "bySource", "classified", "participantOnly"}
Stats == {"count", "buyers", "byAsset", "bySource"}
Queries == IF contract = "Sale" THEN Stats ELSE Analytics

DashboardsInit ==
    /\ entrants = {} /\ dashboard = [asked |-> FALSE, got |-> << >>] /\ profile = NoProfile
    /\ before = 0 /\ moved = FALSE

-----------------------------------------------------------------------------
(* The queries of vesting.repository.ts.  All schedules have one source.   *)
Sums ==
    [count |-> Len(schedules),
     allocated |-> SumFunctionOnSet([s \in DOMAIN schedules |-> schedules[s].total], DOMAIN schedules),
     claimed |-> SumFunctionOnSet([s \in DOMAIN schedules |-> schedules[s].claimed], DOMAIN schedules)]
getAggregatedTotals == Sums
getStatsBySource == Sums
findNeverClaimed == Cardinality({s \in DOMAIN schedules : schedules[s].claimed = 0})
findFullyClaimedZero == \* mutant: a schedule without a total counts as claimed in full
    Cardinality({s \in DOMAIN schedules : schedules[s].claimed >= schedules[s].total})
findFullyClaimed ==
    Cardinality({s \in DOMAIN schedules :
        schedules[s].claimed >= schedules[s].total /\ schedules[s].total > 0})
classifiedSchedules ==
    [both |-> Cardinality({s \in DOMAIN schedules : schedules[s].wallet \in entrants}),
     buyerOnly |-> Cardinality({s \in DOMAIN schedules : schedules[s].wallet \notin entrants})]
participantOnly == Cardinality({w \in entrants : SchedulesOf(w) = {}})

(* Those of purchase.repository.ts. *)
RowsPaid(t) == {i \in DOMAIN purchases : log[i].type = t}
countAll == Cardinality(DOMAIN purchases)
countUniqueBuyers == Cardinality({purchases[i].wallet : i \in DOMAIN purchases})
getStatsByAsset ==
    [eth |-> Cardinality(RowsPaid(eth)), stable |-> Cardinality(RowsPaid(stable)),
     paid |-> SumFunctionOnSet([i \in DOMAIN purchases |-> purchases[i].amount], RowsPaid(stable))]

AnswerTo(q) ==
    CASE q = "totals" -> getAggregatedTotals
      [] q = "never" -> findNeverClaimed
      [] q = "full" -> findFullyClaimed
      [] q = "classified" -> classifiedSchedules
      [] q = "participantOnly" -> participantOnly
      [] q = "count" -> countAll
      [] q = "buyers" -> countUniqueBuyers
      [] q = "byAsset" -> getStatsByAsset
      [] q = "bySource" /\ contract = "Sale" -> countAll
      [] q = "bySource" /\ contract # "Sale" -> getStatsBySource

-----------------------------------------------------------------------------
(* getAnalytics, getPurchaseStats. *)
AskDashboard ==
    /\ ~dashboard.asked \/ DOMAIN dashboard.got = Queries
    /\ dashboard' = [asked |-> TRUE, got |-> << >>] /\ moved' = FALSE
    /\ before' = IF contract = "Sale" THEN countAll ELSE Len(schedules)
    /\ UNCHANGED <<entrants, profile>>

(* getClassificationCounts asks its second query after its first. *)
QueryAnswered(q) ==
    /\ dashboard.asked /\ q \notin DOMAIN dashboard.got
    /\ q = "participantOnly" => "classified" \in DOMAIN dashboard.got
    /\ dashboard' = [dashboard EXCEPT !.got =
          [p \in DOMAIN @ \cup {q} |-> IF p = q THEN AnswerTo(q) ELSE dashboard.got[p]]]
    /\ UNCHANGED <<entrants, profile, before, moved>>

(* A query fails, and the request with it. *)
QueryRefused ==
    /\ dashboard.asked /\ DOMAIN dashboard.got # Queries
    /\ dashboard' = [asked |-> FALSE, got |-> << >>] /\ UNCHANGED <<entrants, profile, before, moved>>

Shown == dashboard.asked /\ DOMAIN dashboard.got = Queries

(* computeAnalytics, on what the queries said. *)
computeAnalytics ==
    LET got == dashboard.got IN
    [notStarted |-> got["never"], completed |-> got["full"],
     partial |-> got["totals"].count - got["never"] - got["full"],
     remaining |-> calculateRemaining(got["totals"].allocated, got["totals"].claimed)]

(* The profiles: findByWallet, which includes the AirdropParticipant row,  *)
(* then the schedule, or the purchases.                                    *)
FindProfile(w) ==
    /\ w \in users
    /\ profile' = [at |-> "user", wallet |-> w, entrant |-> w \in entrants, row |-> << >>]
    /\ UNCHANGED <<entrants, dashboard, before, moved>>

getParticipantProfile ==
    /\ contract = "Vesting" /\ profile.at = "user" /\ UNCHANGED <<entrants, dashboard, before, moved>>
    /\ \/ SchedulesOf(profile.wallet) = {} /\ profile' = NoProfile
       \/ \E s \in SchedulesOf(profile.wallet) : profile' = [profile EXCEPT !.at = "told", !.row = schedules[s]]

PurchasesOf(w) == {i \in DOMAIN purchases : purchases[i].wallet = w}
Spent(w) == SumFunctionOnSet([i \in DOMAIN purchases |-> purchases[i].usd], PurchasesOf(w))
getBuyerProfile ==
    /\ contract = "Sale" /\ profile.at = "user" /\ UNCHANGED <<entrants, dashboard, before, moved>>
    /\ profile' =
         IF PurchasesOf(profile.wallet) = {} THEN NoProfile
         ELSE [profile EXCEPT !.at = "told",
                  !.row = [totalPurchases |-> Cardinality(PurchasesOf(profile.wallet)),
                           totalSpentUsd |-> Spent(profile.wallet)]]

(* "PARTICIPANT" and "BUYER" in either module's words. *)
classification == [participant |-> profile.entrant, buyer |-> profile.at = "told"]

(* What is told of the schedule, from the row that was found. *)
buildParticipantProfile ==
    [status |-> deriveClaimStatus(profile.row), progress |-> calculateProgress(profile.row),
     remaining |-> calculateRemaining(profile.row.total, profile.row.claimed)]

-----------------------------------------------------------------------------
(* The first approved task makes a user an AirdropParticipant. *)
Enter(w) ==
    /\ w \in users \ entrants /\ entrants' = entrants \cup {w} /\ moved' = TRUE
    /\ UNCHANGED <<dashboard, profile, before>>

TablesWritten ==
    /\ \/ contract = "Sale" /\ PurchaseNext /\ UNCHANGED vestingVars
       \/ contract = "Vesting" /\ VestingMirrorNext /\ UNCHANGED purchaseVars
    /\ moved' = (moved \/ <<purchases, schedules>>' # <<purchases, schedules>>)
    /\ UNCHANGED <<entrants, dashboard, profile, before>>

Told ==
    /\ \/ AskDashboard \/ QueryRefused \/ getParticipantProfile \/ getBuyerProfile
       \/ \E q \in Queries : QueryAnswered(q)
       \/ \E w \in Buyers : Enter(w) \/ FindProfile(w)
    /\ UNCHANGED <<mirrorVars, purchaseVars, vestingVars>>

DashboardsNext == TablesWritten \/ Told

DashboardsSpec ==
    /\ contract \in {"Sale", "Vesting"}
    /\ MirrorInit /\ PurchaseInit /\ VestingMirrorInit /\ DashboardsInit
    /\ [][DashboardsNext]_dashboardsVars

-----------------------------------------------------------------------------
InStatus(status) == Cardinality({s \in DOMAIN schedules : deriveClaimStatus(schedules[s]) = status})

(* The figures of the vesting dashboard come from queries that do not see  *)
(* one state, and partial is what is left of them.  If nothing was written *)
(* meanwhile it is the number of schedules whose profile says PARTIAL,     *)
(* every schedule is classified, and unless a race has given a wallet two  *)
(* of them, so is every participant, once.                                 *)
AnalyticsAddUp ==
    contract = "Vesting" /\ Shown =>
        /\ before <= dashboard.got["totals"].count /\ dashboard.got["totals"].count <= Len(schedules)
        /\ ~moved =>
             /\ computeAnalytics.notStarted = InStatus("NOT_STARTED")
             /\ computeAnalytics.partial = InStatus("PARTIAL")
             /\ computeAnalytics.completed = InStatus("COMPLETED")
             /\ dashboard.got["classified"].both + dashboard.got["classified"].buyerOnly
                  = dashboard.got["totals"].count
             /\ ~raced => dashboard.got["classified"].both + dashboard.got["participantOnly"]
                            = Cardinality(entrants)

(* The purchase dashboard misses none of the purchases recorded when it    *)
(* was asked for and shows none that is not recorded; if nothing was       *)
(* written meanwhile, the assets add up to the total and a buyer has a     *)
(* purchase.                                                               *)
StatsAreRecorded ==
    contract = "Sale" /\ Shown =>
        /\ before <= dashboard.got["count"] /\ dashboard.got["count"] <= countAll
        /\ dashboard.got["byAsset"].eth + dashboard.got["byAsset"].stable \in before..countAll
        /\ ~moved =>
             /\ dashboard.got["byAsset"].eth + dashboard.got["byAsset"].stable = dashboard.got["count"]
             /\ dashboard.got["buyers"] <= dashboard.got["count"]

(* A profile that is told may be old, but never says more than there is:   *)
(* a participant is one for good, a purchase stays recorded and a value in *)
(* dollars final; a single grant's progress was a percentage, if no report *)
(* misled the wallet's schedules.                                          *)
ProfilesHold ==
    /\ classification.participant => profile.wallet \in entrants
    /\ classification.buyer /\ contract = "Sale" =>
         /\ profile.row.totalPurchases <= Cardinality(PurchasesOf(profile.wallet))
         /\ profile.row.totalSpentUsd <= Spent(profile.wallet)
    /\ classification.buyer /\ contract = "Vesting"
         /\ Cardinality(EventsOf(profile.wallet, "ALLOCATED")) <= 1
         /\ (\A s \in SchedulesOf(profile.wallet) : HonestRows(s)) => buildParticipantProfile.progress <= 100

(* What the dashboards and the profiles say of the mirrors. *)
DashboardsInv == AnalyticsAddUp /\ StatsAreRecorded /\ ProfilesHold
=============================================================================
