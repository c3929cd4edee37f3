------------------------------ MODULE FraudScan -----------------------------
(***************************************************************************)
(* analyzeFraudPatterns (f/src/modules/user/fraud/                         *)
(* fraud-detector.service.ts), which every submission of a task starts and *)
(* does not wait for: several scans of one user may be under way.  Each    *)
(* query of a scan sees the tables at its own moment.                      *)
(***************************************************************************)
EXTENDS Naturals

CONSTANTS
    Scans,      \* the scans that may be under way
    Cluster,    \* users created within a minute of the user that look like one
    MaxCohort   \* users created then in a behaviour, the user included

ASSUME FraudAssumption == Cluster \in Nat /\ MaxCohort \in Nat \ {0}

VARIABLES
    farming,    \* the user has more than 100000 points
    rapid,      \* ten purchases or more in the last five minutes
    cohort,     \* users created within a minute of the user: none is ever deleted
    scan,       \* what each scan is doing, and what it has found
    riskProfile,
    isBlocked,  \* User.status is BLOCKED
    audited,    \* UserAuditLog has USER_AUTO_BLOCKED
    met,        \* history: two scans were under way at once
    halfway     \* history: a scan ended between its writes

fraudVars == <<farming, rapid, cohort, scan, riskProfile, isBlocked, audited, met, halfway>>

Levels == {"LOW", "MEDIUM", "HIGH", "CRITICAL"}
Report == [level : Levels, score : Nat, sybil : BOOLEAN]
NoReport == [level |-> "none", score |-> 0, sybil |-> FALSE]
Stages == {"purchases", "cohort", "upsert", "block", "audit"}
Rest == [at |-> "idle", score |-> 0, sybil |-> FALSE]

FraudTypeOK ==
    /\ farming \in BOOLEAN /\ rapid \in BOOLEAN /\ cohort \in 1..MaxCohort
    /\ scan \in [Scans -> {Rest} \cup [at : Stages, score : Nat, sybil : BOOLEAN]]
    /\ riskProfile \in {NoReport} \cup Report
    /\ isBlocked \in BOOLEAN /\ audited \in BOOLEAN /\ met \in BOOLEAN /\ halfway \in BOOLEAN

FraudInit ==
    /\ farming \in BOOLEAN /\ rapid \in BOOLEAN /\ cohort = 1
    /\ scan = [c \in Scans |-> Rest] /\ riskProfile = NoReport
    /\ isBlocked = FALSE /\ audited = FALSE /\ met = FALSE /\ halfway = FALSE

tables == <<riskProfile, isBlocked, audited>>
facts == <<farming, rapid, cohort>>
histories == <<met, halfway>>

-----------------------------------------------------------------------------
(* Points are recalculated, purchases grow old, users sign up. *)
FactsChange ==
    /\ \/ farming' = ~farming /\ UNCHANGED <<rapid, cohort>>
       \/ rapid' = ~rapid /\ UNCHANGED <<farming, cohort>>
       \/ cohort < MaxCohort /\ cohort' = cohort + 1 /\ UNCHANGED <<farming, rapid>>
    /\ UNCHANGED <<scan, tables, histories>>

(* The user is read, with the points. *)
StartScan(c) ==
    /\ scan[c].at = "idle"
    /\ scan' = [scan EXCEPT ![c] = [at |-> "purchases", score |-> IF farming THEN 40 ELSE 0, sybil |-> FALSE]]
    /\ met' = (met \/ \E d \in Scans \ {c} : scan[d].at # "idle")
    /\ UNCHANGED <<facts, tables, halfway>>

CountPurchases(c) ==
    /\ scan[c].at = "purchases"
    /\ scan' = [scan EXCEPT ![c].at = "cohort", ![c].score = @ + (IF rapid THEN 30 ELSE 0)]
    /\ UNCHANGED <<facts, tables, histories>>

CountCohort(c) ==
    /\ scan[c].at = "cohort"
    /\ scan' = [scan EXCEPT ![c].at = "upsert", ![c].sybil = cohort >= Cluster,
                            ![c].score = @ + (IF cohort >= Cluster THEN 50 ELSE 0)]
    /\ UNCHANGED <<facts, tables, histories>>

LevelLow(score) ==      \* mutant: points and purchases alone are critical
    IF score >= 70 THEN "CRITICAL"
    ELSE IF score >= 60 THEN "HIGH" ELSE IF score >= 30 THEN "MEDIUM" ELSE "LOW"

Level(score) ==
    IF score >= 80 THEN "CRITICAL"
    ELSE IF score >= 60 THEN "HIGH" ELSE IF score >= 30 THEN "MEDIUM" ELSE "LOW"

SaveProfile(c) ==
    /\ scan[c].at = "upsert"
    /\ riskProfile' = [level |-> Level(scan[c].score), score |-> scan[c].score, sybil |-> scan[c].sybil]
    /\ scan' = IF Level(scan[c].score) = "CRITICAL" THEN [scan EXCEPT ![c].at = "block"]
               ELSE [scan EXCEPT ![c] = Rest]
    /\ UNCHANGED <<facts, isBlocked, audited, histories>>

AutoBlock(c) ==
    /\ scan[c].at = "block" /\ isBlocked' = TRUE
    /\ scan' = [scan EXCEPT ![c].at = "audit"]
    /\ UNCHANGED <<facts, riskProfile, audited, histories>>

Audit(c) ==
    /\ scan[c].at = "audit" /\ audited' = TRUE
    /\ scan' = [scan EXCEPT ![c] = Rest]
    /\ UNCHANGED <<facts, riskProfile, isBlocked, histories>>

(* A query throws, which the submission only logs, or the process ends. *)
ScanEnds(c) ==
    /\ scan[c].at # "idle" /\ scan' = [scan EXCEPT ![c] = Rest]
    /\ halfway' = (halfway \/ scan[c].at \in {"block", "audit"}) /\ UNCHANGED <<facts, tables, met>>

FraudNext ==
    \/ FactsChange
    \/ \E c \in Scans :
          \/ StartScan(c) \/ CountPurchases(c) \/ CountCohort(c)
          \/ SaveProfile(c) \/ AutoBlock(c) \/ Audit(c) \/ ScanEnds(c)

FraudSpec == FraudInit /\ [][FraudNext]_fraudVars

-----------------------------------------------------------------------------
(* No user is called a sybil, or blocked, but for a cluster that is in the *)
(* table: points and purchases of the moments the queries saw, however     *)
(* they are combined, do not block anyone.                                 *)
BlockedForACluster ==
    /\ isBlocked \/ riskProfile.sybil \/ riskProfile.level = "CRITICAL" => cohort >= Cluster
    /\ riskProfile.level = "CRITICAL" => riskProfile.sybil

(* A block has its entry in the audit log, and the reverse, but while the  *)
(* scan is between the two writes or has ended there.                      *)
BlocksAreAudited ==
    /\ audited => isBlocked
    /\ isBlocked /\ ~audited => halfway \/ \E c \in Scans : scan[c].at = "audit"
    /\ riskProfile.level = "CRITICAL" /\ ~isBlocked => halfway \/ \E c \in Scans : scan[c].at = "block"

(* As long as no two scans have met, a blocked user stays a suspect in the *)
(* profile: what a later scan counts can only be more.  Two scans may:     *)
(* the one that counted first may save last.                               *)
BlockedStaysSuspect == isBlocked /\ ~met => riskProfile.sybil

(* What scans of changing tables leave behind agrees. *)
FraudInv == FraudTypeOK /\ BlockedForACluster /\ BlocksAreAudited /\ BlockedStaysSuspect
=============================================================================
