----------------------------- MODULE TaskReward -----------------------------
(***************************************************************************)
(* Tasks, their submission, review and reward (f/src/modules/tasks, admin, *)
(* user/repositories): one user's records, the user's participant row, and *)
(* calls - the user's submissions and the requests of the reviewers - that *)
(* interleave at every await.  The reward is one transaction at READ       *)
(* COMMITTED: two reads, then writes that appear together at the commit.   *)
(* A user whom the fraud scan has blocked can still be approved and        *)
(* rewarded, but is left out of the recalculation of allocations.          *)
(***************************************************************************)
EXTENDS Naturals, Sequences, FiniteSets, Functions

CONSTANTS TaskIds,
          AutoTasks,    \* tasks of a platform on which the user's account is verified
          Reviewers, user,
          Worths,       \* points an admin may give to a task
          FirstWorths,  \* the same, of the tasks at first
          MaxSubmits,   \* submissions
          MaxUpsets     \* edits of tasks (points, activity, deletion), and calls
                        \* that die or are refused by the database

ASSUME TaskAssumption ==
    /\ IsFiniteSet(TaskIds) /\ TaskIds # {} /\ AutoTasks \subseteq TaskIds
    /\ user \notin Reviewers /\ Worths \subseteq Nat /\ FirstWorths \subseteq Worths
    /\ MaxSubmits \in Nat /\ MaxUpsets \in Nat

VARIABLES
    tasks,           \* [t -> [exists, active, points]]
    record,         \* [t -> the user's UserTask, or NoRecord]
    participant,    \* the user's AirdropParticipant, allocation in the points it was made from
    request,        \* what each caller is doing
    banned,         \* User.status is BLOCKED
    submits, edits, mishaps,
    paid,           \* history: for each task, what it has added to the points, each time
    lost,           \* history: tasks verified by an approval that then failed
    raced           \* history: two rewards, or two recalculations, overlapped

taskVars == <<tasks, record, participant, request, banned, submits, edits, mishaps, paid, lost, raced>>

TaskCallers == Reviewers \cup {user}
NoRecord == [status |-> "none", given |-> FALSE, points |-> 0]
NoParticipant == [exists |-> FALSE, points |-> 0, allocation |-> 0]
Asked(label, t, worth) == [at |-> label, task |-> t, worth |-> worth, read |-> NoParticipant]
NoRequest == Asked("idle", CHOOSE t \in TaskIds : TRUE, 0)

(* From the approval to its end; the transaction of the reward is a part.  *)
RewardLabels == {"participant", "commit"}
ApprovalLabels == {"verify", "reward", "recalculate", "allocate", "finish"} \cup RewardLabels

TaskRecord == [status : {"REVIEW", "VERIFIED", "REJECTED"}, given : BOOLEAN, points : Worths \cup {0}]
ParticipantRow == [exists : BOOLEAN, points : Nat, allocation : Nat]

TaskTypeOK ==
    /\ tasks \in [TaskIds -> [exists : BOOLEAN, active : BOOLEAN, points : Worths]]
    /\ record \in [TaskIds -> TaskRecord \cup {NoRecord}]
    /\ participant \in ParticipantRow
    /\ request \in [TaskCallers -> [at : {"idle", "submit", "reject", "toggle"} \cup ApprovalLabels,
                                    task : TaskIds, worth : Nat, read : ParticipantRow]]
    /\ request[user].at \in {"idle", "submit"}
    /\ \A c \in Reviewers : request[c].at \in ApprovalLabels => request[c].worth \in Worths
    /\ \A t \in TaskIds : record[t] # NoRecord => tasks[t].exists
    /\ banned \in BOOLEAN /\ submits \in 0..MaxSubmits /\ edits \in 0..MaxUpsets /\ mishaps \in 0..MaxUpsets
    /\ paid \in [TaskIds -> Seq(Worths)] /\ lost \subseteq TaskIds /\ raced \in BOOLEAN

TaskInit ==
    /\ \E w \in [TaskIds -> FirstWorths] :
          tasks = [t \in TaskIds |-> [exists |-> TRUE, active |-> TRUE, points |-> w[t]]]
    /\ record = [t \in TaskIds |-> NoRecord] /\ participant = NoParticipant
    /\ request = [c \in TaskCallers |-> NoRequest] /\ banned = FALSE /\ edits = 0 /\ submits = 0 /\ mishaps = 0
    /\ paid = [t \in TaskIds |-> << >>] /\ lost = {} /\ raced = FALSE

Ask(c) == request[c]
AtStep(c, label) == request[c].at = label
Step(c, label) == request' = [request EXCEPT ![c].at = label]
Proceed(c, label) == request' = [request EXCEPT ![c].at = label, ![c].read = NoParticipant]
Done(c) == request' = [request EXCEPT ![c] = NoRequest]
Counters == UNCHANGED <<edits, submits, mishaps, banned>>
Books == UNCHANGED <<participant, paid, raced>>

-----------------------------------------------------------------------------
(* submitTask, up to the upsert: the task is active and not yet verified.  *)
Submit(t) ==
    /\ AtStep(user, "idle") /\ submits < MaxSubmits /\ submits' = submits + 1
    /\ tasks[t].exists /\ tasks[t].active /\ record[t].status # "VERIFIED"
    /\ request' = [request EXCEPT ![user] = Asked("submit", t, 0)]
    /\ UNCHANGED <<tasks, record, edits, mishaps, banned, lost>> /\ Books

(* The upsert sets the status only; an automatic verification that fails,  *)
(* or cannot be made, leaves the task to a reviewer.                       *)
UpsertSubmission ==
    /\ AtStep(user, "submit") /\ Done(user) /\ UNCHANGED <<tasks, lost>> /\ Counters /\ Books
    /\ LET t == Ask(user).task IN
       IF ~tasks[t].exists THEN UNCHANGED record
       ELSE \E s \in {"REVIEW"} \cup (IF t \in AutoTasks THEN {"VERIFIED"} ELSE {}) :
               record' = [record EXCEPT ![t].status = s]

(* A scan that a submission started: analyzeFraudPatterns, see FraudScan.  *)
BanUser ==
    /\ submits > 0 /\ ~banned /\ banned' = TRUE
    /\ UNCHANGED <<tasks, record, request, edits, submits, mishaps, lost>> /\ Books

-----------------------------------------------------------------------------
(* approveTask: the record is loaded with its task, and must not be        *)
(* VERIFIED; it is VERIFIED by the next statement, whatever it is by then. *)
Approve(c, t) ==
    /\ AtStep(c, "idle") /\ record[t] # NoRecord /\ record[t].status # "VERIFIED"
    /\ request' = [request EXCEPT ![c] = Asked("verify", t, tasks[t].points)]
    /\ UNCHANGED <<tasks, record, lost>> /\ Counters /\ Books
Verify(c) ==
    /\ AtStep(c, "verify") /\ UNCHANGED <<tasks, lost>> /\ Counters /\ Books
    /\ LET t == Ask(c).task IN
       IF record[t] = NoRecord THEN Done(c) /\ UNCHANGED record
       ELSE Step(c, "reward") /\ record' = [record EXCEPT ![t].status = "VERIFIED"]

(* Mutant: rewardGiven is not looked at. *)
RewardableByStatus(r) == r.status = "VERIFIED"

Rewardable(r) == r.status = "VERIFIED" /\ ~r.given

InReward(c) == request[c].at \in RewardLabels

(* distributeReward: the record, the participant, the writes. *)
RewardReadsRecord(c) ==
    /\ AtStep(c, "reward") /\ UNCHANGED <<tasks, record, participant, paid>> /\ Counters
    /\ raced' = (raced \/ \E d \in TaskCallers : InReward(d))
    /\ LET t == Ask(c).task IN
       IF Rewardable(record[t]) THEN Step(c, "participant") /\ UNCHANGED lost
       ELSE Done(c) /\ lost' = IF record[t].given THEN lost ELSE lost \cup {t}
RewardReadsParticipant(c) ==
    /\ AtStep(c, "participant") /\ UNCHANGED <<tasks, record, lost>> /\ Counters /\ Books
    /\ request' = [request EXCEPT ![c].at = "commit", ![c].read = participant]

(* A participant made in the meantime violates the unique userId, a record *)
(* deleted in the meantime is not there to update: nothing is written.     *)
RewardCommits(c) ==
    /\ AtStep(c, "commit") /\ UNCHANGED <<tasks, raced>> /\ Counters
    /\ LET t == Ask(c).task IN
       IF record[t] = NoRecord \/ (participant.exists /\ ~Ask(c).read.exists)
       THEN Done(c) /\ lost' = lost \cup {t} /\ UNCHANGED <<record, participant, paid>>
       ELSE /\ participant' = [participant EXCEPT !.exists = TRUE, !.points = Ask(c).read.points + Ask(c).worth]
            /\ record' = [record EXCEPT ![t].given = TRUE, ![t].points = Ask(c).worth]
            /\ paid' = [paid EXCEPT ![t] = Append(@, Ask(c).worth)]
            /\ Proceed(c, "recalculate") /\ UNCHANGED lost

(* recalculateAllocations, for this participant: points, then allocation. *)
(* Only the participants of ACTIVE users are read.                        *)
RecalculateReads(c) ==
    /\ AtStep(c, "recalculate") /\ UNCHANGED <<tasks, record, participant, paid, lost>> /\ Counters
    /\ IF banned THEN Proceed(c, "finish") /\ UNCHANGED raced
       ELSE /\ request' = [request EXCEPT ![c].at = "allocate", ![c].read = participant]
            /\ raced' = (raced \/ \E d \in TaskCallers : AtStep(d, "allocate"))
RecalculateWrites(c) ==
    /\ AtStep(c, "allocate") /\ Proceed(c, "finish") /\ UNCHANGED <<tasks, record, paid, lost, raced>>
    /\ participant' = [participant EXCEPT !.allocation = Ask(c).read.points] /\ Counters

(* The last update of approveTask writes the reward once more. *)
Finish(c) ==
    /\ AtStep(c, "finish") /\ Done(c) /\ UNCHANGED <<tasks, lost>> /\ Counters /\ Books
    /\ LET t == Ask(c).task IN
       IF record[t] = NoRecord THEN UNCHANGED record
       ELSE record' = [record EXCEPT ![t].given = TRUE, ![t].points = Ask(c).worth]

(* rejectTask asks nothing of the record but that it is there. *)
Reject(c, t) ==
    /\ AtStep(c, "idle") /\ record[t] # NoRecord
    /\ request' = [request EXCEPT ![c] = Asked("reject", t, 0)]
    /\ UNCHANGED <<tasks, record, lost>> /\ Counters /\ Books
WriteRejection(c) ==
    /\ AtStep(c, "reject") /\ Done(c) /\ UNCHANGED <<tasks, lost>> /\ Counters /\ Books
    /\ LET t == Ask(c).task IN
       IF record[t] = NoRecord THEN UNCHANGED record
       ELSE record' = [record EXCEPT ![t].status = "REJECTED"]

-----------------------------------------------------------------------------
Edit == edits + mishaps < MaxUpsets /\ edits' = edits + 1 /\ UNCHANGED <<submits, mishaps, banned>> /\ Books
UpdateTask(t, w) ==
    /\ Edit /\ tasks[t].exists /\ w # tasks[t].points /\ UNCHANGED <<record, request, lost>>
    /\ tasks' = [tasks EXCEPT ![t].points = w]
DeleteTask(t) ==        \* onDelete: Cascade
    /\ Edit /\ tasks[t].exists /\ UNCHANGED <<request, lost>>
    /\ tasks' = [tasks EXCEPT ![t].exists = FALSE] /\ record' = [record EXCEPT ![t] = NoRecord]
Toggle(c, t) ==         \* the task is read, then written
    /\ AtStep(c, "idle") /\ Edit /\ tasks[t].exists /\ UNCHANGED <<tasks, record, lost>>
    /\ request' = [request EXCEPT ![c] = Asked("toggle", t, IF tasks[t].active THEN 0 ELSE 1)]
WriteToggle(c) ==
    /\ AtStep(c, "toggle") /\ Done(c) /\ UNCHANGED <<record, lost>> /\ Counters /\ Books
    /\ tasks' = IF tasks[Ask(c).task].exists
               THEN [tasks EXCEPT ![Ask(c).task].active = (Ask(c).worth = 1)] ELSE tasks

(* A process stops, or the database refuses: an open transaction is undone. *)
Abandon(c) ==
    /\ ~AtStep(c, "idle") /\ edits + mishaps < MaxUpsets /\ mishaps' = mishaps + 1 /\ Done(c)
    /\ lost' = IF AtStep(c, "reward") \/ InReward(c) THEN lost \cup {Ask(c).task} ELSE lost
    /\ UNCHANGED <<tasks, record, edits, submits, banned>> /\ Books

TaskNext ==
    \/ UpsertSubmission \/ BanUser
    \/ \E t \in TaskIds : Submit(t) \/ DeleteTask(t) \/ \E w \in Worths : UpdateTask(t, w)
    \/ \E c \in Reviewers :
          \/ Verify(c) \/ RewardReadsRecord(c) \/ RewardReadsParticipant(c) \/ RewardCommits(c)
          \/ RecalculateReads(c) \/ RecalculateWrites(c) \/ Finish(c)
          \/ WriteRejection(c) \/ WriteToggle(c)
          \/ \E t \in TaskIds : Approve(c, t) \/ Reject(c, t) \/ Toggle(c, t)
    \/ \E c \in TaskCallers : Abandon(c)

TaskSpec == TaskInit /\ [][TaskNext]_taskVars

-----------------------------------------------------------------------------
(* Approved, rejected, submitted again, approved again, by two reviewers   *)
(* at once and with restarts anywhere: a task pays its user once, as long  *)
(* as no two reward transactions overlap.                                  *)
PaidOnce == ~raced => \A t \in TaskIds : Len(paid[t]) <= 1

(* The participant's points are what the tasks paid, the allocation is     *)
(* never made from more, and is made from all of them once no approval is  *)
(* under way - unless a mishap came before the recalculation, or the user  *)
(* was blocked, who keeps earning points but no allocation (all of it only *)
(* as long as no rewards and no recalculations overlap).                   *)
PaidBy(t) == IF paid[t] = << >> THEN 0 ELSE paid[t][1]
PointsAddUp ==
    LET total == SumFunction([t \in TaskIds |-> PaidBy(t)]) IN
    ~raced =>
        /\ participant.points = total /\ participant.allocation <= total
        /\ (mishaps = 0 /\ ~banned /\ \A c \in Reviewers : request[c].at \notin {"recalculate", "allocate"})
              => participant.allocation = total

(* A record says what it earned, whatever became of the task's points and   *)
(* its own status since; one that has earned nothing is marked so.         *)
RecordsTellThePay ==
    ~raced => \A t \in TaskIds : record[t] # NoRecord =>
        /\ record[t].given <=> paid[t] # << >>
        /\ record[t].points = PaidBy(t)

(* A VERIFIED record that was not paid is on its way to be, was verified   *)
(* automatically, or belongs to an approval that failed after verifying:   *)
(* nobody will pay it then, for a VERIFIED task can be neither approved    *)
(* nor submitted.                                                          *)
UnpaidIsExplained ==
    \A t \in TaskIds : record[t].status = "VERIFIED" /\ ~record[t].given =>
        \/ t \in AutoTasks \cup lost
        \/ \E c \in Reviewers : Ask(c).task = t /\ (AtStep(c, "reward") \/ InReward(c))

(* Every task pays once, and points, records and allocation agree on it.   *)
RewardsInv == TaskTypeOK /\ PaidOnce /\ PointsAddUp /\ RecordsTellThePay /\ UnpaidIsExplained
=============================================================================
