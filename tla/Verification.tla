---------------------------- MODULE Verification ----------------------------
(***************************************************************************)
(* The verification service: the record kept for each verification task of *)
(* one user (VERIFIED, REVOKED, ...), the live and the cached checks that  *)
(* change it, and the two questions other modules ask: checkEligibility,   *)
(* answered from the database through a cache, and verifyBeforeClaim, the  *)
(* gate of a claim.  Users meet only where they link accounts (DeepLink),  *)
(* so one user is enough here.                                             *)
(*                                                                         *)
(* A caller is a process: a step of it ends where the code awaits an       *)
(* answer that another caller or the user may change in the meantime.      *)
(* No process of the repository imports the two queues' workers: Jobs are  *)
(* modelled as served, being all that makes a user VERIFIED, and sweeps    *)
(* are the cron's own runs, so what triggerReverification enqueues is not  *)
(* here.                                                                   *)
(***************************************************************************)
EXTENDS Naturals, FiniteSets

CONSTANTS
    VTasks,     \* verification tasks: one channel each
    Jobs,       \* jobs of the verification queue
    Gates,      \* callers of verifyBeforeClaim
    Sweeps,     \* the cron's runs of reverificationAll, which may overlap
    Lookups,    \* callers of checkEligibility
    Casts,      \* what a behaviour may consist of: callers, tasks, and bounds on
                \*   moves (changes of membership, of a task, of the link),
                \*   errors (of database and Redis) and
                \*   changes (rebuilds, blocks of the user, restarts)
    Attempts,   \* attempts of a job of the verification queue
    NoTask

Callers == Jobs \cup Gates \cup Sweeps \cup Lookups

ASSUME VerificationAssumption ==
    /\ NoTask \notin VTasks
    /\ \A c \in Casts : /\ c.callers \subseteq Callers /\ c.tasks \subseteq VTasks
                        /\ c.moves \in Nat /\ c.errors \in Nat /\ c.changes \in Nat
    /\ Attempts \in Nat \ {0}
    /\ Jobs \cap (Gates \cup Sweeps \cup Lookups) = {}
    /\ Gates \cap (Sweeps \cup Lookups) = {} /\ Sweeps \cap Lookups = {}

VARIABLES
    cast,         \* who and what takes part; cast.tasks are the VerificationTask rows
    member,       \* is the linked Telegram account in the task's channel?
    active,       \* VerificationTask.isActive
    linked,       \* does a verified PlatformAccount exist?
    record,       \* UserVerificationTask.status, "NONE" without a row
    memberCache,  \* verification:TELEGRAM:<channel>:<telegram id>
    late,         \* writes to memberCache nobody waits for
    eligCache,    \* verification:eligibility:<user>
    call,         \* the callers' local state
    wasMember,    \* history: channels the user was in since a gate began
    everMember,   \* history: channels the user was ever in
    moves, errors

world == <<cast, member, active, linked, wasMember, everMember, moves>>
caches == <<memberCache, late, eligCache>>
verifVars == <<world, record, caches, call, errors>>

Status == {"NONE", "PENDING", "VERIFIED", "REVOKED", "REJECTED"}
Answer == {"none", "yes", "no", "failed"}
Place == {"off", "idle", "ensure", "load", "account", "cache", "ask", "save",
          "touch", "each", "gate", "passed", "refused", "tasks", "records",
          "store"}
Local == [at : Place, task : VTasks \cup {NoTask}, seen : Status,
          answer : Answer, todo : SUBSET VTasks, required : SUBSET VTasks,
          failed : SUBSET VTasks, tries : 0..(Attempts - 1)]

VerifTypeOK ==
    /\ cast \in Casts
    /\ member \in [VTasks -> BOOLEAN] /\ active \in [VTasks -> BOOLEAN]
    /\ linked \in BOOLEAN
    /\ record \in [VTasks -> Status]
    /\ memberCache \in [VTasks -> Answer]
    /\ late \subseteq VTasks \X Answer
    /\ eligCache \in {"none", "yes", "no"}
    /\ call \in [Callers -> Local]
    /\ wasMember \in [Gates -> SUBSET VTasks] /\ everMember \subseteq VTasks
    /\ moves \in 0..cast.moves /\ errors \in 0..cast.errors

Home == [at |-> "idle", task |-> NoTask, seen |-> "NONE", answer |-> "none",
         todo |-> {}, required |-> {}, failed |-> {}, tries |-> 0]

\* the deployed system with some history: a user once VERIFIED may have left
VerifInit ==
    /\ cast \in Casts
    /\ call = [p \in Callers |->
                IF p \in cast.callers THEN Home ELSE [Home EXCEPT !.at = "off"]]
    /\ member \in [VTasks -> BOOLEAN]
    /\ record \in [VTasks -> {"NONE", "VERIFIED"}]
    /\ \A t \in VTasks \ cast.tasks : ~member[t] /\ record[t] = "NONE"
    /\ active = [t \in VTasks |-> t \in cast.tasks]
    /\ linked = TRUE
    /\ memberCache = [t \in VTasks |-> "none"] /\ late = {}
    /\ eligCache = "none"
    /\ wasMember = [g \in Gates |-> {}]
    /\ everMember = {t \in VTasks : member[t] \/ record[t] = "VERIFIED"}
    /\ moves = 0 /\ errors = 0

At(p, place) == call[p].at = place
Go(p, place) == call' = [call EXCEPT ![p].at = place]
ActiveTasks == {t \in VTasks : active[t]}

-----------------------------------------------------------------------------
(* What the user and the admins do meanwhile.                              *)

Moved == moves < cast.moves /\ moves' = moves + 1

JoinOrLeave(t) ==
    /\ Moved
    /\ member' = [member EXCEPT ![t] = ~@]
    /\ wasMember' = [g \in Gates |->
                       IF member'[t] THEN wasMember[g] \cup {t} ELSE wasMember[g]]
    /\ everMember' = IF member'[t] THEN everMember \cup {t} ELSE everMember
    /\ UNCHANGED <<cast, active, linked, record, caches, call, errors>>

toggle(t) ==
    /\ Moved
    /\ active' = [active EXCEPT ![t] = ~@]
    /\ UNCHANGED <<cast, member, wasMember, everMember, linked, record, caches, call,
                   errors>>

\* unlinkAccount, or the end of a deep link (see DeepLink)
LinkOrUnlink ==
    /\ Moved
    /\ linked' = ~linked
    /\ UNCHANGED <<cast, member, wasMember, everMember, active, record, caches, call,
                   errors>>

\* fifteen minutes on, the writes nobody waits for have arrived and are over too
MemberExpires(t) ==
    /\ memberCache[t] # "none"
    /\ memberCache' = [memberCache EXCEPT ![t] = "none"]
    /\ late' = {w \in late : w[1] # t}
    /\ UNCHANGED <<world, record, eligCache, call, errors>>

EligibilityExpires ==
    /\ eligCache # "none"
    /\ eligCache' = "none"
    /\ UNCHANGED <<world, record, memberCache, late, call, errors>>

\* the cache.set of verifyUserTask is not awaited
LateWrite(t, a) ==
    /\ <<t, a>> \in late
    /\ late' = late \ {<<t, a>>}
    /\ memberCache' = [memberCache EXCEPT ![t] = a]
    /\ UNCHANGED <<world, record, eligCache, call, errors>>

-----------------------------------------------------------------------------
(* One check of one task: verifyUserTask for jobs and gates,               *)
(* reverificationCheck for sweeps.                                         *)

\* what follows a check that returned status s, or threw ("error")
Settled(p, s) ==
    LET c == call[p] IN
    CASE p \in Jobs ->
           IF s = "error" /\ c.tries + 1 < Attempts
             THEN [c EXCEPT !.at = "ensure", !.tries = @ + 1] ELSE Home
      [] p \in Gates ->
           [c EXCEPT !.at = "each", !.todo = @ \ {c.task}, !.task = NoTask,
                     !.seen = "NONE", !.answer = "none",
                     !.failed = IF s = "VERIFIED" THEN @ ELSE @ \cup {c.task}]
      [] OTHER ->
           [Home EXCEPT !.at = "each", !.todo = c.todo \ {c.task}]

Settle(p, s) == call' = [call EXCEPT ![p] = Settled(p, s)]

\* the task row and the user's record
LoadRecord(p) ==
    LET t == call[p].task IN
    /\ At(p, "load")
    /\ \/ /\ ~active[t] /\ p \notin Sweeps
          /\ Settle(p, "REJECTED")
       \/ /\ active[t] \/ p \in Sweeps
          /\ record[t] = "NONE"
          /\ Settle(p, IF p \in Sweeps THEN "REJECTED" ELSE "error")
       \/ /\ active[t] \/ p \in Sweeps
          /\ record[t] # "NONE"
          /\ call' = [call EXCEPT ![p].at = "account", ![p].seen = record[t]]
    /\ UNCHANGED <<world, record, caches, errors>>

\* mutant: every check may look at the cached answer
LoadAccountLazily(p) ==
    /\ At(p, "account") /\ linked
    /\ Go(p, "cache")
    /\ UNCHANGED <<world, record, caches, errors>>

\* without a link a sweep counts the user as gone, the others throw
LoadAccount(p) ==
    /\ At(p, "account")
    /\ \/ /\ linked
          /\ Go(p, IF p \in Jobs THEN "cache" ELSE "ask")
       \/ /\ ~linked /\ p \in Sweeps
          /\ call' = [call EXCEPT ![p].at = "save", ![p].answer = "failed"]
       \/ /\ ~linked /\ p \notin Sweeps
          /\ Settle(p, "error")
    /\ UNCHANGED <<world, record, caches, errors>>

\* only an ordinary check (canUseCache) looks here
AskCache(p) ==
    LET hit == memberCache[call[p].task] IN
    /\ At(p, "cache")
    /\ call' = [call EXCEPT ![p].at = IF hit = "none" THEN "ask" ELSE "save",
                            ![p].answer = hit]
    /\ UNCHANGED <<world, record, caches, errors>>

\* getChatMember answers the truth, or not at all
Answers(t) == {IF member[t] THEN "yes" ELSE "no", "failed"}

\* the provider, with the cache bypassed
AskLive(p) ==
    /\ At(p, "ask") /\ p \notin Jobs
    /\ \E a \in Answers(call[p].task) :
         call' = [call EXCEPT ![p].at = "save", ![p].answer = a]
    /\ UNCHANGED <<world, record, caches, errors>>

\* the provider looks at the cache again, stores what Telegram answered, and
\* the service stores the provider's result, a failure included
AskAndCache(p) ==
    LET t == call[p].task IN
    /\ At(p, "ask") /\ p \in Jobs
    /\ \E a \in IF memberCache[t] # "none" THEN {memberCache[t]} ELSE Answers(t) :
         /\ call' = [call EXCEPT ![p].at = "save", ![p].answer = a]
         /\ memberCache' = [memberCache EXCEPT ![t] = IF a = "failed" THEN @ ELSE a]
         /\ late' = late \cup {<<t, a>>}
    /\ UNCHANGED <<world, record, eligCache, errors>>

\* mutant: a check that failed counts in the user's favour
NewStatusTrusting(p) ==
    IF call[p].answer = "no" THEN "REVOKED" ELSE "VERIFIED"

NewStatus(p) ==
    CASE call[p].answer = "yes" -> "VERIFIED"
      [] call[p].answer # "yes" /\ call[p].seen = "VERIFIED" -> "REVOKED"
      [] OTHER -> "REJECTED"

\* mutant: a sweep that gets no answer leaves the record alone
SaveStatusSparing(p) ==
    /\ At(p, "save")
    /\ record' = IF p \in Sweeps /\ call[p].answer = "failed" THEN record
                 ELSE [record EXCEPT ![call[p].task] = NewStatus(p)]
    /\ IF p \in Sweeps THEN Settle(p, NewStatus(p)) ELSE Go(p, "touch")
    /\ UNCHANGED <<world, caches, errors>>

\* upsert of the status ...
SaveStatus(p) ==
    /\ At(p, "save")
    /\ record' = [record EXCEPT ![call[p].task] = NewStatus(p)]
    /\ IF p \in Sweeps THEN Settle(p, NewStatus(p)) ELSE Go(p, "touch")
    /\ UNCHANGED <<world, caches, errors>>

\* ... and a second write, of the same status with the time of the check
TouchStatus(p) ==
    /\ At(p, "touch")
    /\ record' = [record EXCEPT ![call[p].task] = NewStatus(p)]
    /\ Settle(p, NewStatus(p))
    /\ UNCHANGED <<world, caches, errors>>

\* the database or Redis fails under a check
CheckThrows(p) ==
    /\ call[p].at \in {"ensure", "load", "account", "save", "touch"}
    /\ errors < cast.errors /\ errors' = errors + 1
    /\ Settle(p, "error")
    /\ UNCHANGED <<world, record, caches>>

-----------------------------------------------------------------------------
(* The callers.                                                            *)

\* POST /verify
verifyTask(j) ==
    /\ At(j, "idle")
    /\ \E t \in cast.tasks :
         call' = [call EXCEPT ![j].at = "ensure", ![j].task = t]
    /\ UNCHANGED <<world, record, caches, errors>>

ensurePending(j) ==
    LET t == call[j].task IN
    /\ At(j, "ensure")
    /\ record' = [record EXCEPT ![t] = IF @ = "NONE" THEN "PENDING" ELSE @]
    /\ Go(j, "load")
    /\ UNCHANGED <<world, caches, errors>>

\* the cron awaits no earlier run of it
reverificationAll(s) ==
    /\ At(s, "idle")
    /\ call' = [call EXCEPT ![s].at = "each", ![s].todo = ActiveTasks]
    /\ UNCHANGED <<world, record, caches, errors>>

\* findAllVerified, then a check if the user is among them
SweepTask(s) ==
    /\ At(s, "each") /\ s \in Sweeps
    /\ \/ \E t \in call[s].todo :
            IF record[t] = "VERIFIED"
              THEN call' = [call EXCEPT ![s].at = "load", ![s].task = t]
              ELSE call' = [call EXCEPT ![s].todo = @ \ {t}]
       \/ /\ call[s].todo = {}
          /\ call' = [call EXCEPT ![s] = Home]
    /\ UNCHANGED <<world, record, caches, errors>>

\* verifyBeforeClaim: the tasks active now are the ones required
StartGate(g) ==
    /\ At(g, "gate")
    /\ call' = [call EXCEPT ![g].at = IF ActiveTasks = {} THEN "passed" ELSE "each",
                            ![g].todo = ActiveTasks,
                            ![g].required = ActiveTasks,
                            ![g].failed = {}]
    /\ wasMember' = [wasMember EXCEPT ![g] = {t \in VTasks : member[t]}]
    /\ UNCHANGED <<cast, member, everMember, active, linked, moves, record, caches,
                   errors>>

GateTask(g) ==
    /\ At(g, "each") /\ g \in Gates
    /\ \E t \in call[g].todo :
         IF record[t] = "VERIFIED"
           THEN call' = [call EXCEPT ![g].at = "load", ![g].task = t]
           ELSE call' = [call EXCEPT ![g].todo = @ \ {t}, ![g].failed = @ \cup {t}]
    /\ UNCHANGED <<world, record, caches, errors>>

\* cacheService.del, which throws when Redis fails
EndGate(g) ==
    /\ At(g, "each") /\ g \in Gates /\ call[g].todo = {}
    /\ \/ /\ eligCache' = "none"
          /\ Go(g, IF call[g].failed = {} THEN "passed" ELSE "refused")
          /\ UNCHANGED errors
       \/ /\ errors < cast.errors /\ errors' = errors + 1
          /\ Go(g, "refused")
          /\ UNCHANGED eligCache
    /\ UNCHANGED <<world, record, memberCache, late>>

\* POST /verify-before-claim asks the gate and nothing else
AskGate(g) ==
    /\ At(g, "idle")
    /\ Go(g, "gate")
    /\ UNCHANGED <<world, record, caches, errors>>

LookUpCache(l) ==
    /\ At(l, "idle") /\ eligCache = "none"
    /\ Go(l, "tasks")
    /\ UNCHANGED <<world, record, caches, errors>>

\* without an active task everyone is eligible, and nothing is cached
LookUpTasks(l) ==
    /\ At(l, "tasks")
    /\ call' = [call EXCEPT ![l].at = IF ActiveTasks = {} THEN "idle" ELSE "records",
                            ![l].todo = ActiveTasks]
    /\ UNCHANGED <<world, record, caches, errors>>

LookUpRecords(l) ==
    /\ At(l, "records")
    /\ call' = [call EXCEPT
         ![l].at = "store",
         ![l].answer = IF \A t \in call[l].todo : record[t] = "VERIFIED"
                         THEN "yes" ELSE "no"]
    /\ UNCHANGED <<world, record, caches, errors>>

LookUpStore(l) ==
    /\ At(l, "store")
    /\ eligCache' = call[l].answer
    /\ call' = [call EXCEPT ![l] = Home]
    /\ UNCHANGED <<world, record, memberCache, late, errors>>

-----------------------------------------------------------------------------
Check(p) ==
    \/ LoadRecord(p) \/ LoadAccount(p) \/ AskCache(p)
    \/ AskLive(p) \/ AskAndCache(p) \/ SaveStatus(p) \/ TouchStatus(p)

JobStep(j) == ensurePending(j) \/ Check(j)
SweepStep(s) == SweepTask(s) \/ Check(s)
GateStep(g) == StartGate(g) \/ GateTask(g) \/ EndGate(g) \/ Check(g)
LookUpStep(l) == LookUpTasks(l) \/ LookUpRecords(l) \/ LookUpStore(l)
CacheStep == \/ EligibilityExpires
             \/ \E t \in VTasks : MemberExpires(t) \/ \E a \in Answer : LateWrite(t, a)

\* every step but the arrival of a caller of the gate
VerifSteps ==
    \/ \E t \in cast.tasks : JoinOrLeave(t) \/ toggle(t)
    \/ LinkOrUnlink
    \/ CacheStep
    \/ \E j \in Jobs : verifyTask(j) \/ JobStep(j)
    \/ \E s \in Sweeps : reverificationAll(s) \/ SweepStep(s)
    \/ \E g \in Gates : GateStep(g)
    \/ \E l \in Lookups : LookUpCache(l) \/ LookUpStep(l)
    \/ \E p \in Callers : CheckThrows(p)

VerifNext == VerifSteps \/ \E g \in Gates : AskGate(g)

(* A started job or run goes on, the cron begins a run every six hours and *)
(* Redis drops a key when its time to live is over; that anyone asks is    *)
(* not assumed.                                                            *)
VerifFairness ==
    /\ \A j \in Jobs : WF_verifVars(JobStep(j))
    /\ \A s \in Sweeps : WF_verifVars(reverificationAll(s)) /\ WF_verifVars(SweepStep(s))
    /\ \A l \in Lookups : WF_verifVars(LookUpStep(l))
    /\ WF_verifVars(EligibilityExpires)
    /\ \A t \in VTasks : WF_verifVars(MemberExpires(t))

VerifSpec == VerifInit /\ [][VerifNext]_verifVars /\ VerifFairness
=============================================================================
