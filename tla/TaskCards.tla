------------------------------- MODULE TaskCards -------------------------------
(***************************************************************************)
(* The task cards of front/src/pages/airdrop.tsx: open a task's link,      *)
(* complete it, see it under review.  fetchTasks asks for the tasks and    *)
(* then for the visitor's submissions; handleCompleteTask awaits it after  *)
(* its own request.  All of them keep the address they began with, and no  *)
(* answer is checked against the address of now.                           *)
(***************************************************************************)
EXTENDS Naturals, FiniteSets

CONSTANTS Visitors, NoVisitor, CardTasks, NoTask, MaxVisits, MaxAsked

ASSUME CardAssumption == MaxVisits \in Nat /\ MaxAsked \in Nat

VARIABLES
    visitor, visits,            \* useAccount().address, and its changes so far
    userTasks,                  \* tasks the cards show as submitted
    started, completing,        \* startedTasks, completingTask
    tasksLoading, tasksError,
    submissions, loads, asked,      \* handleCompleteTask and fetchTasks under way
    accepted,                   \* submissions the backend has, per visitor
    missed, crossed             \* see AcceptedIsShown

cardVars == <<visitor, visits, userTasks, started, completing, tasksLoading, tasksError,
              submissions, loads, asked, accepted, missed, crossed>>
viewVars == <<visitor, visits, started>>
flagVars == <<missed, crossed>>

CardTypeOK ==
    /\ visitor \in Visitors \cup {NoVisitor} /\ visits \in 0..MaxVisits /\ asked \in 0..MaxAsked
    /\ userTasks \subseteq CardTasks /\ started \subseteq CardTasks /\ completing \in CardTasks \cup {NoTask}
    /\ tasksLoading \in BOOLEAN /\ tasksError \in BOOLEAN /\ missed \in BOOLEAN /\ crossed \in BOOLEAN
    /\ submissions \subseteq [no : 1..MaxAsked, by : Visitors, task : CardTasks, crowded : BOOLEAN,
                          at : {"out", "back", "load"}, ok : BOOLEAN]
    /\ loads \subseteq [no : 1..MaxAsked, by : Visitors, at : {"tasks", "me", "back"},
                        ok : BOOLEAN, has : SUBSET CardTasks]
    /\ accepted \in [Visitors -> SUBSET CardTasks]

CardInit ==
    /\ visitor = NoVisitor /\ visits = 0 /\ asked = 0
    /\ userTasks = {} /\ started = {} /\ completing = NoTask
    /\ tasksLoading = FALSE /\ tasksError = FALSE /\ submissions = {} /\ loads = {}
    /\ accepted = [v \in Visitors |-> {}] /\ missed = FALSE /\ crossed = FALSE

AskBackend == asked < MaxAsked /\ asked' = asked + 1

-----------------------------------------------------------------------------
fetchTasks(v, no) ==
    /\ tasksLoading' = TRUE /\ tasksError' = FALSE
    /\ loads' = loads \cup {[no |-> no, by |-> v, at |-> "tasks", ok |-> FALSE, has |-> {}]}

(* The effect on [address, isConnected]. *)
ChangeVisitor(v) ==
    /\ v # visitor /\ visits < MaxVisits /\ visits' = visits + 1 /\ visitor' = v
    /\ crossed' = (crossed \/ submissions # {} \/ loads # {})
    /\ IF v = NoVisitor
       THEN userTasks' = {} /\ started' = {} /\ UNCHANGED <<tasksLoading, tasksError, loads, asked>>
       ELSE AskBackend /\ fetchTasks(v, asked + 1) /\ UNCHANGED <<userTasks, started>>
    /\ UNCHANGED <<completing, submissions, accepted, missed>>

(* Cards are there unless the list is loading or an error replaces it, and *)
(* have buttons until the task is submitted.                               *)
CardHasButtons(t) ==
    visitor # NoVisitor /\ ~tasksLoading /\ ~tasksError /\ t \notin userTasks

handleStartTask(t) ==
    /\ CardHasButtons(t) /\ t \notin started /\ started' = started \cup {t}
    /\ UNCHANGED <<visitor, visits, userTasks, completing, tasksLoading, tasksError, submissions, loads,
                   asked, accepted, flagVars>>

(* History: other calls that began or ended while a submission ran. *)
Crowd(S) == {[s EXCEPT !.crowded = TRUE] : s \in S}
Submission(t) == [no |-> asked + 1, by |-> visitor, task |-> t, crowded |-> FALSE, at |-> "out", ok |-> FALSE]

handleCompleteTask(t) ==
    /\ CardHasButtons(t) /\ t \in started /\ completing # t
    /\ AskBackend /\ completing' = t /\ tasksError' = FALSE
    /\ submissions' = Crowd({s \in submissions : s.task # t}) \cup {s \in submissions : s.task = t} \cup {Submission(t)}
    /\ UNCHANGED <<viewVars, userTasks, tasksLoading, loads, accepted, flagVars>>

(* POST /tasks/submit: taken, taken while the answer is lost, or refused. *)
SubmitServed(s) ==
    /\ s \in submissions /\ s.at = "out"
    /\ \/ /\ accepted' = [accepted EXCEPT ![s.by] = @ \cup {s.task}]
          /\ \E ok \in BOOLEAN : submissions' = (submissions \ {s}) \cup {[s EXCEPT !.at = "back", !.ok = ok]}
       \/ submissions' = (submissions \ {s}) \cup {[s EXCEPT !.at = "back"]} /\ UNCHANGED accepted
    /\ UNCHANGED <<viewVars, userTasks, completing, tasksLoading, tasksError, loads, asked, flagVars>>

(* setUserTasks, then the handler awaits fetchTasks; or its catch. *)
SubmitBack(s) ==
    /\ s \in submissions /\ s.at = "back"
    /\ IF s.ok
       THEN /\ userTasks' = userTasks \cup {s.task} /\ fetchTasks(s.by, s.no)
            /\ submissions' = (submissions \ {s}) \cup {[s EXCEPT !.at = "load"]} /\ UNCHANGED completing
       ELSE /\ tasksError' = TRUE /\ completing' = NoTask /\ submissions' = Crowd(submissions \ {s})
            /\ UNCHANGED <<userTasks, loads, tasksLoading>>
    /\ UNCHANGED <<viewVars, asked, accepted, flagVars>>

(* The finally of fetchTasks, and of the submission that awaits it. *)
LoadEnds(l) ==
    LET own == {s \in submissions : s.no = l.no /\ s.at = "load"} IN
    /\ loads' = loads \ {l} /\ tasksLoading' = FALSE
    /\ IF own = {} THEN UNCHANGED <<submissions, completing>>
       ELSE submissions' = Crowd(submissions \ own) /\ completing' = NoTask

TasksAnswer(l) ==
    /\ l \in loads /\ l.at = "tasks"
    /\ \/ /\ loads' = (loads \ {l}) \cup {[l EXCEPT !.at = "me"]}
          /\ UNCHANGED <<tasksError, tasksLoading, submissions, completing>>
       \/ tasksError' = TRUE /\ LoadEnds(l)
    /\ UNCHANGED <<viewVars, userTasks, asked, accepted, flagVars>>

MeServed(l) ==
    /\ l \in loads /\ l.at = "me"
    /\ \E ok \in BOOLEAN :
         loads' = (loads \ {l}) \cup {[l EXCEPT !.at = "back", !.ok = ok, !.has = accepted[l.by]]}
    /\ UNCHANGED <<viewVars, userTasks, completing, tasksLoading, tasksError, submissions, asked, accepted,
                   flagVars>>

(* fetchUserTasks replaces the map; a failure is only logged. *)
MeAnswer(l) ==
    /\ l \in loads /\ l.at = "back" /\ LoadEnds(l)
    /\ userTasks' = IF l.ok THEN l.has ELSE userTasks
    /\ missed' = IF l.ok THEN l.has # accepted[l.by] ELSE missed \/ accepted[l.by] \ userTasks # {}
    /\ UNCHANGED <<viewVars, tasksError, asked, accepted, crossed>>

RetryTasks ==
    /\ visitor # NoVisitor /\ tasksError /\ ~tasksLoading /\ AskBackend /\ fetchTasks(visitor, asked + 1)
    /\ UNCHANGED <<viewVars, userTasks, completing, submissions, accepted, flagVars>>

CardNext ==
    \/ \E v \in Visitors \cup {NoVisitor} : ChangeVisitor(v)
    \/ \E t \in CardTasks : handleStartTask(t) \/ handleCompleteTask(t)
    \/ \E s \in submissions : SubmitServed(s) \/ SubmitBack(s)
    \/ \E l \in loads : TasksAnswer(l) \/ MeServed(l) \/ MeAnswer(l)
    \/ RetryTasks

CardSpec == CardInit /\ [][CardNext]_cardVars

-----------------------------------------------------------------------------
(* A task is submitted twice at once only across another task's call:      *)
(* completingTask holds one task, so the end or the start of another frees *)
(* the button (handleCompleteTask).                                        *)
DoubleSubmitNeedsAnother ==
    \A s \in submissions, u \in submissions : s.no < u.no /\ s.task = u.task => s.crowded

(* Once everything is answered, what the backend has accepted from the     *)
(* visitor shows no buttons, unless an error is shown, the wallet changed  *)
(* during a call, or the last list of submissions was out of date when it  *)
(* came or failed while one was not shown.                                 *)
AcceptedIsShown ==
    submissions = {} /\ loads = {} /\ visitor # NoVisitor /\ ~tasksError /\ ~missed /\ ~crossed
        => accepted[visitor] \subseteq userTasks
=============================================================================
