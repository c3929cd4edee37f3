------------------------------ MODULE RebuildsMC ------------------------------
(***************************************************************************)
(* Rebuilds of the tree for TLC: two participants whose points tie, or     *)
(* tie once a task is approved.  There are three scenes: the cron and an   *)
(* admin rebuild at once; the cron rebuilds while a reviewer approves; the *)
(* cron alone, with more faults, whose liveness is checked.  In the first *)
(* one bob may be blocked at any time (the two are alike), in the others   *)
(* anybody.                                                                *)
(***************************************************************************)
EXTENDS MerkleRebuild, TLC

CONSTANTS alice, bob, follow, share, cron, route, reviewer

VARIABLE scene

MCParticipants == {alice, bob}
CronOnly == {cron}
CronAndRoute == {cron, route}
OneReviewer == {reviewer}
OneTask == {follow}
BobsTask == (follow :> bob)
MCPointsOf == [t \in Tasks |-> 2]
Tied == (alice :> 4 @@ bob :> 2)
TiedAtOnce == (alice :> 2 @@ bob :> 2)
BothTasks == (follow :> bob @@ share :> alice)
TwoTasks == {follow, share}
TooFew == (alice :> 1 @@ bob :> 1)
Apart == (alice :> 5 @@ bob :> 3)

Together == INSTANCE MerkleRebuild WITH MaxFaults <- 1
Reviewed == INSTANCE MerkleRebuild WITH MaxFaults <- 1, InitialPoints <- TooFew
Quiet == INSTANCE MerkleRebuild WITH InitialPoints <- Apart

MCvars == <<scene, vars>>

MCInit ==
    \/ scene = "together" /\ Together!Init
    \/ scene = "reviewed" /\ Reviewed!Init
    \/ scene = "quiet" /\ Quiet!Init

TogetherNext ==
    \/ \E r \in Rebuilders : Together!Start(r) \/ Together!rebuildAndSync(r)
    \/ Together!Fail \/ Together!Mine \/ Together!RecordClaim
    \/ Together!Block(bob)

ReviewedNext ==
    \/ \E a \in Approvers : Reviewed!approveTask(a)
    \/ \E r \in CronCallers : Reviewed!Start(r) \/ Reviewed!rebuildAndSync(r)
    \/ Reviewed!Fail \/ Reviewed!Mine \/ Reviewed!RecordClaim
    \/ \E p \in Participants : Reviewed!Block(p)

Ticks == scene = "quiet" /\ UNCHANGED scene /\ \E r \in CronCallers : Quiet!Start(r)
Awaits == scene = "quiet" /\ UNCHANGED scene /\ \E r \in CronCallers : Quiet!rebuildAndSync(r)
Mined == scene = "quiet" /\ UNCHANGED scene /\ Quiet!Mine

MCNext ==
    \/ scene = "together" /\ TogetherNext /\ UNCHANGED scene
    \/ scene = "reviewed" /\ ReviewedNext /\ UNCHANGED scene
    \/ Ticks \/ Awaits \/ Mined
    \/ scene = "quiet" /\ UNCHANGED scene
         /\ (Quiet!Fail \/ Quiet!RecordClaim \/ \E p \in Participants : Quiet!Block(p))

(* The fairness of MerkleRebuild, in the scene whose liveness is checked. *)
MCSpec == MCInit /\ [][MCNext]_MCvars /\ WF_MCvars(Ticks) /\ WF_MCvars(Awaits) /\ WF_MCvars(Mined)

(* As the module has it, without scenes. *)
PlainSpec == scene = "plain" /\ Init /\ [][Next /\ UNCHANGED scene]_MCvars

(* Without reviewers, rebuilds that fail or crash anywhere are made good   *)
(* by later ticks of the cron (MerkleRebuild's RebuildRecovers).           *)
QuietRebuildRecovers == scene = "quiet" => RebuildRecovers
=============================================================================
