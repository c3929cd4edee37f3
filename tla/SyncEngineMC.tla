---------------------------- MODULE SyncEngineMC ----------------------------
(***************************************************************************)
(* Instances of SyncEngine for TLC.  The cron runs in instance 0; the      *)
(* admin and registration routes run wherever the request lands.           *)
(***************************************************************************)
EXTENDS SyncEngine, TLC

CONSTANTS cron, route, instance0, instance1

MCCalls == {cron, route}
OneCall == {cron}
OneProcess == {instance0}
TwoProcesses == {instance0, instance1}
AllInInstance0 == [c \in Calls |-> instance0]
RouteInInstance1 == (cron :> instance0 @@ route :> instance1)
=============================================================================
