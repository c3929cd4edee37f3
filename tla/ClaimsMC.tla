------------------------------- MODULE ClaimsMC -------------------------------
(***************************************************************************)
(* Instances of AirdropClaim (with Verification) and DeepLink for TLC.     *)
(* The two share no state, so a behaviour follows one of them (scene):     *)
(* their states are added, not multiplied.                                 *)
(***************************************************************************)
EXTENDS AirdropClaim, TLC

CONSTANTS follow, join, job, claim1, claim2, claim3, claim4, gate, sweep, sweep2, lookup,
          tx1, tx2, other,
          ann, ben, tg1, tg2, tok1, tok2, upd1, upd2

MCTasks == {follow, join}
MCJobs == {job}
MCGates == {claim1, claim2, claim3, claim4, gate}
MCClaimants == {claim1, claim2, claim3, claim4}
MCSweeps == {sweep, sweep2}
MCLookups == {lookup}
Cast(callers, rows, moves_, errors_, changes_) ==
    [callers |-> callers, tasks |-> rows, moves |-> moves_, errors |-> errors_,
     changes |-> changes_]
MCCasts == {Cast({claim1, claim2}, {follow}, 1, 1, 0), Cast({claim1, claim2}, {follow}, 0, 1, 1),
            Cast({claim1, lookup}, {follow}, 1, 1, 1),
            Cast({claim1, claim3}, {follow}, 0, 0, 1), Cast({claim1, claim4}, {follow}, 0, 0, 0),
            Cast({sweep, sweep2}, {follow}, 2, 0, 0),
            Cast({gate, sweep}, {follow}, 2, 0, 0), Cast({gate}, MCTasks, 2, 1, 0),
            Cast({gate, job}, {follow}, 1, 0, 0), Cast({job}, {follow}, 2, 1, 1),
            Cast({job, sweep}, {follow}, 1, 0, 0), Cast({sweep}, MCTasks, 1, 1, 0),
            Cast({sweep, lookup}, {follow}, 2, 0, 0), Cast({}, {}, 0, 0, 0)}
MCTxs == {tx1, tx2, other}
MCAirdropTxs == {tx1, tx2}
MCTxOf == (claim1 :> tx1 @@ claim2 :> tx2 @@ claim3 :> other @@ claim4 :> tx1)
MCLinkUsers == {ann, ben}
MCTelegrams == {tg1, tg2}
MCTokens == {tok1, tok2}
MCUpdates == {upd1, upd2}

VARIABLE scene
MCvars == <<scene, claimVars, linkVars>>

MCInit ==
    /\ ClaimInit /\ LinkInit
    /\ scene = IF cast.tasks = {} THEN "links" ELSE "claims"

MCNext ==
    \/ scene = "claims" /\ ClaimNext /\ UNCHANGED <<scene, linkVars>>
    \/ scene = "links" /\ LinkNext /\ UNCHANGED <<scene, claimVars>>

MCSpec == MCInit /\ [][MCNext]_MCvars /\ VerifFairness
=============================================================================
