---------------------------- MODULE MCUpdateState ----------------------------
(* Values for the constants of UpdateState in the model-checking runs.     *)
EXTENDS UpdateState, TLC

\* The second of three releases never stays up.
BadSecond == {2}
BadThird  == {3}
DevBase   == {Dev}

Limits(apply, rollback, crash, exec, space, lost, package, trial) ==
    [k \in Outside |->
        CASE k = "apply" -> apply [] k = "rollback" -> rollback [] k = "crash" -> crash
          [] k = "exec" -> exec [] k = "full" -> space [] k = "lost" -> lost
          [] k = "package" -> package [] k = "trial" -> trial]

Everything == Limits(2, 2, 1, 1, 1, 1, 1, 1)
Replacing  == Limits(2, 0, 0, 0, 0, 0, 1, 0)
==============================================================================
