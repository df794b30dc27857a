----------------------------- MODULE MCPortRules -----------------------------
(* Values for the constants of PortRules in the model-checking runs.       *)
EXTENDS PortRules, TLC

CONSTANTS db, ssh, web    \* rule sets: an unprotected port, SSH, SSH otherwise

\* One protected port; db leaves it alone, ssh and web restrict it differently.
OnePort == {22}
PortCover == [rs \in RuleSets |-> [p \in Ports |-> IF rs \in {ssh, web} THEN {rs} ELSE {}]]

Budgets(d, fw, crash, flush, wipe) ==
    [u \in Upsets |-> CASE u = "db" -> d [] u = "fw" -> fw [] u = "crash" -> crash
                        [] u = "flush" -> flush [] u = "wipe" -> wipe]
OneEach    == Budgets(1, 1, 1, 1, 1)
CrashFlush == Budgets(0, 0, 1, 1, 0)
FlushOnly  == Budgets(0, 0, 0, 1, 0)
OneFwFault == Budgets(0, 1, 0, 0, 0)
WipeOnly   == Budgets(0, 0, 0, 0, 1)
==============================================================================
