--------------------------- MODULE MCBanLifecycle ---------------------------
(* Values for the constants of BanLifecycle in the model-checking runs.    *)
EXTENDS BanLifecycle, TLC

CONSTANTS a4, a6    \* an IPv4 and an IPv6 address

BothFamilies == (a4 :> "v4") @@ (a6 :> "v6")

\* Two events reach the threshold; one of them is worth one point.
EventPoints == [drop |-> 2, honeypot |-> 1, credential |-> 1]
OneSetting == {[enabled |-> TRUE, threshold |-> 2, dur |-> 1]}
TwoSettings == OneSetting \cup {[enabled |-> TRUE, threshold |-> 1, dur |-> 0]}
NoWhitelist == {{}}
AnyWhitelist == {{}, {a4}}

EmptyTable == {NoRow}
AnyTable == {NoRow, Forever, TempRow(0), TempRow(1)}
TempTable == {NoRow, TempRow(1)}

Budgets(db, fw, crash, flush, wipe) ==
    [u \in Upsets |-> CASE u = "db" -> db [] u = "fw" -> fw [] u = "crash" -> crash
                        [] u = "flush" -> flush [] u = "wipe" -> wipe]
NoUpsets   == Budgets(0, 0, 0, 0, 0)
DbFwCrash  == Budgets(1, 1, 1, 0, 0)
FaultFlush == Budgets(0, 1, 1, 2, 1)
=============================================================================
