------------------------------- MODULE MCConsole -------------------------------
(* Values for the constants of Console in the model-checking runs.         *)
EXTENDS Console

Ranged(s, r) == [Plain(s) EXCEPT !.range = r]
Filtered(f) == [Plain("connections") EXCEPT !.filter = f]
OfEngine(e) == [Plain("containers") EXCEPT !.engine = e, !.view = "table"]

\* A screen of every kind: ranged, filtered, drawn from several answers,
\* followed by a timer, with parameters of its own.
EveryKind == {Ranged("overview", "7d"), Plain("attackers"), Filtered("ip"), OfEngine("incus"),
              Plain("software"), Plain("containers")}
Ranged7d == {Ranged("overview", "7d")}
FirstViews == {Plain("containers"), Ranged("overview", "7d")}
LinkedViews == {Plain("overview"), OfEngine("incus")}

\* What the operator does in each block of the settings.
AllBlocks == {"assistants", "engines", "ban", "update"}
Presses == [b \in AllBlocks |-> CASE b = "assistants" -> 3 [] b = "update" -> 2 [] OTHER -> 3]
=================================================================================
