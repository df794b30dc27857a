-------------------------------- MODULE MCDesk --------------------------------
(* Values for the constants of Desk in the model-checking runs.            *)
EXTENDS Desk

\* The sheets: two containers and two addresses.
CONSTANTS web, db, ip1, ip2

\* The map.

CONSTANTS a, h, w1, w2, w3, w4,   \* a container, one in host mode, four replicas
          n1, n2, n3, pair,       \* networks; pair is made from the dashboard
          worker, home, spot

Workers == {w1, w2, w3, w4}
Families == [c \in Cts |-> IF c \in Workers THEN worker ELSE NoFamily]

\* The replicas are on n1 and the first is stopped; nothing is on the others.
Compose == {[there |-> Cts, up |-> Cts \ {w1}, nets |-> {n1, n2, n3},
             on |-> [c \in Cts |-> IF c \in Workers THEN {n1} ELSE {}]]}

\* The first replica was dragged on an earlier visit.
W1Moved == {[id \in {<<"ct", w1>>} |-> spot]}
===============================================================================
