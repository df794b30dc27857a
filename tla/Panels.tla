-------------------------------- MODULE Panels --------------------------------
(***************************************************************************)
(* The screens that draw what the server says, side by side: the ports     *)
(* screen, the containers screen and its map, the overview's figures, the  *)
(* Software screen and the services behind the Honeypots screen.  They     *)
(* share no state and one is shown at a time: a behaviour works in one of  *)
(* them.                                                                   *)
(***************************************************************************)
EXTENDS Access, Bay, Figures, Inventory, MapView, Services

VARIABLE screen
panels_vars == <<screen, access_vars, bay_vars, figures_vars, inventory_vars, mapview_vars, services_vars>>
Screens == {"ports", "containers", "overview", "software", "map", "services"}

\* A screen that is not used starts in one way only.
Idle ==
    /\ screen # "ports" => server.rules = <<>> /\ server.addrs = Addrs
    /\ screen # "containers" => fleet.up = (CHOOSE up \in FirstUps : TRUE) /\ fleet.lost = {} /\ engine = CHOOSE e \in Engines : TRUE
    /\ screen # "software" => world.at = [p \in Places |-> [there |-> TRUE, readable |-> TRUE, code |-> (CHOOSE f \in FirstCodes : TRUE)[p]]] /\ osv
    /\ screen # "map" => pos = CHOOSE o \in Origins : TRUE
    /\ screen # "services" => file = CHOOSE f \in FirstFiles : TRUE

Init ==
    /\ screen \in Screens
    /\ AccessInit /\ BayInit /\ FiguresInit /\ InventoryInit /\ MapViewInit /\ ServicesInit /\ Idle
InServices == screen = "services" /\ UNCHANGED <<screen, access_vars, bay_vars, figures_vars, inventory_vars, mapview_vars>>
Next ==
    \/ screen = "ports" /\ AccessNext /\ UNCHANGED <<screen, bay_vars, figures_vars, inventory_vars, mapview_vars, services_vars>>
    \/ screen = "containers" /\ BayNext /\ UNCHANGED <<screen, access_vars, figures_vars, inventory_vars, mapview_vars, services_vars>>
    \/ screen = "overview" /\ FiguresNext /\ UNCHANGED <<screen, access_vars, bay_vars, inventory_vars, mapview_vars, services_vars>>
    \/ screen = "software" /\ InventoryNext /\ UNCHANGED <<screen, access_vars, bay_vars, figures_vars, mapview_vars, services_vars>>
    \/ screen = "map" /\ MapViewNext /\ UNCHANGED <<screen, access_vars, bay_vars, figures_vars, inventory_vars, services_vars>>
    \/ InServices /\ ServicesNext
Spec == Init /\ [][Next]_panels_vars

\* Nothing of the screens is fair.  In the server some goroutine that can go on
\* does: an accept loop with a connection in its hand or a closed listener, a
\* handler whose connection is closed, one that returned.  A Start that gave up
\* is followed by Stop.
FairSpec ==
    /\ Spec
    /\ WF_panels_vars(InServices /\ Onward)
    /\ WF_panels_vars(InServices /\ StopAfterFailure)

-----------------------------------------------------------------------------
(* Each screen holds: its variables have their types, and what it says is  *)
(* true.                                                                   *)

\* The figures of the overview, the heatmap and the chart are true (FiguresTrue).
OverviewTrue == screen = "overview" => FiguresTypeOK /\ FiguresTrue
\* The map reads as it should (MapReads).
MapTrue == screen = "map" => MapViewTypeOK /\ MapReads
===============================================================================
