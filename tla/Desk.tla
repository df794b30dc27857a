--------------------------------- MODULE Desk ---------------------------------
(***************************************************************************)
(* The containers map with its gestures, and the sheets and dialogs of the *)
(* dashboard.  What they share of the server is modelled in each as far as *)
(* it matters there, so that a behaviour works with one of them.           *)
(***************************************************************************)
EXTENDS NetworkMap, Sheets

VARIABLE hands    \* what the operator works with
desk_vars == <<hands, networkmap_vars, sheets_vars>>

\* What is not used starts in one way only.
Unused ==
    /\ hands # "map" => ~readOnly /\ server = (CHOOSE s \in Servers : TRUE) /\ saved = CHOOSE s \in Remembered : TRUE
    /\ hands # "sheets" => there = Containers /\ port = CHOOSE p \in [Containers -> Ports] : TRUE

Init == hands \in {"map", "sheets"} /\ MapInit /\ SheetsInit /\ Unused
Next ==
    \/ hands = "map" /\ MapNext /\ UNCHANGED <<hands, sheets_vars>>
    \/ hands = "sheets" /\ SheetsNext /\ UNCHANGED <<hands, networkmap_vars>>
Spec == Init /\ [][Next]_desk_vars
===============================================================================
