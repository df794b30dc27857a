--------------------------- MODULE ConfirmedChange ---------------------------
(***************************************************************************)
(* What the port access rules promise an administrator: a change is in     *)
(* force at once; one that could lock him out is kept only once he has     *)
(* confirmed it, any other is kept as it is; whatever is not kept gives    *)
(* way to what was kept before, also when the program stops.               *)
(***************************************************************************)
CONSTANTS
    Rules,        \* what may be asked for
    First,        \* what an earlier life may have kept
    Restricting   \* pairs <<kept, asked>> of which the second needs a trial

VARIABLES
    kept,      \* survives a restart
    running,   \* in force
    phase      \* "settled"; "put", just put in force; "trial", to be confirmed

Init == kept \in First /\ running = kept /\ phase = "settled"

\* A change, which may come while another is on trial.
Put(r) ==
    /\ phase \in {"settled", "trial"}
    /\ running' = r /\ phase' = "put" /\ UNCHANGED kept

Keep ==
    /\ phase = "put" /\ <<kept, running>> \notin Restricting
    /\ kept' = running /\ phase' = "settled" /\ UNCHANGED running
Try ==
    /\ phase = "put" /\ <<kept, running>> \in Restricting
    /\ phase' = "trial" /\ UNCHANGED <<kept, running>>

Confirm ==
    /\ phase = "trial"
    /\ kept' = running /\ phase' = "settled" /\ UNCHANGED running

\* The trial is over, or the program starts anew.
Return == running' = kept /\ phase' = "settled" /\ UNCHANGED kept

Next == (\E r \in Rules : Put(r)) \/ Keep \/ Try \/ Confirm \/ Return

Spec == Init /\ [][Next]_<<kept, running, phase>>
=============================================================================
