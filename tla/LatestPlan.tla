----------------------------- MODULE LatestPlan -----------------------------
(***************************************************************************)
(* What a dialog that previews a change promises: the preview it holds was *)
(* made for the question asked last, or for none, whatever the order in    *)
(* which answers come.                                                     *)
(***************************************************************************)
CONSTANTS
    Questions,    \* what may be asked, told apart by when it was
    NoPlan

VARIABLES
    question,     \* the question of this moment
    plan          \* the preview the dialog holds

Init == question \in Questions /\ plan = NoPlan

\* Another question; the dialog may keep the preview it has until the answer.
Ask ==
    /\ question' \in Questions
    /\ plan' \in {plan, NoPlan}

\* The answer to the question of this moment, and to no other.
Show ==
    /\ plan' = question
    /\ UNCHANGED question

Next == Ask \/ Show

Spec == Init /\ [][Next]_<<question, plan>>
=============================================================================
