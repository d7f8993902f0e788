------------------------------- MODULE Turns -------------------------------
(***************************************************************************)
(* What the repository lock promises to the processes that ask for it:     *)
(* they work on the repository one after another, and a process is sent    *)
(* away at the door only while another one is inside.  Neither a death nor *)
(* anything that is left in a database keeps the door shut.                *)
(***************************************************************************)
CONSTANT Proc

VARIABLES
    waiting,   \* processes that have not come yet
    inside     \* processes that work on the repository

Init == waiting = Proc /\ inside = {}

Enter ==
    /\ inside = {}
    /\ \E p \in waiting : inside' = {p} /\ waiting' = waiting \ {p}

\* In order, refused by the database, or by death.
Leave ==
    /\ inside # {} /\ inside' = {}
    /\ UNCHANGED waiting

SentAway ==
    /\ inside # {}
    /\ \E p \in waiting : waiting' = waiting \ {p}
    /\ UNCHANGED inside

Next == Enter \/ Leave \/ SentAway

Spec == Init /\ [][Next]_<<waiting, inside>>
=============================================================================
