-------------------------- MODULE CandidateBranch --------------------------
(***************************************************************************)
(* What publication promises to those who look at the candidate branch of  *)
(* one locale from outside.                                                *)
(*                                                                         *)
(* fani moves the branch only on the strength of a durable intent, which   *)
(* names the commit and the tip that commit is to replace.  It never       *)
(* replaces any other tip, and an intent that is settled or rejected moves *)
(* nothing any more, whatever was interrupted and run again in between.    *)
(* People may move or delete the branch whenever they like.                *)
(***************************************************************************)
CONSTANTS
    Commit,    \* commits fani makes
    Foreign,   \* a commit somebody else put on the branch
    NoCommit   \* the branch does not exist

Tip == Commit \cup {Foreign, NoCommit}

VARIABLES
    remote,    \* the branch at the code host
    intents    \* live durable intents

Intent == [commit : Commit, tip : Tip]

Init == remote = NoCommit /\ intents = {}

\* An intent is made durable before anything else happens on its behalf.
Intend ==
    /\ \E i \in intents' \ intents : i \in Intent /\ intents' = intents \cup {i}
    /\ UNCHANGED remote

\* The branch goes from the tip an intent names to its commit.
Push ==
    /\ \E i \in intents : remote = i.tip /\ remote' = i.commit
    /\ UNCHANGED intents

\* Published, or found unfit.
Close ==
    /\ \E i \in intents : intents' = intents \ {i}
    /\ UNCHANGED remote

People ==
    /\ remote' \in {Foreign, NoCommit}
    /\ UNCHANGED intents

Next == Intend \/ Push \/ Close \/ People

Spec == Init /\ [][Next]_<<remote, intents>>
=============================================================================
