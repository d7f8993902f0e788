----------------------------- MODULE TargetFile -----------------------------
(***************************************************************************)
(* What commands promise to the people who share a translated file with    *)
(* them.  A command writes the file only to carry out an intent that is on *)
(* record: to replace one text, which the file holds at that moment, by    *)
(* another.  There is never more than one intent on record, so a command   *)
(* that finds an intent of an interrupted one cannot pick the wrong one;   *)
(* and the write does not take it off the record, so that a death between  *)
(* the write and what follows leaves it to be found.  People write what    *)
(* they like when they like: every change they make is counted, so that    *)
(* no write of a command can pass for one of theirs.                       *)
(***************************************************************************)
EXTENDS Naturals

CONSTANTS
    Content,   \* texts that are written
    Hash       \* what is known of a file: its text, or that it is not there

VARIABLES
    file,      \* what the file holds
    edits,     \* changes that people have made
    intents    \* intents on record

Intent == [text : Content, from : Hash]

Init == file \in Hash /\ edits = 0 /\ intents = {}

\* A newer intent takes the place of an older one.
Intend ==
    /\ intents' \in {{i} : i \in Intent}
    /\ UNCHANGED <<file, edits>>

\* Carried out, given up or out of date.
Close ==
    /\ intents' = {}
    /\ UNCHANGED <<file, edits>>

Write ==
    /\ \E i \in intents : file = i.from /\ file' = i.text
    /\ UNCHANGED <<edits, intents>>

People ==
    /\ file' \in Hash
    /\ edits' = edits + 1
    /\ UNCHANGED intents

Next == Intend \/ Close \/ Write \/ People

Spec == Init /\ [][Next]_<<file, edits, intents>>
=============================================================================
