----------------------------- MODULE MCPipeline -----------------------------
(***************************************************************************)
(* Two units of one document; the second revision changes one of them.     *)
(* Three texts pass for the first: one that people adopt, one the reviewer *)
(* makes of it, and one that a translator answers.                         *)
(***************************************************************************)
EXTENDS Pipeline

CONSTANTS t1, t2, t3, loose, s1, s2

MCDocOf == [u \in 1..2 |-> 1]
MCSourceText == << <<s1, s1>>, <<s1, s2>> >>
MCValid == << {t1, t2, t3}, {t1} >>
MCSeparated == [x \in {t1, t2, t3, loose} |-> IF x = loose THEN t1 ELSE NoText]

Bound(moves, edits, faults) ==
    [moves |-> moves, edits |-> edits, faults |-> faults]

\* Two events of any two kinds, two faults, or two adoptions and a fault; the
\* proofreader alone changes no text, and gets less.
MCBudgets ==
    [q \in SUBSET {"revision", "proofread"} |->
        IF q = {"proofread"} THEN {Bound(0, 1, 1)}
                             ELSE {Bound(1, 1, 0), Bound(1, 0, 1),
                                   Bound(0, 2, 1), Bound(0, 0, 2)}]
=============================================================================
