--------------------------- MODULE MCPublication ---------------------------
(***************************************************************************)
(* Two documents.  The guide has two source texts with a translation each; *)
(* the menu translates alike whatever its source text, so that a batch may *)
(* change less than it has files, or nothing at all.                       *)
(***************************************************************************)
EXTENDS Publication

CONSTANTS guide, menu, t1, t2, c1, c2

MCDoc == {guide, menu}
MCText == {t1, t2}
MCFirst == [d \in MCDoc |-> t1]
MCSourceText == {MCFirst, [MCFirst EXCEPT ![menu] = t2], [d \in MCDoc |-> t2]}
MCContent == {c1, c2}
MCDraft == [d \in MCDoc |-> [t \in MCText |->
               IF d = guide /\ t = t2 THEN c2 ELSE c1]]

Bound(moves, choices, faults) ==
    [moves |-> moves, choices |-> choices, faults |-> faults]

\* Three events of at most three kinds.  A commit that was merged, an answer
\* that was lost and a source that moved are each in some of them; a choice
\* and a move are a merge that comes into the source.
MCBounds == {Bound(2, 1, 0), Bound(2, 0, 1), Bound(1, 1, 1), Bound(1, 2, 0),
             Bound(0, 2, 1), Bound(0, 1, 2), Bound(1, 0, 2)}

\* Two decisions of people, and nothing else happens.
MCTwoChoices == {Bound(0, 2, 0)}
=============================================================================
