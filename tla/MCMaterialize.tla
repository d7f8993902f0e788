--------------------------- MODULE MCMaterialize ---------------------------
(***************************************************************************)
(* Two source texts with a translation each, and one more text of a        *)
(* person's own making.                                                    *)
(***************************************************************************)
EXTENDS Materialize, TLC

CONSTANTS s1, s2, c1, c2, own

MCSource == {s1, s2}
MCContent == {c1, c2, own}
MCTranslation == [s \in MCSource |-> IF s = s1 THEN c1 ELSE c2]

\* The two sources may change places, each with its translation.
Alike == {p \in Permutations(MCSource \cup MCContent) :
            \A s \in MCSource : /\ p[s] \in MCSource
                                /\ p[MCTranslation[s]] = MCTranslation[p[s]]}
=============================================================================
