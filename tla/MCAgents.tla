------------------------------ MODULE MCAgents ------------------------------
(***************************************************************************)
(* At most two tasks, two workers and two attempts.                        *)
(***************************************************************************)
EXTENDS Agents

Bound(tasks, retries, forks, kills, late) ==
    [tasks |-> tasks, retries |-> retries,
     forks |-> forks, kills |-> kills, late |-> late]

\* One task: everything a command can leave behind, and the loss of a
\* supervisor, over two attempts that may both be late.  Two tasks: with all
\* of that but without a retry, and with retries but one trouble at a time.
MCBounds == {Bound(1, 1, 2, 1, 2), Bound(2, 0, 1, 1, 1),
             Bound(2, 1, 1, 0, 1), Bound(2, 1, 0, 1, 0)}
=============================================================================
