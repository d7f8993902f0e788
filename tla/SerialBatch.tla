---------------------------- MODULE SerialBatch ----------------------------
(***************************************************************************)
(* What a batch of tasks promises, whatever its concurrency: agents are    *)
(* asked as if one loop went through the tasks in some order, tried each   *)
(* until it has an answer or gives up, and reported it before it took the  *)
(* next one.  No task is taken up twice, none is reported twice, and no    *)
(* attempt is left out or made beyond the last retry.                      *)
(***************************************************************************)
EXTENDS Naturals, Sequences

VARIABLES
    tasks,     \* number of tasks
    retries,   \* retries a task may have
    current,   \* the task and its attempt that is being made
    output     \* the results, in their order

None == <<0, 0>>

Init == /\ tasks \in Nat /\ retries \in Nat
        /\ current = None /\ output = <<>>

Reported == {output[i].task : i \in DOMAIN output}

Begin ==
    /\ current = None
    /\ \E t \in (1..tasks) \ Reported : current' = <<t, 1>>
    /\ UNCHANGED output

Again ==
    /\ current # None /\ current[2] <= retries
    /\ current' = <<current[1], current[2] + 1>>
    /\ UNCHANGED output

Report ==
    /\ current # None
    /\ \E ok \in BOOLEAN :
        output' = Append(output, [task |-> current[1],
                                  attempts |-> current[2], ok |-> ok])
    /\ current' = None

Next == (Begin \/ Again \/ Report) /\ UNCHANGED <<tasks, retries>>

Spec == Init /\ [][Next]_<<tasks, retries, current, output>>
=============================================================================
