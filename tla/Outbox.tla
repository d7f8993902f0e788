------------------------------- MODULE Outbox -------------------------------
(***************************************************************************)
(* The rows of one path in the durable table materialization_outbox, and   *)
(* what the transactions of the database adapter do to them.               *)
(*                                                                         *)
(* A row is found by its dedupe key.  When the row of a key is done, the   *)
(* next effect of the same base gets a key of its own, base:after:id, so   *)
(* that the rows of one base form a chain of which only the last can be    *)
(* live.  The table maps each base to that last row.                       *)
(*                                                                         *)
(* A row's owner names the process that claimed it: the worker at hand, an *)
(* earlier process that /proc still shows (it goes on elsewhere, or nobody *)
(* waited for it), or one that is gone.                                    *)
(*                                                                         *)
(* Sources: src/src/adapters/db/effects.rs and                             *)
(* supersede_materializations_in_transaction in src/src/adapters/db.rs.    *)
(***************************************************************************)
CONSTANTS
    Base,    \* effects: what is to be done with which content
    Hash,    \* what an observed target hash may be
    NoHash   \* NULL

Owner == {"nobody", "worker", "visible", "gone"}

Row == [state   : {"none", "pending", "processing", "done"},
        owner   : Owner,
        expired : BOOLEAN,   \* lease_expires_at has passed
        delayed : BOOLEAN,   \* available_at lies ahead
        expects : Hash]      \* expected_hash in the payload of a discard

Unowned(state, delayed, expects) ==
    [state |-> state, owner |-> "nobody", expired |-> FALSE,
     delayed |-> delayed, expects |-> expects]

NoRow    == Unowned("none", FALSE, NoHash)
Finished == Unowned("done", FALSE, NoHash)

Live(rows) == {b \in Base : rows[b].state \in {"pending", "processing"}}

\* Some row of B is processed by an owner not proven dead, whatever its lease.
OwnedByLive(rows, B) ==
    \E b \in B : rows[b].state = "processing" /\ rows[b].owner # "gone"

Cancel(rows, B) == [b \in Base |-> IF b \in B THEN Finished ELSE rows[b]]

\* Mutated form: older effects on the path are left in the table.
ScheduleWithoutSuperseding(rows, key, expects) ==
    [rows EXCEPT ![key] = IF key \in Live(rows)
                          THEN @
                          ELSE Unowned("pending", FALSE, expects)]

\* schedule_materialization: supersede whatever else is live on the path;
\* a live row of this base keeps its payload, its owner and its delay.
Schedule(rows, key, expects) ==
    [Cancel(rows, Live(rows) \ {key})
        EXCEPT ![key] = IF key \in Live(rows)
                        THEN @
                        ELSE Unowned("pending", FALSE, expects)]

\* The first two updates of claim_outbox_key.
TakenBack(row) ==
    /\ row.state = "processing"
    /\ row.owner = "gone" \/ row.expired

\* Mutated form: a row in processing stays with its owner.
ClaimablePendingOnly(rows, key) ==
    rows[key].state = "pending" /\ ~rows[key].delayed

Claimable(rows, key) ==
    \/ rows[key].state = "pending" /\ ~rows[key].delayed
    \/ TakenBack(rows[key])

Claim(rows, key) ==
    [rows EXCEPT ![key].state = "processing", ![key].owner = "worker",
                 ![key].expired = FALSE]

\* retry_outbox: available again after a second.
Retry(rows, key) ==
    [rows EXCEPT ![key] = Unowned("pending", TRUE, @.expects)]

Complete(rows, key) == [rows EXCEPT ![key] = Finished]

\* The worker's process has left this repository: it died, or it goes on
\* with other work.
Left(rows) ==
    [b \in Base |-> IF rows[b].owner = "worker"
                    THEN [rows[b] EXCEPT !.owner = "visible"]
                    ELSE rows[b]]
=============================================================================
