------------------------------ MODULE RepoLock ------------------------------
(***************************************************************************)
(* Exclusion of fani processes on one repository directory.                *)
(*                                                                         *)
(* Every command that writes (sync, adopt, discard, doctor) first takes a  *)
(* kernel flock on the repository directory (RepositoryGuard), then opens  *)
(* and if necessary migrates its SQLite database, and then, doctor         *)
(* excepted, records itself in that database's lease row (RepoLock).  The  *)
(* flock owns the exclusion; the row is recovery metadata: it expires, its *)
(* owner may be found dead, and it may outlive its owner.                  *)
(*                                                                         *)
(* Sources: src/src/adapters/lock.rs, src/src/adapters/db/leases.rs,       *)
(* process_owner_is_dead in src/src/adapters/db.rs, and the callers in     *)
(* src/src/adapters/native.rs.                                             *)
(***************************************************************************)
EXTENDS Integers

CONSTANTS
    Proc,    \* fani processes; each one works on the repository once
    Db,      \* database files a process may be configured with
    Nobody   \* no process

ASSUME NobodyAssumption == Nobody \notin Proc

VARIABLES
    pc,         \* where each process is in its use of the repository
    database,   \* the database each process opened
    flock,      \* the process holding the flock on the directory inode
    lease,      \* the "repository" row of each database
    held,       \* fencing token of the lease each process believes it holds
    abandoned,  \* history: processes that died, or failed to release their row
    tampered    \* history: databases whose row was removed from outside

vars == <<pc, database, flock, lease, held, abandoned, tampered>>

(***************************************************************************)
(* A process is "lingering" when it is done with this repository but still *)
(* runs (a sync goes on with the next repository), "unreaped" when it was  *)
(* killed and its parent has not waited for it, so that /proc still shows  *)
(* it, and "gone" when /proc no longer does.                               *)
(***************************************************************************)
Working   == {"guarded", "opened", "leased", "unreleased", "released"}
Lingering == {"busy", "refused", "lingering"}
PC        == {"new", "unreaped", "gone"} \cup Working \cup Lingering

Row     == [owner : Proc \cup {Nobody}, token : Nat, expired : BOOLEAN]
NoLease == [owner |-> Nobody, token |-> 0, expired |-> FALSE]

Alive(p) == pc[p] \in Working \cup Lingering

\* Owners for which /proc/<pid>/stat no longer shows the recorded start time.
DeadOwners == {p \in Proc : pc[p] = "gone"}

OwnsRow(p, d) == lease[d].owner = p /\ lease[d].token = held[p]

Init ==
    /\ pc        = [p \in Proc |-> "new"]
    /\ database  \in [Proc -> Db]
    /\ flock     = Nobody
    /\ lease     = [d \in Db |-> NoLease]
    /\ held      = [p \in Proc |-> 0]
    /\ abandoned = {}
    /\ tampered  = {}

-----------------------------------------------------------------------------
(* Acquisition.                                                            *)

\* Mutated form: exclusion left to the lease row.
FlockFreeIgnored == TRUE

\* Flock::lock with LockExclusiveNonblock succeeds.
FlockFree == flock = Nobody

AcquireGuard(p) ==
    /\ pc[p] = "new"
    /\ FlockFree
    /\ flock' = p
    /\ pc' = [pc EXCEPT ![p] = "guarded"]
    /\ UNCHANGED <<database, lease, held, abandoned, tampered>>

GuardBusy(p) ==
    /\ pc[p] = "new"
    /\ ~FlockFree
    /\ pc' = [pc EXCEPT ![p] = "busy"]
    /\ UNCHANGED <<database, flock, lease, held, abandoned, tampered>>

\* Database::open, migration included, runs under the guard.
OpenDatabase(p) ==
    /\ pc[p] = "guarded"
    /\ pc' = [pc EXCEPT ![p] = "opened"]
    /\ UNCHANGED <<database, flock, lease, held, abandoned, tampered>>

\* The guard is dropped without a lease: the database does not open, or
\* doctor has looked at it.
DropGuard(p) ==
    /\ pc[p] \in {"guarded", "opened"}
    /\ flock' = Nobody
    /\ pc' = [pc EXCEPT ![p] = "lingering"]
    /\ UNCHANGED <<database, lease, held, abandoned, tampered>>

\* Mutated form: the owner's death is not looked up.
LeaseAdmitsWithoutDeadCheck(p, d) ==
    \/ lease[d].owner \in {Nobody, p}
    \/ lease[d].expired

\* The row does not stand in the way of p.
LeaseAdmits(p, d) ==
    \/ lease[d].owner \in {Nobody, p}
    \/ lease[d].expired
    \/ lease[d].owner \in DeadOwners

\* Mutated form: a takeover counts down, and wraps below the first token.
NextTokenCountsDown(p, d) ==
    CASE lease[d].owner = Nobody -> 1
      [] lease[d].owner = p      -> lease[d].token
      [] OTHER                   -> lease[d].token - 1

\* The fencing token: kept by its owner, raised by a takeover.
NextToken(p, d) ==
    CASE lease[d].owner = Nobody -> 1
      [] lease[d].owner = p      -> lease[d].token
      [] OTHER                   -> lease[d].token + 1

AcquireLease(p) ==
    LET d == database[p] IN
    /\ pc[p] = "opened"
    /\ LeaseAdmits(p, d)
    /\ lease' = [lease EXCEPT ![d] = [owner   |-> p,
                                      token   |-> NextToken(p, d),
                                      expired |-> FALSE]]
    /\ held' = [held EXCEPT ![p] = NextToken(p, d)]
    /\ pc' = [pc EXCEPT ![p] = "leased"]
    /\ UNCHANGED <<database, flock, abandoned, tampered>>

\* acquire_lease returns None: the error drops the guard's flock.
LeaseRefused(p) ==
    /\ pc[p] = "opened"
    /\ ~LeaseAdmits(p, database[p])
    /\ flock' = Nobody
    /\ pc' = [pc EXCEPT ![p] = "refused"]
    /\ UNCHANGED <<database, lease, held, abandoned, tampered>>

-----------------------------------------------------------------------------
(* Release: the row goes first, the flock after it.                        *)

\* Mutated form: the flock is dropped before the row is deleted.
ReleaseLeaseAfterFlock(p) ==
    LET d == database[p] IN
    /\ pc[p] \in {"leased", "released"}
    /\ OwnsRow(p, d)
    /\ \/ /\ pc[p] = "leased"
          /\ flock' = Nobody
          /\ pc' = [pc EXCEPT ![p] = "released"]
          /\ UNCHANGED <<lease, held>>
       \/ /\ pc[p] = "released"
          /\ lease' = [lease EXCEPT ![d] = NoLease]
          /\ held' = [held EXCEPT ![p] = 0]
          /\ UNCHANGED <<pc, flock>>
    /\ UNCHANGED <<database, abandoned, tampered>>

ReleaseLease(p) ==
    LET d == database[p] IN
    /\ pc[p] = "leased"
    /\ OwnsRow(p, d)
    /\ lease' = [lease EXCEPT ![d] = NoLease]
    /\ held' = [held EXCEPT ![p] = 0]
    /\ pc' = [pc EXCEPT ![p] = "released"]
    /\ UNCHANGED <<database, flock, abandoned, tampered>>

ReleaseFlock(p) ==
    /\ pc[p] = "released"
    /\ flock' = Nobody
    /\ pc' = [pc EXCEPT ![p] = "lingering"]
    /\ UNCHANGED <<database, lease, held, abandoned, tampered>>

\* release returns an error: the row is not ours any more, or SQLite failed.
\* The lock value, and with it the flock, is kept until it is dropped.
ReleaseFails(p) ==
    /\ pc[p] = "leased"
    /\ pc' = [pc EXCEPT ![p] = "unreleased"]
    /\ abandoned' = abandoned \cup {p}
    /\ UNCHANGED <<database, flock, lease, held, tampered>>

\* Mutated form: a failed release leaks the lock value.
DropLockKeepsFlock(p) ==
    /\ pc[p] = "unreleased"
    /\ pc' = [pc EXCEPT ![p] = "lingering"]
    /\ UNCHANGED <<database, flock, lease, held, abandoned, tampered>>

\* Drop tries the release once more, ignores its outcome and lets go of the
\* flock with the fields.
DropLock(p) ==
    LET d == database[p] IN
    /\ pc[p] = "unreleased"
    /\ \/ OwnsRow(p, d) /\ lease' = [lease EXCEPT ![d] = NoLease]
       \/ UNCHANGED lease
    /\ flock' = Nobody
    /\ held' = [held EXCEPT ![p] = 0]
    /\ pc' = [pc EXCEPT ![p] = "lingering"]
    /\ UNCHANGED <<database, abandoned, tampered>>

-----------------------------------------------------------------------------
(* The world around the processes.                                         *)

\* A process that is done with the repository exits and is waited for.
Exit(p) ==
    /\ pc[p] \in Lingering
    /\ pc' = [pc EXCEPT ![p] = "gone"]
    /\ UNCHANGED <<database, flock, lease, held, abandoned, tampered>>

\* A process dies anywhere; the kernel closes its files and so its flock.
Crash(p) ==
    /\ Alive(p)
    /\ flock' = IF flock = p THEN Nobody ELSE flock
    /\ abandoned' = abandoned \cup {p}
    /\ pc' = [pc EXCEPT ![p] = "unreaped"]
    /\ UNCHANGED <<database, lease, held, tampered>>

Reap(p) ==
    /\ pc[p] = "unreaped"
    /\ pc' = [pc EXCEPT ![p] = "gone"]
    /\ UNCHANGED <<database, flock, lease, held, abandoned, tampered>>

\* Time passes the row's expires_at, also while its owner is paused.
Expire(d) ==
    /\ lease[d].owner # Nobody
    /\ ~lease[d].expired
    /\ lease' = [lease EXCEPT ![d].expired = TRUE]
    /\ UNCHANGED <<pc, database, flock, held, abandoned, tampered>>

\* Somebody deletes the row, as a restored backup or a repair would.
ResetRow(d) ==
    /\ lease[d].owner # Nobody
    /\ lease' = [lease EXCEPT ![d] = NoLease]
    /\ tampered' = tampered \cup {d}
    /\ UNCHANGED <<pc, database, flock, held, abandoned>>

ProcessStep(p) ==
    \/ AcquireGuard(p) \/ GuardBusy(p) \/ OpenDatabase(p) \/ DropGuard(p)
    \/ AcquireLease(p) \/ LeaseRefused(p)
    \/ ReleaseLease(p) \/ ReleaseFlock(p) \/ ReleaseFails(p) \/ DropLock(p)

Next ==
    \/ \E p \in Proc : ProcessStep(p)
    \/ \E p \in Proc : Exit(p) \/ Crash(p) \/ Reap(p)
    \/ \E d \in Db : Expire(d) \/ ResetRow(d)

\* A process that runs keeps running: nothing it does under the flock waits
\* for another fani process.  A process stopped for good is not covered.
Fairness == \A p \in Proc : WF_vars(ProcessStep(p))

Spec == Init /\ [][Next]_vars
FairSpec == Spec /\ Fairness

-----------------------------------------------------------------------------
(* Properties.                                                             *)

TypeOK ==
    /\ pc        \in [Proc -> PC]
    /\ database  \in [Proc -> Db]
    /\ flock     \in Proc \cup {Nobody}
    /\ lease     \in [Db -> Row]
    /\ held      \in [Proc -> Nat]
    /\ abandoned \subseteq Proc
    /\ tampered  \subseteq Db

\* At most one process is between taking the guard and dropping its lock:
\* opening and migrating the database, running the command and releasing are
\* all exclusive, whichever database each process is configured with and
\* whatever its row says (expired, removed, naming a dead owner).
MutualExclusion ==
    \A p, q \in Proc : pc[p] \in Working /\ pc[q] \in Working => p = q

\* The row of a running command is never taken over: it still carries its
\* owner and its fencing token when the command comes to release it, even if
\* it expired meanwhile, unless somebody removed it from outside.
OwnRowSurvives ==
    \A p \in Proc :
        pc[p] = "leased" =>
            OwnsRow(p, database[p]) \/ database[p] \in tampered

\* A row whose owner does not hold the flock belongs to a process that died
\* or failed its release; a command that ended in order leaves none behind.
RowsAreHeldOrAbandoned ==
    \A d \in Db :
        \/ lease[d].owner = Nobody
        \/ lease[d].owner = flock
        \/ lease[d].owner \in abandoned

\* Once the flock is won, the lease is refused (LOCK-BUSY) only because of an
\* unexpired row left by a process that died unreaped or failed its release
\* and still runs; never because of an owner that is gone.
RefusedOnlyForVisibleRemains ==
    [][\A p \in Proc :
         (pc[p] # "refused" /\ pc'[p] = "refused") =>
             LET row == lease[database[p]] IN
             /\ row.owner \in abandoned
             /\ row.owner \notin DeadOwners
             /\ ~row.expired]_vars

\* What processes are promised who ask for the repository: those that find the
\* flock taken are sent away because of a process that works, never because of
\* one that died, failed its release or left a row behind.
Door == INSTANCE Turns WITH waiting <- {p \in Proc : pc[p] = "new"},
                            inside  <- {p \in Proc : pc[p] \in Working}

TurnsSpec == Door!Spec

\* The flock never stays with one process: a failed release, a refused lease
\* or a crash frees it too, so a later command gets its turn.
FlockIsFreedAgain ==
    \A p \in Proc : (flock = p) ~> (flock # p)
=============================================================================
