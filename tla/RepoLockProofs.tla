--------------------------- MODULE RepoLockProofs ---------------------------
(***************************************************************************)
(* Proofs about RepoLock, for any set of processes and of databases.       *)
(*                                                                         *)
(* The kernel lock carries the argument: a working process is the one the  *)
(* flock names (WorkersHoldFlock), so two of them are equal, and nobody    *)
(* else can touch the row of a running command (OwnRowSurvives).  A row is *)
(* therefore either the running holder's, in the database it opened, or    *)
(* the remains of a process that did not release it (RowInv).              *)
(***************************************************************************)
EXTENDS RepoLock, TLAPS

WorkersHoldFlock == \A p \in Proc : pc[p] \in Working => flock = p

RowInv ==
    \A d \in Db :
        LET o == lease[d].owner IN
        o \notin abandoned \cup {Nobody} =>
            flock = o /\ pc[o] = "leased" /\ database[o] = d

IInv == TypeOK /\ WorkersHoldFlock /\ RowInv /\ OwnRowSurvives

USE NobodyAssumption

(* Every reachable state has the declared types, through every crash,      *)
(* expiry and outside deletion of a row.                                   *)
THEOREM TypeCorrect == Spec => []TypeOK
<1>1. Init => TypeOK
  BY DEF Init, TypeOK, PC, Row, NoLease
<1>2. TypeOK /\ [Next]_vars => TypeOK'
  <2> SUFFICES ASSUME TypeOK, [Next]_vars PROVE TypeOK'
    OBVIOUS
  <2> USE DEF TypeOK, PC, Working, Lingering, Row, NoLease
  <2>1. ASSUME NEW p \in Proc, AcquireGuard(p) PROVE TypeOK'
    BY <2>1 DEF AcquireGuard
  <2>2. ASSUME NEW p \in Proc, GuardBusy(p) PROVE TypeOK'
    BY <2>2 DEF GuardBusy
  <2>3. ASSUME NEW p \in Proc, OpenDatabase(p) PROVE TypeOK'
    BY <2>3 DEF OpenDatabase
  <2>4. ASSUME NEW p \in Proc, DropGuard(p) PROVE TypeOK'
    BY <2>4 DEF DropGuard
  <2>5. ASSUME NEW p \in Proc, AcquireLease(p) PROVE TypeOK'
    <3>1. NextToken(p, database[p]) \in Nat
      BY DEF NextToken
    <3>2. QED
      BY <2>5, <3>1 DEF AcquireLease
  <2>6. ASSUME NEW p \in Proc, LeaseRefused(p) PROVE TypeOK'
    BY <2>6 DEF LeaseRefused
  <2>7. ASSUME NEW p \in Proc, ReleaseLease(p) PROVE TypeOK'
    BY <2>7 DEF ReleaseLease
  <2>8. ASSUME NEW p \in Proc, ReleaseFlock(p) PROVE TypeOK'
    BY <2>8 DEF ReleaseFlock
  <2>9. ASSUME NEW p \in Proc, ReleaseFails(p) PROVE TypeOK'
    BY <2>9 DEF ReleaseFails
  <2>10. ASSUME NEW p \in Proc, DropLock(p) PROVE TypeOK'
    <3>1. lease' \in [Db -> Row]
      <4>1. NoLease \in Row
        OBVIOUS
      <4>2. CASE lease' = [lease EXCEPT ![database[p]] = NoLease]
        BY <4>1, <4>2
      <4>3. CASE UNCHANGED lease
        BY <4>3
      <4>4. QED
        BY <2>10, <4>2, <4>3 DEF DropLock
    <3>2. QED
      BY <2>10, <3>1 DEF DropLock
  <2>11. ASSUME NEW p \in Proc, Exit(p) PROVE TypeOK'
    BY <2>11 DEF Exit
  <2>12. ASSUME NEW p \in Proc, Crash(p) PROVE TypeOK'
    BY <2>12 DEF Crash
  <2>13. ASSUME NEW p \in Proc, Reap(p) PROVE TypeOK'
    BY <2>13 DEF Reap
  <2>14. ASSUME NEW d \in Db, Expire(d) PROVE TypeOK'
    BY <2>14 DEF Expire
  <2>15. ASSUME NEW d \in Db, ResetRow(d) PROVE TypeOK'
    BY <2>15 DEF ResetRow
  <2>16. CASE UNCHANGED vars
    BY <2>16 DEF vars
  <2>17. QED
    BY <2>1, <2>2, <2>3, <2>4, <2>5, <2>6, <2>7, <2>8, <2>9, <2>10, <2>11,
       <2>12, <2>13, <2>14, <2>15, <2>16 DEF Next, ProcessStep
<1>3. QED
  BY <1>1, <1>2, PTL DEF Spec

(* The three parts of the invariant are kept by every step.                *)
LEMMA Inductive == IInv /\ TypeOK' /\ [Next]_vars => IInv'
<1> SUFFICES ASSUME IInv, TypeOK', [Next]_vars
             PROVE  WorkersHoldFlock' /\ RowInv' /\ OwnRowSurvives'
  BY DEF IInv
<1> DEFINE Goal == WorkersHoldFlock' /\ RowInv' /\ OwnRowSurvives'
<1> USE DEF IInv, TypeOK, Working, Row, WorkersHoldFlock, RowInv,
            OwnRowSurvives, OwnsRow, NoLease
<1>1. ASSUME NEW p \in Proc, AcquireGuard(p) PROVE Goal
  BY <1>1 DEF AcquireGuard, FlockFree
<1>2. ASSUME NEW p \in Proc, GuardBusy(p) PROVE Goal
  BY <1>2 DEF GuardBusy
<1>3. ASSUME NEW p \in Proc, OpenDatabase(p) PROVE Goal
  BY <1>3 DEF OpenDatabase
<1>4. ASSUME NEW p \in Proc, DropGuard(p) PROVE Goal
  BY <1>4 DEF DropGuard
<1>5. ASSUME NEW p \in Proc, AcquireLease(p) PROVE Goal
  <2>1. flock = p /\ pc[p] = "opened"
    BY <1>5 DEF AcquireLease
  <2>2. WorkersHoldFlock'
    BY <1>5, <2>1 DEF AcquireLease
  <2>3. RowInv'
    BY <1>5, <2>1 DEF AcquireLease
  <2>4. OwnRowSurvives'
    BY <1>5, <2>1 DEF AcquireLease
  <2>5. QED
    BY <2>2, <2>3, <2>4
<1>6. ASSUME NEW p \in Proc, LeaseRefused(p) PROVE Goal
  BY <1>6 DEF LeaseRefused
<1>7. ASSUME NEW p \in Proc, ReleaseLease(p) PROVE Goal
  BY <1>7 DEF ReleaseLease
<1>8. ASSUME NEW p \in Proc, ReleaseFlock(p) PROVE Goal
  BY <1>8 DEF ReleaseFlock
<1>9. ASSUME NEW p \in Proc, ReleaseFails(p) PROVE Goal
  BY <1>9 DEF ReleaseFails
<1>10. ASSUME NEW p \in Proc, DropLock(p) PROVE Goal
  BY <1>10 DEF DropLock
<1>11. ASSUME NEW p \in Proc, Exit(p) PROVE Goal
  BY <1>11 DEF Exit, Lingering
<1>12. ASSUME NEW p \in Proc, Crash(p) PROVE Goal
  BY <1>12 DEF Crash
<1>13. ASSUME NEW p \in Proc, Reap(p) PROVE Goal
  BY <1>13 DEF Reap
<1>14. ASSUME NEW d \in Db, Expire(d) PROVE Goal
  BY <1>14 DEF Expire
<1>15. ASSUME NEW d \in Db, ResetRow(d) PROVE Goal
  BY <1>15 DEF ResetRow
<1>16. CASE UNCHANGED vars
  BY <1>16 DEF vars
<1>17. QED
  BY <1>1, <1>2, <1>3, <1>4, <1>5, <1>6, <1>7, <1>8, <1>9, <1>10, <1>11,
     <1>12, <1>13, <1>14, <1>15, <1>16 DEF Next, ProcessStep

(* The inductive invariant holds in every reachable state.                 *)
THEOREM Invariant == Spec => []IInv
<1>1. Init /\ TypeOK => IInv
  BY DEF Init, IInv, WorkersHoldFlock, RowInv, OwnRowSurvives, Working, NoLease
<1>2. QED
  BY <1>1, TypeCorrect, Inductive, PTL DEF Spec

(* Two commands never work on one repository at the same time, whatever    *)
(* databases they are configured with and whatever the lease rows say.     *)
THEOREM Exclusion == Spec => []MutualExclusion
<1>1. IInv => MutualExclusion
  BY DEF IInv, WorkersHoldFlock, MutualExclusion
<1>2. QED
  BY <1>1, Invariant, PTL

(* A running command keeps its own lease row, expired or not, until it     *)
(* releases it or somebody deletes it from outside.                        *)
THEOREM HolderKeepsRow == Spec => []OwnRowSurvives
<1>1. IInv => OwnRowSurvives
  BY DEF IInv
<1>2. QED
  BY <1>1, Invariant, PTL

(* Commands that end in order leave no lease row behind.                   *)
THEOREM NoStrayRows == Spec => []RowsAreHeldOrAbandoned
<1>1. IInv => RowsAreHeldOrAbandoned
  BY DEF IInv, RowInv, RowsAreHeldOrAbandoned
<1>2. QED
  BY <1>1, Invariant, PTL

(* A process that won the flock is refused the lease only because of an    *)
(* unexpired row of a process that did not release it and is still seen.   *)
THEOREM RefusalIsJustified == Spec => RefusedOnlyForVisibleRemains
<1> DEFINE A == \A p \in Proc :
                  (pc[p] # "refused" /\ pc'[p] = "refused") =>
                      LET row == lease[database[p]] IN
                      /\ row.owner \in abandoned
                      /\ row.owner \notin DeadOwners
                      /\ ~row.expired
<1>1. IInv /\ [Next]_vars => [A]_vars
  <2> SUFFICES ASSUME IInv, Next, NEW p \in Proc,
                      pc[p] # "refused", pc'[p] = "refused"
               PROVE  LET row == lease[database[p]] IN
                      /\ row.owner \in abandoned
                      /\ row.owner \notin DeadOwners
                      /\ ~row.expired
    OBVIOUS
  <2>1. LeaseRefused(p)
    BY DEF Next, ProcessStep, AcquireGuard, GuardBusy, OpenDatabase, DropGuard,
           AcquireLease, LeaseRefused, ReleaseLease, ReleaseFlock,
           ReleaseFails, DropLock, Exit, Crash, Reap, Expire, ResetRow,
           IInv, TypeOK
  <2>2. flock = p /\ pc[p] = "opened" /\ database[p] \in Db
    BY <2>1 DEF LeaseRefused, IInv, WorkersHoldFlock, Working, TypeOK
  <2>3. QED
    BY <2>1, <2>2 DEF LeaseRefused, LeaseAdmits, IInv, RowInv
<1>2. QED
  BY <1>1, Invariant, PTL DEF Spec, RefusedOnlyForVisibleRemains

-----------------------------------------------------------------------------
(* The refinement of Turns.                                                *)

(* The flock names nobody, or a process that works: neither a death nor a  *)
(* failed release leaves it behind.                                        *)
HolderWorks == flock # Nobody => pc[flock] \in Working

LEMMA HolderStep == IInv /\ HolderWorks /\ [Next]_vars => HolderWorks'
<1> SUFFICES ASSUME IInv, HolderWorks, [Next]_vars PROVE HolderWorks'
  OBVIOUS
<1> USE DEF IInv, TypeOK, WorkersHoldFlock, HolderWorks, Working
<1>1. ASSUME NEW p \in Proc, ProcessStep(p) PROVE HolderWorks'
  BY <1>1 DEF ProcessStep, AcquireGuard, GuardBusy, FlockFree, OpenDatabase,
     DropGuard, AcquireLease, LeaseRefused, ReleaseLease, ReleaseFlock,
     ReleaseFails, DropLock
<1>2. ASSUME NEW p \in Proc, Exit(p) \/ Crash(p) \/ Reap(p)
      PROVE  HolderWorks'
  BY <1>2 DEF Exit, Crash, Reap, Lingering
<1>3. ASSUME NEW d \in Db, Expire(d) \/ ResetRow(d) PROVE HolderWorks'
  BY <1>3 DEF Expire, ResetRow
<1>4. CASE UNCHANGED vars
  BY <1>4 DEF vars
<1>5. QED
  BY <1>1, <1>2, <1>3, <1>4 DEF Next

Waiting == {p \in Proc : pc[p] = "new"}
Inside  == {p \in Proc : pc[p] \in Working}

(* What is inside is what the flock names.                                 *)
LEMMA InsideIsHolder ==
    IInv /\ HolderWorks => Inside = IF flock = Nobody THEN {} ELSE {flock}
BY DEF IInv, TypeOK, WorkersHoldFlock, HolderWorks, Inside

(* Each step of a process is a move at the door, or none at all.           *)
LEMMA DoorStep ==
    IInv /\ HolderWorks /\ [Next]_vars =>
        \/ Door!Next
        \/ UNCHANGED <<Waiting, Inside>>
<1> SUFFICES ASSUME IInv, HolderWorks, [Next]_vars
             PROVE  Door!Next \/ UNCHANGED <<Waiting, Inside>>
  OBVIOUS
<1> DEFINE Goal == Door!Next \/ UNCHANGED <<Waiting, Inside>>
<1>0. TypeOK /\ Inside = IF flock = Nobody THEN {} ELSE {flock}
  BY InsideIsHolder DEF IInv
<1>1. ASSUME NEW p \in Proc, AcquireGuard(p) PROVE Goal
  <2>1. p \in Waiting /\ Inside = {}
    BY <1>0, <1>1 DEF AcquireGuard, FlockFree, Waiting
  <2>2. Waiting' = Waiting \ {p}
    BY <1>0, <1>1 DEF AcquireGuard, Waiting, TypeOK
  <2>3. Inside' = {p}
    BY <1>0, <1>1, <2>1 DEF AcquireGuard, Inside, Working, TypeOK
  <2>4. QED
    BY <2>1, <2>2, <2>3 DEF Door!Next, Door!Enter, Waiting, Inside
<1>2. ASSUME NEW p \in Proc, GuardBusy(p) PROVE Goal
  <2>1. p \in Waiting /\ Inside # {}
    BY <1>0, <1>2 DEF GuardBusy, FlockFree, Waiting
  <2>2. Waiting' = Waiting \ {p} /\ Inside' = Inside
    BY <1>0, <1>2 DEF GuardBusy, Waiting, Inside, Working, TypeOK
  <2>3. QED
    BY <2>1, <2>2 DEF Door!Next, Door!SentAway, Waiting, Inside
<1>3. ASSUME NEW p \in Proc, pc[p] \in Working,
             Waiting' = Waiting, Inside' = Inside \ {p}
      PROVE  Goal
  <2>1. Inside = {p}
    BY <1>0, <1>3 DEF Inside
  <2>2. QED
    BY <1>3, <2>1 DEF Door!Next, Door!Leave, Waiting, Inside
<1>4. ASSUME NEW p \in Proc,
             DropGuard(p) \/ LeaseRefused(p) \/ ReleaseFlock(p) \/ DropLock(p)
      PROVE  Goal
  <2>1. pc[p] \in Working /\ Waiting' = Waiting /\ Inside' = Inside \ {p}
    BY <1>0, <1>4 DEF DropGuard, LeaseRefused, ReleaseFlock, DropLock, TypeOK,
       Waiting, Inside, Working
  <2>2. QED
    BY <1>3, <2>1
<1>5. ASSUME NEW p \in Proc,
             \/ OpenDatabase(p) \/ AcquireLease(p) \/ ReleaseLease(p)
             \/ ReleaseFails(p) \/ Exit(p) \/ Reap(p)
      PROVE  Goal
  BY <1>0, <1>5 DEF OpenDatabase, AcquireLease, ReleaseLease, ReleaseFails,
     Exit, Reap, TypeOK, Waiting, Inside, Working, Lingering
<1>6. ASSUME NEW p \in Proc, Crash(p) PROVE Goal
  <2>1. Waiting' = Waiting /\ Inside' = Inside \ {p}
    BY <1>0, <1>6 DEF Crash, Alive, TypeOK, Waiting, Inside, Working,
       Lingering
  <2>2. p \notin Inside => Inside \ {p} = Inside
    OBVIOUS
  <2>3. QED
    BY <1>3, <2>1, <2>2 DEF Inside
<1>7. ASSUME NEW d \in Db, Expire(d) \/ ResetRow(d) PROVE Goal
  BY <1>7 DEF Expire, ResetRow, Waiting, Inside
<1>8. CASE UNCHANGED vars
  BY <1>8 DEF vars, Waiting, Inside
<1>9. QED
  BY <1>1, <1>2, <1>4, <1>5, <1>6, <1>7, <1>8 DEF Next, ProcessStep

(* RepoLock implements Turns: processes work on the repository one after   *)
(* another, and who finds the flock taken is sent away because of a        *)
(* process that works, whatever died and whatever the rows say.            *)
THEOREM TurnsImplemented == Spec => TurnsSpec
<1>1. Init => HolderWorks
  BY DEF Init, HolderWorks
<1>2. Spec => []HolderWorks
  BY <1>1, Invariant, HolderStep, PTL DEF Spec
<1>3. Init => Door!Init
  BY DEF Init, Door!Init, Working
<1>4. IInv /\ HolderWorks /\ [Next]_vars
        => [Door!Next]_<<Waiting, Inside>>
  BY DoorStep
<1>5. QED
  BY <1>2, <1>3, <1>4, Invariant, PTL
     DEF Spec, TurnsSpec, Door!Spec, Waiting, Inside
=============================================================================
