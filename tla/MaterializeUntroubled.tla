----------------------- MODULE MaterializeUntroubled -----------------------
(***************************************************************************)
(* What documentation says of reports and of "ok", and the code does not   *)
(* keep (ReportedEditIsHuman, OkIsUpToDate), it keeps for as long as no    *)
(* command has died or failed: for every set of sources and contents, with *)
(* any number of edits, adoptions, discards and changes of the source, and *)
(* whenever people edit.                                                   *)
(*                                                                         *)
(* Untroubled commands leave no file behind that they wrote and did not    *)
(* record, and no materialization that the next sync would find delayed or *)
(* owned (Calm).                                                           *)
(***************************************************************************)
EXTENDS MaterializeProofs

USE MaterializeAssumption

\* No command has died, and no call of one has failed.
Untroubled == budget.faults = MaxFaults

NoDelay(table) == \A b \in Effect : ~table[b].delayed

Calm ==
    /\ writer = "fani" => w.pc = "settling" /\ w.result = "current"
    /\ NoDelay(rows)
    /\ \A b \in Live(rows) :
        b.op = "materialize" => Effecting /\ w.mode = "sync"
    /\ w.pc = "claiming" => rows[Key].state = "pending"
    /\ ok => canon.state = "materialized"

CalmInv == budget.faults <= MaxFaults /\ (Untroubled => Calm)

-----------------------------------------------------------------------------
(* Tables.                                                                 *)

LEMMA NoDelays ==
    ASSUME rows \in [Effect -> Row], NoDelay(rows)
    PROVE  /\ \A B \in SUBSET Effect : NoDelay(Cancel(rows, B))
           /\ \A key \in Effect, e \in Hash : NoDelay(Schedule(rows, key, e))
           /\ \A key \in Effect : /\ NoDelay(Claim(rows, key))
                                  /\ NoDelay(Complete(rows, key))
<1> USE DEF NoDelay
<1>1. \A B \in SUBSET Effect : NoDelay(Cancel(rows, B))
  BY DEF Cancel, Finished, Unowned
<1>2. ASSUME NEW key \in Effect, NEW e \in Hash
      PROVE  NoDelay(Schedule(rows, key, e))
  <2> DEFINE C == Cancel(rows, Live(rows) \ {key})
  <2>1. NoDelay(C) /\ C \in [Effect -> Row]
    BY <1>1, CancelLemma DEF Live
  <2> HIDE DEF C
  <2>2. Schedule(rows, key, e) =
          [C EXCEPT ![key] = IF key \in Live(rows)
                             THEN C[key] ELSE Unowned("pending", FALSE, e)]
    BY DEF Schedule, C
  <2>3. QED
    BY <2>1, <2>2 DEF Unowned
<1>3. \A key \in Effect : NoDelay(Claim(rows, key))
  BY DEF Claim, Row
<1>4. \A key \in Effect : NoDelay(Complete(rows, key))
  BY DEF Complete, Finished, Unowned
<1> QED
  BY <1>1, <1>2, <1>3, <1>4

\* A new effect is pending.
LEMMA NewIsPending ==
    ASSUME rows \in [Effect -> Row], NEW key \in Effect, NEW e \in Hash,
           key \notin Live(rows)
    PROVE  Schedule(rows, key, e)[key].state = "pending"
<1>1. Cancel(rows, Live(rows) \ {key}) \in [Effect -> Row]
  BY CancelLemma DEF Live
<1> QED
  BY <1>1 DEF Schedule, Unowned

-----------------------------------------------------------------------------
(* Steps.                                                                  *)

\* A command that goes on, or ends with no verdict, and leaves the table.
LEMMA RowsStay ==
    ASSUME Calm, rows' = rows, ok' = FALSE,
           writer' = "fani" => w'.pc = "settling" /\ w'.result = "current",
           w'.pc # "claiming",
           \/ ~(Effecting /\ w.mode = "sync")
           \/ Effecting' /\ w'.mode = "sync"
    PROVE  Calm'
BY DEF Calm, NoDelay, Live

\* The effect of the command is taken off the record.
LEMMA RowGoes ==
    ASSUME Inv, Calm, Effecting, rows' = Complete(rows, Key), w' = Idle,
           writer' # "fani", ok' => canon'.state = "materialized"
    PROVE  Calm'
<1>1. Key \in Effect /\ rows \in [Effect -> Row]
  BY KeyType DEF Inv, TypeOK
<1>2. Live(rows') = {}
  BY <1>1, CompleteLemma
     DEF Inv, EffectInv, KeyIsLive, AtMostOneLiveEffect
<1>3. NoDelay(rows')
  BY <1>1, NoDelays DEF Calm
<1>4. w'.pc = "idle"
  BY DEF Idle
<1> QED
  BY <1>2, <1>3, <1>4 DEF Calm

LEMMA CommandCalm ==
    ASSUME Inv, OkInv, Calm,
           (\E s \in Source : SyncStart(s)) \/ SyncStep \/ ApplyStep
             \/ AdoptStep \/ DiscardStep
    PROVE  Calm'
<1>0. /\ TypeOK /\ WorkerOK /\ rows \in [Effect -> Row]
      /\ w.pc # "idle" => ok = FALSE
  BY DEF Inv, TypeOK, OkInv
<1>1. Idle.pc = "idle" /\ ~(Idle.pc = "claiming")
  BY DEF Idle
<1>2. ASSUME NEW s \in Source, SyncStart(s) PROVE Calm'
  <2>1. w.pc = "idle" /\ ok' = FALSE /\ writer' = writer
    BY <1>1, <1>2 DEF SyncStart, Finish
  <2>2. w'.pc \in {"idle", "planning"}
    <3>1. \/ w' = Idle
          \/ w' = [Idle EXCEPT !.pc = "planning", !.mode = "sync", !.src = s]
      BY <1>2 DEF SyncStart, Finish
    <3>2. [Idle EXCEPT !.pc = "planning", !.mode = "sync", !.src = s].pc
            = "planning"
      BY DEF Idle
    <3>3. QED
      BY <1>1, <3>1, <3>2
  <2>3. /\ Live(rows') \subseteq Live(rows)
        /\ NoDelay(rows')
    <3>1. Incompatible(s) \subseteq Effect
      BY DEF Incompatible, Live
    <3>2. rows' \in {rows, Cancel(rows, Incompatible(s))}
      BY <1>2 DEF SyncStart
    <3>3. QED
      BY <1>0, <3>1, <3>2, CancelLemma, NoDelays DEF Calm
  <2>4. \A b \in Live(rows) : b.op # "materialize"
    BY <2>1 DEF Calm, Effecting
  <2>5. writer # "fani"
    BY <2>1 DEF Calm
  <2>6. QED
    BY <2>1, <2>2, <2>3, <2>4, <2>5 DEF Calm
<1>3. CASE PlanConflict \/ CommitRefused \/ AdoptRejected \/ DiscardRefused
             \/ AdoptCommit
  <2>1. /\ rows' = rows /\ ok' = FALSE /\ w' = Idle
        /\ writer' = "fani" => writer = "fani"
        /\ ~(w.pc = "settling" /\ w.result = "current")
        /\ ~(Effecting /\ w.mode = "sync")
    <3>1. CASE PlanConflict \/ CommitRefused \/ AdoptRejected
      BY <3>1 DEF PlanConflict, CommitRefused, AdoptRejected, Finish, Effecting
    <3>2. CASE AdoptCommit
      BY <3>2 DEF AdoptCommit, Finish, Effecting
    <3>3. CASE DiscardRefused
      BY <1>0, <3>3 DEF DiscardRefused, Finish, Effecting, WorkerOK
    <3>4. QED
      BY <1>3, <3>1, <3>2, <3>3
  <2>2. QED
    BY <1>1, <2>1, RowsStay DEF Calm
<1>4. CASE PlanDocument \/ Draft
  <2>1. /\ rows' = rows /\ ok' = FALSE /\ writer' = writer
        /\ w.pc \in {"planning", "drafting"}
        /\ w'.pc \in {"drafting", "committing"}
    BY <1>0, <1>4 DEF PlanDocument, Draft, TypeOK, Worker
  <2>2. QED
    BY <2>1, RowsStay DEF Calm, Effecting
<1>5. CASE CommitInPlace
  <2>1. /\ rows' = rows /\ writer' = writer /\ w' = Idle
        /\ w.pc = "committing"
        /\ canon' = [NewCanon EXCEPT !.state = "materialized",
                                     !.hash = w.desired]
    BY <1>5 DEF CommitInPlace, Finish
  <2>2. canon'.state = "materialized"
    BY <2>1 DEF NewCanon
  <2>3. QED
    BY <1>1, <2>1, <2>2 DEF Calm, Effecting, Live, NoDelay
<1>6. CASE Commit
  <2>1. /\ w.pc = "committing" /\ w.mode = "sync" /\ writer' = writer
        /\ rows' = Schedule(rows, Key, NoHash) /\ ok' = FALSE
        /\ w' = [w EXCEPT !.pc = "claiming", !.seen = NoText]
    BY <1>0, <1>6 DEF Commit, WorkerOK
  <2>2. w'.pc = "claiming" /\ w'.mode = "sync" /\ Key' = Key
    BY <1>0, <2>1 DEF TypeOK, Worker, Key
  <2>3. Key \in Effect /\ Key.op = "materialize" /\ NoHash \in Hash
    BY <1>0, <2>1, KeyType DEF Key, Hash
  <2>4. Key \notin Live(rows)
    BY <2>1, <2>3 DEF Calm, Effecting
  <2>5. rows'[Key].state = "pending" /\ Live(rows') = {Key} /\ NoDelay(rows')
    BY <1>0, <2>1, <2>3, <2>4, NewIsPending, ScheduleLemma, NoDelays DEF Calm
  <2>6. writer # "fani"
    BY <2>1 DEF Calm
  <2>7. QED
    BY <2>1, <2>2, <2>5, <2>6 DEF Calm, Effecting
<1>7. CASE ClaimEffect
  <2>1. /\ w.pc = "claiming" /\ w.mode = "sync" /\ writer' = writer
        /\ Claimable(rows, Key) /\ rows' = Claim(rows, Key) /\ ok' = FALSE
        /\ w' = [w EXCEPT !.pc = "applying"]
    BY <1>0, <1>7 DEF ClaimEffect, WorkerOK
  <2>2. w'.pc = "applying" /\ w'.mode = "sync"
    BY <1>0, <2>1 DEF TypeOK, Worker
  <2>3. Key \in Effect
    BY <1>0, <2>1, KeyType DEF Effecting
  <2>4. Live(rows') = Live(rows) /\ NoDelay(rows')
    BY <1>0, <2>1, <2>3, ClaimLemma, NoDelays DEF Calm
  <2>5. QED
    BY <2>1, <2>2, <2>4 DEF Calm, Effecting
<1>8. ~SkipEffect
  <2>1. w.pc = "claiming" => Key \in Effect
    BY <1>0, KeyType DEF Effecting
  <2>2. w.pc = "claiming" => Claimable(rows, Key)
    BY <2>1 DEF Calm, NoDelay, Claimable
  <2>3. QED
    BY <2>2 DEF SkipEffect
<1>9. CASE ApplyStep
  <2>1. /\ rows' = rows /\ ok' = FALSE
        /\ w.pc \in {"applying", "writing"}
        /\ w'.pc \in {"writing", "settling"} /\ w'.mode = w.mode
    BY <1>0, <1>9 DEF ApplyStep, ApplyRead, ApplyWrite, TypeOK, Worker
  <2>2. writer' = "fani" => w'.pc = "settling" /\ w'.result = "current"
    BY <1>0, <1>9 DEF ApplyStep, ApplyRead, ApplyWrite, Calm, TypeOK, Worker
  <2>3. QED
    BY <2>1, <2>2, RowsStay DEF Effecting
<1>10. CASE SettleMaterialized \/ SettleHumanEdit \/ CompleteDiscard
  <2>1. /\ w.pc = "settling" /\ rows' = Complete(rows, Key) /\ w' = Idle
    BY <1>10 DEF SettleMaterialized, SettleHumanEdit, CompleteDiscard, Finish
  <2>2. writer' # "fani"
    BY <1>10 DEF SettleMaterialized, SettleHumanEdit, CompleteDiscard,
       Recorded, Calm
  <2>3. ok' => canon'.state = "materialized"
    <3>1. canon \in Canonical
      BY <2>1, RowFacts DEF Inv, Effecting
    <3>2. QED
      BY <1>10, <3>1 DEF SettleMaterialized, SettleHumanEdit, CompleteDiscard,
         Finish, Canonical
  <2>4. QED
    BY <2>1, <2>2, <2>3, RowGoes DEF Effecting
<1>11. CASE BeginDiscard
  <2>1. /\ w.pc = "discarding" /\ writer' = writer /\ ok' = FALSE
        /\ rows' = Schedule(rows, Key, HashOf(w.seen))
        /\ w'.pc = "applying"
    BY <1>0, <1>11 DEF BeginDiscard, TypeOK, Worker
  <2>2. Key \in Effect /\ Key.op = "discard"
    BY <1>0, <2>1, KeyType DEF Key, WorkerOK
  <2>3. HashOf(w.seen) \in Hash
    BY <1>0 DEF TypeOK, Worker, HashOf, Hash, File
  <2>4. Live(rows') = {Key} /\ NoDelay(rows')
    BY <1>0, <2>1, <2>2, <2>3, ScheduleLemma, NoDelays DEF Calm
  <2>5. writer # "fani"
    BY <2>1 DEF Calm
  <2>6. QED
    BY <2>1, <2>2, <2>4, <2>5 DEF Calm
<1> QED
  BY <1>2, <1>3, <1>4, <1>5, <1>6, <1>7, <1>8, <1>9, <1>10, <1>11
     DEF SyncStep, AdoptStep, DiscardStep

LEMMA WorldCalm ==
    ASSUME Inv, OkInv, Calm, Person \/ Clock \/ UNCHANGED vars
    PROVE  Calm'
<1>0. /\ TypeOK /\ WorkerOK /\ rows \in [Effect -> Row]
      /\ w.pc # "idle" => ok = FALSE
  BY DEF Inv, TypeOK, OkInv
<1>1. CASE DiscardStart \/ \E s \in Source : AdoptStart(s)
  <2>1. /\ rows' = rows /\ ok' = FALSE /\ writer' = writer
        /\ w = Idle /\ w'.pc \in {"adopting", "discarding"}
    BY <1>1 DEF DiscardStart, AdoptStart, Idle
  <2>2. w.pc = "idle"
    BY <2>1 DEF Idle
  <2>3. QED
    BY <2>1, <2>2, RowsStay DEF Calm, Effecting
<1>2. CASE \/ \E s \in Source : MoveSource(s)
           \/ \E file \in File : HumanEdit(file)
           \/ UNCHANGED vars
  <2>1. /\ UNCHANGED <<w, canon, ok, rows>>
        /\ writer' = "fani" => writer = "fani"
    BY <1>2 DEF MoveSource, HumanEdit, vars
  <2>2. QED
    BY <2>1 DEF Calm, Effecting, Key, Live, NoDelay
<1>3. CASE Clock
  <2>1. PICK b \in Effect : OwnerGone(b) \/ LeaseExpires(b) \/ RetryDue(b)
    BY <1>3 DEF Clock
  <2>2. UNCHANGED <<w, canon, ok, writer>> /\ Live(rows') = Live(rows)
    BY <1>0, <2>1, ClockRows DEF OwnerGone, LeaseExpires, RetryDue
  <2>3. /\ \A c \in Effect : rows'[c].state = rows[c].state
        /\ \A c \in Effect : rows'[c].delayed => rows[c].delayed
    BY <1>0, <2>1 DEF OwnerGone, LeaseExpires, RetryDue, Row
  <2>4. w.pc = "claiming" => Key \in Effect
    BY <1>0, KeyType DEF Effecting
  <2>5. QED
    BY <2>2, <2>3, <2>4 DEF Calm, NoDelay, Effecting, Key
<1> QED
  BY <1>1, <1>2, <1>3 DEF Person

\* Faults are counted, and a fault ends the untroubled time.
LEMMA FaultSpends ==
    ASSUME TypeOK, budget.faults <= MaxFaults, [Next]_vars
    PROVE  /\ budget'.faults <= MaxFaults
           /\ budget'.faults = MaxFaults => Untroubled /\ ~Fault
<1>1. CASE Fault
  <2>1. budget.faults \in Nat /\ budget'.faults = budget.faults - 1
    BY <1>1 DEF Fault, PipelineStops, ApplyFails, CommandStops, Spend, TypeOK
  <2>2. QED
    BY <2>1
<1>2. CASE ~Fault
  <2>1. \/ budget' = budget
        \/ \E x \in {"moves", "edits", "choices"} : Spend(x)
    BY <1>2 DEF Next, SyncStep, ApplyStep, AdoptStep, DiscardStep, Person,
         Clock, vars, SyncStart, PlanConflict, PlanDocument, Draft,
         CommitInPlace, Commit, CommitRefused, ClaimEffect, SkipEffect,
         ApplyRead, ApplyWrite, SettleMaterialized, SettleHumanEdit,
         AdoptStart, AdoptRejected, AdoptCommit, DiscardStart, BeginDiscard,
         DiscardRefused, CompleteDiscard, MoveSource, HumanEdit, OwnerGone,
         LeaseExpires, RetryDue
  <2>2. budget'.faults = budget.faults
    BY <2>1 DEF Spend, TypeOK
  <2>3. QED
    BY <1>2, <2>2 DEF Untroubled
<1> QED
  BY <1>1, <1>2

LEMMA CalmHolds == Spec => []CalmInv
<1>1. Init => CalmInv
  <2> SUFFICES ASSUME Init PROVE CalmInv
    OBVIOUS
  <2>1. budget.faults = MaxFaults /\ MaxFaults \in Nat
    BY DEF Init
  <2>2. rows = [b \in Effect |-> NoRow] /\ Live(rows) = {} /\ NoDelay(rows)
    BY DEF Init, Live, NoRow, Unowned, NoDelay
  <2>3. QED
    BY <2>1, <2>2 DEF Init, CalmInv, Calm, Idle
<1>2. Inv /\ OkInv /\ CalmInv /\ [Next]_vars => CalmInv'
  <2> SUFFICES ASSUME Inv, OkInv, CalmInv, [Next]_vars,
                      budget'.faults = MaxFaults
               PROVE  Calm'
    BY FaultSpends DEF Inv, CalmInv, Untroubled
  <2>1. Calm /\ ~Fault
    BY FaultSpends DEF Inv, CalmInv
  <2>2. QED
    BY <2>1, CommandCalm, WorldCalm DEF Next
<1>3. Init => OkInv
  BY DEF Init, OkInv, OkIsMaterializedOrQueued, Idle
<1>4. QED
  BY <1>1, <1>2, <1>3, InvHolds, OkStep, PTL DEF Spec

-----------------------------------------------------------------------------
(* The two boundaries.                                                     *)

\* "ok" means up to date until a command dies or fails: a sync passes over
\* an effect without a word only if one before it left the effect owned or
\* delayed.
THEOREM UntroubledOkIsUpToDate == Spec => [](Untroubled => OkIsUpToDate)
<1>1. CalmInv => (Untroubled => OkIsUpToDate)
  BY DEF CalmInv, Calm, OkIsUpToDate
<1>2. QED
  BY <1>1, CalmHolds, PTL

\* Only what people changed is reported as changed by people, until a
\* command dies or fails between its rename and the transaction after it.
THEOREM UntroubledReportIsHuman ==
    Spec => [][Untroubled /\ reported' # reported /\ reported' # "none"
                 => writer = "human"]_vars
<1>1. Inv /\ CalmInv /\ [Next]_vars =>
        (Untroubled /\ reported' # reported /\ reported' # "none"
             => writer = "human")
  <2> SUFFICES ASSUME Inv, CalmInv, [Next]_vars, Untroubled,
                      reported' # reported, reported' # "none"
               PROVE  writer = "human"
    OBVIOUS
  <2>1. writer # "recorded"
    BY ReportStep
  <2>2. PlanConflict \/ SettleHumanEdit
    BY DEF Next, SyncStep, ApplyStep, AdoptStep, DiscardStep, Fault, Person,
         Clock, vars, SyncStart, PlanDocument, PipelineStops, Draft,
         CommitInPlace, Commit, CommitRefused, ClaimEffect, SkipEffect,
         ApplyRead, ApplyWrite, ApplyFails, SettleMaterialized, AdoptStart,
         AdoptRejected, AdoptCommit, DiscardStart, BeginDiscard,
         DiscardRefused, CompleteDiscard, CommandStops, MoveSource, HumanEdit,
         OwnerGone, LeaseExpires, RetryDue
  <2>3. ~(w.pc = "settling" /\ w.result = "current")
    BY <2>2 DEF PlanConflict, SettleHumanEdit
  <2>4. writer # "fani"
    BY <2>3 DEF CalmInv, Calm
  <2>5. QED
    BY <2>1, <2>4 DEF Inv, TypeOK
<1>2. QED
  BY <1>1, InvHolds, CalmHolds, PTL DEF Spec
=============================================================================
