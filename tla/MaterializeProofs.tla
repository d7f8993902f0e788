------------------------- MODULE MaterializeProofs -------------------------
(***************************************************************************)
(* Theorems about module Materialize, for every set of sources and         *)
(* contents and for every value of the bounds:                             *)
(*                                                                         *)
(*   TypeCorrect        every variable keeps its type;                     *)
(*   OneLiveEffect      at most one effect on the path is live;            *)
(*   MaterializedTruth  a row that says "materialized" tells the truth;    *)
(*   OkEffects          a sync that ends "ok" has done its work or left    *)
(*                      it in the table;                                   *)
(*   OwnWrites          fani's own recorded writes are no human edits;     *)
(*   PlannedConflicts, HumanTexts, Discards                                *)
(*                      what a write may not overwrite, where nobody edits *)
(*                      between apply's comparison and its rename.         *)
(*                                                                         *)
(* The inductive invariant Inv has three layers, each inductive relative   *)
(* to the ones before it: types with what a running command carries        *)
(* (WorkerOK), the effects on the path (EffectInv), and the file with the  *)
(* canonical row (FileInv).                                                *)
(***************************************************************************)
EXTENDS Materialize, TLAPS

(* What the running command knows. *)

\* From the commit of the canonical row to the settlement of its effect.
Effecting == w.pc \in {"claiming", "applying", "writing", "settling"}

\* A sync that has read the recorded hash.
SyncExpects ==
    \/ w.pc \in {"drafting", "committing", "claiming"}
    \/ w.mode = "sync" /\ w.pc \in {"applying", "writing", "settling"}

\* A command that decides on a target it has read before.
HasSeen ==
    \/ w.pc \in {"committing", "adopting"}
    \/ w.pc = "settling" /\ w.result # "current"

\* The hash a sync that starts now would expect.
ExpectedNow == IF HasCanon THEN canon.hash ELSE NoHash

WorkerOK ==
    /\ w.pc # "idle" => w.src \in Source
    /\ Effecting \/ w.pc \in {"committing", "discarding"} =>
           w.desired \in Content
    /\ w.pc = "adopting" => w.seen \in Content
    /\ w.pc = "settling" =>
           \/ w.result = "human_edit" /\ w.seen \in Content
           \/ w.result \in {"current", "vanished"}
    /\ w.pc \in {"planning", "drafting", "committing", "claiming"} =>
           w.mode = "sync"
    /\ w.pc = "discarding" => w.mode = "discard"

(* The effects on the path. *)

KeyIsLive == Effecting => Key \in Live(rows)

\* A live discard carries the hash of the target its person saw.
ConsentIsRecorded ==
    \A b \in Live(rows) :
        b.op = "discard" => rows[b].expects = HashOf(consent)

DiscardExpectsConsent ==
    w.mode = "discard" /\ w.pc \in {"applying", "writing"} =>
        w.expected = HashOf(consent)

EffectInv ==
    AtMostOneLiveEffect /\ KeyIsLive /\ ConsentIsRecorded
        /\ DiscardExpectsConsent

(* The file and the canonical row. *)

CanonIsDesired ==
    Effecting \/ w.pc = "discarding" =>
        HasCanon /\ canon.content = w.desired

ExpectsRecorded == SyncExpects => w.expected = ExpectedNow

SeenIsTarget ==
    HasSeen /\ (writer # "human" \/ reported # "none") => target = w.seen

CurrentIsDesired ==
    w.pc = "settling" /\ w.result = "current" /\ writer # "human" =>
        target = w.desired

SeenIsUnexpected ==
    w.pc = "settling" /\ w.result # "current" => HashOf(w.seen) # w.expected

WriteIsExpected ==
    w.pc = "writing" /\ ~EditsDuringRename => HashOf(target) = w.expected

RecordedIsKnown ==
    writer = "recorded" => HasCanon /\ canon.hash = HashOf(target)

ReportStands == reported = "plan" => HashOf(target) # ExpectedNow

FileInv ==
    /\ CanonIsDesired
    /\ ExpectsRecorded
    /\ SeenIsTarget
    /\ CurrentIsDesired
    /\ SeenIsUnexpected
    /\ WriteIsExpected
    /\ RecordedIsKnown
    /\ ReportStands
    /\ MaterializedIsTrue

(* Where texts come from. *)

CanonIsKnown ==
    HasCanon =>
        /\ canon.content \in KnownTexts
        /\ canon.hash \in KnownTexts \cup told \cup {NoHash, Vanished}

DesiredIsKnown == w.pc = "committing" => w.desired \in KnownTexts

OriginInv == CanonIsKnown /\ DesiredIsKnown

USE MaterializeAssumption

-----------------------------------------------------------------------------
(* What the transactions on the outbox do to a well-typed table.           *)

\* The rows the adapter makes are rows.
LEMMA RowTypes ==
    /\ NoRow \in Row /\ Finished \in Row
    /\ \A e \in Hash, d \in BOOLEAN : Unowned("pending", d, e) \in Row
BY DEF NoRow, Finished, Unowned, Row, Owner, Hash

\* Superseding a set of rows takes exactly these rows off the live ones.
LEMMA CancelLemma ==
    ASSUME rows \in [Effect -> Row], NEW B \in SUBSET Effect
    PROVE  /\ Cancel(rows, B) \in [Effect -> Row]
           /\ Live(Cancel(rows, B)) = Live(rows) \ B
           /\ \A b \in Effect \ B : Cancel(rows, B)[b] = rows[b]
BY RowTypes DEF Cancel, Live, Finished, Unowned

\* Scheduling leaves one live row, the row of its own key.
LEMMA ScheduleLemma ==
    ASSUME rows \in [Effect -> Row], NEW key \in Effect, NEW e \in Hash
    PROVE  /\ Schedule(rows, key, e) \in [Effect -> Row]
           /\ Live(Schedule(rows, key, e)) = {key}
           /\ Schedule(rows, key, e)[key].expects =
                  IF key \in Live(rows) THEN rows[key].expects ELSE e
<1> DEFINE C == Cancel(rows, Live(rows) \ {key})
           r == IF key \in Live(rows) THEN C[key]
                                      ELSE Unowned("pending", FALSE, e)
<1>1. /\ C \in [Effect -> Row]
      /\ Live(C) = Live(rows) \cap {key}
      /\ C[key] = rows[key]
  BY CancelLemma DEF Live
<1>2. Schedule(rows, key, e) = [C EXCEPT ![key] = r]
  BY DEF Schedule
<1>3. r \in Row /\ r.state \in {"pending", "processing"}
  BY <1>1, RowTypes DEF Live, Unowned
<1>4. Schedule(rows, key, e) \in [Effect -> Row]
  BY <1>1, <1>2, <1>3
<1>5. Live(Schedule(rows, key, e)) = {key}
  BY <1>1, <1>2, <1>3 DEF Live
<1>6. Schedule(rows, key, e)[key].expects =
          IF key \in Live(rows) THEN rows[key].expects ELSE e
  BY <1>1, <1>2 DEF Unowned
<1>7. QED
  BY <1>4, <1>5, <1>6

\* A claimed row was live and stays so; no payload changes.
LEMMA ClaimLemma ==
    ASSUME rows \in [Effect -> Row], NEW key \in Effect, Claimable(rows, key)
    PROVE  /\ Claim(rows, key) \in [Effect -> Row]
           /\ Live(Claim(rows, key)) = Live(rows)
           /\ \A b \in Effect : Claim(rows, key)[b].expects = rows[b].expects
<1> DEFINE claimed == [rows[key] EXCEPT !.state = "processing",
                                        !.owner = "worker", !.expired = FALSE]
<1>1. Claim(rows, key) = [rows EXCEPT ![key] = claimed]
  BY DEF Claim
<1>2. /\ claimed \in Row /\ claimed.state = "processing"
      /\ claimed.expects = rows[key].expects
  BY DEF Row, Owner
<1>3. key \in Live(rows)
  BY DEF Claimable, TakenBack, Live
<1> HIDE DEF claimed
<1>4. QED
  BY <1>1, <1>2, <1>3 DEF Live

\* A row put back for a retry stays live; no payload changes.
LEMMA RetryLemma ==
    ASSUME rows \in [Effect -> Row], NEW key \in Effect
    PROVE  /\ Retry(rows, key) \in [Effect -> Row]
           /\ key \in Live(rows) => Live(Retry(rows, key)) = Live(rows)
           /\ \A b \in Effect : Retry(rows, key)[b].expects = rows[b].expects
BY DEF Retry, Unowned, Live, Row, Owner

\* A completed row is no longer live; no other row changes.
LEMMA CompleteLemma ==
    ASSUME rows \in [Effect -> Row], NEW key \in Effect
    PROVE  /\ Complete(rows, key) \in [Effect -> Row]
           /\ Live(Complete(rows, key)) = Live(rows) \ {key}
           /\ \A b \in Effect \ {key} : Complete(rows, key)[b] = rows[b]
BY RowTypes DEF Complete, Finished, Unowned, Live

\* An abandoned row stays live; no payload changes.
LEMMA LeftLemma ==
    ASSUME rows \in [Effect -> Row]
    PROVE  /\ Left(rows) \in [Effect -> Row]
           /\ Live(Left(rows)) = Live(rows)
           /\ \A b \in Effect : Left(rows)[b].expects = rows[b].expects
BY DEF Left, Live, Row, Owner

-----------------------------------------------------------------------------
(* Types.                                                                  *)

\* A command that has fixed its text has a proper key.
LEMMA KeyType ==
    TypeOK /\ WorkerOK
        /\ (Effecting \/ w.pc \in {"committing", "discarding"}) =>
            Key \in Effect
BY DEF TypeOK, WorkerOK, Effecting, Key, Effect, Worker

\* A command that is over is well typed.
LEMMA IdleType == Idle \in Worker
BY DEF Idle, Worker, Hash, File

\* A command that is over carries nothing.
LEMMA IdleOK == w' = Idle => w' \in Worker /\ WorkerOK'
<1>1. w' = Idle => WorkerOK'
  BY DEF Idle, WorkerOK, Effecting
<1>2. QED
  BY <1>1, IdleType

\* What a sync would materialize is a text.
LEMMA DesiredType ==
    ASSUME memory \in [Source -> File], NEW s \in Source
    PROVE  Desired(s) \in Content
BY DEF Desired, File

\* What is left of a bound stays a natural number.
LEMMA BudgetType ==
    ASSUME budget \in [{"moves", "edits", "choices", "faults"} -> Nat],
           NEW x \in {"moves", "edits", "choices", "faults"}, Spend(x)
    PROVE  budget' \in [{"moves", "edits", "choices", "faults"} -> Nat]
<1>1. budget[x] - 1 \in Nat
  BY DEF Spend
<1>2. QED
  BY <1>1 DEF Spend

\* The passage of time keeps rows well typed.
LEMMA RowChange ==
    ASSUME rows \in [Effect -> Row], NEW b \in Effect
    PROVE  /\ [rows EXCEPT ![b].owner = "gone"] \in [Effect -> Row]
           /\ [rows EXCEPT ![b].expired = TRUE] \in [Effect -> Row]
           /\ [rows EXCEPT ![b].delayed = FALSE] \in [Effect -> Row]
<1>1. rows[b] \in Row
  OBVIOUS
<1>2. /\ [rows[b] EXCEPT !.owner = "gone"] \in Row
      /\ [rows[b] EXCEPT !.expired = TRUE] \in Row
      /\ [rows[b] EXCEPT !.delayed = FALSE] \in Row
  BY <1>1 DEF Row, Owner
<1>3. QED
  BY <1>2

\* What a command carries is enough to keep every variable well typed.
LEMMA TypeStep == TypeOK /\ WorkerOK /\ [Next]_vars => TypeOK' /\ WorkerOK'
<1> SUFFICES ASSUME TypeOK, WorkerOK, [Next]_vars PROVE TypeOK' /\ WorkerOK'
  OBVIOUS
<1>1. ASSUME NEW s \in Source, SyncStart(s) PROVE TypeOK' /\ WorkerOK'
  <2>1. waiting' \subseteq Source
    BY <1>1 DEF SyncStart, Resolved, TypeOK
  <2>2. ok' \in BOOLEAN
    BY <1>1 DEF SyncStart, Finish
  <2>3. rows' \in [Effect -> Row]
    <3>1. Incompatible(s) \subseteq Effect
      BY DEF Incompatible, Live
    <3>2. Cancel(rows, Incompatible(s)) \in [Effect -> Row]
      BY <3>1, CancelLemma DEF TypeOK
    <3>3. rows' \in {rows, Cancel(rows, Incompatible(s))}
      BY <1>1 DEF SyncStart
    <3>4. QED
      BY <3>2, <3>3 DEF TypeOK
  <2>4. w' \in Worker /\ WorkerOK'
    <3> DEFINE started == [Idle EXCEPT !.pc = "planning", !.mode = "sync",
                                       !.src = s]
    <3>1. w' = Idle \/ w' = started
      BY <1>1 DEF SyncStart, Finish
    <3>2. started \in Worker
      BY DEF Idle, Worker, Hash, File
    <3>3. w' = started => WorkerOK'
      BY DEF Idle, WorkerOK, Effecting
    <3>4. QED
      BY <3>1, <3>2, <3>3, IdleOK
  <2>5. QED
    BY <1>1, <2>1, <2>2, <2>3, <2>4 DEF SyncStart, TypeOK
<1>2. ASSUME PlanConflict PROVE TypeOK' /\ WorkerOK'
  <2>1. w' = Idle
    BY <1>2 DEF PlanConflict, Finish
  <2>2. w' \in Worker /\ WorkerOK'
    BY <2>1, IdleOK
  <2>3. QED
    BY <1>2, <2>2 DEF PlanConflict, Finish, TypeOK
<1>3. ASSUME PlanDocument PROVE TypeOK' /\ WorkerOK'
  <2>1. w' \in Worker
    BY <1>3 DEF PlanDocument, TypeOK, Worker, HasCanon, Canonical, NoCanon,
       Hash
  <2>2. WorkerOK'
    BY <1>3 DEF PlanDocument, TypeOK, WorkerOK, Effecting, Worker
  <2>3. QED
    BY <1>3, <2>1, <2>2 DEF PlanDocument, TypeOK
<1>4. ASSUME PipelineStops PROVE TypeOK' /\ WorkerOK'
  <2>1. w' = Idle
    BY <1>4 DEF PipelineStops, Finish
  <2>2. w' \in Worker /\ WorkerOK'
    BY <2>1, IdleOK
  <2>3. budget' \in [{"moves", "edits", "choices", "faults"} -> Nat]
    BY <1>4, BudgetType DEF PipelineStops, TypeOK
  <2>4. QED
    BY <1>4, <2>2, <2>3 DEF PipelineStops, Finish, TypeOK
<1>5. ASSUME Draft PROVE TypeOK' /\ WorkerOK'
  <2>1. w' \in Worker
    BY <1>5, DesiredType DEF Draft, TypeOK, Worker, WorkerOK, File
  <2>2. WorkerOK'
    BY <1>5, DesiredType DEF Draft, TypeOK, WorkerOK, Effecting, Worker
  <2>3. drafted' \subseteq Source
    BY <1>5 DEF Draft, TypeOK, WorkerOK
  <2>4. QED
    BY <1>5, <2>1, <2>2, <2>3 DEF Draft, TypeOK
<1>6. ASSUME CommitInPlace PROVE TypeOK' /\ WorkerOK'
  <2>1. w' = Idle
    BY <1>6 DEF CommitInPlace, Finish
  <2>2. w' \in Worker /\ WorkerOK'
    BY <2>1, IdleOK
  <2>3. canon' \in Canonical \cup {NoCanon}
    BY <1>6 DEF CommitInPlace, NewCanon, TypeOK, WorkerOK, Worker, Canonical,
       Hash
  <2>4. QED
    BY <1>6, <2>2, <2>3 DEF CommitInPlace, Finish, TypeOK
<1>7. ASSUME Commit PROVE TypeOK' /\ WorkerOK'
  <2>1. w' \in Worker
    BY <1>7 DEF Commit, TypeOK, Worker, File
  <2>2. WorkerOK'
    BY <1>7 DEF Commit, TypeOK, WorkerOK, Effecting, Worker
  <2>3. canon' \in Canonical \cup {NoCanon}
    BY <1>7 DEF Commit, NewCanon, TypeOK, WorkerOK, Worker, Canonical
  <2>4. rows' \in [Effect -> Row]
    BY <1>7, KeyType, ScheduleLemma DEF Commit, TypeOK, Hash
  <2>5. QED
    BY <1>7, <2>1, <2>2, <2>3, <2>4 DEF Commit, TypeOK
<1>8. ASSUME CommitRefused PROVE TypeOK' /\ WorkerOK'
  <2>1. w' = Idle
    BY <1>8 DEF CommitRefused, Finish
  <2>2. w' \in Worker /\ WorkerOK'
    BY <2>1, IdleOK
  <2>3. QED
    BY <1>8, <2>2 DEF CommitRefused, Finish, TypeOK
<1>9. ASSUME ClaimEffect PROVE TypeOK' /\ WorkerOK'
  <2>1. w' \in Worker
    BY <1>9 DEF ClaimEffect, TypeOK, Worker
  <2>2. WorkerOK'
    BY <1>9 DEF ClaimEffect, TypeOK, WorkerOK, Effecting, Worker
  <2>3. rows' \in [Effect -> Row]
    BY <1>9, KeyType, ClaimLemma DEF ClaimEffect, TypeOK, Effecting
  <2>4. QED
    BY <1>9, <2>1, <2>2, <2>3 DEF ClaimEffect, TypeOK
<1>10. ASSUME SkipEffect PROVE TypeOK' /\ WorkerOK'
  <2>1. w' = Idle
    BY <1>10 DEF SkipEffect, Finish
  <2>2. w' \in Worker /\ WorkerOK'
    BY <2>1, IdleOK
  <2>3. QED
    BY <1>10, <2>2 DEF SkipEffect, Finish, TypeOK
<1>11. ASSUME ApplyRead PROVE TypeOK' /\ WorkerOK'
  <2>1. w' \in Worker
    BY <1>11 DEF ApplyRead, TypeOK, Worker
  <2>2. WorkerOK'
    BY <1>11 DEF ApplyRead, TypeOK, WorkerOK, Effecting, Worker, File
  <2>3. QED
    BY <1>11, <2>1, <2>2 DEF ApplyRead, TypeOK
<1>12. ASSUME ApplyWrite PROVE TypeOK' /\ WorkerOK'
  <2>1. w' \in Worker
    BY <1>12 DEF ApplyWrite, TypeOK, Worker
  <2>2. WorkerOK'
    BY <1>12 DEF ApplyWrite, TypeOK, WorkerOK, Effecting, Worker
  <2>3. target' \in File
    BY <1>12 DEF ApplyWrite, TypeOK, Worker
  <2>4. QED
    BY <1>12, <2>1, <2>2, <2>3 DEF ApplyWrite, TypeOK
<1>13. ASSUME ApplyFails PROVE TypeOK' /\ WorkerOK'
  <2>1. w' = Idle
    BY <1>13 DEF ApplyFails, Finish
  <2>2. w' \in Worker /\ WorkerOK'
    BY <2>1, IdleOK
  <2>3. rows' \in [Effect -> Row]
    BY <1>13, KeyType, RetryLemma DEF ApplyFails, TypeOK, Effecting
  <2>4. target' \in File
    BY <1>13 DEF ApplyFails, TypeOK, Worker
  <2>5. budget' \in [{"moves", "edits", "choices", "faults"} -> Nat]
    BY <1>13, BudgetType DEF ApplyFails, TypeOK
  <2>6. QED
    BY <1>13, <2>2, <2>3, <2>4, <2>5 DEF ApplyFails, Finish, TypeOK
<1>14. ASSUME SettleMaterialized PROVE TypeOK' /\ WorkerOK'
  <2>1. w' = Idle
    BY <1>14 DEF SettleMaterialized, Finish
  <2>2. w' \in Worker /\ WorkerOK'
    BY <2>1, IdleOK
  <2>3. canon' \in Canonical \cup {NoCanon}
    BY <1>14 DEF SettleMaterialized, TypeOK, WorkerOK, Effecting, Canonical,
       NoCanon, Hash
  <2>4. rows' \in [Effect -> Row]
    BY <1>14, KeyType, CompleteLemma DEF SettleMaterialized, TypeOK, Effecting
  <2>5. writer' \in {"human", "fani", "recorded"}
    BY <1>14 DEF SettleMaterialized, Recorded, TypeOK
  <2>6. QED
    BY <1>14, <2>2, <2>3, <2>4, <2>5 DEF SettleMaterialized, Finish, TypeOK
<1>15. ASSUME SettleHumanEdit PROVE TypeOK' /\ WorkerOK'
  <2>1. w' = Idle
    BY <1>15 DEF SettleHumanEdit, Finish
  <2>2. w' \in Worker /\ WorkerOK'
    BY <2>1, IdleOK
  <2>3. canon' \in Canonical \cup {NoCanon}
    BY <1>15 DEF SettleHumanEdit, TypeOK, WorkerOK, Canonical, NoCanon, Hash
  <2>4. rows' \in [Effect -> Row]
    BY <1>15, KeyType, CompleteLemma DEF SettleHumanEdit, TypeOK, Effecting
  <2>5. told' \subseteq File
    BY <1>15 DEF SettleHumanEdit, TypeOK, Worker
  <2>6. QED
    BY <1>15, <2>2, <2>3, <2>4, <2>5 DEF SettleHumanEdit, Finish, TypeOK
<1>16. ASSUME NEW s \in Source, AdoptStart(s) PROVE TypeOK' /\ WorkerOK'
  <2>1. w' \in Worker
    BY <1>16 DEF AdoptStart, TypeOK, Worker, Idle, Hash, File
  <2>2. WorkerOK'
    BY <1>16 DEF AdoptStart, TypeOK, WorkerOK, Effecting, Worker, Idle, File
  <2>3. waiting' \subseteq Source
    BY <1>16 DEF AdoptStart, Resolved, TypeOK
  <2>4. budget' \in [{"moves", "edits", "choices", "faults"} -> Nat]
    BY <1>16, BudgetType DEF AdoptStart, TypeOK
  <2>5. QED
    BY <1>16, <2>1, <2>2, <2>3, <2>4 DEF AdoptStart, TypeOK
<1>17. ASSUME AdoptRejected PROVE TypeOK' /\ WorkerOK'
  <2>1. w' = Idle
    BY <1>17 DEF AdoptRejected, Finish
  <2>2. w' \in Worker /\ WorkerOK'
    BY <2>1, IdleOK
  <2>3. QED
    BY <1>17, <2>2 DEF AdoptRejected, Finish, TypeOK
<1>18. ASSUME AdoptCommit PROVE TypeOK' /\ WorkerOK'
  <2>1. w' = Idle
    BY <1>18 DEF AdoptCommit, Finish
  <2>2. w' \in Worker /\ WorkerOK'
    BY <2>1, IdleOK
  <2>3. canon' \in Canonical \cup {NoCanon}
    BY <1>18 DEF AdoptCommit, TypeOK, WorkerOK, Canonical, Hash
  <2>4. memory' \in [Source -> File]
    BY <1>18 DEF AdoptCommit, TypeOK, WorkerOK, Worker
  <2>5. QED
    BY <1>18, <2>2, <2>3, <2>4 DEF AdoptCommit, Finish, TypeOK
<1>19. ASSUME DiscardStart PROVE TypeOK' /\ WorkerOK'
  <2>1. w' \in Worker
    BY <1>19 DEF DiscardStart, TypeOK, Worker, HasCanon, Canonical, Idle,
       Hash, File
  <2>2. WorkerOK'
    BY <1>19 DEF DiscardStart, TypeOK, WorkerOK, Effecting, Worker, HasCanon,
       Canonical, Idle
  <2>3. budget' \in [{"moves", "edits", "choices", "faults"} -> Nat]
    BY <1>19, BudgetType DEF DiscardStart, TypeOK
  <2>4. QED
    BY <1>19, <2>1, <2>2, <2>3 DEF DiscardStart, TypeOK
<1>20. ASSUME BeginDiscard PROVE TypeOK' /\ WorkerOK'
  <2>1. HashOf(w.seen) \in Hash
    BY DEF TypeOK, Worker, HashOf, Hash, File
  <2>2. Key \in Effect
    BY <1>20, KeyType DEF BeginDiscard
  <2>3. rows' \in [Effect -> Row]
    BY <1>20, <2>1, <2>2, ScheduleLemma DEF BeginDiscard, TypeOK
  <2>4. rows'[Key] \in Row
    BY <2>2, <2>3
  <2>5. rows'[Key].expects \in Hash
    BY <2>4 DEF Row
  <2>6. w' \in Worker
    BY <1>20, <2>5 DEF BeginDiscard, TypeOK, Worker, File
  <2>7. WorkerOK'
    BY <1>20 DEF BeginDiscard, TypeOK, WorkerOK, Effecting, Worker
  <2>8. consent' \in File
    BY <1>20 DEF BeginDiscard, TypeOK, Worker
  <2>9. QED
    BY <1>20, <2>3, <2>6, <2>7, <2>8 DEF BeginDiscard, TypeOK
<1>21. ASSUME DiscardRefused PROVE TypeOK' /\ WorkerOK'
  <2>1. w' = Idle
    BY <1>21 DEF DiscardRefused, Finish
  <2>2. w' \in Worker /\ WorkerOK'
    BY <2>1, IdleOK
  <2>3. QED
    BY <1>21, <2>2 DEF DiscardRefused, Finish, TypeOK
<1>22. ASSUME CompleteDiscard PROVE TypeOK' /\ WorkerOK'
  <2>1. w' = Idle
    BY <1>22 DEF CompleteDiscard, Finish
  <2>2. w' \in Worker /\ WorkerOK'
    BY <2>1, IdleOK
  <2>3. canon' \in Canonical \cup {NoCanon}
    BY <1>22 DEF CompleteDiscard, TypeOK, WorkerOK, Effecting, Canonical,
       NoCanon, Hash
  <2>4. rows' \in [Effect -> Row]
    BY <1>22, KeyType, CompleteLemma DEF CompleteDiscard, TypeOK, Effecting
  <2>5. writer' \in {"human", "fani", "recorded"}
    BY <1>22 DEF CompleteDiscard, Recorded, TypeOK
  <2>6. QED
    BY <1>22, <2>2, <2>3, <2>4, <2>5 DEF CompleteDiscard, Finish, TypeOK
<1>23. ASSUME CommandStops PROVE TypeOK' /\ WorkerOK'
  <2>1. w' = Idle
    BY <1>23 DEF CommandStops, Finish
  <2>2. w' \in Worker /\ WorkerOK'
    BY <2>1, IdleOK
  <2>3. rows' \in [Effect -> Row]
    BY <1>23, LeftLemma DEF CommandStops, TypeOK
  <2>4. budget' \in [{"moves", "edits", "choices", "faults"} -> Nat]
    BY <1>23, BudgetType DEF CommandStops, TypeOK
  <2>5. QED
    BY <1>23, <2>2, <2>3, <2>4 DEF CommandStops, Finish, TypeOK
<1>24. ASSUME NEW s \in Source, MoveSource(s) PROVE TypeOK' /\ WorkerOK'
  <2>1. WorkerOK'
    BY <1>24 DEF MoveSource, WorkerOK, Effecting
  <2>2. waiting' \subseteq Source
    BY <1>24 DEF MoveSource, TypeOK
  <2>3. budget' \in [{"moves", "edits", "choices", "faults"} -> Nat]
    BY <1>24, BudgetType DEF MoveSource, TypeOK
  <2>4. QED
    BY <1>24, <2>1, <2>2, <2>3 DEF MoveSource, TypeOK
<1>25. ASSUME NEW file \in File, HumanEdit(file) PROVE TypeOK' /\ WorkerOK'
  <2>1. WorkerOK'
    BY <1>25 DEF HumanEdit, WorkerOK, Effecting
  <2>2. budget' \in [{"moves", "edits", "choices", "faults"} -> Nat]
    BY <1>25, BudgetType DEF HumanEdit, TypeOK
  <2>3. QED
    BY <1>25, <2>1, <2>2 DEF HumanEdit, TypeOK
<1>26. ASSUME NEW b \in Effect, OwnerGone(b) PROVE TypeOK' /\ WorkerOK'
  <2>1. WorkerOK'
    BY <1>26 DEF OwnerGone, WorkerOK, Effecting
  <2>2. rows' \in [Effect -> Row]
    BY <1>26, RowChange DEF OwnerGone, TypeOK
  <2>3. QED
    BY <1>26, <2>1, <2>2 DEF OwnerGone, TypeOK
<1>27. ASSUME NEW b \in Effect, LeaseExpires(b) PROVE TypeOK' /\ WorkerOK'
  <2>1. WorkerOK'
    BY <1>27 DEF LeaseExpires, WorkerOK, Effecting
  <2>2. rows' \in [Effect -> Row]
    BY <1>27, RowChange DEF LeaseExpires, TypeOK
  <2>3. QED
    BY <1>27, <2>1, <2>2 DEF LeaseExpires, TypeOK
<1>28. ASSUME NEW b \in Effect, RetryDue(b) PROVE TypeOK' /\ WorkerOK'
  <2>1. WorkerOK'
    BY <1>28 DEF RetryDue, WorkerOK, Effecting
  <2>2. rows' \in [Effect -> Row]
    BY <1>28, RowChange DEF RetryDue, TypeOK
  <2>3. QED
    BY <1>28, <2>1, <2>2 DEF RetryDue, TypeOK
<1>29. CASE UNCHANGED vars
  BY <1>29 DEF vars, TypeOK, WorkerOK, Effecting
<1>30. QED
  BY <1>1, <1>2, <1>3, <1>4, <1>5, <1>6, <1>7, <1>8, <1>9, <1>10, <1>11,
     <1>12, <1>13, <1>14, <1>15, <1>16, <1>17, <1>18, <1>19, <1>20, <1>21,
     <1>22, <1>23, <1>24, <1>25, <1>26, <1>27, <1>28, <1>29
  DEF Next, SyncStep, ApplyStep, AdoptStep, DiscardStep, Fault, Person, Clock

\* Types, and what a command carries, are invariant.
LEMMA TypedStates == Spec => [](TypeOK /\ WorkerOK)
<1>1. Init => TypeOK /\ WorkerOK
  <2> SUFFICES ASSUME Init PROVE TypeOK /\ WorkerOK
    OBVIOUS
  <2>1. budget \in [{"moves", "edits", "choices", "faults"} -> Nat]
    BY DEF Init
  <2>2. rows \in [Effect -> Row]
    BY RowTypes DEF Init
  <2>3. memory \in [Source -> File] /\ consent \in File
    BY DEF Init, File
  <2>4. WorkerOK
    BY DEF Init, WorkerOK, Effecting, Idle
  <2>5. QED
    BY <2>1, <2>2, <2>3, <2>4, IdleType DEF Init, TypeOK
<1>2. QED
  BY <1>1, TypeStep, PTL DEF Spec

\* Every reachable state has the declared types.
THEOREM TypeCorrect == Spec => []TypeOK
BY TypedStates, PTL

-----------------------------------------------------------------------------
(* Effects.                                                                *)

\* A step that schedules nothing and, while an effect is under way, keeps
\* its row live.
LEMMA NoNewEffect ==
    ASSUME TypeOK, EffectInv, consent' = consent,
           Live(rows') \subseteq Live(rows),
           \A b \in Live(rows') : rows'[b].expects = rows[b].expects,
           \/ w'.pc \notin {"claiming", "applying", "writing", "settling"}
           \/ /\ Effecting /\ Key' = Key /\ Key \in Live(rows')
              /\ w'.mode = "discard" /\ w'.pc \in {"applying", "writing"} =>
                     /\ w.mode = "discard" /\ w.pc \in {"applying", "writing"}
                     /\ w'.expected = w.expected
    PROVE  EffectInv'
<1>1. AtMostOneLiveEffect'
  BY DEF EffectInv, AtMostOneLiveEffect
<1>2. KeyIsLive'
  BY DEF KeyIsLive, Effecting
<1>3. ConsentIsRecorded'
  BY DEF EffectInv, ConsentIsRecorded
<1>4. DiscardExpectsConsent'
  BY DEF EffectInv, DiscardExpectsConsent
<1>5. QED
  BY <1>1, <1>2, <1>3, <1>4 DEF EffectInv

\* The passage of time leaves the same rows live.
LEMMA ClockRows ==
    ASSUME rows \in [Effect -> Row], NEW b \in Effect,
           OwnerGone(b) \/ LeaseExpires(b) \/ RetryDue(b)
    PROVE  /\ Live(rows') = Live(rows)
           /\ \A c \in Effect : rows'[c].expects = rows[c].expects
BY DEF OwnerGone, LeaseExpires, RetryDue, Live, Row

\* Every step keeps the effects on the path in order.
LEMMA EffectStep ==
    TypeOK /\ WorkerOK /\ EffectInv /\ [Next]_vars => EffectInv'
<1> SUFFICES ASSUME TypeOK, WorkerOK, EffectInv, [Next]_vars
             PROVE  EffectInv'
  OBVIOUS
<1>1. ASSUME NEW s \in Source, SyncStart(s) PROVE EffectInv'
  <2>1. /\ Live(rows') \subseteq Live(rows)
        /\ \A b \in Live(rows') : rows'[b].expects = rows[b].expects
    <3>1. Incompatible(s) \subseteq Effect
      BY DEF Incompatible, Live
    <3>2. rows' \in {rows, Cancel(rows, Incompatible(s))}
      BY <1>1 DEF SyncStart
    <3>3. QED
      BY <3>1, <3>2, CancelLemma DEF TypeOK, Live
  <2>2. consent' = consent
    BY <1>1 DEF SyncStart
  <2>3. \/ w' = Idle
        \/ w' = [Idle EXCEPT !.pc = "planning", !.mode = "sync", !.src = s]
    BY <1>1 DEF SyncStart, Finish
  <2>4. w'.pc \in {"idle", "planning"}
    <3>1. CASE w' = Idle
      BY <3>1 DEF Idle
    <3>2. CASE w' = [Idle EXCEPT !.pc = "planning", !.mode = "sync",
                                 !.src = s]
      BY <3>2 DEF Idle
    <3>3. QED
      BY <2>3, <3>1, <3>2
  <2>5. QED
    BY <2>1, <2>2, <2>4, NoNewEffect
<1>2. ASSUME \/ PlanConflict \/ PipelineStops \/ CommitInPlace \/ CommitRefused
             \/ SkipEffect \/ AdoptRejected \/ AdoptCommit \/ DiscardRefused
      PROVE  EffectInv'
  <2>1. w' = Idle /\ consent' = consent /\ rows' = rows
    BY <1>2 DEF PlanConflict, PipelineStops, CommitInPlace, CommitRefused,
                SkipEffect, AdoptRejected, AdoptCommit, DiscardRefused, Finish
  <2>2. QED
    BY <2>1, NoNewEffect DEF Idle
<1>3. ASSUME PlanDocument \/ Draft PROVE EffectInv'
  <2>1. /\ w'.pc \in {"drafting", "committing"}
        /\ consent' = consent /\ rows' = rows
    BY <1>3 DEF PlanDocument, Draft, TypeOK, Worker
  <2>2. QED
    BY <2>1, NoNewEffect
<1>4. ASSUME DiscardStart \/ \E s \in Source : AdoptStart(s) PROVE EffectInv'
  <2>1. /\ w'.pc \in {"discarding", "adopting"}
        /\ consent' = consent /\ rows' = rows
    BY <1>4 DEF DiscardStart, AdoptStart, Idle
  <2>2. QED
    BY <2>1, NoNewEffect
<1>5. ASSUME SettleMaterialized \/ SettleHumanEdit \/ CompleteDiscard
      PROVE  EffectInv'
  <2>1. w' = Idle /\ consent' = consent /\ rows' = Complete(rows, Key)
    BY <1>5 DEF SettleMaterialized, SettleHumanEdit, CompleteDiscard, Finish
  <2>2. Key \in Effect
    BY <1>5, KeyType DEF SettleMaterialized, SettleHumanEdit, CompleteDiscard,
                         Effecting
  <2>3. /\ Live(rows') \subseteq Live(rows)
        /\ \A b \in Live(rows') : rows'[b].expects = rows[b].expects
    BY <2>1, <2>2, CompleteLemma DEF TypeOK, Live
  <2>4. QED
    BY <2>1, <2>3, NoNewEffect DEF Idle
<1>6. ASSUME ApplyFails PROVE EffectInv'
  <2>1. Key \in Effect /\ Key \in Live(rows)
    BY <1>6, KeyType DEF ApplyFails, Effecting, EffectInv, KeyIsLive
  <2>2. rows' \in {rows, Retry(rows, Key)}
    BY <1>6 DEF ApplyFails
  <2>3. /\ Live(rows') \subseteq Live(rows)
        /\ \A b \in Live(rows') : rows'[b].expects = rows[b].expects
    BY <2>1, <2>2, RetryLemma DEF TypeOK, Live
  <2>4. w' = Idle /\ consent' = consent
    BY <1>6 DEF ApplyFails, Finish
  <2>5. QED
    BY <2>3, <2>4, NoNewEffect DEF Idle
<1>7. ASSUME CommandStops PROVE EffectInv'
  <2>1. w' = Idle /\ consent' = consent /\ rows' = Left(rows)
    BY <1>7 DEF CommandStops, Finish
  <2>2. /\ Live(rows') \subseteq Live(rows)
        /\ \A b \in Live(rows') : rows'[b].expects = rows[b].expects
    BY <2>1, LeftLemma DEF TypeOK, Live
  <2>3. QED
    BY <2>1, <2>2, NoNewEffect DEF Idle
<1>8. ASSUME ClaimEffect PROVE EffectInv'
  <2>1. Key \in Effect /\ Key \in Live(rows) /\ Effecting
    BY <1>8, KeyType DEF ClaimEffect, Effecting, EffectInv, KeyIsLive
  <2>2. /\ rows' = Claim(rows, Key) /\ Claimable(rows, Key)
        /\ consent' = consent /\ w' = [w EXCEPT !.pc = "applying"]
    BY <1>8 DEF ClaimEffect
  <2>3. /\ Live(rows') = Live(rows)
        /\ \A b \in Live(rows') : rows'[b].expects = rows[b].expects
    BY <2>1, <2>2, ClaimLemma DEF TypeOK, Live
  <2>4. Key' = Key /\ w'.mode = "sync"
    BY <1>8, <2>2 DEF ClaimEffect, WorkerOK, Key, TypeOK, Worker
  <2>5. QED
    BY <2>1, <2>2, <2>3, <2>4, NoNewEffect
<1>9. ASSUME ApplyRead \/ ApplyWrite PROVE EffectInv'
  <2>1. Key \in Live(rows) /\ Effecting
    BY <1>9 DEF ApplyRead, ApplyWrite, Effecting, EffectInv, KeyIsLive
  <2>2. /\ w.pc \in {"applying", "writing"}
        /\ consent' = consent /\ rows' = rows
    BY <1>9 DEF ApplyRead, ApplyWrite
  <2>3. /\ w'.mode = w.mode /\ w'.desired = w.desired /\ w'.src = w.src
        /\ w'.expected = w.expected
    <3>1. CASE ApplyRead
      BY <3>1 DEF ApplyRead, TypeOK, Worker
    <3>2. CASE ApplyWrite
      BY <3>2 DEF ApplyWrite, TypeOK, Worker
    <3>3. QED
      BY <1>9, <3>1, <3>2
  <2>4. Key' = Key
    BY <2>3 DEF Key
  <2>5. QED
    BY <2>1, <2>2, <2>3, <2>4, NoNewEffect
<1>10. ASSUME \/ \E s \in Source : MoveSource(s)
              \/ \E file \in File : HumanEdit(file)
              \/ UNCHANGED vars
       PROVE  EffectInv'
  BY <1>10 DEF MoveSource, HumanEdit, vars, EffectInv, AtMostOneLiveEffect,
               KeyIsLive, Effecting, ConsentIsRecorded, DiscardExpectsConsent,
               Key
<1>11. ASSUME NEW b \in Effect, OwnerGone(b) \/ LeaseExpires(b) \/ RetryDue(b)
       PROVE  EffectInv'
  <2>1. w' = w /\ consent' = consent
    BY <1>11 DEF OwnerGone, LeaseExpires, RetryDue
  <2>2. /\ Live(rows') = Live(rows)
        /\ \A c \in Live(rows') : rows'[c].expects = rows[c].expects
    BY <1>11, ClockRows DEF TypeOK, Live
  <2>3. Key' = Key
    BY <2>1 DEF Key
  <2>4. QED
    BY <2>1, <2>2, <2>3 DEF EffectInv, AtMostOneLiveEffect, KeyIsLive,
         Effecting, ConsentIsRecorded, DiscardExpectsConsent
<1>12. ASSUME Commit PROVE EffectInv'
  <2>1. Key \in Effect /\ NoHash \in Hash /\ Key.op = "materialize"
    BY <1>12, KeyType DEF Commit, Hash, Key, WorkerOK
  <2>2. /\ rows' = Schedule(rows, Key, NoHash)
        /\ w'.mode = "sync" /\ Key' = Key
    BY <1>12 DEF Commit, WorkerOK, Key, TypeOK, Worker
  <2>3. Live(rows') = {Key}
    BY <2>1, <2>2, ScheduleLemma DEF TypeOK
  <2>4. QED
    BY <2>1, <2>2, <2>3 DEF EffectInv, AtMostOneLiveEffect, KeyIsLive,
         ConsentIsRecorded, DiscardExpectsConsent
<1>13. ASSUME BeginDiscard PROVE EffectInv'
  <2>1. Key \in Effect /\ HashOf(w.seen) \in Hash /\ Key.op = "discard"
    BY <1>13, KeyType DEF BeginDiscard, HashOf, Hash, Key, WorkerOK, TypeOK,
                          Worker, File
  <2>2. /\ rows' = Schedule(rows, Key, HashOf(w.seen))
        /\ consent' = IF Key \in Live(rows) THEN consent ELSE w.seen
        /\ w'.expected = rows'[Key].expects /\ Key' = Key
    BY <1>13 DEF BeginDiscard, Key, TypeOK, Worker
  <2>3. /\ Live(rows') = {Key}
        /\ rows'[Key].expects = IF Key \in Live(rows) THEN rows[Key].expects
                                                     ELSE HashOf(w.seen)
    BY <2>1, <2>2, ScheduleLemma DEF TypeOK
  <2>4. rows'[Key].expects = HashOf(consent')
    BY <2>1, <2>2, <2>3 DEF EffectInv, ConsentIsRecorded
  <2>5. QED
    BY <2>2, <2>3, <2>4 DEF EffectInv, AtMostOneLiveEffect, KeyIsLive,
         ConsentIsRecorded, DiscardExpectsConsent, HashOf
<1>14. QED
  BY <1>1, <1>2, <1>3, <1>4, <1>5, <1>6, <1>7, <1>8, <1>9, <1>10, <1>11,
     <1>12, <1>13
  DEF Next, SyncStep, ApplyStep, AdoptStep, DiscardStep, Fault, Person, Clock

\* The first two layers of the invariant hold of every reachable state.
LEMMA EffectsHold == Spec => [](TypeOK /\ WorkerOK /\ EffectInv)
<1>1. Init => EffectInv
  BY DEF Init, EffectInv, AtMostOneLiveEffect, KeyIsLive, ConsentIsRecorded,
         DiscardExpectsConsent, Effecting, Live, NoRow, Unowned, Idle
<1>2. QED
  BY <1>1, TypedStates, EffectStep, PTL DEF Spec

\* However commands are interrupted, repeated and mixed, and whatever the
\* sets of sources and contents, no two effects on the path are live.
THEOREM OneLiveEffect == Spec => []AtMostOneLiveEffect
BY EffectsHold, PTL DEF EffectInv

-----------------------------------------------------------------------------
(* The file and the canonical row.                                         *)

\* HashOf tells files apart.
LEMMA HashesDiffer ==
    /\ \A f, g \in File : HashOf(f) = HashOf(g) => f = g
    /\ \A f \in File : HashOf(f) = NoHash => f = NoText
    /\ \A f \in File : HashOf(f) # Vanished
    /\ \A c \in Content : HashOf(c) = c
BY DEF File, HashOf

\* What a command under way knows, and what holds whether or not one is.
WorkInv == /\ CanonIsDesired /\ ExpectsRecorded /\ SeenIsTarget
           /\ CurrentIsDesired /\ SeenIsUnexpected /\ WriteIsExpected

RestInv == RecordedIsKnown /\ ReportStands /\ MaterializedIsTrue

\* No command is under way that has read anything yet.
LEMMA NothingRead ==
    w'.pc \in {"idle", "planning"} => WorkInv'
BY DEF WorkInv, CanonIsDesired, ExpectsRecorded, SeenIsTarget,
       CurrentIsDesired, SeenIsUnexpected, WriteIsExpected, Effecting,
       SyncExpects, HasSeen

\* Neither the file nor the row nor their history is touched.
LEMMA NothingTouched ==
    RestInv /\ UNCHANGED <<target, canon, writer, reported>> => RestInv'
BY DEF RestInv, RecordedIsKnown, ReportStands, MaterializedIsTrue, HasCanon,
       ExpectedNow

\* What a command about to write, or to settle, knows of the row.
LEMMA RowFacts ==
    ASSUME TypeOK, WorkerOK, FileInv
    PROVE  /\ HasCanon => canon \in Canonical
           /\ Effecting => /\ canon \in Canonical /\ HasCanon
                           /\ canon.content = w.desired
                           /\ w.desired \in Content
BY DEF TypeOK, WorkerOK, HasCanon, FileInv, CanonIsDesired

\* The canonical row after a verified text was found or put in place.
LEMMA InPlaceRow ==
    ASSUME NEW c \in Content, NEW row,
           row.content = c, row.hash = c, row # NoCanon, canon' = row,
           target' \in File, writer' # "human" => target' = c,
           reported' # "plan"
    PROVE  RestInv'
BY HashesDiffer DEF RestInv, RecordedIsKnown, ReportStands, MaterializedIsTrue,
                    HasCanon

\* Every step keeps the file and the row in the relation FileInv states.
LEMMA FileStep ==
    TypeOK /\ WorkerOK /\ FileInv /\ [Next]_vars => FileInv'
<1> SUFFICES ASSUME TypeOK, WorkerOK, WorkInv, RestInv, FileInv, [Next]_vars
             PROVE  WorkInv' /\ RestInv'
  BY DEF FileInv, WorkInv, RestInv
<1>1. ASSUME NEW s \in Source, SyncStart(s) PROVE WorkInv' /\ RestInv'
  <2>1. UNCHANGED <<target, canon, writer, reported>>
    BY <1>1 DEF SyncStart
  <2>2. \/ w' = Idle
        \/ w' = [Idle EXCEPT !.pc = "planning", !.mode = "sync", !.src = s]
    BY <1>1 DEF SyncStart, Finish
  <2>3. w'.pc \in {"idle", "planning"}
    <3>1. CASE w' = Idle
      BY <3>1 DEF Idle
    <3>2. CASE w' = [Idle EXCEPT !.pc = "planning", !.mode = "sync",
                                 !.src = s]
      BY <3>2 DEF Idle
    <3>3. QED
      BY <2>2, <3>1, <3>2
  <2>4. QED
    BY <2>1, <2>3, NothingRead, NothingTouched
<1>2. ASSUME \/ PipelineStops \/ CommitRefused \/ SkipEffect
             \/ AdoptRejected \/ DiscardRefused \/ CommandStops
      PROVE  WorkInv' /\ RestInv'
  <2>1. w' = Idle /\ UNCHANGED <<target, canon, writer, reported>>
    BY <1>2 DEF PipelineStops, CommitRefused, SkipEffect, AdoptRejected,
                DiscardRefused, CommandStops, Finish
  <2>2. QED
    BY <2>1, NothingRead, NothingTouched DEF Idle
<1>3. ASSUME PlanConflict PROVE WorkInv' /\ RestInv'
  <2>1. w' = Idle /\ UNCHANGED <<target, canon, writer>>
    BY <1>3 DEF PlanConflict, Finish
  <2>2. HashOf(target) # ExpectedNow
    BY <1>3, HashesDiffer DEF PlanConflict, Diverges, ExpectedNow, TypeOK
  <2>3. RestInv'
    BY <2>1, <2>2 DEF RestInv, RecordedIsKnown, ReportStands,
                      MaterializedIsTrue, HasCanon, ExpectedNow
  <2>4. QED
    BY <2>1, <2>3, NothingRead DEF Idle
<1>4. ASSUME PlanDocument PROVE WorkInv' /\ RestInv'
  <2>1. /\ UNCHANGED <<target, canon, writer, reported>>
        /\ w'.pc = "drafting" /\ w'.expected = ExpectedNow
    BY <1>4 DEF PlanDocument, TypeOK, Worker, ExpectedNow
  <2>2. WorkInv'
    BY <2>1 DEF WorkInv, CanonIsDesired, ExpectsRecorded, SeenIsTarget,
                CurrentIsDesired, SeenIsUnexpected, WriteIsExpected,
                Effecting, HasSeen, ExpectedNow, HasCanon
  <2>3. QED
    BY <2>1, <2>2, NothingTouched
<1>5. ASSUME Draft PROVE WorkInv' /\ RestInv'
  <2>1. /\ UNCHANGED <<target, canon, writer, reported>>
        /\ w'.pc = "committing" /\ w'.expected = w.expected
        /\ w'.seen = target
    BY <1>5 DEF Draft, TypeOK, Worker
  <2>2. w.expected = ExpectedNow
    BY <1>5 DEF Draft, WorkInv, ExpectsRecorded, SyncExpects
  <2>3. WorkInv'
    BY <2>1, <2>2 DEF WorkInv, CanonIsDesired, ExpectsRecorded, SeenIsTarget,
                CurrentIsDesired, SeenIsUnexpected, WriteIsExpected,
                Effecting, HasSeen, ExpectedNow, HasCanon
  <2>4. QED
    BY <2>1, <2>3, NothingTouched
<1>6. ASSUME CommitInPlace PROVE WorkInv' /\ RestInv'
  <2>1. /\ w' = Idle /\ UNCHANGED <<target, writer>> /\ reported' = "none"
        /\ canon' = [NewCanon EXCEPT !.state = "materialized",
                                     !.hash = w.desired]
        /\ w.seen = Key.content /\ w.pc = "committing"
    BY <1>6 DEF CommitInPlace, AlreadyInPlace, Finish
  <2>2. w.desired \in Content /\ Key.content = w.desired
    BY <2>1 DEF WorkerOK, Key
  <2>3. writer' # "human" => target' = w.desired
    BY <2>1, <2>2 DEF WorkInv, SeenIsTarget, HasSeen
  <2>4. /\ canon'.content = w.desired /\ canon'.hash = w.desired
        /\ canon' # NoCanon
    BY <2>1, <2>2 DEF NewCanon, NoCanon
  <2>5. RestInv'
    BY <2>1, <2>2, <2>3, <2>4, InPlaceRow DEF TypeOK
  <2>6. QED
    BY <2>1, <2>5, NothingRead DEF Idle
<1>7. ASSUME Commit PROVE WorkInv' /\ RestInv'
  <2>1. /\ UNCHANGED <<target, writer, reported>>
        /\ w'.pc = "claiming" /\ w'.expected = w.expected
        /\ w'.desired = w.desired /\ w.desired \in Content
        /\ canon' = NewCanon
    BY <1>7 DEF Commit, TypeOK, Worker, WorkerOK
  <2>2. w.expected = ExpectedNow
    BY <1>7 DEF Commit, WorkInv, ExpectsRecorded, SyncExpects
  <2>3. /\ canon'.content = w.desired /\ canon'.hash = w.expected
        /\ canon'.state = "candidate" /\ canon' # NoCanon
    BY <2>1 DEF NewCanon, NoCanon
  <2>4. ExpectedNow' = ExpectedNow
    BY <2>2, <2>3 DEF ExpectedNow, HasCanon
  <2>5. WorkInv'
    BY <2>1, <2>2, <2>3, <2>4
    DEF WorkInv, CanonIsDesired, ExpectsRecorded, SeenIsTarget,
        CurrentIsDesired, SeenIsUnexpected, WriteIsExpected, HasSeen, HasCanon
  <2>6. RestInv'
    BY <2>1, <2>2, <2>3, <2>4
    DEF RestInv, RecordedIsKnown, ReportStands, MaterializedIsTrue, HasCanon,
        ExpectedNow
  <2>7. QED
    BY <2>5, <2>6
<1>8. ASSUME ClaimEffect PROVE WorkInv' /\ RestInv'
  <2>1. /\ UNCHANGED <<target, canon, writer, reported>>
        /\ w.pc = "claiming" /\ w'.pc = "applying"
        /\ w'.expected = w.expected /\ w'.desired = w.desired
    BY <1>8 DEF ClaimEffect, TypeOK, Worker
  <2>2. WorkInv'
    BY <2>1 DEF WorkInv, CanonIsDesired, ExpectsRecorded, SeenIsTarget,
                CurrentIsDesired, SeenIsUnexpected, WriteIsExpected, Effecting,
                SyncExpects, HasSeen, ExpectedNow, HasCanon
  <2>3. QED
    BY <2>1, <2>2, NothingTouched
<1>9. ASSUME ApplyRead PROVE WorkInv' /\ RestInv'
  <2>1. /\ UNCHANGED <<target, canon, writer, reported>>
        /\ w.pc = "applying" /\ w'.mode = w.mode
        /\ w'.expected = w.expected /\ w'.desired = w.desired
    BY <1>9 DEF ApplyRead, TypeOK, Worker
  <2>2. \/ w'.pc = "settling" /\ w'.result = "current" /\ target = w.desired
        \/ w'.pc = "writing" /\ HashOf(target) = w.expected
        \/ /\ w'.pc = "settling" /\ w'.result # "current" /\ w'.seen = target
           /\ HashOf(target) # w.expected
    BY <1>9 DEF ApplyRead, TypeOK, Worker
  <2>3. CanonIsDesired' /\ ExpectsRecorded'
    BY <2>1, <2>2 DEF WorkInv, CanonIsDesired, ExpectsRecorded, Effecting,
                      SyncExpects, ExpectedNow, HasCanon
  <2>4. /\ SeenIsTarget' /\ CurrentIsDesired' /\ SeenIsUnexpected'
        /\ WriteIsExpected'
    BY <2>1, <2>2 DEF SeenIsTarget, CurrentIsDesired, SeenIsUnexpected,
                      WriteIsExpected, HasSeen, HashOf
  <2>5. QED
    BY <2>1, <2>3, <2>4, NothingTouched DEF WorkInv
<1>10. ASSUME ApplyWrite PROVE WorkInv' /\ RestInv'
  <2>1. /\ canon' = canon /\ target' = w.desired /\ writer' = "fani"
        /\ reported' = "none" /\ w.pc = "writing" /\ w'.pc = "settling"
        /\ w'.result = "current" /\ w'.mode = w.mode
        /\ w'.expected = w.expected /\ w'.desired = w.desired
    BY <1>10 DEF ApplyWrite, TypeOK, Worker
  <2>2. WorkInv'
    BY <2>1 DEF WorkInv, CanonIsDesired, ExpectsRecorded, SeenIsTarget,
                CurrentIsDesired, SeenIsUnexpected, WriteIsExpected, Effecting,
                SyncExpects, HasSeen, ExpectedNow, HasCanon
  <2>3. RestInv'
    BY <2>1 DEF RestInv, RecordedIsKnown, ReportStands, MaterializedIsTrue,
                HasCanon, WorkInv, CanonIsDesired, Effecting
  <2>4. QED
    BY <2>2, <2>3
<1>11. ASSUME ApplyFails PROVE WorkInv' /\ RestInv'
  <2>1. canon' = canon /\ w' = Idle /\ w.pc = "writing"
    BY <1>11 DEF ApplyFails, Finish
  <2>2. \/ target' = w.desired /\ writer' = "fani" /\ reported' = "none"
        \/ UNCHANGED <<target, canon, writer, reported>>
    BY <1>11 DEF ApplyFails
  <2>3. RestInv'
    BY <2>1, <2>2, NothingTouched
    DEF RestInv, RecordedIsKnown, ReportStands, MaterializedIsTrue, HasCanon,
        WorkInv, CanonIsDesired, Effecting
  <2>4. QED
    BY <2>1, <2>3, NothingRead DEF Idle
<1>12. ASSUME SettleMaterialized \/ CompleteDiscard
       PROVE  WorkInv' /\ RestInv'
  <2>1. /\ w' = Idle /\ target' = target /\ reported' = "none"
        /\ canon' = [canon EXCEPT !.state = "materialized",
                                  !.hash = w.desired]
        /\ writer' = Recorded /\ w.pc = "settling" /\ w.result = "current"
    BY <1>12 DEF SettleMaterialized, CompleteDiscard, Finish
  <2>2. /\ canon \in Canonical /\ canon.content = w.desired
        /\ w.desired \in Content
    BY <2>1, RowFacts DEF Effecting
  <2>3. /\ canon'.content = w.desired /\ canon'.hash = w.desired
        /\ canon' # NoCanon
    BY <2>1, <2>2 DEF Canonical, NoCanon
  <2>4. writer' # "human" => target' = w.desired
    BY <2>1 DEF Recorded, WorkInv, CurrentIsDesired
  <2>5. RestInv'
    BY <2>1, <2>2, <2>3, <2>4, InPlaceRow DEF TypeOK
  <2>6. QED
    BY <2>1, <2>5, NothingRead DEF Idle
<1>13. ASSUME SettleHumanEdit PROVE WorkInv' /\ RestInv'
  <2>1. /\ w' = Idle /\ UNCHANGED <<target, writer>>
        /\ w.pc = "settling" /\ w.mode = "sync" /\ w.result # "current"
        /\ reported' = IF target = w.seen THEN "apply" ELSE reported
    BY <1>13 DEF SettleHumanEdit, Finish
  <2>2. canon \in Canonical
    BY <2>1, RowFacts DEF Effecting
  <2>3. canon'.state = "human_edit"
    BY <1>13, <2>2 DEF SettleHumanEdit, Canonical
  <2>4. writer # "recorded"
    BY <2>1 DEF WorkInv, RestInv, RecordedIsKnown, SeenIsTarget, HasSeen,
                SeenIsUnexpected, ExpectsRecorded, SyncExpects, ExpectedNow
  <2>5. reported' # "plan"
    BY <2>1 DEF WorkInv, SeenIsTarget, HasSeen
  <2>6. RestInv'
    BY <2>1, <2>3, <2>4, <2>5
    DEF RestInv, RecordedIsKnown, ReportStands, MaterializedIsTrue
  <2>7. QED
    BY <2>1, <2>6, NothingRead DEF Idle
<1>14. ASSUME NEW s \in Source, AdoptStart(s) PROVE WorkInv' /\ RestInv'
  <2>1. /\ UNCHANGED <<target, canon, writer, reported>>
        /\ w'.pc = "adopting" /\ w'.mode = "adopt" /\ w'.seen = target
    BY <1>14 DEF AdoptStart, Idle
  <2>2. WorkInv'
    BY <2>1 DEF WorkInv, CanonIsDesired, ExpectsRecorded, SeenIsTarget,
                CurrentIsDesired, SeenIsUnexpected, WriteIsExpected, Effecting,
                SyncExpects, HasSeen
  <2>3. QED
    BY <2>1, <2>2, NothingTouched
<1>15. ASSUME AdoptCommit PROVE WorkInv' /\ RestInv'
  <2>1. /\ w' = Idle /\ target' = target
        /\ canon'.content = w.seen /\ canon'.hash = w.seen
        /\ canon'.state = "adopted"
        /\ w.seen \in Content /\ w.pc = "adopting"
    BY <1>15 DEF AdoptCommit, Finish, WorkerOK
  <2>2. canon' # NoCanon
    BY <2>1 DEF NoCanon
  <2>3. \/ target' = w.seen /\ reported' = "none"
        \/ writer' = "human" /\ reported' = "none"
    BY <1>15, <2>1 DEF AdoptCommit, WorkInv, SeenIsTarget, HasSeen
  <2>4. RestInv'
    BY <2>1, <2>2, <2>3, InPlaceRow DEF TypeOK
  <2>5. QED
    BY <2>1, <2>4, NothingRead DEF Idle
<1>16. ASSUME DiscardStart PROVE WorkInv' /\ RestInv'
  <2>1. /\ UNCHANGED <<target, canon, writer, reported>>
        /\ w'.pc = "discarding" /\ w'.mode = "discard"
        /\ HasCanon /\ w'.desired = canon.content
    BY <1>16 DEF DiscardStart, Idle
  <2>2. WorkInv'
    BY <2>1 DEF WorkInv, CanonIsDesired, ExpectsRecorded, SeenIsTarget,
                CurrentIsDesired, SeenIsUnexpected, WriteIsExpected, Effecting,
                SyncExpects, HasSeen, HasCanon
  <2>3. QED
    BY <2>1, <2>2, NothingTouched
<1>17. ASSUME BeginDiscard PROVE WorkInv' /\ RestInv'
  <2>1. /\ UNCHANGED <<target, canon, writer, reported>>
        /\ w.pc = "discarding" /\ w'.pc = "applying" /\ w'.mode = "discard"
        /\ w'.desired = w.desired
    BY <1>17 DEF BeginDiscard, TypeOK, Worker, WorkerOK
  <2>2. WorkInv'
    BY <2>1 DEF WorkInv, CanonIsDesired, ExpectsRecorded, SeenIsTarget,
                CurrentIsDesired, SeenIsUnexpected, WriteIsExpected, Effecting,
                SyncExpects, HasSeen, HasCanon
  <2>3. QED
    BY <2>1, <2>2, NothingTouched
<1>18. ASSUME NEW file \in File, HumanEdit(file) PROVE WorkInv' /\ RestInv'
  <2>1. /\ UNCHANGED <<canon, w>> /\ writer' = "human" /\ reported' = "none"
        /\ w.pc = "writing" => EditsDuringRename
    BY <1>18 DEF HumanEdit
  <2>2. WorkInv'
    BY <2>1 DEF WorkInv, CanonIsDesired, ExpectsRecorded, SeenIsTarget,
                CurrentIsDesired, SeenIsUnexpected, WriteIsExpected, Effecting,
                SyncExpects, HasSeen, HasCanon, ExpectedNow, HashOf
  <2>3. RestInv'
    BY <2>1 DEF RestInv, RecordedIsKnown, ReportStands, MaterializedIsTrue
  <2>4. QED
    BY <2>2, <2>3
<1>19. ASSUME \/ \E s \in Source : MoveSource(s)
              \/ Clock \/ UNCHANGED vars
       PROVE  WorkInv' /\ RestInv'
  <2>1. UNCHANGED <<target, canon, w, writer, reported>>
    BY <1>19 DEF MoveSource, Clock, OwnerGone, LeaseExpires, RetryDue, vars
  <2>2. WorkInv'
    BY <2>1 DEF WorkInv, CanonIsDesired, ExpectsRecorded, SeenIsTarget,
                CurrentIsDesired, SeenIsUnexpected, WriteIsExpected, Effecting,
                SyncExpects, HasSeen, HasCanon, ExpectedNow
  <2>3. QED
    BY <2>1, <2>2, NothingTouched
<1>20. QED
  BY <1>1, <1>2, <1>3, <1>4, <1>5, <1>6, <1>7, <1>8, <1>9, <1>10, <1>11,
     <1>12, <1>13, <1>14, <1>15, <1>16, <1>17, <1>18, <1>19
  DEF Next, SyncStep, ApplyStep, AdoptStep, DiscardStep, Fault, Person

\* The inductive invariant.
Inv == TypeOK /\ WorkerOK /\ EffectInv /\ FileInv

\* All three layers hold of every reachable state.
LEMMA InvHolds == Spec => []Inv
<1>1. Init => FileInv
  BY DEF Init, FileInv, CanonIsDesired, ExpectsRecorded, SeenIsTarget,
         CurrentIsDesired, SeenIsUnexpected, WriteIsExpected, RecordedIsKnown,
         ReportStands, MaterializedIsTrue, Effecting, SyncExpects, HasSeen,
         HasCanon, Idle
<1>2. QED
  BY <1>1, EffectsHold, FileStep, PTL DEF Spec, Inv

\* A canonical row that says "materialized" tells the truth, for every set
\* of sources and contents and every number of edits, moves and faults.
THEOREM MaterializedTruth == Spec => []MaterializedIsTrue
BY InvHolds, PTL DEF Inv, FileInv

-----------------------------------------------------------------------------
(* What a step may never do.                                               *)

\* Only two stages report a target, and none reports one that is recorded.
LEMMA ReportStep ==
    Inv /\ [Next]_vars =>
        (reported' # reported /\ reported' # "none" => writer # "recorded")
<1> SUFFICES ASSUME Inv, [Next]_vars, reported' # reported, reported' # "none"
             PROVE  writer # "recorded"
  OBVIOUS
<1> USE DEF Inv, FileInv
<1>1. PlanConflict \/ SettleHumanEdit
  BY DEF Next, SyncStep, ApplyStep, AdoptStep, DiscardStep, Fault, Person,
         Clock, vars, SyncStart, PlanDocument, PipelineStops, Draft,
         CommitInPlace, Commit, CommitRefused, ClaimEffect, SkipEffect,
         ApplyRead, ApplyWrite, ApplyFails, SettleMaterialized, AdoptStart,
         AdoptRejected, AdoptCommit, DiscardStart, BeginDiscard,
         DiscardRefused, CompleteDiscard, CommandStops, MoveSource, HumanEdit,
         OwnerGone, LeaseExpires, RetryDue
<1>2. CASE PlanConflict
  BY <1>2 DEF PlanConflict, Diverges, RecordedIsKnown
<1>3. CASE SettleHumanEdit
  BY <1>3 DEF SettleHumanEdit, RecordedIsKnown, SeenIsTarget, HasSeen,
              SeenIsUnexpected, ExpectsRecorded, SyncExpects, ExpectedNow
<1>4. QED
  BY <1>1, <1>2, <1>3

\* fani never reports as a human edit a file whose last write it recorded.
THEOREM OwnWrites == Spec => OwnWriteIsNoConflict
BY InvHolds, ReportStep, PTL DEF Spec, OwnWriteIsNoConflict

\* Files are replaced by the second half of apply only, and if nobody edits
\* between the halves, the file then still has the hash that was expected.
LEMMA WriteStep ==
    ASSUME Inv, [Next]_vars, target' # target, writer' = "fani",
           ~EditsDuringRename
    PROVE  w.pc = "writing" /\ HashOf(target) = w.expected
<1>1. ApplyWrite \/ ApplyFails
  BY DEF Next, SyncStep, ApplyStep, AdoptStep, DiscardStep, Fault, Person,
         Clock, vars, SyncStart, PlanConflict, PlanDocument, PipelineStops,
         Draft, CommitInPlace, Commit, CommitRefused, ClaimEffect, SkipEffect,
         ApplyRead, SettleMaterialized, SettleHumanEdit, AdoptStart,
         AdoptRejected, AdoptCommit, DiscardStart, BeginDiscard,
         DiscardRefused, CompleteDiscard, CommandStops, MoveSource, HumanEdit,
         OwnerGone, LeaseExpires, RetryDue
<1>2. w.pc = "writing"
  BY <1>1 DEF ApplyWrite, ApplyFails
<1>3. QED
  BY <1>2 DEF Inv, FileInv, WriteIsExpected

\* Where people do not edit within the instant between apply's comparison
\* and its rename, no sync overwrites a target that planning reported.
THEOREM PlannedConflicts ==
    ~EditsDuringRename => (Spec => PlannedConflictIsKept)
<1> SUFFICES ASSUME ~EditsDuringRename PROVE Spec => PlannedConflictIsKept
  OBVIOUS
<1>1. Inv /\ [Next]_vars => (FaniWrites("sync") => reported # "plan")
  <2> SUFFICES ASSUME Inv, [Next]_vars, FaniWrites("sync")
               PROVE  reported # "plan"
    OBVIOUS
  <2>1. w.pc = "writing" /\ HashOf(target) = w.expected /\ w.mode = "sync"
    BY WriteStep DEF FaniWrites
  <2>2. QED
    BY <2>1 DEF Inv, FileInv, ExpectsRecorded, SyncExpects, ReportStands
<1>2. QED
  BY <1>1, InvHolds, PTL DEF Spec, PlannedConflictIsKept

\* Under the same condition a discard overwrites only the target its person
\* saw when the discard was first recorded.
THEOREM Discards ==
    ~EditsDuringRename => (Spec => DiscardOnlyWhatWasSeen)
<1> SUFFICES ASSUME ~EditsDuringRename PROVE Spec => DiscardOnlyWhatWasSeen
  OBVIOUS
<1>1. Inv /\ [Next]_vars => (FaniWrites("discard") => target = consent)
  <2> SUFFICES ASSUME Inv, [Next]_vars, FaniWrites("discard")
               PROVE  target = consent
    OBVIOUS
  <2>1. w.pc = "writing" /\ HashOf(target) = w.expected /\ w.mode = "discard"
    BY WriteStep DEF FaniWrites
  <2>2. HashOf(target) = HashOf(consent)
    BY <2>1 DEF Inv, EffectInv, DiscardExpectsConsent
  <2>3. QED
    BY <2>2, HashesDiffer DEF Inv, TypeOK
<1>2. QED
  BY <1>1, InvHolds, PTL DEF Spec, DiscardOnlyWhatWasSeen

-----------------------------------------------------------------------------
(* Where texts come from.                                                  *)

\* Every step keeps the origin of the texts in the row known.
LEMMA OriginStep == Inv /\ OriginInv /\ [Next]_vars => OriginInv'
<1> SUFFICES ASSUME Inv, OriginInv, [Next]_vars PROVE OriginInv'
  OBVIOUS
<1>1. told \subseteq told'
  BY DEF Next, SyncStep, ApplyStep, AdoptStep, DiscardStep, Fault, Person,
         Clock, vars, SyncStart, PlanConflict, PlanDocument, PipelineStops,
         Draft, CommitInPlace, Commit, CommitRefused, ClaimEffect, SkipEffect,
         ApplyRead, ApplyWrite, ApplyFails, SettleMaterialized,
         SettleHumanEdit, AdoptStart, AdoptRejected, AdoptCommit,
         DiscardStart, BeginDiscard, DiscardRefused, CompleteDiscard,
         CommandStops, MoveSource, HumanEdit, OwnerGone, LeaseExpires,
         RetryDue
<1>2. CASE Draft
  <2>1. /\ canon' = canon /\ memory' = memory /\ w'.desired = Desired(w.src)
        /\ w.src \in Source
    BY <1>2 DEF Draft, Inv, TypeOK, Worker, WorkerOK
  <2>2. Desired(w.src) \in KnownTexts
    BY <2>1 DEF Desired, KnownTexts
  <2>3. KnownTexts' = KnownTexts
    BY <2>1 DEF KnownTexts
  <2>4. QED
    BY <1>1, <2>1, <2>2, <2>3 DEF OriginInv, CanonIsKnown, DesiredIsKnown,
                                  HasCanon
<1>3. CASE CommitInPlace \/ Commit
  <2>1. w.desired \in KnownTexts /\ memory' = memory
    BY <1>3 DEF CommitInPlace, Commit, OriginInv, DesiredIsKnown
  <2>2. w'.pc # "committing"
    <3>1. CASE CommitInPlace
      BY <3>1 DEF CommitInPlace, Finish, Idle
    <3>2. CASE Commit
      BY <3>2 DEF Commit, Inv, TypeOK, Worker
    <3>3. QED
      BY <1>3, <3>1, <3>2
  <2>3. KnownTexts' = KnownTexts
    BY <2>1 DEF KnownTexts
  <2>4. w.expected \in KnownTexts \cup told \cup {NoHash, Vanished}
    BY <1>3 DEF CommitInPlace, Commit, Inv, FileInv, ExpectsRecorded,
                SyncExpects, ExpectedNow, OriginInv, CanonIsKnown
  <2>5. canon'.content = w.desired /\ canon'.hash \in {w.desired, w.expected}
    <3>1. CASE CommitInPlace
      <4>1. canon' = [NewCanon EXCEPT !.state = "materialized",
                                     !.hash = w.desired]
        BY <3>1 DEF CommitInPlace
      <4>2. QED
        BY <4>1 DEF NewCanon
    <3>2. CASE Commit
      <4>1. canon' = NewCanon
        BY <3>2 DEF Commit
      <4>2. QED
        BY <4>1 DEF NewCanon
    <3>3. QED
      BY <1>3, <3>1, <3>2
  <2>6. QED
    BY <1>1, <2>1, <2>2, <2>3, <2>4, <2>5 DEF OriginInv, CanonIsKnown,
                                              DesiredIsKnown
<1>4. CASE SettleMaterialized \/ CompleteDiscard
  <2>1. /\ w' = Idle /\ memory' = memory
        /\ canon' = [canon EXCEPT !.state = "materialized",
                                  !.hash = w.desired]
        /\ canon \in Canonical /\ canon.content = w.desired /\ HasCanon
    BY <1>4, RowFacts DEF SettleMaterialized, CompleteDiscard, Finish,
                          Effecting, Inv
  <2>2. KnownTexts' = KnownTexts
    BY <2>1 DEF KnownTexts
  <2>3. canon'.content = canon.content /\ canon'.hash = canon.content
    BY <2>1 DEF Canonical
  <2>4. QED
    BY <1>1, <2>1, <2>2, <2>3 DEF OriginInv, CanonIsKnown, DesiredIsKnown,
                                  Idle
<1>5. CASE SettleHumanEdit
  <2>1. /\ w' = Idle /\ memory' = memory /\ w.seen \in told'
        /\ canon \in Canonical /\ HasCanon
    BY <1>5, RowFacts DEF SettleHumanEdit, Finish, Effecting, Inv
  <2>2. KnownTexts' = KnownTexts
    BY <2>1 DEF KnownTexts
  <2>3. canon'.content = canon.content /\ canon'.hash \in {Vanished, w.seen}
    BY <1>5, <2>1 DEF SettleHumanEdit, Canonical
  <2>4. QED
    BY <1>1, <2>1, <2>2, <2>3 DEF OriginInv, CanonIsKnown, DesiredIsKnown,
                                  Idle
<1>6. CASE AdoptCommit
  <2>1. /\ w' = Idle /\ memory' = [memory EXCEPT ![w.src] = w.seen]
        /\ canon'.content = w.seen /\ canon'.hash = w.seen
        /\ w.src \in Source
    BY <1>6 DEF AdoptCommit, Finish, Inv, WorkerOK
  <2>2. w.seen \in KnownTexts'
    BY <2>1 DEF KnownTexts, Inv, TypeOK
  <2>3. QED
    BY <2>1, <2>2 DEF OriginInv, CanonIsKnown, DesiredIsKnown, Idle
<1>7. CASE /\ canon' = canon /\ memory' = memory
           /\ w'.pc = "committing" => UNCHANGED w
  <2>1. KnownTexts' = KnownTexts
    BY <1>7 DEF KnownTexts
  <2>2. QED
    BY <1>1, <1>7, <2>1 DEF OriginInv, CanonIsKnown, DesiredIsKnown, HasCanon
<1>8. ASSUME ~Draft, ~CommitInPlace, ~Commit, ~SettleMaterialized,
             ~CompleteDiscard, ~SettleHumanEdit, ~AdoptCommit
      PROVE  /\ canon' = canon /\ memory' = memory
             /\ w'.pc = "committing" => UNCHANGED w
  <2>1. canon' = canon /\ memory' = memory
    BY <1>8 DEF Next, SyncStep, ApplyStep, AdoptStep, DiscardStep, Fault,
         Person, Clock, vars, SyncStart, PlanConflict, PlanDocument,
         PipelineStops, CommitRefused, ClaimEffect, SkipEffect, ApplyRead,
         ApplyWrite, ApplyFails, AdoptStart, AdoptRejected, DiscardStart,
         BeginDiscard, DiscardRefused, CommandStops, MoveSource, HumanEdit,
         OwnerGone, LeaseExpires, RetryDue
  <2>2. \/ w'.pc # "committing"
        \/ UNCHANGED w
    <3>1. ASSUME NEW s \in Source, SyncStart(s) PROVE w'.pc # "committing"
      <4>1. CASE w' = Idle
        BY <4>1 DEF Idle
      <4>2. CASE w' = [Idle EXCEPT !.pc = "planning", !.mode = "sync",
                                   !.src = s]
        BY <4>2 DEF Idle
      <4>3. QED
        BY <3>1, <4>1, <4>2 DEF SyncStart, Finish
    <3>2. CASE PlanConflict \/ PipelineStops \/ CommitRefused \/ SkipEffect
                 \/ ApplyFails \/ AdoptRejected \/ DiscardRefused
                 \/ CommandStops
      BY <3>2 DEF PlanConflict, PipelineStops, CommitRefused, SkipEffect,
           ApplyFails, AdoptRejected, DiscardRefused, CommandStops, Finish,
           Idle
    <3>3. CASE PlanDocument \/ ClaimEffect \/ ApplyRead \/ ApplyWrite
                 \/ BeginDiscard
      BY <3>3 DEF PlanDocument, ClaimEffect, ApplyRead, ApplyWrite,
           BeginDiscard, Inv, TypeOK, Worker
    <3>4. CASE DiscardStart \/ \E s \in Source : AdoptStart(s)
      BY <3>4 DEF DiscardStart, AdoptStart, Idle
    <3>5. CASE \/ \E s \in Source : MoveSource(s)
               \/ \E file \in File : HumanEdit(file)
               \/ Clock \/ UNCHANGED vars
      BY <3>5 DEF MoveSource, HumanEdit, Clock, OwnerGone, LeaseExpires,
           RetryDue, vars
    <3>6. QED
      BY <1>8, <3>1, <3>2, <3>3, <3>4, <3>5
      DEF Next, SyncStep, ApplyStep, AdoptStep, DiscardStep, Fault, Person
  <2>3. QED
    BY <2>1, <2>2
<1>9. QED
  BY <1>2, <1>3, <1>4, <1>5, <1>6, <1>7, <1>8

\* In every reachable state the texts in the row have a known origin.
LEMMA OriginHolds == Spec => [](Inv /\ OriginInv)
<1>1. Init => OriginInv
  BY DEF Init, OriginInv, CanonIsKnown, DesiredIsKnown, HasCanon, Idle
<1>2. QED
  BY <1>1, InvHolds, OriginStep, PTL DEF Spec

\* Under the same condition, text of people that was neither adopted nor
\* reported by the check before a write is not overwritten by a sync.
THEOREM HumanTexts ==
    ~EditsDuringRename => (Spec => HumanTextIsKept)
<1> SUFFICES ASSUME ~EditsDuringRename PROVE Spec => HumanTextIsKept
  OBVIOUS
<1>1. Inv /\ OriginInv /\ [Next]_vars =>
          (FaniWrites("sync") => target \in KnownTexts \cup told)
  <2> SUFFICES ASSUME Inv, OriginInv, [Next]_vars, FaniWrites("sync")
               PROVE  target \in KnownTexts \cup told
    OBVIOUS
  <2>1. w.pc = "writing" /\ HashOf(target) = w.expected /\ w.mode = "sync"
    BY WriteStep DEF FaniWrites
  <2>2. HasCanon /\ HashOf(target) = canon.hash
    BY <2>1 DEF Inv, FileInv, ExpectsRecorded, SyncExpects, ExpectedNow,
                CanonIsDesired, Effecting
  <2>3. HashOf(target) \in KnownTexts \cup told \cup {NoHash}
    BY <2>2, HashesDiffer DEF OriginInv, CanonIsKnown, Inv, TypeOK
  <2>4. QED
    BY <2>3, HashesDiffer DEF Inv, TypeOK, HashOf, KnownTexts
<1>2. QED
  BY <1>1, OriginHolds, PTL DEF Spec, HumanTextIsKept

-----------------------------------------------------------------------------
(* What a sync that ended "ok" leaves behind.                              *)

\* "ok" is said of a command that is over.
OkInv == /\ w.pc # "idle" => ok = FALSE
         /\ w.pc = "claiming" => canon.src = w.src
         /\ OkIsMaterializedOrQueued

\* Every step keeps what "ok" stands for.
LEMMA OkStep == Inv /\ OkInv /\ [Next]_vars => OkInv'
<1> SUFFICES ASSUME Inv, OkInv, [Next]_vars PROVE OkInv'
  OBVIOUS
<1>1. CASE ok' = FALSE /\ w'.pc # "claiming"
  BY <1>1 DEF OkInv, OkIsMaterializedOrQueued
<1>2. ASSUME \/ PlanConflict \/ PipelineStops \/ CommitRefused \/ ApplyFails
             \/ SettleHumanEdit \/ AdoptRejected \/ AdoptCommit
             \/ DiscardRefused \/ CompleteDiscard \/ CommandStops
      PROVE  OkInv'
  <2>1. w' = Idle /\ ok' = FALSE
    BY <1>2 DEF PlanConflict, PipelineStops, CommitRefused, ApplyFails,
         SettleHumanEdit, AdoptRejected, AdoptCommit, DiscardRefused,
         CompleteDiscard, CommandStops, Finish
  <2>2. QED
    BY <1>1, <2>1 DEF Idle
<1>3. ASSUME NEW s \in Source, SyncStart(s) PROVE OkInv'
  <2>1. ok' = FALSE
    BY <1>3 DEF SyncStart, Finish
  <2>2. CASE w' = Idle
    BY <1>1, <2>1, <2>2 DEF Idle
  <2>3. CASE w' = [Idle EXCEPT !.pc = "planning", !.mode = "sync", !.src = s]
    BY <1>1, <2>1, <2>3 DEF Idle
  <2>4. QED
    BY <1>3, <2>2, <2>3 DEF SyncStart, Finish
<1>4. ASSUME DiscardStart \/ \E s \in Source : AdoptStart(s) PROVE OkInv'
  BY <1>1, <1>4 DEF DiscardStart, AdoptStart, Idle
<1>5. ASSUME PlanDocument \/ Draft \/ ClaimEffect \/ ApplyRead \/ ApplyWrite
                \/ BeginDiscard
      PROVE  OkInv'
  <2>1. ok' = ok /\ w.pc # "idle"
    BY <1>5 DEF PlanDocument, Draft, ClaimEffect, ApplyRead, ApplyWrite,
                BeginDiscard
  <2>2. w'.pc # "claiming"
    BY <1>5 DEF PlanDocument, Draft, ClaimEffect, ApplyRead, ApplyWrite,
                BeginDiscard, Inv, TypeOK, Worker
  <2>3. QED
    BY <1>1, <2>1, <2>2 DEF OkInv
<1>6. ASSUME Commit PROVE OkInv'
  <2>1. ok' = ok /\ w.pc # "idle" /\ canon' = NewCanon /\ w'.src = w.src
    BY <1>6 DEF Commit, Inv, TypeOK, Worker
  <2>2. QED
    BY <2>1 DEF OkInv, OkIsMaterializedOrQueued, NewCanon
<1>7. ASSUME CommitInPlace PROVE OkInv'
  <2>1. w' = Idle /\ canon' = [NewCanon EXCEPT !.state = "materialized",
                                              !.hash = w.desired]
    BY <1>7 DEF CommitInPlace, Finish
  <2>2. canon'.state = "materialized"
    BY <2>1 DEF NewCanon
  <2>3. QED
    BY <2>1, <2>2 DEF OkInv, OkIsMaterializedOrQueued, Idle
<1>8. ASSUME SettleMaterialized PROVE OkInv'
  <2>1. w' = Idle /\ canon' = [canon EXCEPT !.state = "materialized",
                                           !.hash = w.desired]
          /\ canon \in Canonical
    BY <1>8, RowFacts DEF SettleMaterialized, Finish, Effecting, Inv
  <2>2. canon'.state = "materialized"
    BY <2>1 DEF Canonical
  <2>3. QED
    BY <2>1, <2>2 DEF OkInv, OkIsMaterializedOrQueued, Idle
<1>9. ASSUME SkipEffect PROVE OkInv'
  <2>1. /\ w' = Idle /\ canon' = canon /\ rows' = rows
        /\ w.pc = "claiming" /\ w.mode = "sync"
    BY <1>9 DEF SkipEffect, Finish, Inv, WorkerOK
  <2>2. /\ Key \in Live(rows) /\ canon.content = w.desired
        /\ canon.src = w.src
    BY <2>1, RowFacts DEF Inv, EffectInv, KeyIsLive, Effecting, OkInv
  <2>3. Key = [op |-> "materialize", content |-> canon.content,
               src |-> canon.src]
    BY <2>1, <2>2 DEF Key
  <2>4. OkIsMaterializedOrQueued'
    BY <2>1, <2>2, <2>3 DEF OkIsMaterializedOrQueued
  <2>5. QED
    BY <2>1, <2>4 DEF OkInv, Idle
<1>10. ASSUME NEW b \in Effect, OwnerGone(b) \/ LeaseExpires(b) \/ RetryDue(b)
       PROVE  OkInv'
  <2>1. Live(rows') = Live(rows)
    BY <1>10, ClockRows DEF Inv, TypeOK
  <2>2. UNCHANGED <<w, canon, ok>>
    BY <1>10 DEF OwnerGone, LeaseExpires, RetryDue
  <2>3. QED
    BY <2>1, <2>2 DEF OkInv, OkIsMaterializedOrQueued
<1>11. ASSUME \/ \E s \in Source : MoveSource(s)
              \/ \E file \in File : HumanEdit(file)
              \/ UNCHANGED vars
       PROVE  OkInv'
  <2>1. UNCHANGED <<w, canon, ok, rows>>
    BY <1>11 DEF MoveSource, HumanEdit, vars
  <2>2. QED
    BY <2>1 DEF OkInv, OkIsMaterializedOrQueued
<1>12. QED
  BY <1>2, <1>3, <1>4, <1>5, <1>6, <1>7, <1>8, <1>9, <1>10, <1>11
  DEF Next, SyncStep, ApplyStep, AdoptStep, DiscardStep, Fault, Person, Clock

\* A sync that ended "ok" has materialized the document, or the effect that
\* will do so is in the table and live.
THEOREM OkEffects == Spec => []OkIsMaterializedOrQueued
<1>1. Init => OkInv
  BY DEF Init, OkInv, OkIsMaterializedOrQueued, Idle
<1>2. QED
  BY <1>1, InvHolds, OkStep, PTL DEF Spec, OkInv
=============================================================================
