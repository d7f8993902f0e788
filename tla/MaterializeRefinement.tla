----------------------- MODULE MaterializeRefinement -----------------------
(***************************************************************************)
(* Materialize implements TargetFile where nobody edits within the instant *)
(* between apply's comparison and its rename, for every set of sources and *)
(* contents and for every value of the bounds.                             *)
(*                                                                         *)
(* A step either leaves the file alone, and then it may only change the    *)
(* intent on record, of which there is one at most (OneIntent); or it is a *)
(* person's edit; or it is a rename, and then the row of its own key says  *)
(* what is written over what (OwnIntent).                                  *)
(***************************************************************************)
EXTENDS MaterializeProofs

USE MaterializeAssumption

Intents == {IntentOf(b) : b \in Live(rows)}
Edits == MaxEdits - budget.edits
View == <<HashOf(target), Edits, Intents>>

\* What applies an effect is a sync or a discard.
ModeOK == w.pc \in {"applying", "writing"} => w.mode \in {"sync", "discard"}

LEMMA ModeStep == TypeOK /\ WorkerOK /\ ModeOK /\ [Next]_vars => ModeOK'
<1> SUFFICES ASSUME TypeOK, WorkerOK, ModeOK, [Next]_vars PROVE ModeOK'
  OBVIOUS
<1>1. CASE ClaimEffect \/ BeginDiscard
  BY <1>1 DEF ClaimEffect, BeginDiscard, TypeOK, WorkerOK, Worker, ModeOK
<1>2. CASE ApplyRead \/ ApplyWrite
  BY <1>2 DEF ApplyRead, ApplyWrite, TypeOK, Worker, ModeOK
<1>3. CASE w' = w
  BY <1>3 DEF ModeOK
<1>4. CASE w' = Idle
  BY <1>4 DEF Idle, ModeOK
<1>5. CASE \E s \in Source : SyncStart(s) \/ AdoptStart(s)
  BY <1>4, <1>5 DEF SyncStart, AdoptStart, Finish, Idle, ModeOK
<1>6. CASE PlanDocument \/ Draft \/ Commit \/ DiscardStart
  BY <1>6 DEF PlanDocument, Draft, Commit, DiscardStart, TypeOK, Worker, Idle,
     ModeOK
<1>7. CASE PlanConflict \/ CommitInPlace \/ CommitRefused \/ SkipEffect
             \/ SettleMaterialized \/ SettleHumanEdit \/ AdoptStep
             \/ DiscardRefused \/ CompleteDiscard \/ Fault
  BY <1>4, <1>7 DEF PlanConflict, CommitInPlace, CommitRefused, SkipEffect,
     SettleMaterialized, SettleHumanEdit, AdoptStep, AdoptRejected,
     AdoptCommit, DiscardRefused, CompleteDiscard, Fault, PipelineStops,
     ApplyFails, CommandStops, Finish
<1>8. CASE \/ Clock \/ UNCHANGED vars
           \/ \E s \in Source : MoveSource(s)
           \/ \E file \in File : HumanEdit(file)
  BY <1>3, <1>8 DEF Clock, OwnerGone, LeaseExpires, RetryDue, vars,
     MoveSource, HumanEdit
<1> QED
  BY <1>1, <1>2, <1>5, <1>6, <1>7, <1>8
     DEF Next, SyncStep, ApplyStep, DiscardStep, Person

LEMMA ModeHolds == Spec => []ModeOK
<1>1. Init => ModeOK
  BY DEF Init, Idle, ModeOK
<1>2. QED
  BY <1>1, ModeStep, InvHolds, PTL DEF Spec, Inv

-----------------------------------------------------------------------------
(* Intents.                                                                *)

LEMMA IntentType ==
    ASSUME TypeOK, NEW b \in Live(rows)
    PROVE  IntentOf(b) \in Outside!Intent
<1>1. b \in Effect /\ rows[b].expects \in Hash /\ b.content \in Content
  BY DEF TypeOK, Live, Row, Effect
<1>2. HasCanon => canon.hash \in Hash
  BY DEF TypeOK, HasCanon, Canonical
<1>3. NoHash \in Hash
  BY DEF Hash
<1>4. IntentOf(b).from \in Hash /\ IntentOf(b).text \in Content
  BY <1>1, <1>2, <1>3 DEF IntentOf
<1> QED
  BY <1>4 DEF IntentOf, Outside!Intent

\* One intent on record, or none.
OneAtMost == Intents = {} \/ Intents \in {{i} : i \in Outside!Intent}

LEMMA OneIntent == Inv => OneAtMost
<1> SUFFICES ASSUME TypeOK, AtMostOneLiveEffect PROVE OneAtMost
  BY DEF Inv, EffectInv
<1> USE DEF OneAtMost
<1>1. CASE Live(rows) = {}
  BY <1>1 DEF Intents
<1>2. CASE Live(rows) # {}
  <2>1. PICK b \in Live(rows) : Live(rows) = {b}
    BY <1>2 DEF AtMostOneLiveEffect
  <2>2. Intents = {IntentOf(b)}
    BY <2>1 DEF Intents
  <2>3. QED
    BY <2>2, IntentType
<1> QED
  BY <1>1, <1>2

\* What a command is about to write is what the row of its key says.
LEMMA OwnIntent ==
    ASSUME Inv, ModeOK, w.pc = "writing"
    PROVE  [text |-> w.desired, from |-> w.expected] \in Intents
<1>1. Key \in Live(rows) /\ Key.content = w.desired
  BY DEF Inv, EffectInv, KeyIsLive, Effecting, Key
<1>2. CASE w.mode = "sync"
  <2>1. Key.op # "discard"
    BY <1>2 DEF Key
  <2>2. w.expected = IF HasCanon THEN canon.hash ELSE NoHash
    BY <1>2 DEF Inv, FileInv, ExpectsRecorded, SyncExpects, ExpectedNow
  <2>3. QED
    BY <1>1, <2>1, <2>2 DEF Intents, IntentOf
<1>3. CASE w.mode = "discard"
  <2>1. Key.op = "discard"
    BY <1>3 DEF Key
  <2>2. w.expected = rows[Key].expects
    BY <1>1, <1>3, <2>1
       DEF Inv, EffectInv, DiscardExpectsConsent, ConsentIsRecorded
  <2>3. QED
    BY <1>1, <2>1, <2>2 DEF Intents, IntentOf
<1> QED
  BY <1>2, <1>3 DEF ModeOK

-----------------------------------------------------------------------------
(* Steps.                                                                  *)

LEMMA SpendOthers ==
    ASSUME TypeOK, NEW x \in {"moves", "choices", "faults"}, Spend(x)
    PROVE  budget'.edits = budget.edits
BY DEF TypeOK, Spend

\* Everything but an edit and a rename leaves the file alone.
LEMMA FileFrames ==
    ASSUME TypeOK, [Next]_vars
    PROVE  \/ UNCHANGED <<target, budget.edits>>
           \/ \E file \in File : HumanEdit(file)
           \/ ApplyWrite \/ ApplyFails
<1>1. \/ UNCHANGED <<target, budget>>
      \/ /\ target' = target
         /\ \E x \in {"moves", "choices", "faults"} : Spend(x)
      \/ \E file \in File : HumanEdit(file)
      \/ ApplyWrite \/ ApplyFails
  BY DEF Next, SyncStep, ApplyStep, AdoptStep, DiscardStep, Fault, Person,
         Clock, vars, SyncStart, PlanConflict, PlanDocument, PipelineStops,
         Draft, CommitInPlace, Commit, CommitRefused, ClaimEffect, SkipEffect,
         ApplyRead, SettleMaterialized, SettleHumanEdit, AdoptStart,
         AdoptRejected, AdoptCommit, DiscardStart, BeginDiscard,
         DiscardRefused, CompleteDiscard, CommandStops, MoveSource,
         OwnerGone, LeaseExpires, RetryDue
<1> QED
  BY <1>1, SpendOthers

\* A rename carries out the intent of its command and leaves it on record.
LEMMA RenameStep ==
    ASSUME Inv, ModeOK, ~EditsDuringRename, ApplyWrite \/ ApplyFails
    PROVE  Outside!Write \/ UNCHANGED View
<1> DEFINE i == [text |-> w.desired, from |-> w.expected]
<1>1. w.pc = "writing" /\ canon' = canon
  BY DEF ApplyWrite, ApplyFails
<1>2. i \in Intents /\ HashOf(target) = i.from
  BY <1>1, OwnIntent DEF Inv, FileInv, WriteIsExpected
<1>3. Key \in Live(rows) /\ Key \in Effect /\ rows \in [Effect -> Row]
      /\ w.desired \in Content
  BY <1>1, KeyType DEF Inv, EffectInv, KeyIsLive, Effecting, TypeOK, WorkerOK
<1>4. rows' \in {rows, Retry(rows, Key)}
  BY DEF ApplyWrite, ApplyFails
<1>5. /\ Live(rows') = Live(rows)
      /\ \A b \in Effect : rows'[b].expects = rows[b].expects
  BY <1>3, <1>4, RetryLemma
<1>6. Live(rows) \subseteq Effect /\ HasCanon' = HasCanon
  BY <1>1 DEF Live, HasCanon
<1>7. \A b \in Live(rows) : IntentOf(b)' = IntentOf(b)
  BY <1>1, <1>5, <1>6 DEF IntentOf
<1>8. Intents' = Intents
  BY <1>5, <1>7 DEF Intents
<1>9. budget'.edits = budget.edits
  BY SpendOthers DEF Inv, ApplyWrite, ApplyFails
<1>10. target' = w.desired \/ target' = target
  BY DEF ApplyWrite, ApplyFails
<1>11. target' = w.desired => HashOf(target)' = i.text
  BY <1>3 DEF HashOf
<1>12. CASE target' = target
  BY <1>8, <1>9, <1>12 DEF View, Edits, HashOf
<1>13. CASE target' = w.desired
  BY <1>2, <1>8, <1>9, <1>11, <1>13 DEF Outside!Write, Intents, Edits
<1> QED
  BY <1>10, <1>12, <1>13

LEMMA EditStep ==
    ASSUME Inv, NEW file \in File, HumanEdit(file)
    PROVE  Outside!People
<1>1. target' = file /\ UNCHANGED <<rows, canon>>
  BY DEF HumanEdit
<1>2. HashOf(target)' \in Hash
  BY <1>1 DEF HashOf, File, Hash
<1>3. Edits' = Edits + 1
  <2>1. budget'.edits = budget.edits - 1 /\ budget.edits \in Nat
    BY DEF HumanEdit, Spend, Inv, TypeOK
  <2>2. MaxEdits \in Nat
    BY MaterializeAssumption
  <2>3. QED
    BY <2>1, <2>2 DEF Edits
<1>4. Intents' = Intents
  BY <1>1 DEF Intents, IntentOf, HasCanon
<1> QED
  BY <1>2, <1>3, <1>4 DEF Outside!People, Edits, Intents

\* apply, for a sync and for a discard: where nobody edits between its
\* comparison and its rename, what changes the file without being a person
\* carries out the one effect that the table holds, over exactly the text
\* this effect was recorded against, and a death after it finds the effect
\* still in the table.
THEOREM FileImplemented == ~EditsDuringRename => (Spec => FileSpec)
<1> SUFFICES ASSUME ~EditsDuringRename PROVE Spec => FileSpec
  OBVIOUS
<1>1. Init => Outside!Init
  <2> SUFFICES ASSUME Init PROVE Outside!Init
    OBVIOUS
  <2>1. Live(rows) = {}
    BY DEF Init, Live, NoRow, Unowned
  <2>2. HashOf(target) \in Hash
    BY DEF Init, HashOf, File, Hash
  <2>3. MaxEdits - budget.edits = 0
    <3>1. budget.edits = MaxEdits /\ MaxEdits \in Nat
      BY MaterializeAssumption DEF Init
    <3>2. QED
      BY <3>1
  <2>4. QED
    BY <2>1, <2>2, <2>3 DEF Outside!Init
<1>2. Inv /\ OneAtMost' /\ ModeOK /\ [Next]_vars => [Outside!Next]_View
  <2> SUFFICES ASSUME Inv, OneAtMost', ModeOK, [Next]_vars
               PROVE  Outside!Next \/ UNCHANGED View
    OBVIOUS
  <2>1. CASE UNCHANGED <<target, budget.edits>>
    <3>1. Intents' = {} \/ Intents' \in {{i} : i \in Outside!Intent}
      BY DEF OneAtMost, Outside!Intent
    <3>2. UNCHANGED <<HashOf(target), Edits>>
      BY <2>1 DEF HashOf, Edits
    <3>3. QED
      BY <3>1, <3>2
         DEF Outside!Next, Outside!Intend, Outside!Close, Intents, Edits
  <2>2. CASE \E file \in File : HumanEdit(file)
    BY <2>2, EditStep DEF Outside!Next
  <2>3. CASE ApplyWrite \/ ApplyFails
    BY <2>3, RenameStep DEF Outside!Next
  <2>4. QED
    BY <2>1, <2>2, <2>3, FileFrames DEF Inv
<1>3. QED
  BY <1>1, <1>2, InvHolds, ModeHolds, OneIntent, PTL
     DEF Spec, FileSpec, Outside!Spec, View, Edits, Intents
=============================================================================
