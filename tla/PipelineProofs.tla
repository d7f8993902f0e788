---------------------------- MODULE PipelineProofs ----------------------------
(***************************************************************************)
(* Proofs about Pipeline, for any units, documents, revisions, answers and *)
(* bounds, and whichever review stages are configured.                     *)
(*                                                                         *)
(* Everything is said unit by unit, of its text in the running sync, its   *)
(* attempts in this run and its selected candidate.  A text that has gone  *)
(* through the revision is a fixed point of what the revision has stored   *)
(* (RevisionInv): recovered, it changes no more.  The selected candidate   *)
(* is the text of the sync (ChoiceInv), and where a text has been verified *)
(* before, the next sync begins with it and keeps it (StandingInv).  Text  *)
(* that people adopted is kept too, or contested by a review (HumanInv).   *)
(*                                                                         *)
(* A step of collecting or answering is about one unit: UnitStep shows     *)
(* what it owes for that unit, and that the others keep what they have.    *)
(***************************************************************************)
EXTENDS Pipeline, NaturalsInduction, WellFoundedInduction, SequenceTheorems,
        FiniteSetTheorems, TLAPS

-----------------------------------------------------------------------------
(* The invariant.                                                          *)

Reviews == {"revision", "proofread"}
Stage == {"plan", "translate", "fix", "repair"} \cup Reviews

Running ==
    [pc : {"idle", "planning", "collecting", "answering", "verifying"},
     run : Run \cup {0}, next : Nat, tasks : Nat,
     queued : SUBSET Unit, text : [Unit -> Text \cup {NoText}],
     stage : Stage, round : Nat, skipped : BOOLEAN, asked : SUBSET Unit,
     blocked : BOOLEAN]

\* Where a sync is, of what it is.
Position(v) ==
    /\ v.pc = "idle" => v = Idle
    /\ v.pc # "idle" => v.run = source
    /\ v.pc = "planning" => v.next \in Document /\ v.stage = "plan"
    /\ v.pc \in {"planning", "verifying"} => v.asked = {}
    /\ v.pc \in {"collecting", "answering"} =>
           /\ <<v.stage, v.round>> \in Key
           /\ v.stage \in Reviews => v.stage \in quality
    /\ v.pc = "collecting" => v.next \in Unit /\ \A u \in v.asked : u < v.next
    /\ v.pc = "answering" => v.asked # {}
    /\ v.asked \subseteq v.queued

\* The attempts of a work item.
Well(s) ==
    /\ s \in Seq(Attempt)
    /\ \A n \in DOMAIN s :
        LET a == s[n] IN
        /\ a.status = "succeeded" => a.output \in Text \cup {OK}
        /\ a.status = "succeeded" /\ a.key[1] \notin Reviews => a.output \in Text
        /\ a.status = "succeeded" /\ a.key[1] = "proofread" => a.output = OK
        /\ a.status = "cancelled" => a.key[1] \in Reviews
    /\ \A n, m \in DOMAIN s :
        s[n].key = s[m].key /\ "cancelled" \notin {s[n].status, s[m].status}
            => n = m

Succeeds(s, n, k) == s[n].key = k /\ s[n].status = "succeeded"

\* Nobody holds key k.
Vacant(s, k) == \A n \in DOMAIN s : s[n].key = k => s[n].status = "cancelled"

\* The text is what the stored answers of the revision lead to.
Revised(s, text) ==
    \A n \in DOMAIN s :
        Succeeds(s, n, <<"revision", 0>>) =>
            \/ s[n].about = text /\ s[n].output = OK
            \/ s[n].output = text

HasRevision(s) == \E n \in DOMAIN s : Succeeds(s, n, <<"revision", 0>>)

Proofread(s, text) ==
    \A n \in DOMAIN s : Succeeds(s, n, <<"proofread", 0>>) => s[n].about = text

\* The sync v has dealt with unit u in a stage.
RevisionDone(v, u) ==
    \/ v.pc = "verifying"
    \/ v.pc \in {"collecting", "answering"} /\ v.stage = "proofread"
    \/ /\ v.pc = "collecting" /\ v.stage = "revision"
       /\ u < v.next /\ u \notin v.asked
    \/ v.pc = "answering" /\ v.stage = "revision" /\ u \notin v.asked

ProofreadDone(v, u) ==
    \/ v.pc = "verifying"
    \/ /\ v.pc = "collecting" /\ v.stage = "proofread"
       /\ u < v.next /\ u \notin v.asked
    \/ v.pc = "answering" /\ v.stage = "proofread" /\ u \notin v.asked

Now(u) == attempts[<<source, u>>]
Untrusted(u) == trusted[u][SourceText[source][u]] = NoText

CandidateOK(u) ==
    \/ selected[u] = NoCandidate
    \/ /\ selected[u] \in [run : Run, n : Nat]
       /\ selected[u].n \in DOMAIN attempts[<<selected[u].run, u>>]
       /\ Candidate(u).status = "succeeded"
       /\ Candidate(u).output \in Text

\* The selected candidate of u is text, and a sync of the source reuses it.
Selects(u, text) ==
    /\ selected[u] # NoCandidate
    /\ Candidate(u).output = text
    /\ SourceText[selected[u].run][u] = SourceText[source][u]
    /\ selected[u].run = source \/ known[DocOf[u]] = source

AskedInv(u) ==
    u \in w.asked =>
        /\ Reviewing <=> w.text[u] # NoText
        /\ Vacant(Now(u), key)

QueuedInv(u) == quality # {} /\ w.text[u] # NoText => u \in w.queued

RevisionInv(u) ==
    "revision" \in quality /\ w.text[u] # NoText /\ RevisionDone(w, u) =>
        /\ Revised(Now(u), w.text[u])
        /\ w.blocked \/ HasRevision(Now(u))

ProofreadInv(u) ==
    "proofread" \in quality /\ w.text[u] # NoText /\ ProofreadDone(w, u) =>
        Proofread(Now(u), w.text[u])

ChoiceInv(u) ==
    /\ w.pc # "idle" /\ ~(w.pc = "planning" /\ w.blocked)
    /\ w.text[u] # NoText /\ Untrusted(u)
    => Selects(u, w.text[u])

Standing(u, text) ==
    /\ Selects(u, text)
    /\ "revision" \in quality => Revised(Now(u), text) /\ HasRevision(Now(u))
    /\ "proofread" \in quality => Proofread(Now(u), text)

\* The text of unit u has been planned.
Begun(v, u) == \/ v.pc \in {"collecting", "answering", "verifying"}
               \/ v.pc = "planning" /\ DocOf[u] < v.next

StandingInv(u) ==
    verified[source][u] # NoText /\ Untrusted(u) =>
        /\ Standing(u, verified[source][u])
        /\ Begun(w, u) => w.text[u] = verified[source][u]

UnitInv(u) ==
    /\ CandidateOK(u) /\ AskedInv(u) /\ QueuedInv(u) /\ RevisionInv(u)
    /\ ProofreadInv(u) /\ ChoiceInv(u) /\ StandingInv(u)

Types ==
    /\ source \in Run
    /\ quality \in Quality
    /\ known \in [Document -> Run \cup {0}]
    /\ attempts \in [Run \X Unit -> Seq(Attempt)]
    /\ \A item \in Run \X Unit : Well(attempts[item])
    /\ selected \in [Unit -> [run : Nat, n : Nat]]
    /\ trusted \in [Unit -> [Source -> Text \cup {NoText}]]
    /\ file \in [Unit -> Text \cup {NoText}]
    /\ w \in Running
    /\ Position(w)
    /\ verified \in [Run -> [Unit -> Text \cup {NoText}]]

IInv == Types /\ \A u \in Unit : UnitInv(u)

-----------------------------------------------------------------------------
(* Data.                                                                   *)

LEMMA Least ==
    ASSUME NEW S \in SUBSET Nat, S # {}
    PROVE  \E m \in S : \A s \in S : m <= s
<1>1. PICK m \in S : \A s \in S : ~(<<s, m>> \in OpToRel(<, Nat))
  BY NatLessThanWellFounded, WFMin
<1>2. \A s \in S : m <= s
  <2> SUFFICES ASSUME NEW s \in S PROVE m <= s
    OBVIOUS
  <2>1. s \in Nat /\ m \in Nat
    OBVIOUS
  <2>2. ~(s < m)
    BY <1>1, <2>1 DEF OpToRel
  <2> QED
    BY <2>1, <2>2
<1> QED
  BY <1>2

LEMMA FirstIs ==
    ASSUME w.asked \subseteq Unit, w.asked # {}
    PROVE  first \in w.asked /\ first \in Unit
<1>1. w.asked \in SUBSET Nat
  BY DEF Unit
<1>2. \E u \in w.asked : \A v \in w.asked : u <= v
  BY <1>1, Least
<1> QED
  BY <1>2 DEF first

LEMMA Answers ==
    /\ Text \subseteq Answer /\ Invalid \subseteq Answer
    /\ NoText \notin Text /\ OK \notin Text /\ NoText # OK
    /\ NoText \notin Invalid /\ OK \notin Invalid
    /\ \A u \in Unit : Valid[u] \subseteq Text
BY PipelineAssumption DEF Answer, Text

LEMMA SourceType ==
    \A r \in Run, u \in Unit : SourceText[r][u] \in Source
BY DEF Source

LEMMA KeyType ==
    \A k \in Key : /\ k = <<k[1], k[2]>>
                   /\ k[1] \in {"translate", "fix", "repair"} \cup Reviews
                   /\ k[1] \in Reviews => k[2] = 0
                   /\ k[2] \in Nat
BY DEF Key, Reviews

\* A new attempt in a sequence.
LEMMA AppendKeeps ==
    ASSUME NEW s, Well(s), NEW a \in Attempt, Vacant(s, a.key),
           a.status \in {"succeeded", "failed"},
           a.status = "succeeded" => a.output \in Text \cup {OK},
           a.status = "succeeded" /\ a.key[1] \notin Reviews => a.output \in Text,
           a.status = "succeeded" /\ a.key[1] = "proofread" => a.output = OK
    PROVE  LET t == Append(s, a) IN
           /\ Well(t)
           /\ DOMAIN t = DOMAIN s \cup {Len(s) + 1}
           /\ \A n \in DOMAIN s : t[n] = s[n]
           /\ Len(s) + 1 \notin DOMAIN s /\ t[Len(s) + 1] = a
<1> DEFINE t == Append(s, a)
           l == Len(s) + 1
<1>1. s \in Seq(Attempt)
  BY DEF Well
<1>2. /\ t \in Seq(Attempt)
      /\ DOMAIN t = DOMAIN s \cup {l}
      /\ l \notin DOMAIN s /\ t[l] = a
      /\ \A n \in DOMAIN s : t[n] = s[n]
  BY <1>1
<1> HIDE DEF t, l
<1>3. \A n \in DOMAIN t :
        LET b == t[n] IN
        /\ b.status = "succeeded" => b.output \in Text \cup {OK}
        /\ b.status = "succeeded" /\ b.key[1] \notin Reviews => b.output \in Text
        /\ b.status = "succeeded" /\ b.key[1] = "proofread" => b.output = OK
        /\ b.status = "cancelled" => b.key[1] \in Reviews
  <2> TAKE n \in DOMAIN t
  <2>1. CASE n = l
    BY <1>2, <2>1
  <2>2. CASE n \in DOMAIN s
    BY <1>2, <2>2 DEF Well
  <2> QED
    BY <1>2, <2>1, <2>2
<1>4. \A n, m \in DOMAIN t :
        t[n].key = t[m].key /\ "cancelled" \notin {t[n].status, t[m].status}
            => n = m
  <2>1. \A n \in DOMAIN s : s[n].key = a.key => s[n].status = "cancelled"
    BY DEF Vacant
  <2> QED
    BY <1>2, <2>1 DEF Well
<1>5. Well(t)
  BY <1>2, <1>3, <1>4 DEF Well
<1> QED
  BY <1>2, <1>5 DEF t, l

\* An attempt gives up its key.
LEMMA CancelKeeps ==
    ASSUME NEW s, Well(s), NEW n \in DOMAIN s, s[n].key[1] \in Reviews,
           s[n].status = "succeeded"
    PROVE  LET t == [s EXCEPT ![n].status = "cancelled"] IN
           /\ Well(t)
           /\ DOMAIN t = DOMAIN s
           /\ \A m \in DOMAIN s : m # n => t[m] = s[m]
           /\ t[n].key = s[n].key /\ t[n].status = "cancelled"
           /\ Vacant(t, s[n].key)
<1> DEFINE t == [s EXCEPT ![n].status = "cancelled"]
<1>1. s \in Seq(Attempt) /\ s[n] \in Attempt
  BY DEF Well
<1>2. /\ t \in Seq(Attempt)
      /\ DOMAIN t = DOMAIN s
      /\ \A m \in DOMAIN s : m # n => t[m] = s[m]
      /\ t[n] = [s[n] EXCEPT !.status = "cancelled"]
  <2>1. [s[n] EXCEPT !.status = "cancelled"] \in Attempt
    BY <1>1 DEF Attempt
  <2>2. n \in 1..Len(s)
    BY <1>1
  <2>3. t = [s EXCEPT ![n] = [s[n] EXCEPT !.status = "cancelled"]]
    BY <1>1
  <2> QED
    BY <1>1, <2>1, <2>2, <2>3, ExceptSeq
<1>3. t[n].key = s[n].key /\ t[n].status = "cancelled"
  BY <1>1, <1>2 DEF Attempt
<1> HIDE DEF t
<1>4. Well(t)
  <2>1. \A m \in DOMAIN t :
          LET b == t[m] IN
          /\ b.status = "succeeded" => b.output \in Text \cup {OK}
          /\ b.status = "succeeded" /\ b.key[1] \notin Reviews => b.output \in Text
          /\ b.status = "succeeded" /\ b.key[1] = "proofread" => b.output = OK
          /\ b.status = "cancelled" => b.key[1] \in Reviews
    <3> TAKE m \in DOMAIN t
    <3>1. CASE m = n
      BY <1>3, <3>1
    <3>2. CASE m # n
      <4>1. m \in DOMAIN s /\ t[m] = s[m]
        BY <1>2, <3>2
      <4> QED
        BY <4>1 DEF Well
    <3> QED
      BY <3>1, <3>2
  <2>2. \A m, k \in DOMAIN t :
          t[m].key = t[k].key /\ "cancelled" \notin {t[m].status, t[k].status}
              => m = k
    <3> SUFFICES ASSUME NEW m \in DOMAIN t, NEW k \in DOMAIN t,
                        t[m].key = t[k].key, t[m].status # "cancelled",
                        t[k].status # "cancelled"
                 PROVE  m = k
      OBVIOUS
    <3>1. /\ m \in DOMAIN s /\ t[m] = s[m]
          /\ k \in DOMAIN s /\ t[k] = s[k]
      BY <1>2, <1>3
    <3> QED
      BY <3>1 DEF Well
  <2> QED
    BY <1>2, <2>1, <2>2 DEF Well
<1>5. Vacant(t, s[n].key)
  <2>1. \A m \in DOMAIN s : s[m].key = s[n].key => m = n \/ s[m].status = "cancelled"
    BY DEF Well
  <2>2. SUFFICES ASSUME NEW m \in DOMAIN t, t[m].key = s[n].key
                 PROVE  t[m].status = "cancelled"
    BY DEF Vacant
  <2>3. CASE m = n
    BY <1>3, <2>3
  <2>4. CASE m # n
    <3>1. m \in DOMAIN s /\ t[m] = s[m]
      BY <1>2, <2>4
    <3> QED
      BY <2>1, <2>2, <2>4, <3>1
  <2> QED
    BY <2>3, <2>4
<1> QED
  BY <1>2, <1>3, <1>4, <1>5 DEF t

-----------------------------------------------------------------------------
(* From unit to unit and stage to stage.                                   *)

LEMMA UnitType == /\ Unit \subseteq Nat /\ 1 \in Unit
                  /\ \A u \in Unit : u <= Units /\ (u + 1 <= Units => u + 1 \in Unit)
                  /\ Units \in Nat
                  /\ \A u \in Unit : u + 1 \in Nat /\ ~(u < 1)
                  /\ \A u, v \in Unit : v + 1 > Units => u <= v
                  /\ \A u, v \in Unit : u < v + 1 => u <= v
BY PipelineAssumption DEF Unit

Same(n, v) ==
    /\ n.run = v.run /\ n.queued = v.queued /\ n.text = v.text
    /\ n.asked = v.asked /\ n.blocked = v.blocked

\* A stage that begins after that of v.
Goes(n, v) ==
    /\ n \in Running /\ Same(n, v) /\ Position(n)
    /\ n.pc \in {"collecting", "verifying"}
    /\ \A u \in Unit :
        /\ "revision" \in quality /\ RevisionDone(n, u) => v.stage \in Reviews
        /\ "proofread" \in quality /\ ProofreadDone(n, u) => v.stage = "proofread"

Going(v) == /\ v \in Running /\ v.run = source /\ v.asked = {}
            /\ v.pc \in {"planning", "collecting", "answering"}

LEMMA BeginIs ==
    ASSUME NEW v, Going(v), NEW stage, NEW round, <<stage, round>> \in Key,
           stage \in Reviews => stage \in quality,
           stage # "proofread"
             \/ ("revision" \in quality => v.stage \in Reviews)
    PROVE  Goes(Begin(v, stage, round), v)
<1> DEFINE n == Begin(v, stage, round)
<1>1. stage \in Stage /\ round \in Nat
  BY KeyType, PipelineAssumption DEF Key, Stage, Reviews
<1>2. /\ n \in Running /\ Same(n, v)
      /\ n.pc = "collecting" /\ n.stage = stage /\ n.round = round
      /\ n.next = 1 /\ n.asked = {}
  BY <1>1 DEF Begin, Running, Same, Going
<1> HIDE DEF n
<1>3. n.run = source
  BY <1>2 DEF Same, Going
<1>4. Position(n)
  BY <1>2, <1>3, UnitType DEF Position
<1>5. \A u \in Unit : ~(u < n.next)
  BY <1>2, UnitType
<1>6. \A u \in Unit : "revision" \in quality /\ RevisionDone(n, u) => v.stage \in Reviews
  BY <1>2, <1>5 DEF RevisionDone
<1>7. \A u \in Unit : ~ProofreadDone(n, u)
  BY <1>2, <1>5 DEF ProofreadDone
<1> QED
  BY <1>2, <1>4, <1>6, <1>7 DEF Goes, n

LEMMA VerifyingIs ==
    ASSUME NEW v, Going(v),
           "revision" \in quality => v.stage \in Reviews,
           "proofread" \in quality => v.stage = "proofread"
    PROVE  Goes([v EXCEPT !.pc = "verifying"], v)
<1> DEFINE n == [v EXCEPT !.pc = "verifying"]
<1>1. n \in Running /\ Same(n, v) /\ n.pc = "verifying" /\ n.asked = {}
  BY DEF Running, Same, Going
<1> HIDE DEF n
<1>2. n.run = source
  BY <1>1 DEF Same, Going
<1>3. Position(n)
  BY <1>1, <1>2 DEF Position
<1> QED
  BY <1>1, <1>3 DEF Goes, n

LEMMA Keys ==
    /\ \A s \in {"translate", "fix"} \cup Reviews : <<s, 0>> \in Key
    /\ \A r \in Nat : r >= 1 /\ r <= RepairBudget => <<"repair", r>> \in Key
BY PipelineAssumption DEF Key, Reviews

LEMMA ToProofreadIs ==
    ASSUME NEW v, Going(v), "revision" \in quality => v.stage \in Reviews
    PROVE  Goes(ToProofread(v), v)
<1>1. CASE "proofread" \in quality
  <2>1. Goes(Begin(v, "proofread", 0), v)
    BY <1>1, Keys, BeginIs DEF Reviews
  <2> QED
    BY <1>1, <2>1 DEF ToProofread
<1>2. CASE "proofread" \notin quality
  BY <1>2, VerifyingIs DEF ToProofread
<1> QED
  BY <1>1, <1>2

LEMMA ToRevisionIs ==
    ASSUME NEW v, Going(v)
    PROVE  Goes(ToRevision(v), v)
<1>1. CASE "revision" \in quality
  <2>1. Goes(Begin(v, "revision", 0), v)
    BY <1>1, Keys, BeginIs DEF Reviews
  <2> QED
    BY <1>1, <2>1 DEF ToRevision
<1>2. CASE "revision" \notin quality
  BY <1>2, ToProofreadIs DEF ToRevision
<1> QED
  BY <1>1, <1>2

LEMMA ToRepairIs ==
    ASSUME NEW v, Going(v), NEW round \in Nat, round >= 1
    PROVE  Goes(ToRepair(v, round), v)
<1>1. CASE round <= RepairBudget
  <2>1. <<"repair", round>> \in Key
    BY <1>1, Keys
  <2>2. Goes(Begin(v, "repair", round), v)
    BY <2>1, BeginIs DEF Reviews
  <2> QED
    BY <1>1, <2>2 DEF ToRepair
<1>2. CASE ~(round <= RepairBudget)
  BY <1>2, ToRevisionIs DEF ToRepair
<1> QED
  BY <1>1, <1>2

LEMMA NextStageIs ==
    ASSUME NEW v, Going(v)
    PROVE  Goes(NextStage(v), v)
<1>0. v.stage \in Stage /\ v.round \in Nat
  BY DEF Going, Running
<1>1. CASE v.stage = "plan"
  <2>1. Goes(Begin(v, "translate", 0), v)
    BY Keys, BeginIs DEF Reviews
  <2> QED
    BY <1>1, <2>1, ToRevisionIs DEF NextStage
<1>2. CASE v.stage = "translate"
  <2>1. Goes(Begin(v, "fix", 0), v)
    BY Keys, BeginIs DEF Reviews
  <2> QED
    BY <1>2, <2>1, ToRevisionIs DEF NextStage
<1>3. CASE v.stage = "fix"
  BY <1>3, ToRepairIs DEF NextStage
<1>4. CASE v.stage = "repair"
  <2>1. v.round + 1 \in Nat /\ v.round + 1 >= 1
    BY <1>0
  <2>2. Goes(ToRepair(v, v.round + 1), v)
    BY <2>1, ToRepairIs
  <2> QED
    BY <1>4, <2>2, ToRevisionIs DEF NextStage
<1>5. CASE v.stage = "revision"
  BY <1>5, ToProofreadIs DEF NextStage, Reviews
<1>6. CASE v.stage = "proofread"
  BY <1>6, VerifyingIs DEF NextStage, Reviews
<1> QED
  BY <1>0, <1>1, <1>2, <1>3, <1>4, <1>5, <1>6 DEF Stage, Reviews

LEMMA OnwardIs ==
    ASSUME NEW v \in Running, v.pc = "collecting", v.run = source,
           v.next \in Unit, <<v.stage, v.round>> \in Key,
           v.stage \in Reviews => v.stage \in quality,
           \A u \in v.asked : u <= v.next, v.asked \subseteq v.queued
    PROVE  LET n == Onward(v) IN
           /\ n \in Running /\ Same(n, v) /\ Position(n)
           /\ n.pc \in {"collecting", "answering", "verifying"}
           /\ n.asked # {} => n.stage = v.stage /\ n.round = v.round
           /\ \A u \in Unit :
               /\ "revision" \in quality /\ RevisionDone(n, u) =>
                      \/ v.stage = "proofread"
                      \/ v.stage = "revision" /\ u <= v.next /\ u \notin v.asked
               /\ "proofread" \in quality /\ ProofreadDone(n, u) =>
                      v.stage = "proofread" /\ u <= v.next /\ u \notin v.asked
<1> DEFINE m == [v EXCEPT !.next = @ + 1]
           n == Onward(v)
<1>1. /\ m \in Running /\ Same(m, v) /\ m.pc = "collecting"
      /\ m.stage = v.stage /\ m.round = v.round /\ m.next = v.next + 1
  BY DEF Running, Same
<1>2. n = IF m.next <= Units THEN m
          ELSE IF m.asked # {} THEN [m EXCEPT !.pc = "answering"]
          ELSE NextStage(m)
  BY DEF Onward
<1> HIDE DEF m, n
<1>3. CASE m.next <= Units
  <2>1. n = m
    BY <1>2, <1>3
  <2>2. m.next \in Unit /\ \A u \in m.asked : u < m.next
    <3>1. m.next \in Unit
      BY <1>1, <1>3, UnitType
    <3>2. \A u \in v.asked : u \in Nat /\ v.next \in Nat
      BY UnitType DEF Running
    <3>3. \A u \in v.asked : u < v.next + 1
      BY <3>2
    <3> QED
      BY <1>1, <3>1, <3>3 DEF Same
  <2>3. Position(m)
    BY <1>1, <2>2 DEF Position, Same
  <2>4. \A u \in Unit : u < m.next => u <= v.next
    BY <1>1, UnitType
  <2> QED
    BY <1>1, <2>1, <2>3, <2>4 DEF n, RevisionDone, ProofreadDone, Same
<1>4. CASE ~(m.next <= Units)
  <2>1. \A u \in Unit : u <= v.next
    <3>1. v.next + 1 \in Nat /\ Units \in Nat /\ ~(v.next + 1 <= Units)
      BY <1>1, <1>4, UnitType
    <3>2. v.next + 1 > Units
      BY <3>1
    <3> QED
      BY <3>2, UnitType
  <2>2. CASE m.asked # {}
    <3>1. n = [m EXCEPT !.pc = "answering"]
      BY <1>2, <1>4, <2>2
    <3>2. /\ n \in Running /\ Same(n, v) /\ n.pc = "answering"
          /\ n.stage = v.stage /\ n.round = v.round
      BY <1>1, <3>1 DEF Running, Same
    <3>3. Position(n)
      BY <1>1, <2>2, <3>2 DEF Position, Same
    <3> QED
      BY <2>1, <3>2, <3>3 DEF n, RevisionDone, ProofreadDone, Same
  <2>3. CASE m.asked = {}
    <3>1. n = NextStage(m)
      BY <1>2, <1>4, <2>3
    <3>2. Going(m)
      BY <1>1, <2>3 DEF Going, Same
    <3>3. Goes(n, m)
      BY <3>1, <3>2, NextStageIs
    <3>4. v.asked = {} /\ Same(n, v)
      BY <1>1, <2>3, <3>3 DEF Same, Goes
    <3> QED
      BY <1>1, <2>1, <3>3, <3>4 DEF n, Goes, Same, Reviews
  <2> QED
    BY <2>2, <2>3
<1> QED
  BY <1>3, <1>4

LEMMA AnsweredIs ==
    ASSUME NEW v \in Running, v.pc = "answering", v.run = source,
           v.asked = w.asked, w.asked # {}, <<v.stage, v.round>> \in Key,
           v.stage \in Reviews => v.stage \in quality,
           v.asked \subseteq v.queued
    PROVE  LET n == Answered(v) IN
           /\ n \in Running /\ Position(n)
           /\ n.run = v.run /\ n.queued = v.queued /\ n.text = v.text
           /\ n.blocked = v.blocked /\ n.asked = v.asked \ {first}
           /\ n.pc \in {"collecting", "answering", "verifying"}
           /\ n.asked # {} => n.stage = v.stage /\ n.round = v.round
           /\ \A u \in Unit :
               /\ "revision" \in quality /\ RevisionDone(n, u) =>
                      \/ v.stage = "proofread"
                      \/ v.stage = "revision" /\ (u = first \/ u \notin v.asked)
               /\ "proofread" \in quality /\ ProofreadDone(n, u) =>
                      v.stage = "proofread" /\ (u = first \/ u \notin v.asked)
<1> DEFINE m == [v EXCEPT !.asked = @ \ {first}]
           n == Answered(v)
<1>1. /\ m \in Running /\ m.asked = v.asked \ {first} /\ m.pc = "answering"
      /\ m.run = v.run /\ m.queued = v.queued /\ m.text = v.text
      /\ m.blocked = v.blocked /\ m.stage = v.stage /\ m.round = v.round
  BY DEF Running
<1>2. n = IF m.asked = {} THEN NextStage(m) ELSE m
  BY DEF Answered
<1> HIDE DEF m, n
<1>3. CASE m.asked = {}
  <2>1. Going(m) /\ n = NextStage(m)
    BY <1>1, <1>2, <1>3 DEF Going
  <2>2. Goes(n, m)
    BY <2>1, NextStageIs
  <2>3. \A u \in Unit : u = first \/ u \notin v.asked
    BY <1>1, <1>3
  <2> QED
    BY <1>1, <1>3, <2>2, <2>3 DEF n, Goes, Same, Reviews
<1>4. CASE m.asked # {}
  <2>1. n = m
    BY <1>2, <1>4
  <2>2. Position(m)
    BY <1>1, <1>4 DEF Position
  <2> QED
    BY <1>1, <1>4, <2>1, <2>2 DEF n, RevisionDone, ProofreadDone
<1> QED
  BY <1>3, <1>4

-----------------------------------------------------------------------------
(* Steps that are about one unit.                                          *)

\* The sync goes on from unit x, and asks about it or does not.
Moves(x, asking) ==
    /\ x \in Unit /\ asking \in BOOLEAN
    /\ w' \in Running /\ Position(w)' /\ w'.run = source
    /\ w'.pc \in {"collecting", "answering", "verifying"}
    /\ w'.queued = w.queued
    /\ w.blocked => w'.blocked
    /\ \A u \in Unit \ {x} :
        /\ w'.text[u] = w.text[u]
        /\ u \in w'.asked => u \in w.asked
        /\ "revision" \in quality /\ RevisionDone(w', u) => RevisionDone(w, u)
        /\ "proofread" \in quality /\ ProofreadDone(w', u) => ProofreadDone(w, u)
    /\ w'.asked # {} => w'.stage = w.stage /\ w'.round = w.round
    /\ x \in w'.asked => asking
    /\ "revision" \in quality /\ RevisionDone(w', x) =>
           w.stage = "proofread" \/ (w.stage = "revision" /\ ~asking)
    /\ "proofread" \in quality /\ ProofreadDone(w', x) =>
           w.stage = "proofread" /\ ~asking

\* Nothing of the other units changes.
Others(x) ==
    /\ UNCHANGED <<source, quality, known, trusted, file, verified>>
    /\ attempts' \in [Run \X Unit -> Seq(Attempt)]
    /\ \A item \in Run \X Unit : item # <<source, x>> =>
           attempts'[item] = attempts[item]
    /\ Well(Now(x))'
    /\ selected' \in [Unit -> [run : Nat, n : Nat]]
    /\ \A u \in Unit \ {x} : selected'[u] = selected[u]

\* What a step owes for its unit.
Owes(x, asking) ==
    /\ CandidateOK(x)'
    /\ asking => Vacant(Now(x)', key) /\ (Reviewing <=> w'.text[x] # NoText)
    /\ quality # {} /\ w'.text[x] # NoText => x \in w.queued
    /\ "revision" \in quality /\ w'.text[x] # NoText
         /\ (w.stage = "proofread" \/ (w.stage = "revision" /\ ~asking)) =>
           Revised(Now(x)', w'.text[x]) /\ (w'.blocked \/ HasRevision(Now(x)'))
    /\ "proofread" \in quality /\ w'.text[x] # NoText
         /\ w.stage = "proofread" /\ ~asking =>
           Proofread(Now(x)', w'.text[x])
    /\ (w.text[x] # NoText /\ Untrusted(x) => Selects(x, w.text[x]))'
    /\ StandingInv(x)'

LEMMA UnitStep ==
    ASSUME IInv, w.pc \in {"collecting", "answering"},
           NEW x, NEW asking, Moves(x, asking), Others(x), Owes(x, asking)
    PROVE  IInv'
<1>1. Types'
  <2>1. \A item \in Run \X Unit : Well(attempts'[item])
    <3> TAKE item \in Run \X Unit
    <3>1. CASE item = <<source, x>>
      BY <3>1 DEF Others, Now
    <3>2. CASE item # <<source, x>>
      BY <3>2 DEF Others, IInv, Types
    <3> QED
      BY <3>1, <3>2
  <2>2. (\A item \in Run \X Unit : Well(attempts[item]))'
    BY <2>1 DEF Well
  <2>3. w' \in Running /\ Position(w)'
    BY DEF Moves
  <2> QED
    BY <2>2, <2>3 DEF Others, IInv, Types
<1>2. UnitInv(x)'
  <2>1. AskedInv(x)'
    <3>1. x \in w'.asked => asking /\ w'.stage = w.stage /\ w'.round = w.round
      BY DEF Moves
    <3> QED
      BY <3>1 DEF Owes, AskedInv, key, Reviewing, Vacant, Now
  <2>2. QueuedInv(x)'
    BY DEF Owes, Moves, Others, QueuedInv
  <2>3. RevisionInv(x)'
    <3>1. RevisionDone(w, x)' <=> RevisionDone(w', x)
      BY DEF RevisionDone
    <3> QED
      BY <3>1 DEF Owes, Moves, Others, RevisionInv, Revised, HasRevision, Succeeds
  <2>4. ProofreadInv(x)'
    <3>1. ProofreadDone(w, x)' <=> ProofreadDone(w', x)
      BY DEF ProofreadDone
    <3> QED
      BY <3>1 DEF Owes, Moves, Others, ProofreadInv, Proofread, Succeeds
  <2>5. ChoiceInv(x)'
    BY DEF Owes, ChoiceInv
  <2> QED
    BY <2>1, <2>2, <2>3, <2>4, <2>5 DEF Owes, UnitInv
<1>3. ASSUME NEW u \in Unit, u # x
      PROVE  UnitInv(u)'
  <2>1. UnitInv(u)
    BY DEF IInv
  <2>2. /\ source \in Run /\ source' = source /\ quality' = quality
        /\ known' = known /\ trusted' = trusted /\ verified' = verified
        /\ selected'[u] = selected[u]
        /\ \A r \in Run : attempts'[<<r, u>>] = attempts[<<r, u>>]
    <3>1. \A r \in Run : <<r, u>> # <<source, x>> /\ <<r, u>> \in Run \X Unit
      BY <1>3
    <3> QED
      BY <1>3, <3>1 DEF Others, IInv, Types
  <2>3. Now(u)' = Now(u)
    BY <2>2 DEF Now
  <2>4. /\ w'.text[u] = w.text[u] /\ (u \in w'.asked => u \in w.asked)
        /\ w'.queued = w.queued
        /\ w.blocked => w'.blocked
        /\ "revision" \in quality /\ RevisionDone(w', u) => RevisionDone(w, u)
        /\ "proofread" \in quality /\ ProofreadDone(w', u) => ProofreadDone(w, u)
        /\ w'.asked # {} => w'.stage = w.stage /\ w'.round = w.round
    BY <1>3 DEF Moves
  <2>5. selected[u] # NoCandidate => Candidate(u)' = Candidate(u)
    BY <2>1, <2>2 DEF UnitInv, CandidateOK, Candidate
  <2>6. CandidateOK(u)'
    <3>1. CASE selected[u] = NoCandidate
      BY <2>2, <3>1 DEF CandidateOK
    <3>2. CASE selected[u] # NoCandidate
      <4>1. /\ selected[u] \in [run : Run, n : Nat]
            /\ selected[u].n \in DOMAIN attempts[<<selected[u].run, u>>]
            /\ Candidate(u).status = "succeeded" /\ Candidate(u).output \in Text
        BY <2>1, <3>2 DEF UnitInv, CandidateOK
      <4>2. attempts'[<<selected[u].run, u>>] = attempts[<<selected[u].run, u>>]
        BY <2>2, <4>1
      <4> QED
        BY <2>2, <2>5, <3>2, <4>1, <4>2 DEF CandidateOK
    <3> QED
      BY <3>1, <3>2
  <2>7. \A text : Selects(u, text) => Selects(u, text)'
    BY <2>2, <2>5 DEF Selects
  <2>8. AskedInv(u)'
    <3>1. u \in w'.asked => u \in w.asked /\ w'.stage = w.stage /\ w'.round = w.round
      BY <2>4
    <3> QED
      BY <2>1, <2>3, <2>4, <3>1 DEF UnitInv, AskedInv, key, Reviewing, Vacant
  <2>9. QueuedInv(u)'
    BY <2>1, <2>2, <2>4 DEF UnitInv, QueuedInv
  <2>10. RevisionInv(u)'
    <3>1. RevisionDone(w, u)' <=> RevisionDone(w', u)
      BY DEF RevisionDone
    <3> QED
      BY <2>1, <2>2, <2>3, <2>4, <3>1
         DEF UnitInv, RevisionInv, Revised, HasRevision, Succeeds
  <2>11. ProofreadInv(u)'
    <3>1. ProofreadDone(w, u)' <=> ProofreadDone(w', u)
      BY DEF ProofreadDone
    <3> QED
      BY <2>1, <2>2, <2>3, <2>4, <3>1
         DEF UnitInv, ProofreadInv, Proofread, Succeeds
  <2>12. ChoiceInv(u)'
    <3>1. w'.text[u] # NoText /\ Untrusted(u) => Selects(u, w.text[u])
      BY <2>1, <2>4 DEF UnitInv, ChoiceInv
    <3>2. Untrusted(u)' = Untrusted(u)
      BY <2>2 DEF Untrusted
    <3> QED
      BY <2>4, <2>7, <3>1, <3>2 DEF ChoiceInv
  <2>13. StandingInv(u)'
    <3>1. CASE ~(verified[source][u] # NoText /\ Untrusted(u))
      BY <2>2, <3>1 DEF StandingInv, Untrusted
    <3>2. CASE verified[source][u] # NoText /\ Untrusted(u)
      <4>1. Standing(u, verified[source][u]) /\ w.text[u] = verified[source][u]
        BY <2>1, <3>2 DEF UnitInv, StandingInv, Begun
      <4>2. Standing(u, verified[source][u])'
        BY <2>2, <2>3, <2>7, <4>1
           DEF Standing, Revised, HasRevision, Proofread, Succeeds
      <4> QED
        BY <2>2, <2>4, <4>1, <4>2 DEF StandingInv
    <3> QED
      BY <3>1, <3>2
  <2> QED
    BY <2>6, <2>8, <2>9, <2>10, <2>11, <2>12, <2>13 DEF UnitInv
<1> QED
  BY <1>1, <1>2, <1>3 DEF IInv


-----------------------------------------------------------------------------
(* What collecting and answering do to the sync.                           *)

LEMMA Collected ==
    ASSUME IInv, w.pc = "collecting", NEW v \in Running,
           v.pc = w.pc, v.run = w.run, v.next = w.next, v.stage = w.stage,
           v.round = w.round, v.queued = w.queued, w.blocked => v.blocked,
           \A u \in Unit \ {unit} : v.text[u] = w.text[u],
           \/ v.asked = w.asked
           \/ v.asked = w.asked \cup {unit} /\ unit \in w.queued,
           w' = Onward(v), UNCHANGED <<source, quality>>
    PROVE  /\ unit \in Unit /\ Moves(unit, unit \in v.asked)
           /\ w'.text = v.text /\ w'.blocked = v.blocked
<1>1. /\ w.run = source /\ w.next \in Unit /\ <<w.stage, w.round>> \in Key
      /\ w.stage \in Reviews => w.stage \in quality
      /\ \A u \in w.asked : u < w.next
      /\ w.asked \subseteq w.queued
  BY DEF IInv, Types, Position
<1>2. w.asked \subseteq Unit /\ \A u \in Unit : u \in Nat
  BY UnitType DEF IInv, Types, Running
<1>3. unit \in Unit /\ unit \notin w.asked /\ v.asked \subseteq v.queued
  BY <1>1, <1>2 DEF unit
<1>4. \A u \in v.asked : u <= v.next
  BY <1>1, <1>2 DEF unit
<1>5. LET n == Onward(v) IN
      /\ n \in Running /\ Same(n, v) /\ Position(n)
      /\ n.pc \in {"collecting", "answering", "verifying"}
      /\ n.asked # {} => n.stage = v.stage /\ n.round = v.round
      /\ \A u \in Unit :
          /\ "revision" \in quality /\ RevisionDone(n, u) =>
                 \/ v.stage = "proofread"
                 \/ v.stage = "revision" /\ u <= v.next /\ u \notin v.asked
          /\ "proofread" \in quality /\ ProofreadDone(n, u) =>
                 v.stage = "proofread" /\ u <= v.next /\ u \notin v.asked
  BY <1>1, <1>3, <1>4, OnwardIs
<1>6. /\ w' \in Running /\ Position(w') /\ Same(w', v)
      /\ w'.pc \in {"collecting", "answering", "verifying"}
      /\ w'.asked # {} => w'.stage = w.stage /\ w'.round = w.round
  BY <1>5
<1>7. \A u \in Unit :
        /\ "revision" \in quality /\ RevisionDone(w', u) =>
               \/ w.stage = "proofread"
               \/ w.stage = "revision" /\ u <= w.next /\ u \notin v.asked
        /\ "proofread" \in quality /\ ProofreadDone(w', u) =>
               w.stage = "proofread" /\ u <= w.next /\ u \notin v.asked
  BY <1>5
<1>8. \A u \in Unit \ {unit} :
        /\ w'.text[u] = w.text[u]
        /\ u \in w'.asked => u \in w.asked
        /\ "revision" \in quality /\ RevisionDone(w', u) => RevisionDone(w, u)
        /\ "proofread" \in quality /\ ProofreadDone(w', u) => ProofreadDone(w, u)
  <2> SUFFICES ASSUME NEW u \in Unit, u # unit
               PROVE  /\ w'.text[u] = w.text[u]
                      /\ u \in w'.asked => u \in w.asked
                      /\ "revision" \in quality /\ RevisionDone(w', u)
                           => RevisionDone(w, u)
                      /\ "proofread" \in quality /\ ProofreadDone(w', u)
                           => ProofreadDone(w, u)
    OBVIOUS
  <2>1. w'.text[u] = w.text[u] /\ (u \in w'.asked => u \in w.asked)
        /\ (u \notin v.asked => u \notin w.asked)
    BY <1>6 DEF Same
  <2>2. u <= w.next => u < w.next
    BY <1>1, <1>2 DEF unit
  <2>3. w.stage = "proofread" => RevisionDone(w, u)
    BY DEF RevisionDone
  <2>4. w.stage = "revision" /\ u <= w.next /\ u \notin v.asked => RevisionDone(w, u)
    BY <2>1, <2>2 DEF RevisionDone
  <2>5. w.stage = "proofread" /\ u <= w.next /\ u \notin v.asked => ProofreadDone(w, u)
    BY <2>1, <2>2 DEF ProofreadDone
  <2> QED
    BY <1>7, <2>1, <2>3, <2>4, <2>5
<1>9. Position(w)'
  BY <1>6 DEF Position
<1>10. unit \in w'.asked => unit \in v.asked
  BY <1>6 DEF Same
<1>11. /\ "revision" \in quality /\ RevisionDone(w', unit) =>
              w.stage = "proofread" \/ (w.stage = "revision" /\ ~(unit \in v.asked))
       /\ "proofread" \in quality /\ ProofreadDone(w', unit) =>
              w.stage = "proofread" /\ ~(unit \in v.asked)
  BY <1>3, <1>7
<1>12. /\ w'.run = source /\ w'.queued = w.queued /\ (w.blocked => w'.blocked)
       /\ w'.text = v.text /\ w'.blocked = v.blocked
  BY <1>1, <1>6 DEF Same
<1>13. (unit \in v.asked) \in BOOLEAN
  OBVIOUS
<1> QED
  BY <1>3, <1>6, <1>8, <1>9, <1>10, <1>11, <1>12, <1>13 DEF Moves

LEMMA Answering ==
    ASSUME IInv, w.pc = "answering", NEW v \in Running,
           v.pc = w.pc, v.run = w.run, v.stage = w.stage, v.round = w.round,
           v.queued = w.queued, w.blocked => v.blocked, v.asked = w.asked,
           \A u \in Unit \ {first} : v.text[u] = w.text[u],
           w' = Answered(v), UNCHANGED <<source, quality>>
    PROVE  /\ Moves(first, FALSE)
           /\ w'.text = v.text /\ w'.blocked = v.blocked
           /\ w'.asked = w.asked \ {first}
<1>1. /\ w.run = source /\ <<w.stage, w.round>> \in Key
      /\ w.stage \in Reviews => w.stage \in quality
      /\ w.asked # {} /\ w.asked \subseteq w.queued
  BY DEF IInv, Types, Position
<1>2. first \in Unit
  BY <1>1, FirstIs DEF IInv, Types, Running
<1>3. LET n == Answered(v) IN
      /\ n \in Running /\ Position(n)
      /\ n.run = v.run /\ n.queued = v.queued /\ n.text = v.text
      /\ n.blocked = v.blocked /\ n.asked = v.asked \ {first}
      /\ n.pc \in {"collecting", "answering", "verifying"}
      /\ n.asked # {} => n.stage = v.stage /\ n.round = v.round
      /\ \A u \in Unit :
          /\ "revision" \in quality /\ RevisionDone(n, u) =>
                 \/ v.stage = "proofread"
                 \/ v.stage = "revision" /\ (u = first \/ u \notin v.asked)
          /\ "proofread" \in quality /\ ProofreadDone(n, u) =>
                 v.stage = "proofread" /\ (u = first \/ u \notin v.asked)
  BY <1>1, AnsweredIs
<1>4. /\ w' \in Running /\ Position(w')
      /\ w'.run = source /\ w'.queued = w.queued /\ w'.text = v.text
      /\ w'.blocked = v.blocked /\ w'.asked = w.asked \ {first}
      /\ w'.pc \in {"collecting", "answering", "verifying"}
      /\ w'.asked # {} => w'.stage = w.stage /\ w'.round = w.round
  BY <1>1, <1>3
<1>5. \A u \in Unit :
        /\ "revision" \in quality /\ RevisionDone(w', u) =>
               \/ w.stage = "proofread"
               \/ w.stage = "revision" /\ (u = first \/ u \notin w.asked)
        /\ "proofread" \in quality /\ ProofreadDone(w', u) =>
               w.stage = "proofread" /\ (u = first \/ u \notin w.asked)
  BY <1>3
<1>6. \A u \in Unit \ {first} :
        /\ "revision" \in quality /\ RevisionDone(w', u) => RevisionDone(w, u)
        /\ "proofread" \in quality /\ ProofreadDone(w', u) => ProofreadDone(w, u)
  BY <1>5 DEF RevisionDone, ProofreadDone
<1>7. Position(w)'
  BY <1>4 DEF Position
<1> QED
  BY <1>2, <1>4, <1>5, <1>6, <1>7 DEF Moves

-----------------------------------------------------------------------------
(* What a change of a unit's attempts does to what is said of them.        *)

\* t is s and a new attempt.
Grows(s, t, l, a) ==
    /\ DOMAIN t = DOMAIN s \cup {l} /\ l \notin DOMAIN s /\ t[l] = a
    /\ \A n \in DOMAIN s : t[n] = s[n]

LEMMA GrowsKeeps ==
    ASSUME NEW s, NEW t, NEW l, NEW a, Grows(s, t, l, a), NEW text
    PROVE  /\ HasRevision(s) => HasRevision(t)
           /\ Revised(s, text)
                /\ (a.key = <<"revision", 0>> /\ a.status = "succeeded" =>
                        \/ a.about = text /\ a.output = OK
                        \/ a.output = text)
                => Revised(t, text)
           /\ Proofread(s, text)
                /\ (a.key = <<"proofread", 0>> /\ a.status = "succeeded" =>
                        a.about = text)
                => Proofread(t, text)
           /\ a.key = <<"revision", 0>> /\ a.status = "succeeded"
                => HasRevision(t)
<1>1. HasRevision(s) => HasRevision(t)
  BY DEF Grows, HasRevision, Succeeds
<1>2. Revised(s, text)
        /\ (a.key = <<"revision", 0>> /\ a.status = "succeeded" =>
                \/ a.about = text /\ a.output = OK
                \/ a.output = text)
        => Revised(t, text)
  BY DEF Grows, Revised, Succeeds
<1>3. Proofread(s, text)
        /\ (a.key = <<"proofread", 0>> /\ a.status = "succeeded" =>
                a.about = text)
        => Proofread(t, text)
  BY DEF Grows, Proofread, Succeeds
<1>4. a.key = <<"revision", 0>> /\ a.status = "succeeded" => HasRevision(t)
  BY DEF Grows, HasRevision, Succeeds
<1> QED
  BY <1>1, <1>2, <1>3, <1>4

LEMMA VacantKeeps ==
    ASSUME NEW s, NEW text
    PROVE  /\ Vacant(s, <<"revision", 0>>) => Revised(s, text) /\ ~HasRevision(s)
           /\ Vacant(s, <<"proofread", 0>>) => Proofread(s, text)
BY DEF Vacant, Revised, HasRevision, Proofread, Succeeds

\* The attempt that Store makes.
Made(u, status, output) ==
    [key |-> key, status |-> status, output |-> output,
     about |-> IF Reviewing THEN w.text[u] ELSE NoText]

Unmoved == UNCHANGED <<source, quality, known, trusted, file, verified>>

SelectedElsewhere(x) ==
    /\ selected' \in [Unit -> [run : Nat, n : Nat]]
    /\ \A u \in Unit \ {x} : selected'[u] = selected[u]

LEMMA Stored ==
    ASSUME IInv, w.run = source, key \in Key, NEW x \in Unit,
           NEW status \in {"succeeded", "failed"},
           NEW output \in Answer \cup {OK, NoText},
           status = "succeeded" => output \in Text \cup {OK},
           status = "succeeded" /\ ~Reviewing => output \in Text,
           status = "succeeded" /\ w.stage = "proofread" => output = OK,
           Vacant(Now(x), key), Store(x, status, output),
           Unmoved, SelectedElsewhere(x)
    PROVE  /\ Others(x)
           /\ Grows(Now(x), Now(x)', Len(Now(x)) + 1, Made(x, status, output))
           /\ Len(Now(x)) + 1 \in Nat
<1> DEFINE a == Made(x, status, output)
           i == <<source, x>>
<1>1. i \in Run \X Unit /\ attempts \in [Run \X Unit -> Seq(Attempt)]
      /\ Well(Now(x)) /\ Now(x) = attempts[i]
  BY DEF IInv, Types, Now
<1>2. w.text[x] \in Text \cup {NoText}
  BY DEF IInv, Types, Running
<1>3. a \in Attempt /\ a.key = key /\ a.status = status /\ a.output = output
      /\ key[1] = w.stage
  BY <1>2 DEF Made, Attempt, key
<1>4. key[1] \notin Reviews <=> ~Reviewing
  BY <1>3 DEF Reviews, Reviewing
<1>5. attempts' = [attempts EXCEPT ![i] = Append(Now(x), a)]
  BY <1>1 DEF Store, Made
<1> HIDE DEF a, i
<1>6. LET t == Append(Now(x), a) IN
      /\ Well(t)
      /\ DOMAIN t = DOMAIN Now(x) \cup {Len(Now(x)) + 1}
      /\ \A n \in DOMAIN Now(x) : t[n] = Now(x)[n]
      /\ Len(Now(x)) + 1 \notin DOMAIN Now(x) /\ t[Len(Now(x)) + 1] = a
  BY <1>1, <1>3, <1>4, AppendKeeps
<1>7. Append(Now(x), a) \in Seq(Attempt) /\ Len(Now(x)) + 1 \in Nat
  BY <1>1, <1>6 DEF Well
<1>8. /\ attempts' \in [Run \X Unit -> Seq(Attempt)]
      /\ attempts'[i] = Append(Now(x), a)
      /\ \A item \in Run \X Unit : item # i => attempts'[item] = attempts[item]
  BY <1>1, <1>5, <1>7
<1>9. Now(x)' = Append(Now(x), a)
  BY <1>8 DEF Now, i, Unmoved
<1>10. Well(Now(x)')
  BY <1>6, <1>9
<1>11. Well(Now(x))'
  BY <1>10 DEF Well
<1>12. Others(x)
  BY <1>8, <1>11 DEF Others, Unmoved, SelectedElsewhere, i
<1>13. Grows(Now(x), Now(x)', Len(Now(x)) + 1, a)
  BY <1>6, <1>9 DEF Grows
<1> QED
  BY <1>7, <1>12, <1>13 DEF a

\* Attempts are as they were.
LEMMA Resting ==
    ASSUME IInv, NEW x \in Unit, Unmoved, UNCHANGED attempts, SelectedElsewhere(x)
    PROVE  Others(x) /\ Now(x)' = Now(x)
<1>1. Now(x)' = Now(x)
  BY DEF Now, Unmoved
<1>2. Well(Now(x))
  BY DEF IInv, Types, Now
<1>3. Well(Now(x))'
  <2>1. Well(Now(x)')
    BY <1>1, <1>2
  <2> QED
    BY <2>1 DEF Well
<1>4. attempts' \in [Run \X Unit -> Seq(Attempt)]
  BY DEF IInv, Types
<1> QED
  BY <1>1, <1>3, <1>4 DEF Others, Unmoved, SelectedElsewhere

\* A selection that is left alone, while nothing of its attempt changes.
LEMMA StaysSelected ==
    ASSUME IInv, NEW x \in Unit, Unmoved, selected'[x] = selected[x],
           DOMAIN Now(x) \subseteq DOMAIN Now(x)',
           selected[x].run = source /\ selected[x].n \in DOMAIN Now(x) =>
               Now(x)'[selected[x].n] = Now(x)[selected[x].n],
           \A item \in Run \X Unit : item # <<source, x>> =>
               attempts'[item] = attempts[item]
    PROVE  /\ CandidateOK(x)'
           /\ \A text : Selects(x, text) => Selects(x, text)'
<1>1. CandidateOK(x)
  BY DEF IInv, UnitInv
<1>2. CASE selected[x] = NoCandidate
  <2>1. CandidateOK(x)'
    BY <1>2 DEF CandidateOK
  <2>2. \A text : ~Selects(x, text)
    BY <1>2 DEF Selects
  <2> QED
    BY <2>1, <2>2
<1>3. CASE selected[x] # NoCandidate
  <2> DEFINE i == <<selected[x].run, x>>
             n == selected[x].n
  <2>1. /\ selected[x].run \in Run /\ i \in Run \X Unit
        /\ selected[x] \in [run : Run, n : Nat]
        /\ n \in DOMAIN attempts[i]
        /\ attempts[i][n].status = "succeeded" /\ attempts[i][n].output \in Text
    BY <1>1, <1>3 DEF CandidateOK, Candidate
  <2>2. n \in DOMAIN attempts'[i] /\ attempts'[i][n] = attempts[i][n]
    <3>1. CASE selected[x].run = source
      BY <2>1, <3>1 DEF Now, Unmoved
    <3>2. CASE selected[x].run # source
      <4>1. i # <<source, x>>
        BY <3>2
      <4> QED
        BY <2>1, <4>1
    <3> QED
      BY <3>1, <3>2
  <2>3. Candidate(x)' = Candidate(x) /\ Candidate(x) = attempts[i][n]
    BY <2>2 DEF Candidate
  <2>4. CandidateOK(x)'
    BY <2>1, <2>2, <2>3 DEF CandidateOK
  <2>5. \A text : Selects(x, text) => Selects(x, text)'
    BY <2>3 DEF Selects, Unmoved
  <2> QED
    BY <2>4, <2>5
<1> QED
  BY <1>2, <1>3

\* A selection of an attempt of this run.
LEMMA IsSelected ==
    ASSUME IInv, NEW x \in Unit, Unmoved, NEW n \in Nat,
           selected'[x] = [run |-> source, n |-> n],
           n \in DOMAIN Now(x)', Now(x)'[n].status = "succeeded",
           NEW text \in Text, Now(x)'[n].output = text
    PROVE  CandidateOK(x)' /\ Selects(x, text)'
<1>1. source \in Run /\ source # 0 /\ source' = source
  BY PipelineAssumption DEF IInv, Types, Run, Unmoved
<1>2. /\ selected'[x].run = source /\ selected'[x].n = n
      /\ selected'[x] # NoCandidate /\ selected'[x] \in [run : Run, n : Nat]
  BY <1>1 DEF NoCandidate
<1>3. Candidate(x)' = Now(x)'[n] /\ attempts'[<<selected'[x].run, x>>] = Now(x)'
  BY <1>1, <1>2 DEF Candidate, Now
<1>4. CandidateOK(x)'
  BY <1>2, <1>3 DEF CandidateOK
<1>5. Selects(x, text)'
  BY <1>1, <1>2, <1>3 DEF Selects
<1> QED
  BY <1>4, <1>5

-----------------------------------------------------------------------------
(* Collecting.                                                             *)

LEMMA CollectFacts ==
    ASSUME IInv, w.pc = "collecting"
    PROVE  /\ unit \in Unit /\ unit \notin w.asked
           /\ w \in Running /\ w.run = source /\ key \in Key
           /\ Reviewing => w.stage \in quality
           /\ w.stage \in Stage
           /\ Item(unit) = Now(unit) /\ Well(Now(unit))
           /\ UnitInv(unit)
           /\ w.text[unit] \in Text \cup {NoText}
           /\ w.asked \subseteq w.queued
<1>1. /\ unit \in Unit /\ w.run = source /\ key \in Key
      /\ \A u \in w.asked : u < unit
      /\ Reviewing => w.stage \in quality
      /\ w.asked \subseteq w.queued
  BY DEF IInv, Types, Position, unit, key, Reviewing, Reviews
<1>2. unit \notin w.asked
  BY <1>1, UnitType
<1>3. w \in Running /\ w.text[unit] \in Text \cup {NoText} /\ w.stage \in Stage
  BY <1>1 DEF IInv, Types, Running
<1>4. Item(unit) = Now(unit) /\ Well(Now(unit))
  BY <1>1 DEF IInv, Types, Item, Now
<1> QED
  BY <1>1, <1>2, <1>3, <1>4 DEF IInv

LEMMA StandingIs ==
    ASSUME IInv, w.pc \in {"collecting", "answering"}, NEW x \in Unit, Unmoved,
           \A text \in Text :
               /\ text = verified[source][x] /\ Untrusted(x) /\ w.text[x] = text
               /\ Standing(x, text)
               => /\ Selects(x, text)' /\ w'.text[x] = text
                  /\ "revision" \in quality =>
                         Revised(Now(x)', text) /\ HasRevision(Now(x)')
                  /\ "proofread" \in quality => Proofread(Now(x)', text)
    PROVE  StandingInv(x)'
<1>1. CASE ~(verified[source][x] # NoText /\ Untrusted(x))
  BY <1>1 DEF StandingInv, Untrusted, Unmoved
<1>2. CASE verified[source][x] # NoText /\ Untrusted(x)
  <2>1. verified[source][x] \in Text
    BY <1>2 DEF IInv, Types
  <2>2. Standing(x, verified[source][x]) /\ w.text[x] = verified[source][x]
    BY <1>2 DEF IInv, UnitInv, StandingInv, Begun
  <2>3. PICK text \in Text : text = verified[source][x]
    BY <2>1
  <2>4. /\ Selects(x, text)' /\ w'.text[x] = text
        /\ "revision" \in quality =>
               Revised(Now(x)', text) /\ HasRevision(Now(x)')
        /\ "proofread" \in quality => Proofread(Now(x)', text)
    BY <1>2, <2>2, <2>3
  <2>5. /\ Revised(Now(x), text)' <=> Revised(Now(x)', text)
        /\ HasRevision(Now(x))' <=> HasRevision(Now(x)')
        /\ Proofread(Now(x), text)' <=> Proofread(Now(x)', text)
    BY DEF Revised, HasRevision, Proofread, Succeeds
  <2>6. Standing(x, text)'
    BY <2>4, <2>5 DEF Standing, Unmoved
  <2>7. verified'[source'][x] = text
    BY <2>3 DEF Unmoved
  <2> QED
    BY <2>4, <2>6, <2>7 DEF StandingInv
<1> QED
  BY <1>1, <1>2

\* Attempts, selection and text of unit x are as they were.
LEMMA Untouched ==
    ASSUME IInv, w.pc \in {"collecting", "answering"}, NEW x \in Unit, Unmoved,
           UNCHANGED <<attempts, selected>>, w'.text[x] = w.text[x],
           w.blocked => w'.blocked, NEW asking \in BOOLEAN,
           asking => Vacant(Now(x), key) /\ (Reviewing <=> w.text[x] # NoText),
           /\ "revision" \in quality /\ w.text[x] # NoText
           /\ w.stage = "revision" /\ ~asking
           => /\ Revised(Now(x), w.text[x])
              /\ w'.blocked \/ HasRevision(Now(x)),
           /\ "proofread" \in quality /\ w.text[x] # NoText
           /\ w.stage = "proofread" /\ ~asking
           => Proofread(Now(x), w.text[x])
    PROVE  Others(x) /\ Owes(x, asking)
<1>1. SelectedElsewhere(x)
  BY DEF SelectedElsewhere, IInv, Types
<1>2. Others(x) /\ Now(x)' = Now(x)
  BY <1>1, Resting
<1>3. CandidateOK(x)' /\ \A text : Selects(x, text) => Selects(x, text)'
  BY <1>2, StaysSelected
<1>4. UnitInv(x)
  BY DEF IInv
<1>5. quality # {} /\ w'.text[x] # NoText => x \in w.queued
  BY <1>4 DEF UnitInv, QueuedInv
<1>6. "revision" \in quality /\ w'.text[x] # NoText
        /\ (w.stage = "proofread" \/ (w.stage = "revision" /\ ~asking)) =>
          Revised(Now(x)', w'.text[x]) /\ (w'.blocked \/ HasRevision(Now(x)'))
  <2>1. w.stage = "proofread" => RevisionDone(w, x)
    BY DEF RevisionDone
  <2> QED
    BY <1>2, <1>4, <2>1 DEF UnitInv, RevisionInv
<1>7. (w.text[x] # NoText /\ Untrusted(x) => Selects(x, w.text[x]))'
  <2>1. Untrusted(x)' = Untrusted(x)
    BY DEF Untrusted, Unmoved
  <2>2. w.text[x] # NoText /\ Untrusted(x) => Selects(x, w.text[x])'
    BY <1>3, <1>4 DEF UnitInv, ChoiceInv
  <2> QED
    BY <2>1, <2>2
<1>8. StandingInv(x)'
  BY <1>2, <1>3, StandingIs DEF Standing
<1> QED
  BY <1>2, <1>3, <1>5, <1>6, <1>7, <1>8 DEF Owes

\* A succeeded attempt of unit is the only one with its key.
LEMMA OnlyOne ==
    ASSUME NEW s, Well(s), NEW n \in DOMAIN s, NEW k \in Key, Succeeds(s, n, k)
    PROVE  /\ \A m \in DOMAIN s : Succeeds(s, m, k) => m = n
           /\ k[1] \notin Reviews => s[n].output \in Text
           /\ k[1] = "proofread" => s[n].output = OK
           /\ s[n].output \in Text \cup {OK}
           /\ s[n] \in Attempt
BY DEF Well, Succeeds

LEMMA SucceededIs ==
    ASSUME IInv, w.pc = "collecting"
    PROVE  /\ Succeeded(unit, key) =
                {n \in DOMAIN Now(unit) : Succeeds(Now(unit), n, key)}
           /\ Holding(unit, key) = {} => Vacant(Now(unit), key)
           /\ Holding(unit, key) = {} => Succeeded(unit, key) = {}
           /\ Reviewing => key = <<w.stage, 0>> /\ key[1] \in Reviews
           /\ ~Reviewing => key[1] \notin Reviews
           /\ key[1] = w.stage
<1>1. Item(unit) = Now(unit) /\ key \in Key
  BY CollectFacts
<1>2. Succeeded(unit, key) = {n \in DOMAIN Now(unit) : Succeeds(Now(unit), n, key)}
  BY <1>1 DEF Succeeded, Holding, Succeeds
<1>3. Holding(unit, key) = {} => Vacant(Now(unit), key)
  BY <1>1 DEF Holding, Vacant
<1>4. key[1] = w.stage /\ key = <<w.stage, w.round>>
  BY DEF key
<1>5. Reviewing <=> key[1] \in Reviews
  BY <1>4 DEF Reviewing, Reviews
<1>6. Reviewing => key[2] = 0
  BY <1>1, <1>5, KeyType
<1> QED
  BY <1>2, <1>3, <1>4, <1>5, <1>6 DEF Succeeded, key

\* A step of collecting that stores nothing and selects nothing.
LEMMA Looks ==
    ASSUME IInv, w.pc = "collecting", NEW v \in Running,
           v.pc = w.pc, v.run = w.run, v.next = w.next, v.stage = w.stage,
           v.round = w.round, v.queued = w.queued, v.text = w.text,
           w.blocked => v.blocked,
           \/ v.asked = w.asked
           \/ v.asked = w.asked \cup {unit} /\ unit \in w.queued,
           w' = Onward(v), Unmoved, UNCHANGED <<attempts, selected>>,
           unit \in v.asked =>
               Vacant(Now(unit), key) /\ (Reviewing <=> w.text[unit] # NoText),
           /\ "revision" \in quality /\ w.text[unit] # NoText
           /\ w.stage = "revision" /\ ~(unit \in v.asked)
           => /\ Revised(Now(unit), w.text[unit])
              /\ v.blocked \/ HasRevision(Now(unit)),
           /\ "proofread" \in quality /\ w.text[unit] # NoText
           /\ w.stage = "proofread" /\ ~(unit \in v.asked)
           => Proofread(Now(unit), w.text[unit])
    PROVE  IInv'
<1>0. PICK x : x = unit
  OBVIOUS
<1>1. PICK asking \in BOOLEAN : asking <=> x \in v.asked
  <2>1. CASE x \in v.asked
    BY <2>1
  <2>2. CASE x \notin v.asked
    BY <2>2
  <2> QED
    BY <2>1, <2>2
<1>2. /\ x \in Unit /\ Moves(x, asking)
      /\ w'.text = v.text /\ w'.blocked = v.blocked
  <2>1. UNCHANGED <<source, quality>>
    BY DEF Unmoved
  <2>2. /\ unit \in Unit /\ Moves(unit, unit \in v.asked)
        /\ w'.text = v.text /\ w'.blocked = v.blocked
    BY <2>1, Collected
  <2> QED
    BY <1>0, <1>1, <2>2 DEF Moves
<1>3. Others(x) /\ Owes(x, asking)
  <2>1. asking \in BOOLEAN /\ (asking <=> x \in v.asked)
    BY <1>1
  <2>2. asking => Vacant(Now(x), key) /\ (Reviewing <=> w.text[x] # NoText)
    BY <1>0, <2>1
  <2>3. /\ "revision" \in quality /\ w.text[x] # NoText
        /\ w.stage = "revision" /\ ~asking
        => /\ Revised(Now(x), w.text[x])
           /\ w'.blocked \/ HasRevision(Now(x))
    BY <1>0, <1>2, <2>1
  <2>4. /\ "proofread" \in quality /\ w.text[x] # NoText
        /\ w.stage = "proofread" /\ ~asking
        => Proofread(Now(x), w.text[x])
    BY <1>0, <2>1
  <2>5. w'.text[x] = w.text[x] /\ (w.blocked => w'.blocked)
    BY <1>2
  <2> QED
    BY <1>2, <2>1, <2>2, <2>3, <2>4, <2>5, Untouched
<1> QED
  BY <1>2, <1>3, UnitStep

LEMMA PassKeeps ==
    ASSUME IInv, Pass
    PROVE  IInv'
<1>1. /\ w.pc = "collecting" /\ w' = Onward(w) /\ Unmoved /\ ~Due(unit)
      /\ UNCHANGED <<attempts, selected>>
  BY DEF Pass, Unmoved
<1>2. unit \in Unit /\ unit \notin w.asked /\ w \in Running /\ UnitInv(unit)
      /\ (Reviewing => w.stage \in quality)
  BY <1>1, CollectFacts
<1>3. ~(Reviewing /\ w.text[unit] # NoText)
  BY <1>1, <1>2 DEF UnitInv, QueuedInv, Due, Reviewing
<1> QED
  BY <1>1, <1>2, <1>3, Looks DEF Reviewing

LEMMA RecoverVerdictKeeps ==
    ASSUME IInv, RecoverVerdict
    PROVE  IInv'
<1>1. /\ w.pc = "collecting" /\ w' = Onward(w) /\ Unmoved /\ Due(unit)
      /\ UNCHANGED <<attempts, selected>>
  BY DEF RecoverVerdict, Unmoved
<1>2. /\ unit \in Unit /\ unit \notin w.asked /\ w \in Running /\ UnitInv(unit)
      /\ (Reviewing => w.stage \in quality) /\ Well(Now(unit)) /\ key \in Key
      /\ Item(unit) = Now(unit)
  BY <1>1, CollectFacts
<1>3. PICK n \in Recovered(unit, key) :
        w.stage = "proofread" \/ Item(unit)[n].output = OK
  BY DEF RecoverVerdict
<1>4. /\ n \in DOMAIN Now(unit) /\ Succeeds(Now(unit), n, key)
      /\ Reviewing => Compatible(Now(unit)[n], w.text[unit])
  BY <1>1, <1>2, <1>3, SucceededIs DEF Recovered
<1>5. /\ \A m \in DOMAIN Now(unit) : Succeeds(Now(unit), m, key) => m = n
      /\ key[1] \notin Reviews => Now(unit)[n].output \in Text
  BY <1>2, <1>4, OnlyOne
<1>6. w.text[unit] # NoText => w.text[unit] # OK
  BY <1>1, Answers, CollectFacts
<1>7. w.stage = "revision" /\ w.text[unit] # NoText =>
        Revised(Now(unit), w.text[unit]) /\ HasRevision(Now(unit))
  <2> SUFFICES ASSUME w.stage = "revision", w.text[unit] # NoText
               PROVE  Revised(Now(unit), w.text[unit]) /\ HasRevision(Now(unit))
    OBVIOUS
  <2>1. key = <<"revision", 0>> /\ Now(unit)[n].output = OK
    BY <1>1, <1>2, <1>3, SucceededIs DEF Reviewing
  <2>2. Now(unit)[n].about = w.text[unit]
    BY <1>4, <1>6, <2>1 DEF Reviewing, Compatible
  <2> QED
    BY <1>4, <1>5, <2>1, <2>2 DEF Revised, HasRevision
<1>8. w.stage = "proofread" => Proofread(Now(unit), w.text[unit])
  <2> SUFFICES ASSUME w.stage = "proofread"
               PROVE  Proofread(Now(unit), w.text[unit])
    OBVIOUS
  <2>1. key = <<"proofread", 0>>
    BY <1>1, SucceededIs DEF Reviewing
  <2>2. Now(unit)[n].key[1] = "proofread"
    BY <1>4, <2>1 DEF Succeeds
  <2>3. Now(unit)[n].about = w.text[unit]
    BY <1>4, <2>2 DEF Reviewing, Compatible
  <2> QED
    BY <1>4, <1>5, <2>1, <2>3 DEF Proofread
<1> QED
  BY <1>1, <1>2, <1>7, <1>8, Looks

LEMMA SkipFailedKeeps ==
    ASSUME IInv, SkipFailed
    PROVE  IInv'
<1> DEFINE v == [w EXCEPT !.skipped = TRUE,
                          !.blocked = @ \/ w.stage = "revision"]
<1>1. /\ w.pc = "collecting" /\ w' = Onward(v) /\ Unmoved
      /\ UNCHANGED <<attempts, selected>> /\ Succeeded(unit, key) = {}
  BY DEF SkipFailed, Unmoved, Failed
<1>2. /\ unit \notin w.asked /\ w \in Running
      /\ (Reviewing => w.stage \in quality)
  BY <1>1, CollectFacts
<1>3. /\ v \in Running
      /\ v.pc = w.pc /\ v.run = w.run /\ v.next = w.next /\ v.stage = w.stage
      /\ v.round = w.round /\ v.queued = w.queued /\ v.text = w.text
      /\ v.asked = w.asked /\ (w.blocked => v.blocked)
      /\ w.stage = "revision" => v.blocked
  BY <1>2 DEF Running
<1> HIDE DEF v
<1>4. \A n \in DOMAIN Now(unit) : ~Succeeds(Now(unit), n, key)
  BY <1>1, SucceededIs
<1>5. w.stage = "revision" => Revised(Now(unit), w.text[unit])
  BY <1>1, <1>4, SucceededIs DEF Revised, Reviewing
<1>6. w.stage = "proofread" => Proofread(Now(unit), w.text[unit])
  BY <1>1, <1>4, SucceededIs DEF Proofread, Reviewing
<1> QED
  BY <1>1, <1>2, <1>3, <1>5, <1>6, Looks

LEMMA AskKeeps ==
    ASSUME IInv, Ask
    PROVE  IInv'
<1> DEFINE v == [w EXCEPT !.asked = @ \cup {unit}]
<1>1. /\ w.pc = "collecting" /\ w' = Onward(v) /\ Unmoved /\ Due(unit)
      /\ UNCHANGED <<attempts, selected>>
      /\ Succeeded(unit, key) = {} /\ ~Failed(unit, key)
  BY DEF Ask, Unmoved
<1>2. w \in Running /\ unit \in Unit /\ unit \in w.queued
      /\ (Reviewing <=> w.text[unit] # NoText)
  BY <1>1, CollectFacts DEF Due
<1>3. /\ v \in Running
      /\ v.pc = w.pc /\ v.run = w.run /\ v.next = w.next /\ v.stage = w.stage
      /\ v.round = w.round /\ v.queued = w.queued /\ v.text = w.text
      /\ v.asked = w.asked \cup {unit} /\ v.blocked = w.blocked
  BY <1>2 DEF Running
<1> HIDE DEF v
<1>4. Holding(unit, key) = {}
  BY <1>1 DEF Failed
<1>5. Vacant(Now(unit), key)
  BY <1>1, <1>4, SucceededIs
<1> QED
  BY <1>1, <1>2, <1>3, <1>5, Looks

\* A text is selected, stored in this step or before, for a unit that the
\* sync is not asking about.
LEMMA Selecting ==
    ASSUME IInv, w.pc \in {"collecting", "answering"}, NEW x \in Unit, Unmoved,
           Others(x), x \in w.queued, w.stage # "proofread",
           NEW text \in Text, w'.text[x] = text, w'.run = source,
           NEW n \in Nat, selected'[x] = [run |-> source, n |-> n],
           n \in DOMAIN Now(x)', Now(x)'[n].status = "succeeded",
           Now(x)'[n].output = text,
           w.stage = "revision" =>
               /\ "revision" \in quality
               /\ Now(x)'[n].key = <<"revision", 0>>
               /\ Revised(Now(x)', text),
           w.text[x] # NoText =>
               \/ Now(x)' = Now(x) /\ w.stage = "revision"
               \/ ~HasRevision(Now(x)) /\ "revision" \in quality
    PROVE  Owes(x, FALSE)
<1>1. CandidateOK(x)' /\ Selects(x, text)'
  BY IsSelected
<1>2. w.stage = "revision" => HasRevision(Now(x)')
  BY DEF HasRevision, Succeeds
<1>3. (w.text[x] # NoText /\ Untrusted(x) => Selects(x, w.text[x]))'
  BY <1>1
<1>4. StandingInv(x)'
  <2>1. SUFFICES ASSUME NEW t \in Text, t = verified[source][x], Untrusted(x),
                        w.text[x] = t, Standing(x, t)
                 PROVE  /\ Selects(x, t)' /\ w'.text[x] = t
                        /\ "revision" \in quality =>
                               Revised(Now(x)', t) /\ HasRevision(Now(x)')
                        /\ "proofread" \in quality => Proofread(Now(x)', t)
    BY StandingIs
  <2>2. w.text[x] # NoText
    BY <2>1, Answers
  <2>3. Now(x)' = Now(x) /\ w.stage = "revision"
    BY <2>1, <2>2 DEF Standing
  <2>4. /\ "revision" \in quality =>
               Revised(Now(x), t) /\ HasRevision(Now(x))
        /\ "proofread" \in quality => Proofread(Now(x), t)
    BY <2>1 DEF Standing
  <2>5. text = t
    <3>1. Succeeds(Now(x), n, <<"revision", 0>>) /\ n \in DOMAIN Now(x)
      BY <2>3 DEF Succeeds
    <3> QED
      BY <2>3, <2>4, <3>1, Answers DEF Revised
  <2> QED
    BY <1>1, <2>3, <2>4, <2>5
<1> QED
  BY <1>1, <1>2, <1>3, <1>4 DEF Owes

LEMMA SelectIs ==
    ASSUME IInv, w.run = source, NEW x \in Unit, NEW n \in Nat, Select(x, n)
    PROVE  /\ SelectedElsewhere(x)
           /\ selected'[x] = [run |-> source, n |-> n]
<1>1. [run |-> source, n |-> n] \in [run : Nat, n : Nat]
  BY PipelineAssumption DEF IInv, Types, Run
<1> QED
  BY <1>1 DEF IInv, Types, Select, SelectedElsewhere

LEMMA RecoverTextKeeps ==
    ASSUME IInv, RecoverText
    PROVE  IInv'
<1>1. /\ w.pc = "collecting" /\ Unmoved /\ Due(unit)
      /\ UNCHANGED attempts /\ w.stage # "proofread"
  BY DEF RecoverText, Unmoved
<1>2. /\ unit \in Unit /\ unit \notin w.asked /\ w \in Running /\ w.run = source
      /\ (Reviewing => w.stage \in quality) /\ Well(Now(unit)) /\ key \in Key
      /\ Item(unit) = Now(unit)
  BY <1>1, CollectFacts
<1>3. PICK x : x = unit
  OBVIOUS
<1>4. PICK n \in Recovered(x, key) :
        /\ Item(x)[n].output # OK
        /\ Select(x, n)
        /\ w' = Onward([w EXCEPT !.text[x] = Item(x)[n].output])
  BY <1>3 DEF RecoverText
<1>5. /\ n \in DOMAIN Now(x) /\ Succeeds(Now(x), n, key)
      /\ Reviewing => Compatible(Now(x)[n], w.text[x])
  BY <1>1, <1>2, <1>3, <1>4, SucceededIs DEF Recovered
<1>6. /\ \A m \in DOMAIN Now(x) : Succeeds(Now(x), m, key) => m = n
      /\ Now(x)[n].output \in Text
  <2>1. Now(x)[n].output # OK
    BY <1>2, <1>3, <1>4
  <2> QED
    BY <1>2, <1>3, <1>5, <2>1, OnlyOne
<1>7. PICK text \in Text : text = Now(x)[n].output
  BY <1>6
<1>8. n \in Nat
  BY <1>2, <1>3, <1>5 DEF Well
<1> DEFINE v == [w EXCEPT !.text[x] = text]
<1>9. /\ v \in Running /\ w' = Onward(v)
      /\ v.pc = w.pc /\ v.run = w.run /\ v.next = w.next /\ v.stage = w.stage
      /\ v.round = w.round /\ v.queued = w.queued /\ v.asked = w.asked
      /\ v.blocked = w.blocked /\ v.text[x] = text
      /\ \A u \in Unit \ {x} : v.text[u] = w.text[u]
  BY <1>2, <1>3, <1>4, <1>7 DEF Running
<1> HIDE DEF v
<1>10. Moves(x, FALSE) /\ w'.text[x] = text
  <2>1. UNCHANGED <<source, quality>>
    BY <1>1 DEF Unmoved
  <2>2. Moves(unit, unit \in v.asked) /\ w'.text = v.text
    BY <1>1, <1>3, <1>9, <2>1, Collected
  <2>3. ~(x \in v.asked)
    BY <1>2, <1>3, <1>9
  <2> QED
    BY <1>3, <1>9, <2>2, <2>3 DEF Moves
<1>11. SelectedElsewhere(x) /\ selected'[x] = [run |-> source, n |-> n]
  BY <1>2, <1>3, <1>4, <1>8, SelectIs
<1>12. Others(x) /\ Now(x)' = Now(x)
  BY <1>1, <1>2, <1>3, <1>11, Resting
<1>13. w.stage = "revision" =>
         /\ "revision" \in quality
         /\ Now(x)[n].key = <<"revision", 0>>
         /\ Revised(Now(x), text)
  <2> SUFFICES ASSUME w.stage = "revision"
               PROVE  /\ "revision" \in quality
                      /\ Now(x)[n].key = <<"revision", 0>>
                      /\ Revised(Now(x), text)
    OBVIOUS
  <2>1. key = <<"revision", 0>> /\ "revision" \in quality
    BY <1>1, <1>2, SucceededIs DEF Reviewing
  <2> QED
    BY <1>5, <1>6, <1>7, <2>1 DEF Revised, Succeeds
<1>14. x \in w.queued /\ (w.text[x] # NoText => w.stage = "revision")
  BY <1>1, <1>3 DEF Due, Reviewing
<1>15. Owes(x, FALSE)
  <2>1. /\ n \in DOMAIN Now(x)' /\ Now(x)'[n].status = "succeeded"
        /\ Now(x)'[n].output = text
    BY <1>5, <1>7, <1>12 DEF Succeeds
  <2>2. w'.run = source
    BY <1>10 DEF Moves
  <2> QED
    BY <1>1, <1>2, <1>3, <1>8, <1>10, <1>11, <1>12, <1>13, <1>14, <2>1, <2>2,
       Selecting
<1> QED
  BY <1>1, <1>10, <1>12, <1>15, UnitStep

LEMMA RepairedIs ==
    ASSUME NEW u \in Unit, Repaired(u) # NoText
    PROVE  Repaired(u) \in Text
BY PipelineAssumption DEF Repaired

LEMMA FixKeeps ==
    ASSUME IInv, Fix
    PROVE  IInv'
<1>1. /\ w.pc = "collecting" /\ Unmoved /\ Due(unit) /\ w.stage = "fix"
      /\ Holding(unit, key) = {}
  BY DEF Fix, Unmoved
<1>2. /\ unit \in Unit /\ unit \notin w.asked /\ w \in Running /\ w.run = source
      /\ Well(Now(unit)) /\ key \in Key /\ Item(unit) = Now(unit)
  BY <1>1, CollectFacts
<1>3. PICK x : x = unit
  OBVIOUS
<1>4. PICK text \in Text : text = Repaired(x)
  BY <1>1, <1>2, <1>3, RepairedIs DEF Due
<1>5. PICK n : n = Len(Now(x)) + 1
  OBVIOUS
<1>6. /\ Store(x, "succeeded", text) /\ Select(x, n)
      /\ w' = Onward([w EXCEPT !.text[x] = text])
  BY <1>2, <1>3, <1>4, <1>5 DEF Fix, StoreCandidate
<1>7. Vacant(Now(x), key) /\ ~Reviewing
  BY <1>1, <1>3, SucceededIs DEF Reviewing
<1>8. n \in Nat
  BY <1>2, <1>3, <1>5 DEF Well
<1>9. SelectedElsewhere(x) /\ selected'[x] = [run |-> source, n |-> n]
  BY <1>2, <1>3, <1>6, <1>8, SelectIs
<1>10. Others(x) /\ Grows(Now(x), Now(x)', n, Made(x, "succeeded", text))
  <2>1. text \in Answer
    BY Answers
  <2> QED
    BY <1>1, <1>2, <1>3, <1>5, <1>6, <1>7, <1>9, <2>1, Stored
<1> DEFINE v == [w EXCEPT !.text[x] = text]
<1>11. /\ v \in Running /\ w' = Onward(v)
       /\ v.pc = w.pc /\ v.run = w.run /\ v.next = w.next /\ v.stage = w.stage
       /\ v.round = w.round /\ v.queued = w.queued /\ v.asked = w.asked
       /\ v.blocked = w.blocked /\ v.text[x] = text
       /\ \A u \in Unit \ {x} : v.text[u] = w.text[u]
  BY <1>2, <1>3, <1>6 DEF Running
<1> HIDE DEF v
<1>12. Moves(x, FALSE) /\ w'.text[x] = text
  <2>1. UNCHANGED <<source, quality>>
    BY <1>1 DEF Unmoved
  <2>2. Moves(unit, unit \in v.asked) /\ w'.text = v.text
    BY <1>1, <1>3, <1>11, <2>1, Collected
  <2>3. ~(x \in v.asked)
    BY <1>2, <1>3, <1>11
  <2> QED
    BY <1>3, <1>11, <2>2, <2>3 DEF Moves
<1>13. Owes(x, FALSE)
  <2>1. /\ n \in DOMAIN Now(x)' /\ Now(x)'[n].status = "succeeded"
        /\ Now(x)'[n].output = text
    BY <1>10 DEF Grows, Made
  <2>2. w'.run = source
    BY <1>12 DEF Moves
  <2>3. x \in w.queued /\ w.text[x] = NoText
    BY <1>1, <1>3, <1>7 DEF Due
  <2> QED
    BY <1>1, <1>2, <1>3, <1>8, <1>9, <1>10, <1>12, <2>1, <2>2, <2>3, Selecting
<1> QED
  BY <1>1, <1>10, <1>12, <1>13, UnitStep

LEMMA AskAnewKeeps ==
    ASSUME IInv, AskAnew
    PROVE  IInv'
<1>1. /\ w.pc = "collecting" /\ Unmoved /\ Due(unit)
      /\ Recovered(unit, key) = {}
  BY DEF AskAnew, Unmoved
<1>2. /\ unit \in Unit /\ unit \notin w.asked /\ w \in Running /\ w.run = source
      /\ (Reviewing => w.stage \in quality) /\ Well(Now(unit)) /\ key \in Key
      /\ Item(unit) = Now(unit) /\ UnitInv(unit)
      /\ w.text[unit] \in Text \cup {NoText}
  BY <1>1, CollectFacts
<1>3. PICK x : x = unit
  OBVIOUS
<1>4. PICK n \in Succeeded(x, key) : Retire(x, n)
  BY <1>3 DEF AskAnew
<1>5. n \in DOMAIN Now(x) /\ Succeeds(Now(x), n, key) /\ Reviewing
  BY <1>1, <1>2, <1>3, <1>4, SucceededIs DEF Recovered
<1>6. /\ ~Compatible(Now(x)[n], w.text[x])
      /\ w.text[x] \in Text /\ x \in w.queued
  BY <1>1, <1>2, <1>3, <1>4, <1>5 DEF Recovered, Due
<1>7. /\ \A m \in DOMAIN Now(x) : Succeeds(Now(x), m, key) => m = n
      /\ key[1] = "proofread" => Now(x)[n].output = OK
  BY <1>2, <1>3, <1>5, OnlyOne
<1>8. /\ key = <<w.stage, 0>> /\ key[1] \in Reviews /\ key[1] = w.stage
      /\ w.stage \in quality
  BY <1>1, <1>2, <1>5, SucceededIs
\* What the unit's attempts have become.
<1> DEFINE t == [Now(x) EXCEPT ![n].status = "cancelled"]
<1>9. /\ Well(t) /\ DOMAIN t = DOMAIN Now(x)
      /\ \A m \in DOMAIN Now(x) : m # n => t[m] = Now(x)[m]
      /\ t[n].key = key /\ t[n].status = "cancelled"
      /\ Vacant(t, key)
  BY <1>2, <1>3, <1>5, <1>8, CancelKeeps DEF Succeeds
<1>10. t \in Seq(Attempt) /\ <<source, x>> \in Run \X Unit
  BY <1>2, <1>3, <1>9 DEF Well, IInv, Types
<1>11. /\ attempts' = [attempts EXCEPT ![<<source, x>>] = t]
       /\ selected' = IF selected[x] = [run |-> source, n |-> n]
                      THEN [selected EXCEPT ![x] = NoCandidate] ELSE selected
  BY <1>2, <1>4 DEF Retire, Now
<1> HIDE DEF t
<1>12. /\ attempts' \in [Run \X Unit -> Seq(Attempt)]
       /\ attempts'[<<source, x>>] = t
       /\ \A item \in Run \X Unit : item # <<source, x>> =>
              attempts'[item] = attempts[item]
  BY <1>10, <1>11 DEF IInv, Types
<1>13. Now(x)' = t
  BY <1>1, <1>12 DEF Now, Unmoved
<1>14. SelectedElsewhere(x)
  <2>1. NoCandidate \in [run : Nat, n : Nat]
    BY DEF NoCandidate
  <2> QED
    BY <1>11, <2>1 DEF SelectedElsewhere, IInv, Types
<1>15. Others(x)
  <2>1. Well(Now(x)')
    BY <1>9, <1>13
  <2>2. Well(Now(x))'
    BY <2>1 DEF Well
  <2> QED
    BY <1>1, <1>12, <1>14, <2>2 DEF Others, Unmoved, SelectedElsewhere
<1>16. PICK v \in Running :
         /\ w' = Onward(v)
         /\ v.pc = w.pc /\ v.run = w.run /\ v.next = w.next /\ v.stage = w.stage
         /\ v.round = w.round /\ v.queued = w.queued
         /\ v.asked = w.asked \cup {x}
         /\ v.blocked = w.blocked /\ v.text = w.text
  <2> DEFINE v == [w EXCEPT !.asked = @ \cup {x}]
  <2>1. w' = Onward(v)
    BY <1>3 DEF AskAnew
  <2>2. v \in Running
    BY <1>2, <1>3 DEF Running
  <2>3. /\ v.pc = w.pc /\ v.run = w.run /\ v.next = w.next /\ v.stage = w.stage
        /\ v.round = w.round /\ v.queued = w.queued
        /\ v.asked = w.asked \cup {x}
        /\ v.blocked = w.blocked /\ v.text = w.text
    BY <1>2 DEF Running
  <2> HIDE DEF v
  <2> QED
    BY <2>1, <2>2, <2>3
<1>17. Moves(x, TRUE) /\ w'.text = w.text /\ w'.blocked = w.blocked
  <2>1. UNCHANGED <<source, quality>>
    BY <1>1 DEF Unmoved
  <2>2. /\ Moves(unit, unit \in v.asked)
        /\ w'.text = v.text /\ w'.blocked = v.blocked
    BY <1>1, <1>3, <1>6, <1>16, <2>1, Collected
  <2>3. x \in v.asked
    BY <1>16
  <2> QED
    BY <1>3, <1>16, <2>2, <2>3 DEF Moves
\* The selected candidate is another attempt's.
<1>18. /\ \A text : Selects(x, text) /\ text = w.text[x] =>
              selected[x] # [run |-> source, n |-> n]
       /\ Candidate(x) = Now(x)[n] /\ w.stage = "proofread" =>
              Candidate(x).output = OK
  <2>1. w.stage = "proofread" => Now(x)[n].output = OK
    BY <1>7, <1>8
  <2>2. ASSUME NEW text, Selects(x, text), text = w.text[x],
               selected[x] = [run |-> source, n |-> n]
        PROVE  FALSE
    <3>1. Candidate(x) = Now(x)[n] /\ Candidate(x).output = text
      BY <2>2 DEF Candidate, Now, Selects
    <3>2. w.stage = "revision"
      BY <1>6, <1>8, <2>1, <2>2, <3>1, Answers DEF Reviews
    <3>3. Now(x)[n].key[1] = "revision"
      BY <1>5, <1>8, <3>2 DEF Succeeds
    <3> QED
      BY <1>6, <2>2, <3>1, <3>3 DEF Compatible
  <2> QED
    BY <2>1, <2>2
<1>19. CandidateOK(x)'
         /\ (selected[x] # [run |-> source, n |-> n] =>
                \A text : Selects(x, text) => Selects(x, text)')
  <2>1. CASE selected[x] = [run |-> source, n |-> n]
    <3>1. selected'[x] = NoCandidate
      BY <1>2, <1>3, <1>11, <2>1 DEF IInv, Types
    <3> QED
      BY <2>1, <3>1 DEF CandidateOK
  <2>2. CASE selected[x] # [run |-> source, n |-> n]
    <3>1. selected'[x] = selected[x]
      BY <1>11, <2>2
    <3>2. selected[x].run = source /\ selected[x].n \in DOMAIN Now(x) =>
            Now(x)'[selected[x].n] = Now(x)[selected[x].n]
      <4>1. selected[x].run = source => selected[x].n # n
        BY <1>2, <1>3, <2>2 DEF IInv, Types
      <4> QED
        BY <1>9, <1>13, <4>1
    <3> QED
      BY <1>1, <1>2, <1>3, <1>9, <1>12, <1>13, <3>1, <3>2, StaysSelected
  <2> QED
    BY <2>1, <2>2
<1>20. (w.text[x] # NoText /\ Untrusted(x) => Selects(x, w.text[x]))'
  <2>1. Untrusted(x)' = Untrusted(x)
    BY <1>1 DEF Untrusted, Unmoved
  <2>2. PICK text : text = w.text[x]
    OBVIOUS
  <2>3. text # NoText /\ Untrusted(x) => Selects(x, text)
    BY <1>1, <1>2, <1>3, <2>2 DEF UnitInv, ChoiceInv
  <2>4. text # NoText /\ Untrusted(x) => Selects(x, text)'
    BY <1>18, <1>19, <2>2, <2>3
  <2>5. w'.text[x] = text
    BY <1>17, <2>2
  <2> QED
    BY <2>1, <2>4, <2>5
<1>21. StandingInv(x)'
  <2>1. SUFFICES ASSUME NEW text \in Text, text = w.text[x], Standing(x, text)
                 PROVE  FALSE
    BY <1>1, <1>2, <1>3, StandingIs
  <2>2. CASE w.stage = "revision"
    <3>1. Revised(Now(x), text) /\ key = <<"revision", 0>>
      BY <1>8, <2>1, <2>2 DEF Standing
    <3>2. \/ Now(x)[n].about = text /\ Now(x)[n].output = OK
          \/ Now(x)[n].output = text
      BY <1>5, <3>1 DEF Revised
    <3>3. Now(x)[n].key[1] = "revision"
      BY <1>5, <3>1 DEF Succeeds
    <3> QED
      BY <1>6, <2>1, <3>2, <3>3 DEF Compatible
  <2>3. CASE w.stage = "proofread"
    <3>1. Proofread(Now(x), text) /\ key = <<"proofread", 0>>
      BY <1>8, <2>1, <2>3 DEF Standing
    <3> QED
      BY <1>5, <1>6, <2>1, <3>1 DEF Proofread, Compatible
  <2> QED
    BY <1>8, <2>2, <2>3 DEF Reviews
<1>22. "revision" \in quality /\ w.stage = "proofread" =>
         Revised(t, w.text[x]) /\ (w.blocked \/ HasRevision(t))
  <2> SUFFICES ASSUME "revision" \in quality, w.stage = "proofread"
               PROVE  Revised(t, w.text[x]) /\ (w.blocked \/ HasRevision(t))
    OBVIOUS
  <2>1. /\ Revised(Now(x), w.text[x])
        /\ w.blocked \/ HasRevision(Now(x))
    BY <1>1, <1>2, <1>3, <1>6, Answers DEF UnitInv, RevisionInv, RevisionDone
  <2>2. key # <<"revision", 0>>
    BY <1>8
  <2>3. \A m \in DOMAIN Now(x) : Succeeds(t, m, <<"revision", 0>>)
                                   <=> Succeeds(Now(x), m, <<"revision", 0>>)
    <3> TAKE m \in DOMAIN Now(x)
    <3>1. CASE m = n
      BY <1>5, <1>9, <2>2, <3>1 DEF Succeeds
    <3>2. CASE m # n
      BY <1>9, <3>2 DEF Succeeds
    <3> QED
      BY <3>1, <3>2
  <2>4. \A m \in DOMAIN Now(x) : Succeeds(t, m, <<"revision", 0>>) => t[m] = Now(x)[m]
    BY <1>9, <2>2 DEF Succeeds
  <2> QED
    BY <1>9, <2>1, <2>3, <2>4 DEF Revised, HasRevision
<1>23. Owes(x, TRUE)
  <2>1. x \in w.queued /\ w.text[x] # NoText
    BY <1>6, Answers
  <2> QED
    BY <1>5, <1>9, <1>13, <1>17, <1>19, <1>20, <1>21, <1>22, <2>1 DEF Owes
<1> QED
  BY <1>1, <1>15, <1>17, <1>23, UnitStep

-----------------------------------------------------------------------------
(* Answers.                                                                *)

LEMMA AnswerFacts ==
    ASSUME IInv, w.pc = "answering"
    PROVE  /\ first \in Unit /\ first \in w.queued
           /\ w \in Running /\ w.run = source /\ key \in Key
           /\ Reviewing => w.stage \in quality
           /\ key = <<w.stage, w.round>> /\ (Reviewing => key = <<w.stage, 0>>)
           /\ Item(first) = Now(first) /\ Well(Now(first))
           /\ Vacant(Now(first), key)
           /\ Reviewing <=> w.text[first] # NoText
           /\ UnitInv(first)
           /\ w.text[first] \in Text \cup {NoText}
           /\ UNCHANGED <<source, quality>> /\ w' = Answered(w) =>
                  /\ Moves(first, FALSE)
                  /\ w'.text = w.text /\ w'.blocked = w.blocked
<1>1. /\ w.run = source /\ key \in Key /\ key = <<w.stage, w.round>>
      /\ Reviewing => w.stage \in quality
      /\ w.asked # {} /\ w.asked \subseteq w.queued
      /\ w \in Running
  BY DEF IInv, Types, Position, key, Reviewing, Reviews
<1>2. first \in w.asked /\ first \in Unit
  BY <1>1, FirstIs DEF Running
<1>3. w.text[first] \in Text \cup {NoText}
  BY <1>1, <1>2 DEF Running
<1>4. Item(first) = Now(first) /\ Well(Now(first)) /\ UnitInv(first)
  BY <1>1, <1>2 DEF IInv, Types, Item, Now
<1>5. Vacant(Now(first), key) /\ (Reviewing <=> w.text[first] # NoText)
  BY <1>2, <1>4 DEF UnitInv, AskedInv
<1>6. Reviewing => key = <<w.stage, 0>>
  <2>1. key[1] = w.stage
    BY <1>1
  <2> QED
    BY <1>1, <2>1, KeyType DEF Reviewing, Reviews
<1>7. UNCHANGED <<source, quality>> /\ w' = Answered(w) =>
        /\ Moves(first, FALSE)
        /\ w'.text = w.text /\ w'.blocked = w.blocked
  BY <1>1, Answering
<1> QED
  BY <1>1, <1>2, <1>3, <1>4, <1>5, <1>6, <1>7

LEMMA TakeTextKeeps ==
    ASSUME IInv, TakeText
    PROVE  IInv'
<1>1. w.pc = "answering" /\ Unmoved /\ w.stage # "proofread"
  BY DEF TakeText, Unmoved
<1>2. /\ first \in Unit /\ first \in w.queued
      /\ w \in Running /\ w.run = source /\ key \in Key
      /\ Reviewing => w.stage \in quality
      /\ key = <<w.stage, w.round>> /\ (Reviewing => key = <<w.stage, 0>>)
      /\ Item(first) = Now(first) /\ Well(Now(first))
      /\ Vacant(Now(first), key)
      /\ Reviewing <=> w.text[first] # NoText
  BY <1>1, AnswerFacts
<1>3. PICK x : x = first
  OBVIOUS
<1>4. PICK n : n = Len(Now(x)) + 1
  OBVIOUS
<1>5. PICK text \in Text :
        /\ Store(x, "succeeded", text) /\ Select(x, n)
        /\ w' = Answered([w EXCEPT !.text[x] = text])
  <2>1. PICK text \in Valid[first] :
          /\ StoreCandidate(first, text)
          /\ w' = Answered([w EXCEPT !.text[first] = text])
    BY DEF TakeText
  <2>2. text \in Text
    BY <1>2, Answers
  <2> QED
    BY <1>2, <1>3, <1>4, <2>1, <2>2 DEF StoreCandidate
<1>6. n \in Nat
  BY <1>2, <1>3, <1>4 DEF Well
<1>7. SelectedElsewhere(x) /\ selected'[x] = [run |-> source, n |-> n]
  BY <1>2, <1>3, <1>5, <1>6, SelectIs
<1>8. Others(x) /\ Grows(Now(x), Now(x)', n, Made(x, "succeeded", text))
  <2>1. text \in Answer
    BY Answers
  <2> QED
    BY <1>1, <1>2, <1>3, <1>4, <1>5, <1>7, <2>1, Stored
<1>9. Moves(x, FALSE) /\ w'.text[x] = text
  <2> DEFINE v == [w EXCEPT !.text[x] = text]
  <2>1. /\ v \in Running /\ w' = Answered(v)
        /\ v.pc = w.pc /\ v.run = w.run /\ v.stage = w.stage
        /\ v.round = w.round /\ v.queued = w.queued /\ v.asked = w.asked
        /\ v.blocked = w.blocked /\ v.text[x] = text
        /\ \A u \in Unit \ {x} : v.text[u] = w.text[u]
    BY <1>2, <1>3, <1>5 DEF Running
  <2> HIDE DEF v
  <2>2. UNCHANGED <<source, quality>>
    BY <1>1 DEF Unmoved
  <2>3. Moves(first, FALSE) /\ w'.text = v.text
    BY <1>1, <1>3, <2>1, <2>2, Answering
  <2> QED
    BY <1>3, <2>1, <2>3 DEF Moves
<1>10. Owes(x, FALSE)
  <2>1. /\ n \in DOMAIN Now(x)' /\ Now(x)'[n].status = "succeeded"
        /\ Now(x)'[n].output = text /\ Now(x)'[n].key = key
    BY <1>8 DEF Grows, Made
  <2>2. w'.run = source
    BY <1>9 DEF Moves
  <2>3. w.stage = "revision" =>
          /\ "revision" \in quality
          /\ Now(x)'[n].key = <<"revision", 0>>
          /\ Revised(Now(x)', text)
    <3> SUFFICES ASSUME w.stage = "revision"
                 PROVE  /\ "revision" \in quality
                        /\ Now(x)'[n].key = <<"revision", 0>>
                        /\ Revised(Now(x)', text)
      OBVIOUS
    <3>1. key = <<"revision", 0>> /\ "revision" \in quality
      BY <1>2 DEF Reviewing
    <3>2. Revised(Now(x), text)
      BY <1>2, <1>3, <3>1, VacantKeeps
    <3>3. Made(x, "succeeded", text).output = text
      BY DEF Made
    <3> QED
      BY <1>8, <2>1, <3>1, <3>2, <3>3, GrowsKeeps
  <2>4. w.text[x] # NoText => ~HasRevision(Now(x)) /\ "revision" \in quality
    BY <1>1, <1>2, <1>3, VacantKeeps DEF Reviewing
  <2> QED
    BY <1>1, <1>2, <1>3, <1>6, <1>7, <1>8, <1>9, <2>1, <2>2, <2>3, <2>4,
       Selecting
<1> QED
  BY <1>1, <1>8, <1>9, <1>10, UnitStep

\* An answer that leaves the text of the unit: a verdict, or a failure.
LEMMA Replies ==
    ASSUME IInv, w.pc = "answering", NEW x, x = first, Unmoved,
           UNCHANGED selected, Moves(x, FALSE), w'.text = w.text,
           NEW status \in {"succeeded", "failed"},
           NEW output \in Answer \cup {OK, NoText},
           Store(x, status, output),
           status = "succeeded" => output = OK /\ Reviewing,
           status = "failed" /\ w.stage = "revision" => w'.blocked
    PROVE  IInv'
<1>1. /\ x \in Unit /\ x \in w.queued
      /\ w \in Running /\ w.run = source /\ key \in Key
      /\ Reviewing => w.stage \in quality
      /\ key = <<w.stage, w.round>> /\ (Reviewing => key = <<w.stage, 0>>)
      /\ Vacant(Now(x), key)
      /\ Reviewing <=> w.text[x] # NoText
      /\ UnitInv(x)
  BY AnswerFacts
<1>2. SelectedElsewhere(x)
  BY DEF SelectedElsewhere, IInv, Types
<1>3. PICK l : l = Len(Now(x)) + 1
  OBVIOUS
<1>4. Others(x) /\ Grows(Now(x), Now(x)', l, Made(x, status, output))
  BY <1>1, <1>2, <1>3, Stored
<1>5. CandidateOK(x)' /\ \A text : Selects(x, text) => Selects(x, text)'
  <2>1. /\ DOMAIN Now(x) \subseteq DOMAIN Now(x)'
        /\ \A m \in DOMAIN Now(x) : Now(x)'[m] = Now(x)[m]
    BY <1>4 DEF Grows
  <2>2. \A item \in Run \X Unit : item # <<source, x>> =>
          attempts'[item] = attempts[item]
    BY <1>4 DEF Others
  <2> QED
    BY <1>1, <2>1, <2>2, StaysSelected
<1>6. PICK a : a = Made(x, status, output)
  OBVIOUS
<1>7. /\ a.key = key /\ a.status = status /\ a.output = output
      /\ Reviewing => a.about = w.text[x]
  BY <1>6 DEF Made
<1>8. PICK text : text = w.text[x]
  OBVIOUS
<1>9. w'.text[x] = text
  BY <1>8
\* The answer is about the text of the unit, and leaves it.
<1>10. /\ a.key = <<"revision", 0>> /\ a.status = "succeeded" =>
              a.about = text /\ a.output = OK
       /\ a.key = <<"proofread", 0>> /\ a.status = "succeeded" =>
              a.about = text
  BY <1>7, <1>8
<1>11. /\ HasRevision(Now(x)) => HasRevision(Now(x)')
       /\ Revised(Now(x), text) => Revised(Now(x)', text)
       /\ Proofread(Now(x), text) => Proofread(Now(x)', text)
       /\ a.key = <<"revision", 0>> /\ a.status = "succeeded"
            => HasRevision(Now(x)')
  BY <1>4, <1>6, <1>10, GrowsKeeps
<1>12. "revision" \in quality /\ text # NoText
         /\ (w.stage = "proofread" \/ w.stage = "revision") =>
           Revised(Now(x)', text) /\ (w'.blocked \/ HasRevision(Now(x)'))
  <2>1. CASE w.stage = "proofread"
    <3>1. "revision" \in quality /\ text # NoText =>
            Revised(Now(x), text) /\ (w.blocked \/ HasRevision(Now(x)))
      BY <1>1, <1>8, <2>1 DEF UnitInv, RevisionInv, RevisionDone
    <3>2. w.blocked => w'.blocked
      BY DEF Moves
    <3> QED
      BY <1>11, <3>1, <3>2
  <2>2. CASE w.stage = "revision"
    <3>1. key = <<"revision", 0>>
      BY <1>1, <2>2 DEF Reviewing
    <3>2. Revised(Now(x), text)
      BY <1>1, <3>1, VacantKeeps
    <3> QED
      BY <1>7, <1>11, <2>2, <3>1, <3>2
  <2> QED
    BY <2>1, <2>2
<1>13. w.stage = "proofread" => Proofread(Now(x)', text)
  BY <1>1, <1>11, VacantKeeps DEF Reviewing
<1>14. (w.text[x] # NoText /\ Untrusted(x) => Selects(x, w.text[x]))'
  <2>1. Untrusted(x)' = Untrusted(x)
    BY DEF Untrusted, Unmoved
  <2>2. text # NoText /\ Untrusted(x) => Selects(x, text)
    BY <1>1, <1>8 DEF UnitInv, ChoiceInv
  <2>3. text # NoText /\ Untrusted(x) => Selects(x, text)'
    BY <1>5, <2>2
  <2> QED
    BY <1>9, <2>1, <2>3
<1>15. StandingInv(x)'
  <2>1. SUFFICES ASSUME NEW t \in Text, t = verified[source][x], Untrusted(x),
                        w.text[x] = t, Standing(x, t)
                 PROVE  /\ Selects(x, t)' /\ w'.text[x] = t
                        /\ "revision" \in quality =>
                               Revised(Now(x)', t) /\ HasRevision(Now(x)')
                        /\ "proofread" \in quality => Proofread(Now(x)', t)
    BY <1>1, StandingIs
  <2> QED
    BY <1>5, <1>8, <1>9, <1>11, <2>1 DEF Standing
<1>16. Owes(x, FALSE)
  BY <1>1, <1>5, <1>9, <1>12, <1>13, <1>14, <1>15 DEF Owes
<1> QED
  BY <1>4, <1>16, UnitStep

LEMMA TakeVerdictKeeps ==
    ASSUME IInv, TakeVerdict
    PROVE  IInv'
<1>1. /\ w.pc = "answering" /\ Unmoved /\ UNCHANGED selected
      /\ w' = Answered(w) /\ UNCHANGED <<source, quality>> /\ Reviewing
  BY DEF TakeVerdict, Unmoved
<1>2. PICK x : x = first
  OBVIOUS
<1>3. Moves(first, FALSE) /\ w'.text = w.text
  BY <1>1, AnswerFacts
<1>4. Moves(x, FALSE)
  BY <1>2, <1>3 DEF Moves
<1>5. Store(x, "succeeded", OK)
  BY <1>2 DEF TakeVerdict
<1> QED
  BY <1>1, <1>2, <1>3, <1>4, <1>5, Replies

LEMMA TakeFailureKeeps ==
    ASSUME IInv, TakeFailure
    PROVE  IInv'
<1>1. /\ w.pc = "answering" /\ Unmoved /\ UNCHANGED selected
      /\ UNCHANGED <<source, quality>>
  BY DEF TakeFailure, Unmoved
<1>2. PICK x : x = first
  OBVIOUS
<1>3. PICK output \in Answer \cup {OK, NoText} : Store(x, "failed", output)
  BY <1>2, Answers DEF TakeFailure
<1> DEFINE v == [w EXCEPT !.blocked = @ \/ w.stage = "revision"]
<1>4. w \in Running
  BY <1>1, AnswerFacts
<1>5. /\ v \in Running /\ w' = Answered(v)
      /\ v.pc = w.pc /\ v.run = w.run /\ v.stage = w.stage
      /\ v.round = w.round /\ v.queued = w.queued /\ v.asked = w.asked
      /\ v.text = w.text /\ (w.blocked => v.blocked)
      /\ w.stage = "revision" => v.blocked
  BY <1>4 DEF Running, TakeFailure
<1> HIDE DEF v
<1>6. Moves(first, FALSE) /\ w'.text = v.text /\ w'.blocked = v.blocked
  BY <1>1, <1>5, Answering
<1>7. Moves(x, FALSE) /\ w'.text = w.text
  BY <1>2, <1>5, <1>6 DEF Moves
<1> QED
  BY <1>1, <1>2, <1>3, <1>5, <1>6, <1>7, Replies

-----------------------------------------------------------------------------
(* Between syncs.                                                          *)

LEMMA IdleIs ==
    /\ Idle \in Running /\ Position(Idle)
    /\ \A u \in Unit : /\ u \notin Idle.asked /\ Idle.text[u] = NoText
                       /\ ~Begun(Idle, u)
    /\ Idle.pc = "idle"
BY DEF Idle, Running, Position, Begun, Stage

LEMMA AtRest ==
    ASSUME IInv, w' = Idle,
           source' \in Run, quality' = quality,
           known' \in [Document -> Run \cup {0}],
           UNCHANGED <<attempts, selected>>,
           trusted' \in [Unit -> [Source -> Text \cup {NoText}]],
           file' \in [Unit -> Text \cup {NoText}],
           verified' \in [Run -> [Unit -> Text \cup {NoText}]],
           \A u \in Unit : (verified[source][u] # NoText /\ Untrusted(u) =>
                                Standing(u, verified[source][u]))'
    PROVE  IInv'
<1>1. Position(w)'
  <2>1. Position(Idle)'
    BY IdleIs DEF Position, Idle
  <2> QED
    BY <2>1 DEF Position
<1>2. \A item \in Run \X Unit : Well(attempts[item])'
  BY DEF IInv, Types, Well
<1>3. Types'
  BY <1>1, <1>2, IdleIs DEF IInv, Types
<1>4. ASSUME NEW u \in Unit
      PROVE  UnitInv(u)'
  <2>1. w'.pc = "idle" /\ u \notin w'.asked /\ w'.text[u] = NoText
    BY IdleIs
  <2>2. ~Begun(w, u)'
    BY <2>1 DEF Begun
  <2>3. CandidateOK(u)'
    BY DEF IInv, UnitInv, CandidateOK, Candidate
  <2>4. /\ AskedInv(u)' /\ QueuedInv(u)' /\ RevisionInv(u)' /\ ProofreadInv(u)'
        /\ ChoiceInv(u)'
    BY <2>1 DEF AskedInv, QueuedInv, RevisionInv, ProofreadInv, ChoiceInv
  <2>5. StandingInv(u)'
    BY <2>2 DEF StandingInv
  <2> QED
    BY <2>3, <2>4, <2>5 DEF UnitInv
<1> QED
  BY <1>3, <1>4 DEF IInv

\* What stands goes on standing while documents are prepared.
LEMMA StandingKeeps ==
    ASSUME IInv, NEW u \in Unit, NEW text,
           UNCHANGED <<source, quality, attempts, selected>>,
           known[DocOf[u]] = source => known'[DocOf[u]] = source
    PROVE  /\ Selects(u, text) => Selects(u, text)'
           /\ Standing(u, text) => Standing(u, text)'
<1>1. Now(u)' = Now(u) /\ Candidate(u)' = Candidate(u)
  BY DEF Now, Candidate
<1>2. Selects(u, text) => Selects(u, text)'
  BY <1>1 DEF Selects
<1>3. /\ Revised(Now(u), text)' <=> Revised(Now(u), text)
      /\ HasRevision(Now(u))' <=> HasRevision(Now(u))
      /\ Proofread(Now(u), text)' <=> Proofread(Now(u), text)
  BY <1>1 DEF Revised, HasRevision, Proofread, Succeeds
<1> QED
  BY <1>2, <1>3 DEF Standing

LEMMA EndKeeps ==
    ASSUME IInv, w' = Idle,
           UNCHANGED <<source, quality, attempts, selected, trusted, file,
                       verified>>,
           known' \in [Document -> Run \cup {0}],
           \A d \in Document : known[d] = source => known'[d] = source
    PROVE  IInv'
<1>1. ASSUME NEW u \in Unit
      PROVE  (verified[source][u] # NoText /\ Untrusted(u) =>
                  Standing(u, verified[source][u]))'
  <2>1. DocOf[u] \in Document
    BY PipelineAssumption
  <2>2. PICK text : text = verified[source][u]
    OBVIOUS
  <2>3. text # NoText /\ Untrusted(u) => Standing(u, text)
    BY <2>2 DEF IInv, UnitInv, StandingInv
  <2>4. text # NoText /\ Untrusted(u) => Standing(u, text)'
    BY <2>1, <2>3, StandingKeeps
  <2>5. Untrusted(u)' = Untrusted(u) /\ verified'[source'][u] = text
    BY <2>2 DEF Untrusted
  <2> QED
    BY <2>4, <2>5
<1> QED
  BY <1>1, AtRest DEF IInv, Types

LEMMA BlockedKeeps ==
    ASSUME IInv, Blocked
    PROVE  IInv'
BY EndKeeps DEF Blocked, IInv, Types

LEMMA DieKeeps ==
    ASSUME IInv, Die
    PROVE  IInv'
BY EndKeeps DEF Die, IInv, Types

LEMMA NothingType == NothingVerified \in [Run -> [Unit -> Text \cup {NoText}]]
BY DEF NothingVerified

LEMMA MoveOnKeeps ==
    ASSUME IInv, MoveOn
    PROVE  IInv'
<1>1. w' = Idle /\ source' \in Run /\ verified' = NothingVerified
      /\ UNCHANGED <<quality, known, attempts, selected, trusted, file>>
  BY DEF MoveOn, IInv, Types, Position
<1>2. \A u \in Unit : verified'[source'][u] = NoText
  BY <1>1 DEF NothingVerified
<1>3. \A u \in Unit : (verified[source][u] # NoText /\ Untrusted(u) =>
                           Standing(u, verified[source][u]))'
  BY <1>2
<1> QED
  BY <1>1, <1>3, NothingType, AtRest DEF IInv, Types

LEMMA AdoptKeeps ==
    ASSUME IInv, Adopt
    PROVE  IInv'
<1>1. w' = Idle /\ verified' = NothingVerified
      /\ UNCHANGED <<source, quality, attempts, selected>>
      /\ known' = [d \in Document |-> IF d \in Drafted THEN source ELSE known[d]]
      /\ trusted' = [u \in Unit |->
                        IF DocOf[u] \in Drafted
                        THEN [trusted[u] EXCEPT ![SourceText[source][u]] = file'[u]]
                        ELSE trusted[u]]
  BY DEF Adopt, IInv, Types, Position
<1>2. file' \in [Unit -> Text \cup {NoText}]
  BY Answers DEF Adopt, IInv, Types
<1>3. trusted' \in [Unit -> [Source -> Text \cup {NoText}]]
  BY <1>1, <1>2 DEF IInv, Types
<1>4. known' \in [Document -> Run \cup {0}] /\ source' \in Run
  BY <1>1 DEF IInv, Types
<1>5. \A u \in Unit : verified'[source'][u] = NoText
  BY <1>1, <1>4 DEF NothingVerified
<1>6. \A u \in Unit : (verified[source][u] # NoText /\ Untrusted(u) =>
                           Standing(u, verified[source][u]))'
  BY <1>5
<1> QED
  BY <1>1, <1>2, <1>3, <1>4, <1>6, NothingType, AtRest

LEMMA VerifyKeeps ==
    ASSUME IInv, Verify
    PROVE  IInv'
<1>1. /\ w.pc = "verifying" /\ ~w.blocked /\ w.run = source /\ w' = Idle
      /\ UNCHANGED <<source, quality, known, attempts, selected, trusted>>
      /\ file' = [u \in Unit |-> IF DocOf[u] \in Assembled THEN w.text[u]
                                                           ELSE file[u]]
      /\ verified' = [verified EXCEPT ![source] =
                        [u \in Unit |-> IF DocOf[u] \in Assembled
                                        THEN w.text[u] ELSE @[u]]]
      /\ source \in Run /\ w \in Running
  BY DEF Verify, IInv, Types, Position
<1>2. verified' \in [Run -> [Unit -> Text \cup {NoText}]]
  BY <1>1 DEF IInv, Types, Running
<1>3. file' \in [Unit -> Text \cup {NoText}]
  BY <1>1 DEF IInv, Types, Running
<1>4. ASSUME NEW u \in Unit
      PROVE  (verified[source][u] # NoText /\ Untrusted(u) =>
                  Standing(u, verified[source][u]))'
  <2>1. DocOf[u] \in Document
    BY PipelineAssumption
  <2>2. PICK text : text = verified'[source'][u]
    OBVIOUS
  <2>3. UnitInv(u)
    BY DEF IInv
  <2>4. text # NoText /\ Untrusted(u) => Standing(u, text)
    <3>1. CASE DocOf[u] \in Assembled
      <4>1. text = w.text[u] /\ text # NoText
        BY <1>1, <2>2, <3>1 DEF Assembled, Parts, IInv, Types
      <4>2. Untrusted(u) => Selects(u, text)
        BY <1>1, <2>3, <4>1 DEF UnitInv, ChoiceInv
      <4>3. "revision" \in quality => Revised(Now(u), text) /\ HasRevision(Now(u))
        BY <1>1, <2>3, <4>1 DEF UnitInv, RevisionInv, RevisionDone
      <4>4. "proofread" \in quality => Proofread(Now(u), text)
        BY <1>1, <2>3, <4>1 DEF UnitInv, ProofreadInv, ProofreadDone
      <4> QED
        BY <4>2, <4>3, <4>4 DEF Standing
    <3>2. CASE DocOf[u] \notin Assembled
      <4>1. text = verified[source][u]
        BY <1>1, <2>2, <3>2 DEF IInv, Types
      <4> QED
        BY <2>3, <4>1 DEF UnitInv, StandingInv
    <3> QED
      BY <3>1, <3>2
  <2>5. text # NoText /\ Untrusted(u) => Standing(u, text)'
    BY <1>1, <2>1, <2>4, StandingKeeps
  <2>6. Untrusted(u)' = Untrusted(u)
    BY <1>1 DEF Untrusted
  <2> QED
    BY <2>2, <2>5, <2>6
<1> QED
  BY <1>1, <1>2, <1>3, <1>4, AtRest DEF IInv, Types

-----------------------------------------------------------------------------
(* Planning.                                                               *)

LEMMA DocumentType ==
    /\ Document \subseteq Nat /\ 1 \in Document
    /\ \A d \in Document : /\ d < Documents => d + 1 \in Document
                           /\ d + 1 \in Nat /\ ~(d < 1)
    /\ \A d, e \in Document : ~(d < Documents) => e <= d
    /\ \A d, e \in Document : e < d + 1 /\ e # d => e < d
    /\ \A d, e \in Document : e <= d /\ e # d => e < d
    /\ \A u \in Unit : DocOf[u] \in Document
BY PipelineAssumption DEF Document

LEMMA StartSyncKeeps ==
    ASSUME IInv, StartSync
    PROVE  IInv'
<1>1. /\ w' = [Idle EXCEPT !.pc = "planning", !.run = source, !.next = 1]
      /\ UNCHANGED <<source, quality, known, attempts, selected, trusted, file,
                     verified>>
      /\ source \in Run
  BY DEF StartSync, IInv, Types
<1>2. /\ w' \in Running /\ w'.pc = "planning" /\ w'.run = source /\ w'.next = 1
      /\ w'.stage = "plan" /\ w'.asked = {} /\ w'.queued = {}
      /\ w'.text = [u \in Unit |-> NoText]
  BY <1>1, IdleIs DEF Idle, Running
<1>3. Position(w)'
  BY <1>1, <1>2, DocumentType DEF Position
<1>4. \A item \in Run \X Unit : Well(attempts[item])'
  BY <1>1 DEF IInv, Types, Well
<1>5. Types'
  BY <1>1, <1>2, <1>3, <1>4 DEF IInv, Types
<1>6. ASSUME NEW u \in Unit
      PROVE  UnitInv(u)'
  <2>1. UnitInv(u) /\ w'.text[u] = NoText /\ u \notin w'.asked
    BY <1>2 DEF IInv
  <2>2. ~Begun(w, u)'
    BY <1>2, DocumentType DEF Begun
  <2>3. CandidateOK(u)'
    BY <1>1, <2>1 DEF UnitInv, CandidateOK, Candidate
  <2>4. /\ AskedInv(u)' /\ QueuedInv(u)' /\ RevisionInv(u)' /\ ProofreadInv(u)'
        /\ ChoiceInv(u)'
    BY <2>1 DEF AskedInv, QueuedInv, RevisionInv, ProofreadInv, ChoiceInv
  <2>5. StandingInv(u)'
    <3>1. PICK text : text = verified[source][u]
      OBVIOUS
    <3>2. text # NoText /\ Untrusted(u) => Standing(u, text)'
      BY <1>1, <2>1, <3>1, StandingKeeps DEF UnitInv, StandingInv
    <3>3. Untrusted(u)' = Untrusted(u) /\ verified'[source'][u] = text
      BY <1>1, <3>1 DEF Untrusted
    <3> QED
      BY <2>2, <3>2, <3>3 DEF StandingInv
  <2> QED
    BY <2>3, <2>4, <2>5 DEF UnitInv
<1> QED
  BY <1>5, <1>6 DEF IInv

\* What is planned for a unit is trusted, or the selected candidate.
LEMMA PlannedIs ==
    ASSUME IInv, w.run = source, NEW u \in Unit
    PROVE  /\ Planned(u) \in Text \cup {NoText}
           /\ Planned(u) # NoText /\ Untrusted(u) =>
                /\ selected[u] # NoCandidate
                /\ Candidate(u).output = Planned(u)
                /\ SourceText[selected[u].run][u] = SourceText[source][u]
<1>1. trusted[u][SourceText[source][u]] \in Text \cup {NoText}
  BY SourceType DEF IInv, Types
<1>2. selected[u] # NoCandidate => Candidate(u).output \in Text
  BY DEF IInv, UnitInv, CandidateOK
<1>3. FirstCandidate(u) \in Text \cup {NoText}
  BY <1>1, <1>2 DEF FirstCandidate, Reusable
<1>4. FirstCandidate(u) # NoText /\ Untrusted(u) =>
        /\ Reusable(u)
        /\ FirstCandidate(u) = Candidate(u).output
  BY DEF FirstCandidate, Untrusted
<1>5. Planned(u) = FirstCandidate(u) \/ Planned(u) = NoText
  BY DEF Planned
<1> QED
  BY <1>3, <1>4, <1>5 DEF Reusable

\* A text that stands is planned again.
LEMMA PlannedStands ==
    ASSUME IInv, w.run = source, NEW u \in Unit, NEW text \in Text,
           Standing(u, text), Untrusted(u)
    PROVE  Planned(u) = text
<1>1. Reusable(u) /\ Candidate(u).output = text
  <2>1. DocOf[u] \in Document /\ source # 0
    BY DocumentType, PipelineAssumption DEF IInv, Types, Run
  <2> QED
    BY <2>1 DEF Standing, Selects, Reusable, Unchanged
<1>2. FirstCandidate(u) = text
  BY <1>1 DEF FirstCandidate, Untrusted
<1>3. ReviewsCompatible(u, text)
  <2> SUFFICES ASSUME NEW stage \in quality, NEW n \in Succeeded(u, <<stage, 0>>)
               PROVE  Compatible(Item(u)[n], text)
    BY DEF ReviewsCompatible
  <2>1. /\ Item(u) = Now(u) /\ n \in DOMAIN Now(u)
        /\ Succeeds(Now(u), n, <<stage, 0>>)
    BY DEF Item, Now, Succeeded, Holding, Succeeds
  <2>2. CASE stage = "revision"
    <3>1. \/ Now(u)[n].about = text /\ Now(u)[n].output = OK
          \/ Now(u)[n].output = text
      BY <2>1, <2>2 DEF Standing, Revised
    <3>2. Now(u)[n].key[1] = "revision"
      BY <2>1, <2>2 DEF Succeeds
    <3> QED
      BY <2>1, <3>1, <3>2 DEF Compatible
  <2>3. CASE stage = "proofread"
    BY <2>1, <2>3 DEF Standing, Proofread, Compatible
  <2>4. stage \in {"revision", "proofread"}
    BY DEF IInv, Types, Quality
  <2> QED
    BY <2>2, <2>3, <2>4
<1>4. text # NoText
  BY Answers
<1> QED
  BY <1>2, <1>3, <1>4 DEF Planned

LEMMA TaskedIs ==
    ASSUME NEW d
    PROVE  /\ Queued(d) \subseteq Unit /\ Cardinality(Tasked(d)) \in Nat
           /\ \A u \in Unit : DocOf[u] = d /\ Planned(u) # NoText /\ quality # {}
                                => u \in Queued(d)
<1>1. Tasked(d) \subseteq Unit /\ Queued(d) \subseteq Unit
  BY DEF Tasked, Queued, Parts
<1>2. IsFiniteSet(Unit)
  BY PipelineAssumption, FS_Interval DEF Unit
<1>3. IsFiniteSet(Tasked(d))
  BY <1>1, <1>2, FS_Subset
<1> QED
  BY <1>1, <1>3, FS_CardinalityType DEF Queued, Parts

\* p is the sync v after the document d, and before it goes on.
After(p, v, d) ==
    /\ p.pc = "planning" /\ p.run = source /\ p.next = d + 1
    /\ p.stage = "plan" /\ p.asked = {} /\ p.blocked = v.blocked
    /\ p.queued = w.queued \cup Queued(d)
    /\ p.text = [u \in Unit |-> IF DocOf[u] = d THEN Planned(u) ELSE w.text[u]]
    /\ w' = IF d < Documents THEN p
            ELSE IF p.blocked THEN Idle ELSE NextStage(p)

LEMMA PreparedIs ==
    ASSUME IInv, w.pc = "planning", NEW v \in Running,
           v.pc = w.pc, v.run = w.run, v.next = w.next, v.stage = w.stage,
           v.queued = w.queued, v.asked = w.asked, v.text = w.text,
           NEW d, d = w.next, w' = Prepared(v, d)
    PROVE  \E p \in Running : After(p, v, d)
<1>0. w.run = source /\ w.stage = "plan" /\ w.asked = {} /\ w \in Running
  BY DEF IInv, Types, Position
<1> DEFINE p == [v EXCEPT
                   !.next   = @ + 1,
                   !.tasks  = @ + Cardinality(Tasked(d)),
                   !.queued = @ \cup Queued(d),
                   !.text   = [u \in Unit |-> IF DocOf[u] = d THEN Planned(u)
                                                              ELSE @[u]]]
<1>1. w' = IF d < Documents THEN p
           ELSE IF p.blocked THEN Idle ELSE NextStage(p)
  BY DEF Prepared
<1>2. Queued(d) \subseteq Unit /\ Cardinality(Tasked(d)) \in Nat
  BY TaskedIs
<1>3. \A u \in Unit : Planned(u) \in Text \cup {NoText}
  BY <1>0, PlannedIs
<1>4. \A u \in Unit : w.text[u] \in Text \cup {NoText}
  BY <1>0 DEF Running
<1>5. [u \in Unit |-> IF DocOf[u] = d THEN Planned(u) ELSE v.text[u]]
        \in [Unit -> Text \cup {NoText}]
  BY <1>3, <1>4
<1>6. p \in Running
  <2>1. PICK text \in [Unit -> Text \cup {NoText}] :
          text = [u \in Unit |-> IF DocOf[u] = d THEN Planned(u) ELSE v.text[u]]
    BY <1>5
  <2>2. PICK queued \in SUBSET Unit : queued = v.queued \cup Queued(d)
    BY <1>2 DEF Running
  <2>3. PICK tasks \in Nat : tasks = v.tasks + Cardinality(Tasked(d))
    BY <1>2 DEF Running
  <2>4. v.next + 1 \in Nat
    BY DEF Running
  <2>5. PICK next \in Nat : next = v.next + 1
    BY <2>4
  <2>6. [v EXCEPT !.next = next, !.tasks = tasks, !.queued = queued,
                  !.text = text] \in Running
    BY DEF Running
  <2> QED
    BY <2>1, <2>2, <2>3, <2>5, <2>6
<1>7. /\ p.pc = "planning" /\ p.run = source /\ p.next = d + 1
      /\ p.stage = "plan" /\ p.asked = {} /\ p.blocked = v.blocked
      /\ p.queued = w.queued \cup Queued(d)
      /\ p.text = [u \in Unit |-> IF DocOf[u] = d THEN Planned(u)
                                                  ELSE w.text[u]]
  BY <1>0 DEF Running
<1> HIDE DEF p
<1>8. After(p, v, d)
  BY <1>1, <1>7 DEF After
<1> QED
  BY <1>6, <1>8

LEMMA PlanStep ==
    ASSUME IInv, w.pc = "planning", NEW v \in Running,
           v.pc = w.pc, v.run = w.run, v.next = w.next, v.stage = w.stage,
           v.queued = w.queued, v.asked = w.asked, v.text = w.text,
           w.blocked => v.blocked,
           w' = Prepared(v, w.next),
           UNCHANGED <<source, quality, attempts, selected, trusted, file,
                       verified>>,
           \/ known' = known /\ v.blocked
           \/ known' = [known EXCEPT ![w.next] = source]
    PROVE  IInv' /\ w'.asked = {}
<1>0. PICK d : d = w.next
  OBVIOUS
<1> w' = Prepared(v, d)
  BY <1>0
<1>1. PICK p \in Running : After(p, v, d)
  BY <1>0, PreparedIs
<1>2. /\ d \in Document /\ w.run = source /\ source \in Run
      /\ w.stage = "plan" /\ w.asked = {} /\ w \in Running
  BY <1>0 DEF IInv, Types, Position
<1>3. /\ p.pc = "planning" /\ p.run = source /\ p.next = d + 1
      /\ p.stage = "plan" /\ p.asked = {} /\ p.blocked = v.blocked
      /\ p.queued = w.queued \cup Queued(d)
      /\ p.text = [u \in Unit |-> IF DocOf[u] = d THEN Planned(u) ELSE w.text[u]]
      /\ w' = IF d < Documents THEN p
              ELSE IF p.blocked THEN Idle ELSE NextStage(p)
  BY <1>1 DEF After
<1>4. /\ known' \in [Document -> Run \cup {0}]
      /\ \A e \in Document : known[e] = source => known'[e] = source
      /\ ~p.blocked => known'[d] = source
  BY <1>0, <1>2, <1>3 DEF IInv, Types
<1>5. CASE w' = Idle
  BY <1>4, <1>5, EndKeeps DEF Idle
<1>6. CASE \/ w' = p /\ d < Documents
           \/ w' = NextStage(p) /\ ~p.blocked /\ ~(d < Documents)
  <2>1. /\ w' \in Running /\ Position(w') /\ w'.run = source
        /\ w'.queued = p.queued /\ w'.text = p.text /\ w'.asked = {}
        /\ w'.blocked = p.blocked
        /\ w'.pc \in {"planning", "collecting", "verifying"}
        /\ w'.pc = "planning" => w'.next = d + 1
        /\ w'.pc # "planning" => ~p.blocked /\ ~(d < Documents)
        /\ \A u \in Unit :
            /\ "revision" \in quality => ~RevisionDone(w', u)
            /\ "proofread" \in quality => ~ProofreadDone(w', u)
    <3>1. CASE w' = p /\ d < Documents
      <4>1. Position(p)
        BY <1>2, <1>3, <3>1, DocumentType DEF Position
      <4> QED
        BY <1>3, <3>1, <4>1 DEF RevisionDone, ProofreadDone
    <3>2. CASE w' = NextStage(p) /\ ~p.blocked /\ ~(d < Documents)
      <4>1. Goes(w', p)
        BY <1>3, <3>2, NextStageIs DEF Going
      <4> QED
        BY <1>3, <3>2, <4>1 DEF Goes, Same, Reviews
    <3> QED
      BY <1>6, <3>1, <3>2
  <2>2. Position(w)'
    BY <2>1 DEF Position
  <2>3. \A item \in Run \X Unit : Well(attempts[item])'
    BY DEF IInv, Types, Well
  <2>4. Types'
    BY <1>4, <2>1, <2>2, <2>3 DEF IInv, Types
  <2>5. ASSUME NEW u \in Unit
        PROVE  UnitInv(u)'
    <3>1. UnitInv(u) /\ DocOf[u] \in Document
      BY DocumentType DEF IInv
    <3>2. PICK text : text = w'.text[u]
      OBVIOUS
    <3>3. /\ DocOf[u] = d => text = Planned(u)
          /\ DocOf[u] # d => text = w.text[u]
      BY <1>3, <2>1, <3>2
    <3>4. Untrusted(u)' = Untrusted(u) /\ Candidate(u)' = Candidate(u)
      BY DEF Untrusted, Candidate
    <3>5. CandidateOK(u)'
      BY <3>1, <3>4 DEF UnitInv, CandidateOK
    <3>6. AskedInv(u)'
      BY <2>1 DEF AskedInv
    <3>7. QueuedInv(u)'
      <4>1. quality # {} /\ text # NoText => u \in p.queued
        BY <1>3, <3>1, <3>3, TaskedIs DEF UnitInv, QueuedInv
      <4> QED
        BY <2>1, <3>2, <4>1 DEF QueuedInv
    <3>8. RevisionInv(u)' /\ ProofreadInv(u)'
      <4>1. /\ RevisionDone(w, u)' <=> RevisionDone(w', u)
            /\ ProofreadDone(w, u)' <=> ProofreadDone(w', u)
        BY DEF RevisionDone, ProofreadDone
      <4> QED
        BY <2>1, <4>1 DEF RevisionInv, ProofreadInv
    <3>9. ChoiceInv(u)'
      <4>1. SUFFICES ASSUME ~(w'.pc = "planning" /\ w'.blocked),
                            text # NoText, Untrusted(u)
                     PROVE  Selects(u, text)'
        BY <3>2, <3>4 DEF ChoiceInv
      <4>2. ~p.blocked /\ ~w.blocked
        BY <1>3, <2>1, <4>1
      <4>3. CASE DocOf[u] = d
        <5>1. /\ selected[u] # NoCandidate
              /\ Candidate(u).output = text
              /\ SourceText[selected[u].run][u] = SourceText[source][u]
          BY <1>2, <3>3, <4>1, <4>3, PlannedIs
        <5>2. known'[DocOf[u]] = source
          BY <1>4, <4>2, <4>3
        <5> QED
          BY <3>4, <5>1, <5>2 DEF Selects
      <4>4. CASE DocOf[u] # d
        <5>1. Selects(u, text)
          BY <3>1, <3>3, <4>1, <4>2, <4>4 DEF UnitInv, ChoiceInv
        <5> QED
          BY <1>4, <3>1, <5>1, StandingKeeps
      <4> QED
        BY <4>3, <4>4
    <3>10. StandingInv(u)'
      <4>1. PICK t : t = verified[source][u]
        OBVIOUS
      <4>2. CASE t = NoText \/ ~Untrusted(u)
        BY <3>4, <4>1, <4>2 DEF StandingInv
      <4>3. CASE t # NoText /\ Untrusted(u)
        <5>1. t \in Text
          BY <1>2, <4>1, <4>3 DEF IInv, Types
        <5>2. Standing(u, t) /\ (Begun(w, u) => w.text[u] = t)
          BY <3>1, <4>1, <4>3 DEF UnitInv, StandingInv
        <5>3. Standing(u, t)'
          BY <1>4, <3>1, <5>2, StandingKeeps
        <5>4. Begun(w, u)' => text = t
          <6>1. CASE DocOf[u] = d
            BY <1>2, <3>3, <4>3, <5>1, <5>2, <6>1, PlannedStands
          <6>2. CASE DocOf[u] # d
            <7>1. Begun(w, u)' => DocOf[u] < d
              <8>1. CASE w'.pc = "planning"
                <9>1. Begun(w, u)' => DocOf[u] < d + 1
                  BY <2>1, <8>1 DEF Begun
                <9> QED
                  BY <1>2, <3>1, <6>2, <9>1, DocumentType
              <8>2. CASE w'.pc # "planning"
                <9>1. DocOf[u] <= d
                  BY <1>2, <2>1, <3>1, <8>2, DocumentType
                <9> QED
                  BY <1>2, <3>1, <6>2, <9>1, DocumentType
              <8> QED
                BY <8>1, <8>2
            <7>2. DocOf[u] < d => Begun(w, u)
              BY <1>0 DEF Begun
            <7> QED
              BY <3>3, <5>2, <6>2, <7>1, <7>2
          <6> QED
            BY <6>1, <6>2
        <5> QED
          BY <3>2, <4>1, <5>3, <5>4 DEF StandingInv
      <4> QED
        BY <4>2, <4>3
    <3> QED
      BY <3>5, <3>6, <3>7, <3>8, <3>9, <3>10 DEF UnitInv
  <2> QED
    BY <2>1, <2>4, <2>5 DEF IInv
<1> QED
  BY <1>3, <1>5, <1>6

LEMMA PrepareKeeps ==
    ASSUME IInv, Prepare
    PROVE  IInv' /\ w'.asked = {}
<1>1. w \in Running /\ w.pc = "planning" /\ w.run = source
  BY DEF Prepare, PrepareDocument, PlanConflict, IInv, Types, Position
<1>2. CASE PrepareDocument
  BY <1>1, <1>2, PlanStep DEF PrepareDocument
<1>3. CASE PlanConflict
  <2>1. PICK v : v = [w EXCEPT !.blocked = TRUE]
    OBVIOUS
  <2>2. /\ v \in Running
        /\ v.pc = w.pc /\ v.run = w.run /\ v.next = w.next /\ v.stage = w.stage
        /\ v.queued = w.queued /\ v.asked = w.asked /\ v.text = w.text
        /\ v.blocked
    BY <1>1, <2>1 DEF Running
  <2> QED
    BY <1>1, <1>3, <2>1, <2>2, PlanStep DEF PlanConflict
<1> QED
  BY <1>2, <1>3 DEF Prepare

-----------------------------------------------------------------------------
(* The invariant holds.                                                    *)

LEMMA InitOK == Init => IInv
<1> SUFFICES ASSUME Init PROVE IInv
  OBVIOUS
<1>1. 1 \in Run
  BY PipelineAssumption DEF Run
<1>2. \A item \in Run \X Unit : Well(attempts[item])
  <2>1. Well(<<>>)
    BY DEF Well
  <2> QED
    BY <2>1 DEF Init
<1>3. attempts \in [Run \X Unit -> Seq(Attempt)]
  BY DEF Init
<1>4. selected \in [Unit -> [run : Nat, n : Nat]]
  BY DEF Init, NoCandidate
<1>5. Types
  BY <1>1, <1>2, <1>3, <1>4, IdleIs, NothingType DEF Init, Types
<1>6. ASSUME NEW u \in Unit
      PROVE  UnitInv(u)
  <2>1. w.pc = "idle" /\ u \notin w.asked /\ w.text[u] = NoText
    BY IdleIs DEF Init
  <2>2. CandidateOK(u)
    BY DEF Init, CandidateOK
  <2>3. /\ AskedInv(u) /\ QueuedInv(u) /\ RevisionInv(u) /\ ProofreadInv(u)
        /\ ChoiceInv(u)
    BY <2>1 DEF AskedInv, QueuedInv, RevisionInv, ProofreadInv, ChoiceInv
  <2>4. verified[source][u] = NoText
    BY <1>1 DEF Init, NothingVerified
  <2>5. StandingInv(u)
    BY <2>4 DEF StandingInv
  <2> QED
    BY <2>2, <2>3, <2>5 DEF UnitInv
<1> QED
  BY <1>5, <1>6 DEF IInv

LEMMA StutterKeeps ==
    ASSUME IInv, UNCHANGED vars
    PROVE  IInv'
<1>1. UNCHANGED <<source, quality, known, attempts, selected, trusted, file, w,
                  verified>>
  BY DEF vars
<1>2. Types'
  <2>1. \A item \in Run \X Unit : Well(attempts[item])'
    BY <1>1 DEF IInv, Types, Well
  <2>2. Position(w)'
    BY <1>1 DEF IInv, Types, Position
  <2> QED
    BY <1>1, <2>1, <2>2 DEF IInv, Types
<1>3. ASSUME NEW u \in Unit
      PROVE  UnitInv(u)'
  <2>1. UnitInv(u)
    BY DEF IInv
  <2>2. Now(u)' = Now(u) /\ Candidate(u)' = Candidate(u)
    BY <1>1 DEF Now, Candidate
  <2> QED
    BY <1>1, <2>1, <2>2
       DEF UnitInv, CandidateOK, AskedInv, QueuedInv, RevisionInv, ProofreadInv,
           ChoiceInv, StandingInv, Standing, Selects, Untrusted, Begun,
           RevisionDone, ProofreadDone, Revised, HasRevision, Proofread,
           Succeeds, Vacant, key, Reviewing
<1> QED
  BY <1>2, <1>3 DEF IInv

\* A step of the three services, by its kind.
LEMMA ServicesAre ==
    Translation \/ Repair \/ Review =>
        \/ Pass \/ RecoverText \/ RecoverVerdict \/ SkipFailed \/ AskAnew
        \/ Ask \/ Fix
        \/ TakeText \/ TakeVerdict \/ TakeFailure
BY DEF Translation, Repair, Review, Collect, Take

LEMMA NextKeeps == IInv /\ [Next]_vars => IInv'
<1> SUFFICES ASSUME IInv, [Next]_vars PROVE IInv'
  OBVIOUS
<1>1. CASE Translation \/ Repair \/ Review
  BY <1>1, ServicesAre, PassKeeps, RecoverTextKeeps, RecoverVerdictKeeps,
     SkipFailedKeeps, AskAnewKeeps, AskKeeps, FixKeeps, TakeTextKeeps,
     TakeVerdictKeeps, TakeFailureKeeps
<1>2. CASE StartSync \/ Prepare \/ Verify \/ Blocked
  BY <1>2, StartSyncKeeps, PrepareKeeps, VerifyKeeps, BlockedKeeps
<1>3. CASE Die \/ People
  BY <1>3, DieKeeps, MoveOnKeeps, AdoptKeeps DEF People
<1>4. CASE UNCHANGED vars
  BY <1>4, StutterKeeps
<1> QED
  BY <1>1, <1>2, <1>3, <1>4 DEF Next, Sync

LEMMA Invariant == Spec => []IInv
BY InitOK, NextKeeps, PTL DEF Spec

-----------------------------------------------------------------------------
(* Theorems.                                                               *)

\* The tables of the pipeline keep their types over all steps, and the
\* selected candidate is always an attempt that is stored.
THEOREM TypeCorrect == Spec => []TypeOK
<1>1. IInv => TypeOK
  <2> SUFFICES ASSUME IInv PROVE TypeOK
    OBVIOUS
  <2>1. \A u \in Unit :
          LET c == selected[u] IN
          c # NoCandidate => c.n \in DOMAIN attempts[<<c.run, u>>]
    BY DEF IInv, UnitInv, CandidateOK
  <2>2. w.queued \subseteq Unit /\ w.asked \subseteq w.queued
        /\ w.text \in [Unit -> Text \cup {NoText}]
    BY DEF IInv, Types, Running, Position
  <2> QED
    BY <2>1, <2>2 DEF IInv, Types, TypeOK
<1> QED
  BY <1>1, Invariant, PTL

\* select_canonical_candidate: between syncs the selected candidate of a unit
\* is the text that was verified, whatever was recovered, retired or died.
THEOREM SelectedAsVerified == Spec => []SelectionIsVerified
<1>1. IInv => SelectionIsVerified
  <2> SUFFICES ASSUME IInv, NEW u \in Unit,
                      verified[source][u] # NoText, Untrusted(u)
               PROVE  /\ selected[u] # NoCandidate
                      /\ Candidate(u).status = "succeeded"
                      /\ Candidate(u).output = verified[source][u]
    BY DEF SelectionIsVerified, Untrusted
  <2>1. Selects(u, verified[source][u])
    BY DEF IInv, UnitInv, StandingInv, Standing
  <2> QED
    BY <2>1 DEF Selects, IInv, UnitInv, CandidateOK
<1> QED
  BY <1>1, Invariant, PTL

\* A step that changes what is verified is one of three.
LEMMA VerifiedBy ==
    ASSUME [Next]_vars
    PROVE  \/ verified' = verified
           \/ verified' = NothingVerified /\ w.pc = "idle"
           \/ Verify
<1>1. CASE Translation \/ Repair \/ Review
  BY <1>1, ServicesAre
     DEF Pass, RecoverText, RecoverVerdict, SkipFailed, AskAnew, Ask, Fix,
         TakeText, TakeVerdict, TakeFailure
<1>2. CASE StartSync \/ Prepare \/ Verify \/ Blocked
  BY <1>2 DEF StartSync, Prepare, PrepareDocument, PlanConflict, Blocked
<1>3. CASE Die \/ People
  BY <1>3 DEF Die, People, MoveOn, Adopt
<1>4. CASE UNCHANGED vars
  BY <1>4 DEF vars
<1> QED
  BY <1>1, <1>2, <1>3, <1>4 DEF Next, Sync

LEMMA VerifyIs ==
    ASSUME IInv, Verify, NEW r \in Run, NEW u \in Unit
    PROVE  /\ w.pc = "verifying" /\ ~w.blocked /\ w.run = source
           /\ \/ verified'[r][u] = verified[r][u]
              \/ r = source /\ verified'[r][u] = w.text[u]
           /\ verified'[r][u] \in Text \cup {NoText}
BY DEF Verify, IInv, Types, Position, Running

\* ReviewService and VerificationService: whatever came about by recovery,
\* repair or reuse, no text is let through that the revision of this run has
\* not approved or written.
THEOREM ReviewedIfVerified == Spec => VerifiedIsReviewed
<1>1. IInv /\ [Next]_vars =>
        [\A u \in Unit :
            LET text == verified'[w.run][u] IN
            w.pc = "verifying" /\ text \notin {NoText, verified[w.run][u]}
              /\ "revision" \in quality
            => Approvals(u, text) # {}]_vars
  <2> SUFFICES ASSUME IInv, [Next]_vars, NEW u \in Unit, w.pc = "verifying",
                      verified'[w.run][u] \notin {NoText, verified[w.run][u]},
                      "revision" \in quality
               PROVE  Approvals(u, verified'[w.run][u]) # {}
    OBVIOUS
  <2>1. w.run = source /\ source \in Run
    BY DEF IInv, Types, Position
  <2>2. Verify
    BY VerifiedBy
  <2>3. PICK text : text = w.text[u]
    OBVIOUS
  <2>4. verified'[w.run][u] = text /\ text # NoText /\ ~w.blocked
    BY <2>1, <2>2, <2>3, VerifyIs
  <2>5. Revised(Now(u), text) /\ HasRevision(Now(u))
    BY <2>3, <2>4 DEF IInv, UnitInv, RevisionInv, RevisionDone
  <2>6. PICK n \in DOMAIN Now(u) : Succeeds(Now(u), n, <<"revision", 0>>)
    BY <2>5 DEF HasRevision
  <2>7. \/ Now(u)[n].about = text /\ Now(u)[n].output = OK
        \/ Now(u)[n].output = text
    BY <2>5, <2>6 DEF Revised
  <2>8. n \in Succeeded(u, <<"revision", 0>>)
    BY <2>1, <2>6 DEF Succeeded, Holding, Item, Now, Succeeds
  <2>9. n \in Approvals(u, text)
    BY <2>1, <2>7, <2>8 DEF Approvals, Item, Now
  <2> QED
    BY <2>4, <2>9
<1> QED
  BY <1>1, Invariant, PTL DEF Spec, VerifiedIsReviewed

\* Planner, RecoveryService and ReviewService together: once a text of a unit
\* has been verified, the syncs that follow verify no other, for any number of
\* deaths, failures and retired attempts, until the source moves or people
\* adopt a text.  After a return of the source the history begins anew.
THEOREM VerifiedStands == Spec => VerifiedTextStands
<1>1. IInv /\ [Next]_vars =>
        [\A r \in Run, u \in Unit :
            verified[r][u] # NoText /\ trusted[u][SourceText[r][u]] = NoText =>
                verified'[r][u] \in {NoText, verified[r][u]}]_vars
  <2> SUFFICES ASSUME IInv, [Next]_vars, NEW r \in Run, NEW u \in Unit,
                      verified[r][u] # NoText,
                      trusted[u][SourceText[r][u]] = NoText
               PROVE  verified'[r][u] \in {NoText, verified[r][u]}
    OBVIOUS
  <2>1. CASE verified' = verified
    BY <2>1
  <2>2. CASE verified' = NothingVerified
    BY <2>2 DEF NothingVerified
  <2>3. CASE Verify
    <3>1. r = source => w.text[u] = verified[r][u]
      BY <2>3, VerifyIs DEF IInv, UnitInv, StandingInv, Begun, Untrusted
    <3> QED
      BY <2>3, <3>1, VerifyIs
  <2> QED
    BY <2>1, <2>2, <2>3, VerifiedBy
<1> QED
  BY <1>1, Invariant, PTL DEF Spec, VerifiedTextStands

\* Who is asked about a unit.
LEMMA NextStageAsks ==
    ASSUME NEW v \in Running
    PROVE  NextStage(v).asked = v.asked
<1>1. \A stage, round : Begin(v, stage, round).asked = v.asked
  BY DEF Begin, Running
<1>2. [v EXCEPT !.pc = "verifying"].asked = v.asked
  BY DEF Running
<1>3. ToProofread(v).asked = v.asked
  BY <1>1, <1>2 DEF ToProofread
<1>4. ToRevision(v).asked = v.asked
  BY <1>1, <1>3 DEF ToRevision
<1>5. \A round : ToRepair(v, round).asked = v.asked
  BY <1>1, <1>4 DEF ToRepair
<1>6. v.stage \in Stage
  BY DEF Running
<1> QED
  BY <1>1, <1>2, <1>3, <1>4, <1>5, <1>6 DEF NextStage, Stage, Reviews

LEMMA OnwardAsks ==
    ASSUME NEW v \in Running
    PROVE  Onward(v).asked = v.asked /\ Answered(v).asked \subseteq v.asked
<1> DEFINE n == [v EXCEPT !.next = @ + 1]
           m == [v EXCEPT !.asked = @ \ {first}]
<1>1. /\ n \in Running /\ n.asked = v.asked
      /\ m \in Running /\ m.asked \subseteq v.asked
      /\ [n EXCEPT !.pc = "answering"].asked = v.asked
  BY DEF Running
<1>2. /\ Onward(v) = IF n.next <= Units THEN n
                     ELSE IF n.asked # {} THEN [n EXCEPT !.pc = "answering"]
                     ELSE NextStage(n)
      /\ Answered(v) = IF m.asked = {} THEN NextStage(m) ELSE m
  BY DEF Onward, Answered
<1> HIDE DEF n, m
<1> QED
  BY <1>1, <1>2, NextStageAsks

\* A step that asks about a unit is one of two.
LEMMA AskedBy ==
    ASSUME IInv, [Next]_vars
    PROVE  w'.asked \subseteq w.asked \/ Ask \/ AskAnew
<1>0. w \in Running
  BY DEF IInv, Types
<1>1. CASE Pass \/ RecoverVerdict
  BY <1>0, <1>1, OnwardAsks DEF Pass, RecoverVerdict
<1>2. CASE RecoverText
  <2>1. PICK n \in Recovered(unit, key) :
          LET text == Item(unit)[n].output IN
          text # OK /\ w' = Onward([w EXCEPT !.text[unit] = text])
    BY <1>2 DEF RecoverText
  <2>2. w.pc = "collecting" /\ w.stage # "proofread"
    BY <1>2 DEF RecoverText
  <2>3. Item(unit)[n].output \in Text
    <3>1. /\ Well(Now(unit)) /\ key \in Key /\ Item(unit) = Now(unit)
          /\ n \in DOMAIN Now(unit) /\ Succeeds(Now(unit), n, key)
      BY <2>1, <2>2, CollectFacts, SucceededIs DEF Recovered
    <3> QED
      BY <2>1, <3>1, OnlyOne
  <2> DEFINE v == [w EXCEPT !.text[unit] = Item(unit)[n].output]
  <2>4. v \in Running /\ v.asked = w.asked /\ w' = Onward(v)
    BY <1>0, <2>1, <2>2, <2>3, CollectFacts DEF Running
  <2> HIDE DEF v
  <2> QED
    BY <2>4, OnwardAsks
<1>3. CASE SkipFailed
  <2> DEFINE v == [w EXCEPT !.skipped = TRUE,
                            !.blocked = @ \/ w.stage = "revision"]
  <2>1. v \in Running /\ w' = Onward(v) /\ v.asked = w.asked
    BY <1>0, <1>3 DEF SkipFailed, Running
  <2> HIDE DEF v
  <2> QED
    BY <2>1, OnwardAsks
<1>4. CASE Fix
  <2>1. unit \in Unit /\ Repaired(unit) \in Text
    BY <1>4, CollectFacts, RepairedIs DEF Fix, Due
  <2> DEFINE v == [w EXCEPT !.text[unit] = Repaired(unit)]
  <2>2. v \in Running /\ w' = Onward(v) /\ v.asked = w.asked
    BY <1>0, <1>4, <2>1 DEF Fix, Running
  <2> HIDE DEF v
  <2> QED
    BY <2>2, OnwardAsks
<1>5. CASE TakeText
  <2>1. first \in Unit
    BY <1>5, AnswerFacts DEF TakeText
  <2>2. PICK text \in Text : w' = Answered([w EXCEPT !.text[first] = text])
    BY <1>5, <2>1, Answers DEF TakeText
  <2> DEFINE v == [w EXCEPT !.text[first] = text]
  <2>3. v \in Running /\ v.asked = w.asked /\ w' = Answered(v)
    BY <1>0, <2>1, <2>2 DEF Running
  <2> HIDE DEF v
  <2> QED
    BY <2>3, OnwardAsks
<1>6. CASE TakeVerdict
  BY <1>0, <1>6, OnwardAsks DEF TakeVerdict
<1>7. CASE TakeFailure
  <2> DEFINE v == [w EXCEPT !.blocked = @ \/ w.stage = "revision"]
  <2>1. v \in Running /\ w' = Answered(v) /\ v.asked = w.asked
    BY <1>0, <1>7 DEF TakeFailure, Running
  <2> HIDE DEF v
  <2> QED
    BY <2>1, OnwardAsks
<1>8. CASE StartSync
  BY <1>8 DEF StartSync, Idle
<1>9. CASE Prepare
  BY <1>9, PrepareKeeps
<1>10. CASE Verify \/ Blocked \/ Die
  BY <1>10 DEF Verify, Blocked, Die, Idle
<1>11. CASE People \/ UNCHANGED vars
  BY <1>11 DEF People, MoveOn, Adopt, vars
<1> QED
  BY <1>1, <1>2, <1>3, <1>4, <1>5, <1>6, <1>7, <1>8, <1>9, <1>10, <1>11,
     ServicesAre DEF Next, Sync

\* recovered_attempt and attempt_status: for any number of revisions, returns,
\* deaths and rounds of repair, an agent is asked only what this run has no
\* answer to, or what a review that was retired has been asked.
THEOREM PaidOnce == Spec => AskedOnce
<1>1. IInv /\ [Next]_vars =>
        [\A u \in w'.asked \ w.asked : \A n \in DOMAIN Item(u) :
            LET a == Item(u)[n] IN
            a.key = key /\ a.about = (IF Reviewing THEN w.text[u] ELSE NoText)
                => Reviewing /\ a.status = "cancelled"]_vars
  <2> SUFFICES ASSUME IInv, [Next]_vars, NEW u \in w'.asked \ w.asked,
                      NEW n \in DOMAIN Item(u), Item(u)[n].key = key,
                      Item(u)[n].about = (IF Reviewing THEN w.text[u] ELSE NoText)
               PROVE  Reviewing /\ Item(u)[n].status = "cancelled"
    OBVIOUS
  <2>1. CASE w'.asked \subseteq w.asked
    BY <2>1
  <2>2. ASSUME Ask \/ AskAnew
        PROVE  /\ w.pc = "collecting" /\ u = unit
               /\ Item(u) = Now(unit) /\ Well(Now(unit)) /\ key \in Key
    <3>1. w.pc = "collecting" /\ w' = Onward([w EXCEPT !.asked = @ \cup {unit}])
          /\ Due(unit)
      BY <2>2 DEF Ask, AskAnew
    <3>2. w \in Running /\ unit \in Unit
      BY <3>1, CollectFacts
    <3> DEFINE v == [w EXCEPT !.asked = @ \cup {unit}]
    <3>3. v \in Running /\ v.asked = w.asked \cup {unit} /\ w' = Onward(v)
      BY <3>1, <3>2 DEF Running
    <3> HIDE DEF v
    <3>4. u = unit
      BY <3>3, OnwardAsks
    <3> QED
      BY <3>1, <3>4, CollectFacts
  <2>3. CASE Ask
    <3>1. Holding(unit, key) = {}
      BY <2>3 DEF Ask, Failed
    <3>2. Now(unit)[n].status = "cancelled" /\ n \in DOMAIN Now(unit)
          /\ Now(unit)[n].key = key
      BY <2>2, <2>3, <3>1, SucceededIs DEF Vacant
    <3>3. key[1] \in Reviews
      BY <2>2, <2>3, <3>2 DEF Well
    <3> QED
      BY <2>2, <2>3, <3>2, <3>3, SucceededIs
  <2>4. CASE AskAnew
    <3>1. PICK m \in Succeeded(unit, key) : TRUE
      BY <2>4 DEF AskAnew
    <3>2. m \in DOMAIN Now(unit) /\ Succeeds(Now(unit), m, key)
      BY <2>2, <2>4, <3>1, SucceededIs
    <3>3. Reviewing /\ ~Compatible(Now(unit)[m], w.text[unit])
      BY <2>2, <2>4, <3>1 DEF AskAnew, Recovered
    <3>4. m # n
      BY <2>2, <2>4, <3>3 DEF Compatible
    <3>5. Now(unit)[n].status = "cancelled"
      BY <2>2, <2>4, <3>2, <3>4 DEF Well, Succeeds
    <3> QED
      BY <2>2, <2>4, <3>3, <3>5
  <2> QED
    BY <2>1, <2>3, <2>4, AskedBy
<1> QED
  BY <1>1, Invariant, PTL DEF Spec, AskedOnce

-----------------------------------------------------------------------------
(* What people adopted.                                                    *)

Human(u) == trusted[u][SourceText[source][u]]

Contested(u, text) == \E n \in DOMAIN Now(u) : Contests(Now(u)[n], text)

\* Planning begins with what people adopted, and it stays unless contested.
HumanInv(u) ==
    Human(u) # NoText =>
        /\ Begun(w, u) => w.text[u] = Human(u) \/ Contested(u, Human(u))
        /\ verified[source][u] \in {NoText, Human(u)} \/ Contested(u, Human(u))

\* The attempts of unit u go on saying what they said.
Remembers(u) ==
    \A n \in DOMAIN Now(u) :
        /\ n \in DOMAIN Now(u)'
        /\ Now(u)'[n].key = Now(u)[n].key
        /\ Now(u)'[n].output = Now(u)[n].output
        /\ Now(u)'[n].about = Now(u)[n].about
        /\ Now(u)[n].status # "failed" => Now(u)'[n].status # "failed"

\* A revision of this run has replaced the text of unit u, if it had one.
Replaced(u) ==
    w.text[u] # NoText =>
        /\ "revision" \in quality
        /\ \E n \in DOMAIN Now(u)' :
            /\ Succeeds(Now(u)', n, <<"revision", 0>>)
            /\ Now(u)'[n].output = w'.text[u] /\ w'.text[u] # OK

LEMMA ContestedIs ==
    ASSUME UNCHANGED quality, NEW u, NEW text
    PROVE  Contested(u, text)' <=>
             \E n \in DOMAIN Now(u)' : Contests(Now(u)'[n], text)
BY DEF Contested, Contests

LEMMA ContestsKeep ==
    ASSUME NEW u \in Unit, UNCHANGED quality, Remembers(u), NEW text,
           Contested(u, text)
    PROVE  Contested(u, text)'
<1>1. PICK n \in DOMAIN Now(u) : Contests(Now(u)[n], text)
  BY DEF Contested
<1>2. n \in DOMAIN Now(u)' /\ Contests(Now(u)'[n], text)
  BY <1>1 DEF Remembers, Contests
<1> QED
  BY <1>2, ContestedIs

\* A step of the services.
LEMMA ServiceYields ==
    ASSUME IInv, w.pc \in {"collecting", "answering"}, Unmoved,
           NEW u \in Unit, HumanInv(u), Remembers(u),
           w'.text[u] = w.text[u] \/ Replaced(u)
    PROVE  HumanInv(u)'
<1>1. PICK human : human = Human(u)
  OBVIOUS
<1>2. Human(u)' = human /\ verified'[source'][u] = verified[source][u]
  BY <1>1 DEF Human, Unmoved
<1>3. UNCHANGED quality
  BY DEF Unmoved
<1>4. Contested(u, human) => Contested(u, human)'
  BY <1>3, ContestsKeep
<1>5. SUFFICES ASSUME human # NoText
               PROVE  w'.text[u] = human \/ Contested(u, human)'
  BY <1>1, <1>2, <1>4 DEF HumanInv
<1>6. w.text[u] = human \/ Contested(u, human)
  BY <1>1, <1>5 DEF HumanInv, Begun
<1>7. CASE w.text[u] = human /\ w'.text[u] # human
  <2>1. PICK n \in DOMAIN Now(u)' :
          /\ Succeeds(Now(u)', n, <<"revision", 0>>)
          /\ Now(u)'[n].output = w'.text[u] /\ w'.text[u] # OK
    BY <1>5, <1>7 DEF Replaced
  <2>2. "revision" \in quality
    BY <1>5, <1>7 DEF Replaced
  <2>3. /\ Now(u)'[n].key[1] = "revision" /\ Now(u)'[n].status # "failed"
        /\ Now(u)'[n].output # human /\ Now(u)'[n].output # OK
    BY <1>7, <2>1 DEF Succeeds
  <2>4. Contests(Now(u)'[n], human)
    BY <2>2, <2>3 DEF Contests
  <2> QED
    BY <1>3, <2>1, <2>4, ContestedIs
<1> QED
  BY <1>4, <1>6, <1>7

\* Going on changes no text.
LEMMA NextStageTexts ==
    ASSUME NEW v \in Running
    PROVE  NextStage(v).text = v.text
<1>1. \A stage, round : Begin(v, stage, round).text = v.text
  BY DEF Begin, Running
<1>2. [v EXCEPT !.pc = "verifying"].text = v.text
  BY DEF Running
<1>3. ToProofread(v).text = v.text
  BY <1>1, <1>2 DEF ToProofread
<1>4. ToRevision(v).text = v.text
  BY <1>1, <1>3 DEF ToRevision
<1>5. \A round : ToRepair(v, round).text = v.text
  BY <1>1, <1>4 DEF ToRepair
<1>6. v.stage \in Stage
  BY DEF Running
<1> QED
  BY <1>1, <1>2, <1>3, <1>4, <1>5, <1>6 DEF NextStage, Stage, Reviews

LEMMA OnwardTexts ==
    ASSUME NEW v \in Running
    PROVE  Onward(v).text = v.text /\ Answered(v).text = v.text
<1> DEFINE n == [v EXCEPT !.next = @ + 1]
           m == [v EXCEPT !.asked = @ \ {first}]
<1>1. /\ n \in Running /\ n.text = v.text
      /\ m \in Running /\ m.text = v.text
      /\ [n EXCEPT !.pc = "answering"].text = v.text
  BY DEF Running
<1>2. /\ Onward(v) = IF n.next <= Units THEN n
                     ELSE IF n.asked # {} THEN [n EXCEPT !.pc = "answering"]
                     ELSE NextStage(n)
      /\ Answered(v) = IF m.asked = {} THEN NextStage(m) ELSE m
  BY DEF Onward, Answered
<1> HIDE DEF n, m
<1> QED
  BY <1>1, <1>2, NextStageTexts

\* Every unit remembers what is said of it when nothing is stored, ...
LEMMA RestingRemembers ==
    ASSUME UNCHANGED <<attempts, source>>
    PROVE  \A u : Remembers(u)
BY DEF Remembers, Now

\* ... when an answer is ...
LEMMA StoreRemembers ==
    ASSUME IInv, w.run = source, source' = source, NEW x \in Unit, key \in Key,
           NEW status \in {"succeeded", "failed"},
           NEW output \in Answer \cup {OK, NoText}, Store(x, status, output)
    PROVE  /\ \A u \in Unit : Remembers(u)
           /\ Len(Now(x)) + 1 \in DOMAIN Now(x)'
           /\ Now(x)'[Len(Now(x)) + 1] = Made(x, status, output)
<1> DEFINE a == Made(x, status, output)
           i == <<source, x>>
<1>1. /\ i \in Run \X Unit /\ attempts \in [Run \X Unit -> Seq(Attempt)]
      /\ Now(x) \in Seq(Attempt) /\ Now(x) = attempts[i]
  BY DEF IInv, Types, Now
<1>2. a \in Attempt
  BY DEF Made, Attempt, IInv, Types, Running
<1>3. attempts' = [attempts EXCEPT ![i] = Append(Now(x), a)]
  BY <1>1 DEF Store, Made
<1> HIDE DEF a, i
<1>4. LET t == Append(Now(x), a) IN
      /\ DOMAIN t = DOMAIN Now(x) \cup {Len(Now(x)) + 1}
      /\ \A n \in DOMAIN Now(x) : t[n] = Now(x)[n]
      /\ t[Len(Now(x)) + 1] = a
  BY <1>1, <1>2
<1>5. Now(x)' = Append(Now(x), a)
  BY <1>1, <1>3 DEF Now, i
<1>6. \A u \in Unit \ {x} : Now(u)' = Now(u)
  BY <1>1, <1>3 DEF Now, i, IInv, Types
<1>7. ASSUME NEW u \in Unit
      PROVE  Remembers(u)
  BY <1>4, <1>5, <1>6 DEF Remembers
<1> QED
  BY <1>4, <1>5, <1>7 DEF a

\* ... and when one is retired.
LEMMA RetireRemembers ==
    ASSUME IInv, w.run = source, source' = source, NEW x \in Unit,
           NEW n \in DOMAIN Now(x), Retire(x, n)
    PROVE  \A u \in Unit : Remembers(u)
<1> DEFINE i == <<source, x>>
<1>1. /\ i \in Run \X Unit /\ attempts \in [Run \X Unit -> Seq(Attempt)]
      /\ Now(x) \in Seq(Attempt) /\ Now(x) = attempts[i]
      /\ Now(x)[n] \in Attempt
  BY DEF IInv, Types, Now
<1>2. PICK a : a = [Now(x)[n] EXCEPT !.status = "cancelled"]
  OBVIOUS
<1>3. /\ a.key = Now(x)[n].key /\ a.output = Now(x)[n].output
      /\ a.about = Now(x)[n].about /\ a.status = "cancelled"
  BY <1>1, <1>2 DEF Attempt
<1>4. attempts' = [attempts EXCEPT ![i] = [@ EXCEPT ![n] = a]]
  BY <1>1, <1>2 DEF Retire
<1> HIDE DEF i
<1>5. Now(x)' = [Now(x) EXCEPT ![n] = a]
  BY <1>1, <1>4 DEF Now, i
<1>6. \A u \in Unit \ {x} : Now(u)' = Now(u)
  BY <1>1, <1>4 DEF Now, i, IInv, Types
<1>7. ASSUME NEW u \in Unit
      PROVE  Remembers(u)
  BY <1>1, <1>3, <1>5, <1>6 DEF Remembers
<1> QED
  BY <1>7

LEMMA ServicesRest ==
    ASSUME Translation \/ Repair \/ Review
    PROVE  w.pc \in {"collecting", "answering"} /\ Unmoved
BY ServicesAre
   DEF Pass, RecoverText, RecoverVerdict, SkipFailed, AskAnew, Ask, Fix,
       TakeText, TakeVerdict, TakeFailure, Unmoved

\* The services forget nothing.
LEMMA ServicesRemember ==
    ASSUME IInv, Translation \/ Repair \/ Review
    PROVE  \A u \in Unit : Remembers(u)
<1>1. UNCHANGED source
  BY ServicesRest DEF Unmoved
<1>2. CASE Pass \/ RecoverText \/ RecoverVerdict \/ SkipFailed \/ Ask
  <2>1. UNCHANGED attempts
    BY <1>2 DEF Pass, RecoverText, RecoverVerdict, SkipFailed, Ask
  <2> QED
    BY <1>1, <2>1, RestingRemembers
<1>3. CASE AskAnew
  <2>1. PICK n \in Succeeded(unit, key) : Retire(unit, n)
    BY <1>3 DEF AskAnew
  <2>2. unit \in Unit /\ w.run = source /\ n \in DOMAIN Now(unit)
    BY <1>3, <2>1, CollectFacts, SucceededIs DEF AskAnew
  <2> QED
    BY <1>1, <2>1, <2>2, RetireRemembers
<1>4. CASE Fix
  <2>1. /\ Store(unit, "succeeded", Repaired(unit))
        /\ unit \in Unit /\ w.run = source /\ key \in Key
        /\ Repaired(unit) \in Answer
    BY <1>4, CollectFacts, RepairedIs, Answers DEF Fix, Due, StoreCandidate
  <2> QED
    BY <1>1, <2>1, StoreRemembers
<1>5. CASE TakeText \/ TakeVerdict \/ TakeFailure
  <2>1. first \in Unit /\ w.run = source /\ key \in Key
    BY <1>5, AnswerFacts DEF TakeText, TakeVerdict, TakeFailure
  <2>2. PICK status \in {"succeeded", "failed"},
             output \in Answer \cup {OK, NoText} : Store(first, status, output)
    <3>1. CASE TakeText
      BY <2>1, <3>1, Answers DEF TakeText, StoreCandidate
    <3>2. CASE TakeVerdict
      BY <3>2 DEF TakeVerdict
    <3>3. CASE TakeFailure
      <4>1. PICK output \in {NoText} \cup Invalid : Store(first, "failed", output)
        BY <3>3 DEF TakeFailure
      <4> QED
        BY <4>1, Answers
    <3> QED
      BY <1>5, <3>1, <3>2, <3>3
  <2> QED
    BY <1>1, <2>1, <2>2, StoreRemembers
<1> QED
  BY <1>2, <1>3, <1>4, <1>5, ServicesAre

\* Where a unit has a text, only the revision puts another in its place.
LEMMA ServicesReplace ==
    ASSUME IInv, Translation \/ Repair \/ Review, NEW u \in Unit
    PROVE  w'.text[u] = w.text[u] \/ Replaced(u)
<1>0. w \in Running /\ UNCHANGED source
  BY ServicesRest DEF IInv, Types, Unmoved
<1>1. CASE Pass \/ RecoverVerdict \/ TakeVerdict
  BY <1>0, <1>1, OnwardTexts DEF Pass, RecoverVerdict, TakeVerdict
<1>2. CASE SkipFailed \/ Ask \/ AskAnew \/ TakeFailure
  <2>1. PICK v \in Running : /\ v.text = w.text
                             /\ w' = Onward(v) \/ w' = Answered(v)
    <3>1. CASE SkipFailed
      <4> DEFINE v == [w EXCEPT !.skipped = TRUE,
                                !.blocked = @ \/ w.stage = "revision"]
      <4>1. v \in Running /\ v.text = w.text /\ w' = Onward(v)
        BY <1>0, <3>1 DEF SkipFailed, Running
      <4> QED
        BY <4>1
    <3>2. CASE Ask \/ AskAnew
      <4> DEFINE v == [w EXCEPT !.asked = @ \cup {unit}]
      <4>1. unit \in Unit
        BY <3>2, CollectFacts DEF Ask, AskAnew
      <4>2. v \in Running /\ v.text = w.text /\ w' = Onward(v)
        BY <1>0, <3>2, <4>1 DEF Ask, AskAnew, Running
      <4> QED
        BY <4>2
    <3>3. CASE TakeFailure
      <4> DEFINE v == [w EXCEPT !.blocked = @ \/ w.stage = "revision"]
      <4>1. v \in Running /\ v.text = w.text /\ w' = Answered(v)
        BY <1>0, <3>3 DEF TakeFailure, Running
      <4> QED
        BY <4>1
    <3> QED
      BY <1>2, <3>1, <3>2, <3>3
  <2> QED
    BY <2>1, OnwardTexts
<1>3. CASE RecoverText
  <2>1. PICK n \in Recovered(unit, key) :
          LET text == Item(unit)[n].output IN
          text # OK /\ w' = Onward([w EXCEPT !.text[unit] = text])
    BY <1>3 DEF RecoverText
  <2>2. w.pc = "collecting" /\ w.stage # "proofread" /\ Due(unit)
    BY <1>3 DEF RecoverText
  <2>3. /\ unit \in Unit /\ Well(Now(unit)) /\ key \in Key
        /\ Item(unit) = Now(unit)
        /\ n \in DOMAIN Now(unit) /\ Succeeds(Now(unit), n, key)
        /\ Reviewing => w.stage \in quality /\ key = <<w.stage, 0>>
    BY <2>1, <2>2, CollectFacts, SucceededIs DEF Recovered
  <2>4. PICK text \in Text : text = Now(unit)[n].output
    BY <2>1, <2>3, OnlyOne
  <2> DEFINE v == [w EXCEPT !.text[unit] = text]
  <2>5. /\ v \in Running /\ w' = Onward(v) /\ v.text[unit] = text
        /\ \A x \in Unit \ {unit} : v.text[x] = w.text[x]
    BY <1>0, <2>1, <2>3, <2>4 DEF Running
  <2> HIDE DEF v
  <2>6. w'.text = v.text
    BY <2>5, OnwardTexts
  <2>7. \A x : Now(x)' = Now(x)
    BY <1>0, <1>3 DEF RecoverText, Now
  <2>8. PICK x : x = unit
    OBVIOUS
  <2>9. w.text[x] # NoText => key = <<"revision", 0>> /\ "revision" \in quality
    BY <2>2, <2>3, <2>8 DEF Due, Reviewing
  <2>10. Replaced(x)
    <3>1. /\ n \in DOMAIN Now(x)' /\ Succeeds(Now(x)', n, key)
          /\ Now(x)'[n].output = text /\ w'.text[x] = text
      BY <2>3, <2>4, <2>5, <2>6, <2>7, <2>8
    <3> QED
      BY <2>9, <3>1, Answers DEF Replaced
  <2> QED
    BY <2>5, <2>6, <2>8, <2>10
<1>4. CASE Fix
  <2>1. unit \in Unit /\ Repaired(unit) \in Text /\ w.text[unit] = NoText
    BY <1>0, <1>4, CollectFacts, RepairedIs DEF Fix, Due, Reviewing
  <2> DEFINE v == [w EXCEPT !.text[unit] = Repaired(unit)]
  <2>2. /\ v \in Running /\ w' = Onward(v)
        /\ \A x \in Unit \ {unit} : v.text[x] = w.text[x]
    BY <1>0, <1>4, <2>1 DEF Fix, Running
  <2> HIDE DEF v
  <2> QED
    BY <2>1, <2>2, OnwardTexts DEF Replaced
<1>5. CASE TakeText
  <2>1. PICK x : x = first
    OBVIOUS
  <2>2. /\ x \in Unit /\ w.run = source /\ key \in Key
        /\ Reviewing => w.stage \in quality /\ key = <<w.stage, 0>>
        /\ Reviewing <=> w.text[x] # NoText
        /\ Item(x) = Now(x)
    BY <1>5, <2>1, AnswerFacts DEF TakeText
  <2>3. PICK text \in Text :
          /\ Store(x, "succeeded", text)
          /\ w' = Answered([w EXCEPT !.text[x] = text])
    BY <1>5, <2>1, <2>2, Answers DEF TakeText, StoreCandidate
  <2> DEFINE v == [w EXCEPT !.text[x] = text]
  <2>4. /\ v \in Running /\ w' = Answered(v) /\ v.text[x] = text
        /\ \A y \in Unit \ {x} : v.text[y] = w.text[y]
    BY <1>0, <2>2, <2>3 DEF Running
  <2> HIDE DEF v
  <2>5. w'.text = v.text
    BY <2>4, OnwardTexts
  <2>6. PICK n \in DOMAIN Now(x)' : Now(x)'[n] = Made(x, "succeeded", text)
    <3>1. text \in Answer
      BY Answers
    <3> QED
      BY <1>0, <2>2, <2>3, <3>1, StoreRemembers
  <2>7. /\ Now(x)'[n].key = key /\ Now(x)'[n].status = "succeeded"
        /\ Now(x)'[n].output = text
    BY <2>6 DEF Made
  <2>8. w.text[x] # NoText => w.stage = "revision"
    BY <1>5, <2>2 DEF TakeText, Reviewing
  <2>9. Replaced(x)
    BY <2>2, <2>4, <2>5, <2>7, <2>8, Answers DEF Replaced, Succeeds, Reviewing
  <2> QED
    BY <2>4, <2>5, <2>9
<1> QED
  BY <1>1, <1>2, <1>3, <1>4, <1>5, ServicesAre

\* A text that is planned is what people adopted, or a review contests it.
LEMMA PlannedYields ==
    ASSUME IInv, w.run = source, NEW u \in Unit, Human(u) # NoText,
           Planned(u) # Human(u)
    PROVE  Contested(u, Human(u))
<1>1. PICK human : human = Human(u)
  OBVIOUS
<1>2. human \in Text
  BY <1>1, SourceType DEF Human, IInv, Types
<1>3. FirstCandidate(u) = human
  BY <1>1, <1>2 DEF FirstCandidate, Human
<1>4. ~ReviewsCompatible(u, human)
  BY <1>1, <1>3 DEF Planned
<1>5. PICK stage \in quality : \E n \in Succeeded(u, <<stage, 0>>) :
        ~Compatible(Item(u)[n], human)
  BY <1>4 DEF ReviewsCompatible
<1>6. PICK n \in Succeeded(u, <<stage, 0>>) : ~Compatible(Item(u)[n], human)
  BY <1>5
<1>7. /\ n \in DOMAIN Now(u) /\ Item(u) = Now(u)
      /\ Now(u)[n].key = <<stage, 0>> /\ Now(u)[n].status = "succeeded"
      /\ Well(Now(u)) /\ stage \in Reviews
  BY <1>6 DEF Succeeded, Holding, Item, Now, IInv, Types, Quality, Reviews
<1>8. Now(u)[n].about # human
  BY <1>6, <1>7 DEF Compatible
<1>9. Now(u)[n].output # human
  <2>1. CASE stage = "revision"
    BY <1>6, <1>7, <2>1 DEF Compatible
  <2>2. CASE stage = "proofread"
    <3>1. Now(u)[n].key[1] = "proofread"
      BY <1>7, <2>2
    <3>2. Now(u)[n].output = OK
      BY <1>7, <3>1 DEF Well
    <3> QED
      BY <1>2, <3>2, Answers
  <2> QED
    BY <1>7, <2>1, <2>2 DEF Reviews
<1>10. Contests(Now(u)[n], human)
  <2>1. Now(u)[n].key[1] \in quality
    BY <1>6, <1>7
  <2> QED
    BY <1>7, <1>8, <1>9, <2>1 DEF Contests
<1> QED
  BY <1>1, <1>7, <1>10 DEF Contested

\* The other steps leave attempts, source and memory.
LEMMA OthersYield ==
    ASSUME UNCHANGED <<source, quality, attempts, trusted>>, NEW u \in Unit,
           HumanInv(u),
           Human(u) # NoText =>
             /\ Begun(w, u)' => w'.text[u] = Human(u) \/ Contested(u, Human(u))
             /\ \/ verified'[source][u] \in {NoText, Human(u), verified[source][u]}
                \/ Contested(u, Human(u))
    PROVE  HumanInv(u)'
<1>1. PICK human : human = Human(u)
  OBVIOUS
<1>2. Human(u)' = human /\ source' = source
  BY <1>1 DEF Human
<1>3. Contested(u, human) => Contested(u, human)'
  BY RestingRemembers, ContestsKeep
<1> QED
  BY <1>1, <1>2, <1>3 DEF HumanInv

LEMMA PrepareYields ==
    ASSUME IInv, Prepare, NEW u \in Unit, HumanInv(u)
    PROVE  HumanInv(u)'
<1>1. PICK d : d = w.next
  OBVIOUS
<1>2. /\ w.pc = "planning" /\ w.run = source /\ w \in Running /\ d \in Document
      /\ UNCHANGED <<source, quality, attempts, trusted, verified>>
      /\ DocOf[u] \in Document
  BY <1>1, DocumentType
     DEF Prepare, PrepareDocument, PlanConflict, IInv, Types, Position
<1>3. PICK v \in Running :
        /\ v.pc = w.pc /\ v.run = w.run /\ v.next = w.next /\ v.stage = w.stage
        /\ v.queued = w.queued /\ v.asked = w.asked /\ v.text = w.text
        /\ w' = Prepared(v, d)
  <2>1. CASE PrepareDocument
    BY <1>1, <1>2, <2>1 DEF PrepareDocument
  <2>2. CASE PlanConflict
    <3> DEFINE v == [w EXCEPT !.blocked = TRUE]
    <3>1. /\ v \in Running
          /\ v.pc = w.pc /\ v.run = w.run /\ v.next = w.next
          /\ v.stage = w.stage /\ v.queued = w.queued /\ v.asked = w.asked
          /\ v.text = w.text /\ w' = Prepared(v, d)
      BY <1>1, <1>2, <2>2 DEF PlanConflict, Running
    <3> QED
      BY <3>1
  <2> QED
    BY <2>1, <2>2 DEF Prepare
<1>4. PICK p \in Running :
        /\ p.pc = "planning" /\ p.next = d + 1
        /\ p.text = [x \in Unit |-> IF DocOf[x] = d THEN Planned(x)
                                                    ELSE w.text[x]]
        /\ w' = IF d < Documents THEN p
                ELSE IF p.blocked THEN Idle ELSE NextStage(p)
  <2>1. PICK p \in Running : After(p, v, d)
    BY <1>1, <1>2, <1>3, PreparedIs
  <2> QED
    BY <2>1 DEF After
<1>5. CASE w' = Idle
  <2>1. ~Begun(w, u)'
    BY <1>5, IdleIs DEF Begun
  <2> QED
    BY <1>2, <2>1, OthersYield
<1>6. CASE \/ w' = p /\ d < Documents
           \/ w' = NextStage(p) /\ ~(d < Documents)
  <2>1. w'.text[u] = IF DocOf[u] = d THEN Planned(u) ELSE w.text[u]
    BY <1>4, <1>6, NextStageTexts
  <2>2. DocOf[u] # d /\ Begun(w, u)' => Begun(w, u)
    <3>1. CASE w' = p /\ d < Documents
      <4>1. Begun(w, u)' => DocOf[u] < d + 1
        BY <1>4, <3>1 DEF Begun
      <4>2. DocOf[u] # d /\ Begun(w, u)' => DocOf[u] < d
        BY <1>2, <4>1, DocumentType
      <4> QED
        BY <1>1, <1>2, <4>2 DEF Begun
    <3>2. CASE ~(d < Documents)
      <4>1. DocOf[u] # d => DocOf[u] < d
        BY <1>2, <3>2, DocumentType
      <4> QED
        BY <1>1, <1>2, <4>1 DEF Begun
    <3> QED
      BY <1>6, <3>1, <3>2
  <2>3. Human(u) # NoText /\ Begun(w, u)' =>
          w'.text[u] = Human(u) \/ Contested(u, Human(u))
    BY <1>2, <2>1, <2>2, PlannedYields DEF HumanInv
  <2> QED
    BY <1>2, <2>3, OthersYield
<1> QED
  BY <1>4, <1>5, <1>6

LEMMA AdoptedKeeps ==
    ASSUME IInv, [Next]_vars, NEW u \in Unit, HumanInv(u)
    PROVE  HumanInv(u)'
<1>0. source \in Run
  BY DEF IInv, Types
<1>1. CASE Translation \/ Repair \/ Review
  BY <1>1, ServicesRest, ServicesRemember, ServicesReplace, ServiceYields
<1>2. CASE Prepare
  BY <1>2, PrepareYields
<1>3. CASE StartSync
  <2>1. w'.pc = "planning" /\ w'.next = 1
    BY <1>3 DEF StartSync, Idle
  <2>2. ~Begun(w, u)'
    BY <2>1, DocumentType DEF Begun
  <2> QED
    BY <1>3, <2>2, OthersYield DEF StartSync
<1>4. CASE Verify
  <2>1. ~Begun(w, u)'
    BY <1>4, IdleIs DEF Verify, Begun
  <2>2. Begun(w, u) /\ verified'[source][u] \in {verified[source][u], w.text[u]}
    BY <1>0, <1>4, VerifyIs DEF Begun
  <2> QED
    BY <1>4, <2>1, <2>2, OthersYield DEF Verify, HumanInv
<1>5. CASE Blocked \/ Die
  <2>1. ~Begun(w, u)'
    BY <1>5, IdleIs DEF Blocked, Die, Begun
  <2> QED
    BY <1>5, <2>1, OthersYield DEF Blocked, Die
<1>6. CASE People
  <2>1. w.pc = "idle" /\ w' = w /\ verified' = NothingVerified /\ source' \in Run
    BY <1>0, <1>6 DEF People, MoveOn, Adopt
  <2>2. ~Begun(w, u)' /\ verified'[source'][u] = NoText
    BY <2>1 DEF Begun, NothingVerified
  <2> QED
    BY <2>2 DEF HumanInv
<1>7. CASE UNCHANGED vars
  BY <1>7, OthersYield DEF vars, HumanInv, Begun
<1> QED
  BY <1>1, <1>2, <1>3, <1>4, <1>5, <1>6, <1>7 DEF Next, Sync

\* Planner and ReviewService: a text that people adopted is let through for
\* its source as it is, for any number of syncs, deaths and returns, unless a
\* review of that very run was of another text or made another one of it.
THEOREM AdoptedStands == Spec => []AdoptedYieldsToReview
<1> DEFINE Adopted == \A u \in Unit : HumanInv(u)
<1>1. Init => Adopted
  <2> SUFFICES ASSUME Init, NEW u \in Unit PROVE Human(u) = NoText
    BY DEF HumanInv
  <2>1. source \in Run
    BY PipelineAssumption DEF Init, Run
  <2> QED
    BY <2>1, SourceType DEF Init, Human
<1>2. IInv /\ Adopted /\ [Next]_vars => Adopted'
  BY AdoptedKeeps
<1>3. Adopted => AdoptedYieldsToReview
  <2> SUFFICES ASSUME NEW u \in Unit, HumanInv(u), Human(u) # NoText,
                      verified[source][u] \notin {NoText, Human(u)}
               PROVE  Contested(u, Human(u))
    BY DEF AdoptedYieldsToReview, Human, Contested, Now
  <2> QED
    BY DEF HumanInv
<1> HIDE DEF Adopted
<1> QED
  BY <1>1, <1>2, <1>3, Invariant, PTL DEF Spec

-----------------------------------------------------------------------------
(* The way of a sync.                                                      *)

StageNo(stage) ==
    CASE stage = "plan"      -> 1
      [] stage = "translate" -> 2
      [] stage = "fix"       -> 3
      [] stage = "repair"    -> 4
      [] stage = "revision"  -> 5
      [] stage = "proofread" -> 6

Phase(v) == IF v.pc = "verifying" THEN 7 ELSE StageNo(v.stage)

Round(v) == IF v.stage = "repair" THEN v.round ELSE 0

\* The sync n is in a later stage or round than v, ...
Later(n, v) ==
    \/ Phase(n) > Phase(v)
    \/ Phase(n) = Phase(v) /\ Round(n) > Round(v)

\* ... or past more documents or units, done with all units, or has fewer
\* answers to store.
Further(n, v) ==
    \/ Later(n, v)
    \/ /\ Phase(n) = Phase(v) /\ Round(n) = Round(v)
       /\ \/ n.pc = v.pc /\ n.next > v.next
          \/ v.pc = "collecting" /\ n.pc = "answering"
          \/ /\ v.pc = "answering" /\ n.pc = "answering"
             /\ n.asked \subseteq v.asked /\ n.asked # v.asked

\* How far that can go.
Within(v) ==
    /\ v.pc = "planning" => v.next \in Document
    /\ v.pc = "collecting" => v.next \in Unit
    /\ v.pc \in {"collecting", "answering"} =>
           v.round <= RepairBudget /\ v.asked \subseteq Unit

LEMMA StageNos ==
    /\ StageNo("plan") = 1 /\ StageNo("translate") = 2
    /\ StageNo("fix") = 3 /\ StageNo("repair") = 4
    /\ StageNo("revision") = 5 /\ StageNo("proofread") = 6
BY DEF StageNo

LEMMA Phases ==
    ASSUME NEW v
    PROVE  /\ v.pc = "verifying" => Phase(v) = 7
           /\ v.pc # "verifying" => Phase(v) = StageNo(v.stage)
BY DEF Phase

LEMMA BeginAt ==
    ASSUME NEW v \in Running, NEW stage \in Stage, NEW round \in Nat
    PROVE  /\ Begin(v, stage, round) \in Running
           /\ Begin(v, stage, round).pc = "collecting"
           /\ Begin(v, stage, round).stage = stage
           /\ Begin(v, stage, round).round = round
BY DEF Begin, Running

LEMMA VerifyingAt ==
    ASSUME NEW v \in Running
    PROVE  Phase([v EXCEPT !.pc = "verifying"]) = 7
<1>1. PICK n : n = [v EXCEPT !.pc = "verifying"]
  OBVIOUS
<1>2. n \in Running /\ n.pc = "verifying"
  BY <1>1 DEF Running
<1> QED
  BY <1>1, <1>2, Phases

LEMMA BeginPhase ==
    ASSUME NEW v \in Running, NEW round \in Nat, NEW stage \in Stage
    PROVE  Phase(Begin(v, stage, round)) = StageNo(stage)
BY BeginAt DEF Phase

LEMMA ReviewsAt ==
    ASSUME NEW v \in Running
    PROVE  /\ Phase(ToProofread(v)) \in 6..7
           /\ Phase(ToRevision(v)) \in 5..7
<1>1. /\ Phase(Begin(v, "proofread", 0)) = 6
      /\ Phase(Begin(v, "revision", 0)) = 5
  BY BeginPhase, StageNos DEF Stage, Reviews
<1>2. Phase(ToProofread(v)) \in 6..7
  BY <1>1, VerifyingAt DEF ToProofread
<1> QED
  BY <1>1, <1>2 DEF ToRevision

LEMMA NextStageLater ==
    ASSUME NEW v \in Running, v.pc \in {"planning", "collecting", "answering"}
    PROVE  Later(NextStage(v), v)
<1> DEFINE n == NextStage(v)
<1>0. v.stage \in Stage /\ v.round \in Nat /\ v.round + 1 \in Nat
  BY DEF Running
<1>a. /\ Phase(Begin(v, "translate", 0)) = 2
      /\ Phase(Begin(v, "fix", 0)) = 3
      /\ \A round \in Nat : Phase(Begin(v, "repair", round)) = 4
  BY BeginPhase, StageNos DEF Stage
<1>1. CASE v.stage = "plan"
  <2>1. Phase(v) = 1
    BY <1>1, Phases, StageNos
  <2>2. Phase(n) \in 2..7
    BY <1>1, <1>a, ReviewsAt DEF NextStage
  <2> QED
    BY <2>1, <2>2 DEF Later
<1>2. CASE v.stage = "translate"
  <2>1. Phase(v) = 2
    BY <1>2, Phases, StageNos
  <2>2. Phase(n) \in 3..7
    BY <1>2, <1>a, ReviewsAt DEF NextStage
  <2> QED
    BY <2>1, <2>2 DEF Later
<1>3. CASE v.stage = "fix"
  <2>1. Phase(v) = 3
    BY <1>3, Phases, StageNos
  <2>2. Phase(n) \in 4..7
    BY <1>3, <1>a, ReviewsAt DEF NextStage, ToRepair
  <2> QED
    BY <2>1, <2>2 DEF Later
<1>4. CASE v.stage = "repair"
  <2>1. Phase(v) = 4
    BY <1>4, Phases, StageNos
  <2>2. n \in {Begin(v, "repair", v.round + 1), ToRevision(v)}
    BY <1>4 DEF NextStage, ToRepair
  <2>3. CASE n = Begin(v, "repair", v.round + 1)
    <3>1. Phase(n) = 4
      BY <1>0, <1>a, <2>3
    <3>2. n.stage = "repair" /\ n.round = v.round + 1
      <4>1. PICK round \in Nat : round = v.round + 1
        BY <1>0
      <4>2. PICK stage \in Stage : stage = "repair"
        BY DEF Stage
      <4> QED
        BY <2>3, <4>1, <4>2, BeginAt
    <3>3. Round(n) = v.round + 1 /\ Round(v) = v.round
      BY <1>4, <3>2 DEF Round
    <3> QED
      BY <1>0, <2>1, <3>1, <3>3 DEF Later
  <2>4. CASE n = ToRevision(v)
    BY <2>1, <2>4, ReviewsAt DEF Later
  <2> QED
    BY <2>2, <2>3, <2>4
<1>5. CASE v.stage = "revision"
  <2>1. Phase(v) = 5
    BY <1>5, Phases, StageNos
  <2>2. n = ToProofread(v)
    BY <1>5 DEF NextStage
  <2> QED
    BY <2>1, <2>2, ReviewsAt DEF Later
<1>6. CASE v.stage = "proofread"
  <2>1. Phase(v) = 6
    BY <1>6, Phases, StageNos
  <2>2. n = [v EXCEPT !.pc = "verifying"]
    BY <1>6 DEF NextStage
  <2> QED
    BY <2>1, <2>2, VerifyingAt DEF Later
<1> QED
  BY <1>0, <1>1, <1>2, <1>3, <1>4, <1>5, <1>6 DEF Stage, Reviews

\* A stage and round are all that counts for what is later.
LEMMA LaterThan ==
    ASSUME NEW m \in Running, NEW v \in Running, NEW n, Later(n, m),
           m.stage = v.stage, Round(m) = Round(v),
           m.pc # "verifying", v.pc # "verifying"
    PROVE  Further(n, v)
<1>1. Phase(m) = Phase(v)
  BY DEF Phase
<1> QED
  BY <1>1 DEF Later, Further

LEMMA OnwardFurther ==
    ASSUME NEW v \in Running, v.pc = "collecting", w \in Running,
           w.pc = "collecting",
           v.stage = w.stage, v.round = w.round, v.next = w.next
    PROVE  Further(Onward(v), w)
<1> DEFINE m == [v EXCEPT !.next = @ + 1]
           a == [m EXCEPT !.pc = "answering"]
<1>1. /\ m \in Running /\ m.pc = "collecting" /\ m.stage = w.stage
      /\ m.round = w.round /\ m.next = w.next + 1
      /\ a.pc = "answering" /\ a.stage = w.stage /\ a.round = w.round
  BY DEF Running
<1>2. Onward(v) \in {m, a, NextStage(m)}
  BY DEF Onward
<1> HIDE DEF m, a
<1>3. /\ Phase(m) = Phase(w) /\ Phase(a) = Phase(w)
      /\ Round(m) = Round(w) /\ Round(a) = Round(w)
  BY <1>1 DEF Phase, Round
<1>4. m.next > w.next
  BY <1>1 DEF Running
<1>5. Further(m, w) /\ Further(a, w)
  BY <1>1, <1>3, <1>4 DEF Further
<1>6. Further(NextStage(m), w)
  BY <1>1, <1>3, NextStageLater, LaterThan
<1> QED
  BY <1>2, <1>5, <1>6

LEMMA AnsweredFurther ==
    ASSUME NEW v \in Running, v.pc = "answering", w \in Running,
           w.pc = "answering", v.stage = w.stage, v.round = w.round,
           v.asked = w.asked, w.asked # {}
    PROVE  Further(Answered(v), w)
<1> DEFINE m == [v EXCEPT !.asked = @ \ {first}]
<1>1. /\ m \in Running /\ m.pc = "answering" /\ m.stage = w.stage
      /\ m.round = w.round /\ m.asked = w.asked \ {first}
  BY DEF Running
<1>2. Answered(v) \in {m, NextStage(m)}
  BY DEF Answered
<1> HIDE DEF m
<1>3. first \in w.asked
  BY FirstIs DEF Running
<1>4. Round(m) = Round(w) /\ Phase(m) = Phase(w)
  BY <1>1 DEF Phase, Round
<1>5. Further(m, w) /\ Further(NextStage(m), w)
  BY <1>1, <1>3, <1>4, NextStageLater, LaterThan DEF Further
<1> QED
  BY <1>2, <1>5

LEMMA PreparedFurther ==
    ASSUME IInv, w.pc = "planning", NEW v \in Running,
           v.pc = w.pc, v.run = w.run, v.next = w.next, v.stage = w.stage,
           v.queued = w.queued, v.asked = w.asked, v.text = w.text,
           w' = Prepared(v, w.next)
    PROVE  w' = Idle \/ Further(w', w)
<1>0. PICK d : d = w.next
  OBVIOUS
<1> w' = Prepared(v, d)
  BY <1>0
<1>1. w \in Running /\ w.stage = "plan" /\ d \in Nat
  BY <1>0 DEF IInv, Types, Position, Running
<1>2. PICK p \in Running :
        /\ p.pc = "planning" /\ p.run = source /\ p.next = d + 1
        /\ p.stage = "plan" /\ p.asked = {} /\ p.blocked = v.blocked
        /\ p.queued = w.queued \cup Queued(d)
        /\ p.text = [u \in Unit |-> IF DocOf[u] = d THEN Planned(u)
                                                    ELSE w.text[u]]
        /\ w' = IF d < Documents THEN p
                ELSE IF p.blocked THEN Idle ELSE NextStage(p)
  <2>1. PICK p \in Running : After(p, v, d)
    BY <1>0, PreparedIs
  <2> QED
    BY <2>1 DEF After
<1>3. /\ Phase(p) = 1 /\ Phase(w) = 1
      /\ Round(p) = 0 /\ Round(w) = 0 /\ p.next > w.next
  BY <1>0, <1>1, <1>2, Phases, StageNos DEF Round
<1>4. Further(p, w)
  BY <1>2, <1>3 DEF Further
<1>5. Further(NextStage(p), w)
  BY <1>1, <1>2, <1>3, NextStageLater, LaterThan
<1> QED
  BY <1>2, <1>4, <1>5

\* What a step of collecting or answering notes before it goes on says
\* nothing about where the sync is.
Noted(v) ==
    /\ v \in Running
    /\ v.pc = w.pc /\ v.stage = w.stage /\ v.round = w.round
    /\ v.pc = "collecting" => v.next = w.next
    /\ v.pc = "answering" => v.asked = w.asked

LEMMA ServicesNote ==
    ASSUME IInv, Translation \/ Repair \/ Review
    PROVE  \E v : /\ Noted(v)
                  /\ \/ w.pc = "collecting" /\ w' = Onward(v)
                     \/ w.pc = "answering" /\ w' = Answered(v)
<1>0. /\ w \in Running
      /\ w.pc = "collecting" => unit \in Unit
      /\ w.pc = "answering" => first \in Unit
  <2>1. w \in Running /\ Position(w)
    BY DEF IInv, Types
  <2>2. w.asked \subseteq Unit /\ (w.pc = "answering" => w.asked # {})
    BY <2>1 DEF Position, Running
  <2>3. w.pc = "answering" => first \in Unit
    BY <2>2, FirstIs
  <2> QED
    BY <2>1, <2>3 DEF Position, unit
<1>1. CASE Pass \/ RecoverVerdict
  <2>1. Noted(w)
    BY <1>0 DEF Noted
  <2> QED
    BY <1>1, <2>1 DEF Pass, RecoverVerdict
<1>2. CASE SkipFailed
  <2>1. Noted([w EXCEPT !.skipped = TRUE, !.blocked = @ \/ w.stage = "revision"])
    BY <1>0, <1>2 DEF Noted, Running
  <2> QED
    BY <1>2, <2>1 DEF SkipFailed
<1>3. CASE AskAnew \/ Ask
  <2>1. Noted([w EXCEPT !.asked = @ \cup {unit}])
    BY <1>0, <1>3 DEF Noted, Running, AskAnew, Ask
  <2> QED
    BY <1>3, <2>1 DEF AskAnew, Ask
<1>4. CASE RecoverText \/ Fix
  <2>1. PICK text \in Text \cup {NoText} :
          w' = Onward([w EXCEPT !.text[unit] = text])
    <3>1. CASE Fix
      BY <1>0, <3>1, RepairedIs DEF Fix, Due
    <3>2. CASE RecoverText
      <4>1. PICK n \in Recovered(unit, key) :
              /\ Item(unit)[n].output # OK
              /\ w' = Onward([w EXCEPT !.text[unit] = Item(unit)[n].output])
        BY <3>2 DEF RecoverText
      <4>2. Item(unit)[n].output \in Text
        BY <1>0, <3>2, <4>1
           DEF RecoverText, Recovered, Succeeded, Holding, Item, IInv, Types,
               Position, Well
      <4> QED
        BY <4>1, <4>2
    <3> QED
      BY <1>4, <3>1, <3>2
  <2>2. w.pc = "collecting"
    BY <1>4 DEF RecoverText, Fix
  <2>3. Noted([w EXCEPT !.text[unit] = text])
    BY <1>0, <2>2 DEF Noted, Running
  <2> QED
    BY <2>1, <2>2, <2>3
<1>5. CASE TakeText
  <2>1. PICK text \in Valid[first] : w' = Answered([w EXCEPT !.text[first] = text])
    BY <1>5 DEF TakeText
  <2>2. w.pc = "answering" /\ text \in Text
    BY <1>0, <1>5, Answers DEF TakeText
  <2>3. Noted([w EXCEPT !.text[first] = text])
    BY <1>0, <2>2 DEF Noted, Running
  <2> QED
    BY <2>1, <2>2, <2>3
<1>6. CASE TakeVerdict
  <2>1. Noted(w)
    BY <1>0 DEF Noted
  <2> QED
    BY <1>6, <2>1 DEF TakeVerdict
<1>7. CASE TakeFailure
  <2>1. Noted([w EXCEPT !.blocked = @ \/ w.stage = "revision"])
    BY <1>0, <1>7 DEF Noted, Running
  <2> QED
    BY <1>7, <2>1 DEF TakeFailure
<1> QED
  BY <1>1, <1>2, <1>3, <1>4, <1>5, <1>6, <1>7, ServicesAre

\* TranslationService, RepairService, ReviewService: every step of a sync
\* leaves it idle or takes it further, through stages, rounds, units and
\* answers of which there are finitely many.  Whatever was stored, retired or
\* failed before, no sync goes round in circles; what can hold one up is
\* outside of it.
THEOREM SyncsComeToAnEnd ==
    Spec => /\ []Within(w)
            /\ [][w.pc # "idle" => w' = Idle \/ Further(w', w)]_vars
<1>1. IInv => Within(w)
  <2> SUFFICES ASSUME IInv PROVE Within(w)
    OBVIOUS
  <2>1. w \in Running /\ Position(w)
    BY DEF IInv, Types
  <2>2. \A k \in Key : k[2] <= RepairBudget
    BY PipelineAssumption DEF Key
  <2> QED
    BY <2>1, <2>2 DEF Position, Running, Within
<1>2. IInv /\ [Next]_vars =>
          [w.pc # "idle" => w' = Idle \/ Further(w', w)]_vars
  <2> SUFFICES ASSUME IInv, Next, w.pc # "idle"
               PROVE  w' = Idle \/ Further(w', w)
    BY DEF vars
  <2>0. w \in Running
    BY DEF IInv, Types
  <2>1. CASE Translation \/ Repair \/ Review
    <3>1. PICK v : /\ Noted(v)
                   /\ \/ w.pc = "collecting" /\ w' = Onward(v)
                      \/ w.pc = "answering" /\ w' = Answered(v)
      BY <2>1, ServicesNote
    <3>2. w.pc = "answering" => w.asked # {}
      BY DEF IInv, Types, Position
    <3> QED
      BY <2>0, <3>1, <3>2, OnwardFurther, AnsweredFurther DEF Noted
  <2>2. CASE PrepareDocument
    BY <2>0, <2>2, PreparedFurther DEF PrepareDocument
  <2>3. CASE PlanConflict
    <3>1. PICK v : v = [w EXCEPT !.blocked = TRUE]
      OBVIOUS
    <3>2. /\ v \in Running
          /\ v.pc = w.pc /\ v.run = w.run /\ v.next = w.next
          /\ v.stage = w.stage /\ v.queued = w.queued
          /\ v.asked = w.asked /\ v.text = w.text
      BY <2>0, <3>1 DEF Running
    <3> QED
      BY <2>3, <3>1, <3>2, PreparedFurther DEF PlanConflict
  <2>4. CASE Verify \/ Blocked \/ Die
    BY <2>4 DEF Verify, Blocked, Die
  <2>5. CASE StartSync \/ People
    BY <2>5 DEF StartSync, People, MoveOn, Adopt
  <2> QED
    BY <2>1, <2>2, <2>3, <2>4, <2>5 DEF Next, Sync, Prepare
<1> QED
  BY <1>1, <1>2, Invariant, PTL DEF Spec
=============================================================================
