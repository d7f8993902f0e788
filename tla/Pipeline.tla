------------------------------ MODULE Pipeline ------------------------------
(***************************************************************************)
(* The translation pipeline of one locale: what of earlier work is reused, *)
(* which agents are asked, how their answers become durable, and what a    *)
(* sync finally verifies.                                                  *)
(*                                                                         *)
(* A sync at a source revision continues the run of that revision.  It     *)
(* plans document by document, asks the translator for units that have no  *)
(* text, repairs, has the revision stage approve or replace every text,    *)
(* asks the proofreader for advice, and assembles the documents that are   *)
(* whole.  Every answer is paid for, and stored in a transaction of its    *)
(* own; the process may die between any two.  Syncs do not overlap (module *)
(* RepoLock).                                                              *)
(*                                                                         *)
(* A unit keeps its stable id over all revisions.  Policy, configuration   *)
(* and version of fani stay the same, so that a stored answer can only be  *)
(* incompatible by the text that it reviews.  Findings and the results of  *)
(* work items are written for reports only.                                *)
(*                                                                         *)
(* Sources: application/sync.rs, application/sync/{context,planning,       *)
(* preparation,translation,recovery,repair,review,verification}.rs,        *)
(* adapters/db.rs and adapters/db/{attempts,preparation,workflows,         *)
(* effects,verification}.rs, under src/src.                                *)
(***************************************************************************)
EXTENDS Naturals, Sequences, FiniteSets

CONSTANTS
    Units,        \* number of units, in the order of the documents
    Documents,    \* number of documents, in the order of their paths
    DocOf,        \* the document of a unit
    Revisions,    \* number of source revisions
    SourceText,   \* SourceText[r][u]: the source of unit u at revision r
    Valid,        \* answers for a unit that pass deterministic validation
    Invalid,      \* answers that pass for no unit
    Separated,    \* what the deterministic repair makes of an answer
    NoText,       \* no text, no output
    OK,           \* a review's approval
    MaxTasks,     \* max_tasks
    RepairBudget, \* repair_budget
    Budgets       \* bounds: moves, changes of the source; edits, texts that
                  \* people adopt; faults, deaths, bad or missing answers and
                  \* failed checks

Unit     == 1..Units
Document == 1..Documents
Run      == 1..Revisions   \* the run of a revision, by its number
Quality  == SUBSET {"revision", "proofread"}   \* review stages configured
Text     == UNION {Valid[u] : u \in Unit}
Answer   == Text \cup Invalid

ASSUME PipelineAssumption ==
    /\ {Units, Documents, Revisions, MaxTasks} \subseteq Nat \ {0}
    /\ RepairBudget \in Nat
    /\ Budgets \in [Quality -> SUBSET [{"moves", "edits", "faults"} -> Nat]]
    /\ DocOf \in [Unit -> Document]
    /\ \A u, v \in Unit : u <= v => DocOf[u] <= DocOf[v]
    /\ Separated \in [Answer -> Text \cup {NoText}]
    /\ {NoText, OK} \cap Answer = {} /\ NoText # OK

Source == {SourceText[r][u] : r \in Run, u \in Unit}
Parts(d) == {u \in Unit : DocOf[u] = d}

VARIABLES
    source,   \* the revision at publish.source_ref
    quality,  \* the configured review stages
    known,    \* documents: the revision its row has last been prepared from
    attempts, \* attempts of each work item, by run and unit, in order
    selected, \* the selected canonical candidate of each unit
    trusted,  \* trusted memory, by unit and source text
    file,     \* the target's text of each unit, as last materialized or edited
    w,        \* the running sync
    verified, \* history: what each run verified since source or memory changed
    budget    \* what is left of the bounds

vars == <<source, quality, known, attempts, selected, trusted, file, w,
          verified, budget>>

-----------------------------------------------------------------------------
(* Data.                                                                   *)

\* Deduplication keys of a unit's attempts; repair has one for every round.
Key == ({"translate", "fix", "revision", "proofread"} \X {0})
         \cup ({"repair"} \X (1..RepairBudget))

\* A cancelled attempt has given up its key.
Attempt == [key    : Key,
            status : {"succeeded", "failed", "cancelled"},
            output : Answer \cup {OK, NoText},
            about  : Text \cup {NoText}]   \* the text it is to review

\* A candidate is the output of the n-th attempt of a work item.
NoCandidate == [run |-> 0, n |-> 0]

NothingVerified == [r \in Run |-> [u \in Unit |-> NoText]]

Idle == [pc |-> "idle", run |-> 0, next |-> 0, tasks |-> 0,
         queued |-> {}, text |-> [u \in Unit |-> NoText],
         stage |-> "plan", round |-> 0, skipped |-> FALSE, asked |-> {},
         blocked |-> FALSE]

Init ==
    /\ source = 1
    /\ quality \in Quality
    /\ known = [d \in Document |-> 0]
    /\ attempts = [item \in Run \X Unit |-> <<>>]
    /\ selected = [u \in Unit |-> NoCandidate]
    /\ trusted = [u \in Unit |-> [s \in Source |-> NoText]]
    /\ file = [u \in Unit |-> NoText]
    /\ w = Idle
    /\ verified = NothingVerified
    /\ budget \in Budgets[quality]

Spend(what) == budget[what] > 0 /\ budget' = [budget EXCEPT ![what] = @ - 1]

-----------------------------------------------------------------------------
(* Planning: what is reused, what is queued.                               *)

\* The attempts of the work item of unit u in this run.
Item(u) == attempts[<<w.run, u>>]

\* The attempt whose output is the selected candidate of unit u.
Candidate(u) == attempts[<<selected[u].run, u>>][selected[u].n]

\* Attempts in this run that hold key k.
Holding(u, k) ==
    {n \in DOMAIN Item(u) :
        /\ Item(u)[n].key = k
        /\ Item(u)[n].status # "cancelled"}

Succeeded(u, k) ==
    {n \in Holding(u, k) : Item(u)[n].status = "succeeded"}

\* Mutated form: a review speaks for whatever text the unit has.
CompatibleAnyway(a, text) == TRUE

\* compatible_review_request: the review was asked about this text, or it is
\* the revision that led to it.
Compatible(a, text) ==
    \/ a.about = text
    \/ a.key[1] = "revision" /\ a.output = text

\* reviews_compatible: this run's receipts of the configured stages.
ReviewsCompatible(u, text) ==
    \A stage \in quality :
        \A n \in Succeeded(u, <<stage, 0>>) :
            Compatible(Item(u)[n], text)

Unchanged(d) ==
    known[d] # 0 /\ \A u \in Parts(d) :
                        SourceText[known[d]][u] = SourceText[w.run][u]

\* reusable_candidate of the selected candidate: made for this source text,
\* and by this run or for a document that is as it was.
Reusable(u) ==
    LET c == selected[u] IN
    /\ c # NoCandidate
    /\ SourceText[c.run][u] = SourceText[w.run][u]
    /\ c.run = w.run \/ Unchanged(DocOf[u])

\* Mutated form: what is selected goes before what people adopted.
FirstCandidateSelected(u) ==
    LET human == trusted[u][SourceText[w.run][u]] IN
    IF Reusable(u) THEN Candidate(u).output ELSE human

\* The first candidate that can be reused, trusted memory before others.
FirstCandidate(u) ==
    LET human == trusted[u][SourceText[w.run][u]] IN
    IF human # NoText THEN human
    ELSE IF Reusable(u) THEN Candidate(u).output
    ELSE NoText

\* inspect_document, for one unit.
Planned(u) ==
    LET text == FirstCandidate(u) IN
    IF text # NoText /\ ReviewsCompatible(u, text) THEN text ELSE NoText

\* Units of d before u that need a task.
Earlier(d, u) == {v \in Parts(d) : v < u /\ Planned(v) = NoText}

\* Mutated form: reused units use up max_tasks as well.
TaskedWithReused(d) ==
    {u \in Parts(d) :
        Planned(u) = NoText
          /\ w.tasks + Cardinality({v \in Unit : v < u /\ DocOf[v] = d}) < MaxTasks}

\* Units of d that max_tasks still lets the sync translate.
Tasked(d) ==
    {u \in Parts(d) :
        Planned(u) = NoText /\ w.tasks + Cardinality(Earlier(d, u)) < MaxTasks}

\* Reused units are queued for the reviews, if there are any.
Queued(d) ==
    Tasked(d) \cup {u \in Parts(d) : Planned(u) # NoText /\ quality # {}}

-----------------------------------------------------------------------------
(* The order of the stages.                                                *)

Begin(v, stage, round) ==
    [v EXCEPT !.pc = "collecting", !.stage = stage, !.round = round,
              !.next = 1, !.skipped = FALSE]

ToProofread(v) == IF "proofread" \in quality THEN Begin(v, "proofread", 0)
                  ELSE [v EXCEPT !.pc = "verifying"]

ToRevision(v) == IF "revision" \in quality THEN Begin(v, "revision", 0)
                 ELSE ToProofread(v)

ToRepair(v, round) == IF round <= RepairBudget THEN Begin(v, "repair", round)
                      ELSE ToRevision(v)

Missing(v) == {u \in v.queued : v.text[u] = NoText}

\* A round of repair with nothing to ask ends the repair, unless it passed
\* over units whose attempt of this round had failed before.
NextStage(v) ==
    CASE v.stage = "plan"      -> IF v.tasks > 0 THEN Begin(v, "translate", 0)
                                  ELSE ToRevision(v)
      [] v.stage = "translate" -> IF Missing(v) # {} THEN Begin(v, "fix", 0)
                                  ELSE ToRevision(v)
      [] v.stage = "fix"       -> ToRepair(v, 1)
      [] v.stage = "repair"    -> IF v.pc = "answering" \/ v.skipped
                                  THEN ToRepair(v, v.round + 1)
                                  ELSE ToRevision(v)
      [] v.stage = "revision"  -> ToProofread(v)
      [] v.stage = "proofread" -> [v EXCEPT !.pc = "verifying"]

\* Go on to the next unit; ask the agents when all units have been seen.
Onward(v) ==
    LET n == [v EXCEPT !.next = @ + 1] IN
    IF n.next <= Units THEN n
    ELSE IF n.asked # {} THEN [n EXCEPT !.pc = "answering"]
    ELSE NextStage(n)

Reviewing == w.stage \in {"revision", "proofread"}
key == <<w.stage, w.round>>
unit == w.next

-----------------------------------------------------------------------------
(* Planning and preparation.                                               *)

\* begin_run finds the run of the same revision again.
StartSync ==
    /\ w.pc = "idle"
    /\ w' = [Idle EXCEPT !.pc = "planning", !.run = source, !.next = 1]
    /\ UNCHANGED <<source, quality, known, attempts, selected, trusted, file,
                   verified, budget>>

Prepared(v, d) ==
    LET n == [v EXCEPT
                !.next   = @ + 1,
                !.tasks  = @ + Cardinality(Tasked(d)),
                !.queued = @ \cup Queued(d),
                !.text   = [u \in Unit |-> IF DocOf[u] = d THEN Planned(u)
                                                           ELSE @[u]]]
    IN  IF d < Documents THEN n
        ELSE IF n.blocked THEN Idle
        ELSE NextStage(n)

PrepareDocument ==
    /\ w.pc = "planning"
    /\ w' = Prepared(w, w.next)
    /\ known' = [known EXCEPT ![w.next] = w.run]
    /\ UNCHANGED <<source, quality, attempts, selected, trusted, file,
                   verified, budget>>

\* The document cannot be parsed or matched, and is not prepared, or its
\* target was edited: after planning the sync ends.
PlanConflict ==
    /\ w.pc = "planning"
    /\ Spend("faults")
    /\ w' = Prepared([w EXCEPT !.blocked = TRUE], w.next)
    /\ known' \in {known, [known EXCEPT ![w.next] = w.run]}
    /\ UNCHANGED <<source, quality, attempts, selected, trusted, file,
                   verified>>

Prepare == PrepareDocument \/ PlanConflict

-----------------------------------------------------------------------------
(* What is stored is recovered, and what is missing is asked for.          *)

Last(S) == CHOOSE n \in S : \A m \in S : n >= m

\* failed_attempt_context: the output of the last attempt that failed.
Rejected(u) ==
    LET item   == Item(u)
        failed == {n \in DOMAIN item : item[n].status # "succeeded"}
    IN  IF failed = {} THEN NoText ELSE item[Last(failed)].output

Repaired(u) == IF Rejected(u) \in Answer THEN Separated[Rejected(u)] ELSE NoText

Due(u) ==
    /\ u \in w.queued
    /\ Reviewing <=> w.text[u] # NoText
    /\ w.stage = "fix" => Repaired(u) # NoText

Pass ==
    /\ w.pc = "collecting"
    /\ ~Due(unit)
    /\ w' = Onward(w)
    /\ UNCHANGED <<source, quality, known, attempts, selected, trusted, file,
                   verified, budget>>

Select(u, n) == selected' = [selected EXCEPT ![u] = [run |-> w.run, n |-> n]]

\* recovered_attempt: a stored answer, and if it is a review one of this text.
Recovered(u, k) ==
    {n \in Succeeded(u, k) :
        Reviewing => Compatible(Item(u)[n], w.text[u])}

\* The text of the answer is selected once more.
RecoverText ==
    /\ w.pc = "collecting" /\ Due(unit)
    /\ w.stage # "proofread"
    /\ \E n \in Recovered(unit, key) :
        LET text == Item(unit)[n].output IN
        /\ text # OK
        /\ Select(unit, n)
        /\ w' = Onward([w EXCEPT !.text[unit] = text])
    /\ UNCHANGED <<source, quality, known, attempts, trusted, file, verified,
                   budget>>

\* An approval, or advice.
RecoverVerdict ==
    /\ w.pc = "collecting" /\ Due(unit)
    /\ \E n \in Recovered(unit, key) :
        w.stage = "proofread" \/ Item(unit)[n].output = OK
    /\ w' = Onward(w)
    /\ UNCHANGED <<source, quality, known, attempts, selected, trusted, file,
                   verified, budget>>

\* Mutated form: an attempt that failed may be made again.
FailedBefore(u, k) == FALSE

Failed(u, k) == Holding(u, k) # {} /\ Succeeded(u, k) = {}

\* A failed attempt stands: no agent is asked again in this run.
SkipFailed ==
    /\ w.pc = "collecting" /\ Due(unit)
    /\ Failed(unit, key)
    /\ w' = Onward([w EXCEPT !.skipped = TRUE,
                             !.blocked = @ \/ w.stage = "revision"])
    /\ UNCHANGED <<source, quality, known, attempts, selected, trusted, file,
                   verified, budget>>

\* retire_attempt: the answer gives up its key and its candidate.
Retire(u, n) ==
    /\ attempts' = [attempts EXCEPT ![<<w.run, u>>][n].status = "cancelled"]
    /\ selected' = IF selected[u] = [run |-> w.run, n |-> n]
                   THEN [selected EXCEPT ![u] = NoCandidate] ELSE selected

\* A review of another text is retired, and this text is reviewed.
AskAnew ==
    /\ w.pc = "collecting" /\ Due(unit)
    /\ Recovered(unit, key) = {}
    /\ \E n \in Succeeded(unit, key) : Retire(unit, n)
    /\ w' = Onward([w EXCEPT !.asked = @ \cup {unit}])
    /\ UNCHANGED <<source, quality, known, trusted, file, verified, budget>>

Ask ==
    /\ w.pc = "collecting" /\ Due(unit)
    /\ w.stage # "fix"
    /\ Succeeded(unit, key) = {} /\ ~Failed(unit, key)
    /\ w' = Onward([w EXCEPT !.asked = @ \cup {unit}])
    /\ UNCHANGED <<source, quality, known, attempts, selected, trusted, file,
                   verified, budget>>

Store(u, status, output) ==
    attempts' = [attempts EXCEPT ![<<w.run, u>>] =
        Append(@, [key |-> key, status |-> status, output |-> output,
                   about |-> IF Reviewing THEN w.text[u] ELSE NoText])]

\* Mutated form: the candidate of the revision is not selected.
StoreOnly(u, text) ==
    /\ Store(u, "succeeded", text)
    /\ IF w.stage = "revision" THEN UNCHANGED selected
       ELSE Select(u, Len(Item(u)) + 1)

\* Mutated form: the candidate names the attempt before its own.
StoreCandidateBefore(u, text) ==
    /\ Store(u, "succeeded", text)
    /\ Select(u, Len(Item(u)))

\* record_attempt_candidate: the answer and its selection, in one transaction.
StoreCandidate(u, text) ==
    /\ Store(u, "succeeded", text)
    /\ Select(u, Len(Item(u)) + 1)

\* The deterministic repair of a rejected answer.
Fix ==
    /\ w.pc = "collecting" /\ Due(unit)
    /\ w.stage = "fix"
    /\ Holding(unit, key) = {}
    /\ StoreCandidate(unit, Repaired(unit))
    /\ w' = Onward([w EXCEPT !.text[unit] = Repaired(unit)])
    /\ UNCHANGED <<source, quality, known, trusted, file, verified, budget>>

Collect == Pass \/ RecoverText \/ RecoverVerdict \/ SkipFailed \/ AskAnew
             \/ Ask \/ Fix

-----------------------------------------------------------------------------
(* The answers of a batch, stored unit by unit.                            *)

first == CHOOSE u \in w.asked : \A v \in w.asked : u <= v

\* The answer of the first unit has been dealt with.
Answered(v) ==
    LET n == [v EXCEPT !.asked = @ \ {first}] IN
    IF n.asked = {} THEN NextStage(n) ELSE n

\* Mutated form: the proofreader's text is taken as well.
TakeAnyText ==
    /\ w.pc = "answering"
    /\ \E text \in Valid[first] :
        /\ StoreCandidate(first, text)
        /\ w' = Answered([w EXCEPT !.text[first] = text])
    /\ UNCHANGED <<source, quality, known, trusted, file, verified, budget>>

TakeText ==
    /\ w.pc = "answering"
    /\ w.stage # "proofread"
    /\ \E text \in Valid[first] :
        /\ StoreCandidate(first, text)
        /\ w' = Answered([w EXCEPT !.text[first] = text])
    /\ UNCHANGED <<source, quality, known, trusted, file, verified, budget>>

\* The revision stage approves; the proofreader approves or gives advice,
\* which is for people and stands here as an approval.
TakeVerdict ==
    /\ w.pc = "answering"
    /\ Reviewing
    /\ Store(first, "succeeded", OK)
    /\ w' = Answered(w)
    /\ UNCHANGED <<source, quality, known, selected, trusted, file, verified,
                   budget>>

\* The answer is not valid, or there is none in time.
TakeFailure ==
    /\ w.pc = "answering"
    /\ Spend("faults")
    /\ \E output \in {NoText} \cup
                     (IF w.stage = "proofread" THEN {} ELSE Invalid) :
        Store(first, "failed", output)
    /\ w' = Answered([w EXCEPT !.blocked = @ \/ w.stage = "revision"])
    /\ UNCHANGED <<source, quality, known, selected, trusted, file, verified>>

Take == TakeText \/ TakeVerdict \/ TakeFailure

\* The services, each of which collects what it is to ask and takes answers.
Translation == w.stage = "translate" /\ (Collect \/ Take)
Repair == w.stage \in {"fix", "repair"} /\ (Collect \/ Take)
Review == Reviewing /\ (Collect \/ Take)

-----------------------------------------------------------------------------
(* Verification, and what it lets through.                                 *)

\* The documents that are assembled: those with a text for every unit.
Assembled == {d \in Document : \A u \in Parts(d) : w.text[u] # NoText}

\* The batch is materialized as it was verified (module Materialize).
Verify ==
    /\ w.pc = "verifying"
    /\ ~w.blocked /\ Missing(w) = {}
    /\ file' = [u \in Unit |-> IF DocOf[u] \in Assembled THEN w.text[u]
                                                         ELSE file[u]]
    /\ verified' = [verified EXCEPT ![w.run] =
                        [u \in Unit |-> IF DocOf[u] \in Assembled
                                        THEN w.text[u] ELSE @[u]]]
    /\ w' = Idle
    /\ UNCHANGED <<source, quality, known, attempts, selected, trusted, budget>>

\* The revision did not pass, or a scheduled unit has no text.
Blocked ==
    /\ w.pc = "verifying"
    /\ w.blocked \/ Missing(w) # {}
    /\ w' = Idle
    /\ UNCHANGED <<source, quality, known, attempts, selected, trusted, file,
                   verified, budget>>

Sync == StartSync \/ Prepare \/ Translation \/ Repair \/ Review
          \/ Verify \/ Blocked

-----------------------------------------------------------------------------
(* Failures and people.                                                    *)

\* The process dies, an execution or check fails.
Die ==
    /\ w.pc # "idle"
    /\ Spend("faults")
    /\ w' = Idle
    /\ UNCHANGED <<source, quality, known, attempts, selected, trusted, file,
                   verified>>

\* The source may also go back to an earlier revision.  A sync looks at it
\* when it starts, and a move during a sync is the same as one after it.
MoveOn ==
    /\ w.pc = "idle"
    /\ Spend("moves")
    /\ source' \in Run \ {source}
    /\ verified' = NothingVerified
    /\ UNCHANGED <<quality, known, attempts, selected, trusted, file, w>>

Drafted == {d \in Document : \A u \in Parts(d) : file[u] # NoText}

\* Somebody edits the target of a unit and adopts: the texts of all targets
\* become the trusted memory of their sources.
Adopt ==
    /\ w.pc = "idle"
    /\ Spend("edits")
    /\ \E u \in {v \in Unit : DocOf[v] \in Drafted} :
        \E text \in Valid[u] : file' = [file EXCEPT ![u] = text]
    /\ trusted' = [u \in Unit |->
                    IF DocOf[u] \in Drafted
                    THEN [trusted[u] EXCEPT ![SourceText[source][u]] = file'[u]]
                    ELSE trusted[u]]
    /\ known' = [d \in Document |-> IF d \in Drafted THEN source ELSE known[d]]
    /\ verified' = NothingVerified
    /\ UNCHANGED <<source, quality, attempts, selected, w>>

People == MoveOn \/ Adopt

Next == Sync \/ Die \/ People

Spec == Init /\ [][Next]_vars

\* Someone keeps running sync, and commands go on.
Fairness == WF_vars(Sync)

FairSpec == Spec /\ Fairness

-----------------------------------------------------------------------------
(* Properties.                                                             *)

TypeOK ==
    /\ source \in Run
    /\ quality \in Quality
    /\ known \in [Document -> Run \cup {0}]
    /\ attempts \in [Run \X Unit -> Seq(Attempt)]
    /\ \A u \in Unit :
        LET c == selected[u] IN
        c # NoCandidate => c.n \in DOMAIN attempts[<<c.run, u>>]
    /\ trusted \in [Unit -> [Source -> Text \cup {NoText}]]
    /\ file \in [Unit -> Text \cup {NoText}]
    /\ w.queued \subseteq Unit /\ w.asked \subseteq w.queued
    /\ w.text \in [Unit -> Text \cup {NoText}]
    /\ verified \in [Run -> [Unit -> Text \cup {NoText}]]

\* Receipts of the revision stage that approve text or led to it.
Approvals(u, text) ==
    {n \in Succeeded(u, <<"revision", 0>>) :
        LET a == Item(u)[n] IN
        \/ a.about = text /\ a.output = OK
        \/ a.output = text}

\* However the text came about, whatever was recovered, retired or reused:
\* with the revision stage configured, every text that is let through was
\* approved by it or is its own, in this very run.
VerifiedIsReviewed ==
    [][\A u \in Unit :
        LET text == verified'[w.run][u] IN
        w.pc = "verifying" /\ text \notin {NoText, verified[w.run][u]}
          /\ "revision" \in quality
        => Approvals(u, text) # {}]_vars

\* An agent is not asked again what this run has stored an answer to, good or
\* bad, not after a death and not after a return to the source.  Only a review
\* that was retired for another text can come back, if its text does.
AskedOnce ==
    [][\A u \in w'.asked \ w.asked : \A n \in DOMAIN Item(u) :
        LET a == Item(u)[n] IN
        a.key = key /\ a.about = (IF Reviewing THEN w.text[u] ELSE NoText)
            => Reviewing /\ a.status = "cancelled"]_vars

\* As long as the source stays, one more sync verifies the same text, unless
\* people adopt one: whatever died in between, and however the text came
\* about.  Of a source that leaves and comes back this says nothing: what was
\* selected for another one meanwhile may be reused (see README).
VerifiedTextStands ==
    [][\A r \in Run, u \in Unit :
        verified[r][u] # NoText /\ trusted[u][SourceText[r][u]] = NoText =>
            verified'[r][u] \in {NoText, verified[r][u]}]_vars

\* Between syncs the durable selection agrees with what was verified last, so
\* that memory and later runs get the text that was let through.
SelectionIsVerified ==
    \A u \in Unit :
        w.pc = "idle" /\ verified[source][u] # NoText
          /\ trusted[u][SourceText[source][u]] = NoText =>
            /\ selected[u] # NoCandidate
            /\ Candidate(u).status = "succeeded"
            /\ Candidate(u).output = verified[source][u]

\* A review that was of another text, or made another one of it.
Contests(a, text) ==
    /\ a.key[1] \in quality /\ a.status # "failed"
    /\ a.output # text
    /\ ~(a.about = text /\ a.output = OK)

\* What people adopted for a source gives way to another text only where a
\* review of this very run contests it (see AdoptedIsReused).
AdoptedYieldsToReview ==
    \A u \in Unit :
        LET human == trusted[u][SourceText[source][u]]
            item  == attempts[<<source, u>>]
        IN  human # NoText /\ verified[source][u] \notin {NoText, human} =>
                \E n \in DOMAIN item : Contests(item[n], human)

\* A unit whose attempts of this run have failed for good.
Stuck(u) ==
    LET item == attempts[<<source, u>>] IN
    \/ \E n \in DOMAIN item : item[n].key[1] = "revision"
                              /\ item[n].status = "failed"
    \/ /\ \A n \in DOMAIN item : item[n].status # "succeeded"
       /\ \A k \in {<<"translate", 0>>} \cup ({"repair"} \X (1..RepairBudget)) :
            \E n \in DOMAIN item : item[n].key = k

\* Bounded batches come to an end: every unit is verified for the source,
\* unless one of them has failed for good.
EventuallyVerified ==
    \/ []<>(\A u \in Unit : verified[source][u] # NoText)
    \/ <>[](\E u \in Unit : Stuck(u))

-----------------------------------------------------------------------------
(* What the documentation says and the code does not keep.                 *)

\* What people adopted is what a sync lets through for that source.
AdoptedIsReused ==
    \A u \in Unit :
        LET human == trusted[u][SourceText[source][u]] IN
        human # NoText => verified[source][u] \in {NoText, human}
=============================================================================
