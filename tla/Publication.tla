---------------------------- MODULE Publication ----------------------------
(***************************************************************************)
(* Publication of one locale: from verified documents to a commit on the   *)
(* candidate branch, its pull request, and the trust its merge confers.    *)
(*                                                                         *)
(* Every sync first looks at the last pull request, then recovers what is  *)
(* left in publication_outbox, and only then plans, translates and         *)
(* publishes a batch of its own.  Each of those is a sequence of database  *)
(* transactions, Git commands and calls of the code host; the process may  *)
(* die between any two, calls may fail or lose their answer, and people    *)
(* move the source, the branch, its pull requests and the trusted memory   *)
(* between any two.  Syncs do not overlap (module RepoLock).               *)
(*                                                                         *)
(* A text stands for a source document's mapping hash together with the    *)
(* policy fingerprint, a revision for the texts of the documents and the   *)
(* targets its tree holds; runs are told apart by their revision.  Pushing *)
(* and pull requests are enabled.                                          *)
(*                                                                         *)
(* Sources: application/sync.rs, application/sync/publication.rs,          *)
(* application/sync/publication/*.rs, adapters/gitout.rs, github.rs,       *)
(* adapters/db.rs and adapters/db/{publication,workflows,effects}.rs,      *)
(* under src/src.                                                          *)
(***************************************************************************)
EXTENDS Naturals, Sequences, FiniteSets

CONSTANTS
    Doc,        \* documents
    Text,       \* texts of a source document
    SourceText, \* what the texts of all documents may be together
    First,      \* the texts to begin with
    Content,    \* texts of a target
    NoText,     \* no target, no memory, not in the batch
    Draft,      \* what the pipeline makes of each document and text
    Foreign,    \* a commit somebody else put on the branch
    NoCommit,   \* the branch does not exist
    Bounds      \* bounds: moves, changes of the source; choices, what people
                \* do to branch, pull requests and memory; faults, deaths,
                \* failed calls, lost answers, failed checks

ASSUME PublicationAssumption ==
    /\ Draft \in [Doc -> [Text -> Content]]
    /\ SourceText \subseteq [Doc -> Text]
    /\ First \in SourceText
    /\ NoText \notin Content
    /\ Bounds \subseteq [{"moves", "choices", "faults"} -> Nat]

\* The documents of a project are counted.
ASSUME DocAssumption == IsFiniteSet(Doc)

File     == Content \cup {NoText}
Tree     == [Doc -> File]
NoFiles  == [d \in Doc |-> NoText]
Revision == [text : SourceText, tree : Tree]

\* The payload of an outbox row: verified files of one revision.
Batch == [base : Revision, files : Tree]

\* A commit on top of its revision, whose message counts the files of the
\* batch; the revision itself, which counts nothing, when its tree is the same.
Commit == [base : Revision, tree : Tree, size : Nat]
Tip    == Commit \cup {Foreign, NoCommit}

ASSUME CommitAssumption == Foreign \notin Commit /\ NoCommit \notin Commit

Documents(b) == {d \in Doc : b.files[d] # NoText}

TreeOf(b) == [d \in Doc |-> IF d \in Documents(b) THEN b.files[d]
                                                  ELSE b.base.tree[d]]

\* Mutated form: the message does not tell how many files there are.
CommitOfTree(b) == [base |-> b.base, tree |-> TreeOf(b), size |-> 0]

CommitOf(b) ==
    [base |-> b.base,
     tree |-> TreeOf(b),
     size |-> IF TreeOf(b) = b.base.tree THEN 0 ELSE Cardinality(Documents(b))]

ChangesNothing(c) == c.tree = c.base.tree

\* Rows of canonical_content_versions.
Version == [doc : Doc, base : Revision, content : Content]

VersionsOf(b) ==
    {[doc |-> d, base |-> b.base, content |-> b.files[d]] : d \in Documents(b)}

VARIABLES
    source,    \* the revision at publish.source_ref
    outbox,    \* publication_outbox by id, each row with its manifest
    line,      \* ids in the order of available_at
    shown,     \* publication_state of the content versions in manifests
    memory,    \* trusted translation memory, by document and text
    complete,  \* documents and texts with a complete verified translation
    local,     \* the candidate branch in the local repository
    remote,    \* the candidate branch at the code host
    pulls,     \* pull requests of the branch, by number
    stored,    \* the newest row of pull_requests
    w,         \* the running sync
    adopted,   \* history: texts people adopted, by document and text
    delivered, \* history: commits that have been the remote tip
    budget     \* what is left of the bounds

database == <<outbox, line, shown, memory, stored>>
vars == <<source, outbox, line, shown, memory, complete, local, remote,
          pulls, stored, w, adopted, delivered, budget>>

-----------------------------------------------------------------------------
(* Data.                                                                   *)

\* States of a publication manifest; a row without one has "none".
Manifest == {"none", "commit_created", "push_pending", "pr_open", "merged",
             "superseded"}

Row == [batch    : Batch,
        state    : {"pending", "processing", "done"},
        owner    : {"nobody", "worker", "visible", "gone"},
        delayed  : BOOLEAN,   \* available_at lies ahead
        tries    : 0..2,      \* attempt_count, 2 for more
        prepared : BOOLEAN,   \* the payload names its commit
        tip      : Tip,       \* expected_remote_tip in the payload
        rejected : BOOLEAN,   \* superseded_reason in the payload
        manifest : Manifest]

Fresh(b) ==
    [batch |-> b, state |-> "pending", owner |-> "nobody", delayed |-> FALSE,
     tries |-> 0, prepared |-> FALSE, tip |-> NoCommit,
     rejected |-> FALSE, manifest |-> "none"]

Pull   == [state : {"open", "merged", "closed"}, head : Tip]
NoPull == [number |-> 0, head |-> NoCommit]

NoRun  == [text |-> NoText]

Idle == [pc |-> "idle", stage |-> "none", run |-> NoRun,
         files |-> NoFiles, own |-> FALSE, id |-> 0, pull |-> 0,
         published |-> FALSE]

Init ==
    /\ source = [text |-> First, tree |-> NoFiles]
    /\ outbox = <<>>
    /\ line = <<>>
    /\ shown = [v \in {} |-> "none"]
    /\ memory = [d \in Doc |-> [t \in Text |-> NoText]]
    /\ complete = {}
    /\ local = NoCommit
    /\ remote = NoCommit
    /\ pulls = <<>>
    /\ stored = NoPull
    /\ w = Idle
    /\ adopted = [d \in Doc |-> [t \in Text |-> NoText]]
    /\ delivered = {}
    /\ budget \in Bounds

Spend(what) == budget[what] > 0 /\ budget' = [budget EXCEPT ![what] = @ - 1]

Goto(pc) == w' = [w EXCEPT !.pc = pc]

Ids == DOMAIN outbox

-----------------------------------------------------------------------------
(* Manifests.                                                              *)

Live(i) == outbox[i].manifest \notin {"none", "superseded"}

\* Manifests that bind commit c.
Binding(c) == {i \in Ids : outbox[i].manifest # "none"
                           /\ CommitOf(outbox[i].batch) = c}

\* The manifest that promotion and a transition by commit alone pick: not a
\* superseded one, a merged one first, else the newest.
ManifestOf(c) ==
    CHOOSE i \in {j \in Binding(c) : Live(j)} :
        \A j \in {k \in Binding(c) : Live(k)} :
            \/ outbox[i].manifest = "merged" /\ outbox[j].manifest # "merged"
            \/ /\ outbox[i].manifest = "merged" <=> outbox[j].manifest = "merged"
               /\ i >= j

Rank(m) == CASE m = "commit_created" -> 1
             [] m = "push_pending"   -> 2
             [] m = "pr_open"        -> 3
             [] m \in {"merged", "superseded"} -> 4
             [] OTHER                -> 0

\* transition_publication_authorization: states only ever advance.
Advance(m, state) == IF m = "none" \/ Rank(m) >= Rank(state) THEN m ELSE state

\* The order by which shared content keeps the strongest authorization.
Strength(m) == CASE m = "merged"         -> 5
                 [] m = "pr_open"        -> 4
                 [] m = "push_pending"   -> 3
                 [] m = "commit_created" -> 2
                 [] m = "superseded"     -> 1
                 [] OTHER                -> 0

Strongest(v, rows) ==
    LET about == {rows[i].manifest :
                    i \in {j \in DOMAIN rows : rows[j].manifest # "none"
                                               /\ v \in VersionsOf(rows[j].batch)}}
    IN  CHOOSE m \in about : \A n \in about : Strength(m) >= Strength(n)

\* Mutated form: content follows the manifest that changed last.
RefreshFromLast(i, rows) ==
    [v \in DOMAIN shown \cup VersionsOf(rows[i].batch) |->
        IF v \in VersionsOf(rows[i].batch)
           /\ (v \in DOMAIN shown => shown[v] # "merged")
        THEN rows[i].manifest
        ELSE shown[v]]

\* refresh_publication_states, after manifest i changed.
Refresh(i, rows) ==
    [v \in DOMAIN shown \cup VersionsOf(rows[i].batch) |->
        IF v \in VersionsOf(rows[i].batch)
           /\ (v \in DOMAIN shown => shown[v] # "merged")
        THEN Strongest(v, rows)
        ELSE shown[v]]

\* Write row i, and refresh the content of its manifest when that changed.
Put(i, row) ==
    LET rows == [outbox EXCEPT ![i] = row] IN
    /\ outbox' = rows
    /\ shown' = IF row.manifest = "none" THEN shown ELSE Refresh(i, rows)

\* promote_publication with the rows as the transaction has them: the content
\* of the merged manifest becomes the trusted memory, older entries history.
Promoted(b) ==
    [d \in Doc |-> IF b.files[d] # NoText
                   THEN [memory[d] EXCEPT ![b.base.text[d]] = b.files[d]]
                   ELSE memory[d]]

-----------------------------------------------------------------------------
(* Moves of the running sync.                                              *)

row == outbox[w.id]
commit == CommitOf(row.batch)

\* The process ends, or goes on with other locales: its row keeps its name.
Left(rows) ==
    [i \in DOMAIN rows |-> IF rows[i].owner = "worker"
                           THEN [rows[i] EXCEPT !.owner = "visible"]
                           ELSE rows[i]]

Quit == w' = Idle /\ outbox' = Left(outbox) /\ UNCHANGED shown

\* publish_next returned false: a recovery that published nothing lets the
\* sync go on, any other ends it.
EndStage ==
    w' = IF w.stage = "recovery" /\ ~w.published
         THEN [w EXCEPT !.pc = "working", !.id = 0]
         ELSE Idle

\* retry_outbox five seconds later; the sync ends with the error.
Retry ==
    /\ outbox' = [outbox EXCEPT ![w.id].state = "pending", ![w.id].owner = "nobody",
                                ![w.id].delayed = TRUE]
    /\ w' = Idle
    /\ UNCHANGED shown

world == <<source, local, remote, pulls, complete, adopted, delivered>>

StartSync ==
    /\ w.pc = "idle"
    /\ w' = [Idle EXCEPT !.pc = "observing", !.run = source]
    /\ UNCHANGED <<source, database, complete, local, remote, pulls, adopted,
                   delivered, outbox, budget>>

-----------------------------------------------------------------------------
(* reconcile_pull_request: what became of the last pull request.           *)

ToRecovery == w' = [w EXCEPT !.pc = "claiming", !.stage = "recovery"]

StoredPull == pulls[stored.number]
\* Mutated form: a pull request that is not open any more was merged.
Ended == stored # NoPull /\ StoredPull.state # "open"

Merged == stored # NoPull /\ StoredPull.state = "merged"

\* assess_merged_publication, which resolves the source anew.
Snapshot(c) == \E i \in Binding(c) : Live(i)
Fits(b, run) ==
    \A d \in Doc : b.files[d] # NoText => b.base.text[d] = run.text[d]

ObserveNothingNew ==
    /\ w.pc = "observing"
    /\ \/ ~Merged
       \/ Merged /\ StoredPull.head = stored.head /\ ~Snapshot(stored.head)
    /\ ToRecovery
    /\ UNCHANGED <<database, world, budget>>

ObserveOtherHead ==
    /\ w.pc = "observing"
    /\ Merged /\ StoredPull.head # stored.head
    /\ Quit
    /\ UNCHANGED <<line, memory, stored, world, budget>>

\* The merged commit still fits: its content becomes trusted.
ObserveMerge ==
    /\ w.pc = "observing"
    /\ Merged /\ StoredPull.head = stored.head /\ Snapshot(stored.head)
    /\ LET i == ManifestOf(stored.head) IN
       /\ Fits(outbox[i].batch, source)
       /\ Put(i, [outbox[i] EXCEPT !.manifest = "merged"])
       /\ memory' = Promoted(outbox[i].batch)
    /\ ToRecovery
    /\ UNCHANGED <<line, stored, world, budget>>

\* The source moved on, or the documentation checks fail.
ObserveUnfitMerge ==
    /\ w.pc = "observing"
    /\ Merged /\ StoredPull.head = stored.head /\ Snapshot(stored.head)
    /\ LET i == ManifestOf(stored.head) IN
       /\ IF Fits(outbox[i].batch, source) THEN Spend("faults")
                                           ELSE UNCHANGED budget
       /\ Put(i, [outbox[i] EXCEPT !.manifest = Advance(@, "superseded")])
    /\ ToRecovery
    /\ UNCHANGED <<line, memory, stored, world>>

Observe == ObserveNothingNew \/ ObserveOtherHead \/ ObserveMerge
             \/ ObserveUnfitMerge

-----------------------------------------------------------------------------
(* The queue.                                                              *)

\* Planning to materialization: the verified documents of the revision, with
\* trusted memory before what the pipeline makes.  A document whose pipeline
\* has not succeeded yet is left out; what was complete stays so, and is in
\* the batch whether or not it differs from the tree of the revision.
Desired(d, t) == IF memory[d][t] # NoText THEN memory[d][t] ELSE Draft[d][t]

Ready(run) == {d \in Doc : \/ <<d, run.text[d]>> \in complete
                           \/ memory[d][run.text[d]] # NoText}

Work ==
    /\ w.pc = "working"
    /\ \E D \in SUBSET Doc :
        /\ D # {} /\ Ready(w.run) \subseteq D
        /\ IF D = Doc THEN UNCHANGED budget ELSE Spend("faults")
        /\ complete' = complete \cup {<<d, w.run.text[d]>> : d \in D}
        /\ w' = [w EXCEPT !.pc = "scheduling", !.stage = "publish",
                     !.files = [d \in Doc |-> IF d \in D
                                              THEN Desired(d, w.run.text[d])
                                              ELSE NoText]]
    /\ UNCHANGED <<source, database, local, remote, pulls, adopted,
                   delivered>>

\* Mutated form: only a merge makes a done row stand.
AuthorizedOnceMerged(r) == r.manifest = "merged"

\* effect_key: whether a done row still stands for its publication.
Authorized(r) == ~r.rejected /\ (r.prepared => r.manifest # "superseded")

OfBatch(b) == {i \in Ids : outbox[i].batch = b}
Newest(I) == CHOOSE i \in I : \A j \in I : i >= j

\* Mutated form: the id is read before the row is inserted.
ScheduleEarlierId ==
    /\ w.pc = "scheduling"
    /\ LET b == [base |-> w.run, files |-> w.files] IN
       /\ outbox' = Append(outbox, Fresh(b))
       /\ line' = Append(line, Len(outbox))
    /\ w' = [w EXCEPT !.pc = "claiming", !.own = TRUE, !.files = NoFiles]
    /\ UNCHANGED <<shown, memory, stored, world, budget>>

Schedule ==
    /\ w.pc = "scheduling"
    /\ LET b == [base |-> w.run, files |-> w.files]
           last == outbox[Newest(OfBatch(b))]
           stands == OfBatch(b) # {} /\ (last.state = "done" => Authorized(last))
       IN  IF stands
           THEN UNCHANGED <<outbox, line>>
           ELSE /\ outbox' = Append(outbox, Fresh(b))
                /\ line' = Append(line, Len(outbox) + 1)
    /\ w' = [w EXCEPT !.pc = "claiming", !.own = TRUE, !.files = NoFiles]
    /\ UNCHANGED <<shown, memory, stored, world, budget>>

\* Mutated form: a row that was claimed twice is left alone.
TakenBackOnce(r) == r.state = "processing" /\ r.owner = "gone" /\ r.tries < 2

\* claim_publication_locale: rows of dead owners and of expired leases are
\* taken back, then the first available row is claimed.
TakenBack(r) == r.state = "processing" /\ r.owner = "gone"

TakeBack(rows) ==
    [i \in DOMAIN rows |-> IF TakenBack(rows[i])
                           THEN [rows[i] EXCEPT !.state = "pending",
                                                   !.owner = "nobody"]
                           ELSE rows[i]]

Available(r) == r.state = "pending" /\ ~r.delayed

Claim ==
    /\ w.pc = "claiming"
    /\ LET rows  == TakeBack(outbox)
           ready == {n \in DOMAIN line : Available(rows[line[n]])}
       IN  IF ready = {}
           THEN outbox' = rows /\ EndStage
           ELSE LET n == CHOOSE m \in ready : \A k \in ready : m <= k
                    i == line[n]
                IN  /\ outbox' = [rows EXCEPT
                            ![i].state = "processing", ![i].owner = "worker",
                            ![i].tries = IF @ = 2 THEN 2 ELSE @ + 1]
                    /\ w' = [w EXCEPT !.pc = "checking", !.id = i]
    /\ UNCHANGED <<line, shown, memory, stored, world, budget>>

\* Recovered, retried and other runs' candidates run the project's checks.
Rechecked == ~w.own \/ row.tries > 1 \/ row.batch.base # w.run

\* Mutated form: a candidate that was prepared before is taken as it is.
AcceptPrepared ==
    /\ w.pc = "checking"
    /\ row.prepared \/ Fits(row.batch, w.run)
    /\ Goto(IF row.prepared THEN "persisting" ELSE "preparing")
    /\ UNCHANGED <<database, world, outbox, budget>>

Accept ==
    /\ w.pc = "checking"
    /\ Fits(row.batch, w.run)
    /\ Goto(IF row.prepared THEN "persisting" ELSE "preparing")
    /\ UNCHANGED <<database, world, outbox, budget>>

\* The documents changed, or the checks fail: settled as superseded.
Reject ==
    /\ w.pc = "checking"
    /\ IF Fits(row.batch, w.run) THEN Rechecked /\ Spend("faults")
                                 ELSE UNCHANGED budget
    /\ Put(w.id, [row EXCEPT !.state = "done", !.owner = "nobody",
                             !.rejected = TRUE,
                             !.manifest = IF row.prepared
                                          THEN Advance(@, "superseded") ELSE @])
    /\ EndStage
    /\ UNCHANGED <<line, memory, stored, world>>

Check == Accept \/ Reject

-----------------------------------------------------------------------------
(* Git: the commit, its durable intent, the push.                          *)

\* create_candidate: the local branch is set to the commit.
PrepareCommit ==
    /\ w.pc = "preparing"
    /\ local' = commit
    /\ Goto("persisting")
    /\ UNCHANGED <<source, database, complete, remote, pulls, adopted,
                   delivered, budget>>

\* The commit is bound to other files by an earlier authorization.
Conflict == \E j \in Binding(commit) : outbox[j].batch.files # row.batch.files

\* Mutated form: recovery records the tip of now.
RecordedAnew == [row EXCEPT
    !.prepared = TRUE,
    !.tip      = remote,
    !.manifest = Advance(IF @ = "none" THEN "commit_created" ELSE @,
                         "push_pending")]

Recorded == [row EXCEPT
    !.prepared = TRUE,
    !.tip      = IF row.prepared THEN @ ELSE remote,
    !.manifest = Advance(IF @ = "none" THEN "commit_created" ELSE @,
                         "push_pending")]

\* persist_publication_candidate: manifest, commit and the tip it is to
\* replace, in one transaction.
PersistCandidate ==
    /\ w.pc = "persisting"
    /\ ~Conflict
    /\ Put(w.id, Recorded)
    /\ Goto("pushing")
    /\ UNCHANGED <<line, memory, stored, world, budget>>

PersistConflict ==
    /\ w.pc = "persisting"
    /\ Conflict
    /\ Quit
    /\ UNCHANGED <<line, memory, stored, world, budget>>

LookAtBranch ==
    /\ w.pc = "pushing"
    /\ remote # commit /\ remote = row.tip /\ local = commit
    /\ Goto("sending")
    /\ UNCHANGED <<database, world, budget>>

\* Mutated form: the local branch is taken for the remote one.
AlreadyCommitted ==
    /\ w.pc = "pushing"
    /\ local = commit
    /\ Goto("opening")
    /\ UNCHANGED <<database, world, budget>>

AlreadyPushed ==
    /\ w.pc = "pushing"
    /\ remote = commit
    /\ Goto("opening")
    /\ UNCHANGED <<database, world, budget>>

\* The branch is neither the candidate nor the tip it was prepared against,
\* or the local branch went on: an error, and the row stays in processing.
BranchChanged ==
    /\ w.pc = "pushing"
    /\ remote # commit /\ (remote # row.tip \/ local # commit)
    /\ Quit
    /\ UNCHANGED <<line, memory, stored, world, budget>>

\* An open pull request follows its branch, and closes when that goes.
Follow(ps, tip) ==
    [n \in DOMAIN ps |->
        IF ps[n].state # "open" THEN ps[n]
        ELSE IF tip = NoCommit THEN [ps[n] EXCEPT !.state = "closed"]
        ELSE [ps[n] EXCEPT !.head = tip]]

Deliver ==
    /\ remote' = local
    /\ pulls' = Follow(pulls, local)
    /\ delivered' = delivered \cup {local}

\* git push --force-with-lease of the branch's name.
Push ==
    /\ w.pc = "sending"
    /\ remote = row.tip
    /\ Deliver
    /\ Goto("opening")
    /\ UNCHANGED <<source, database, complete, local, adopted, budget>>

PushRefused ==
    /\ w.pc = "sending"
    /\ remote # row.tip
    /\ Retry
    /\ UNCHANGED <<line, memory, stored, world, budget>>

\* The push fails, or it succeeds and its answer is lost.
PushUnanswered ==
    /\ w.pc = "sending"
    /\ remote = row.tip
    /\ Deliver \/ UNCHANGED <<remote, pulls, delivered>>
    /\ Retry
    /\ Spend("faults")
    /\ UNCHANGED <<source, line, memory, stored, complete, local, adopted>>

Publish == PrepareCommit \/ PersistCandidate \/ PersistConflict
             \/ LookAtBranch \/ AlreadyPushed \/ BranchChanged
             \/ Push \/ PushRefused \/ PushUnanswered

-----------------------------------------------------------------------------
(* The pull request, and the receipt.                                      *)

OpenPulls == {n \in DOMAIN pulls : pulls[n].state = "open"}

ReusePull ==
    /\ w.pc = "opening"
    /\ \E n \in OpenPulls : w' = [w EXCEPT !.pc = "settling", !.pull = n]
    /\ UNCHANGED <<database, world, budget>>

\* The host opens no pull request without a branch, or for a tip that brings
\* nothing new.
Openable == remote # NoCommit /\ (remote # Foreign => ~ChangesNothing(remote))

\* Whether it will is not known of a foreign tip, nor of a commit that came
\* into the base branch before, by its own pull request or under a foreign
\* head: the host refuses it after a merge commit and takes it after a squash.
MergedBefore(tip) ==
    \E n \in DOMAIN pulls :
        pulls[n].state = "merged" /\ pulls[n].head \in {tip, Foreign}

Refusable == ~Openable \/ remote = Foreign \/ MergedBefore(remote)

Created == Append(pulls, [state |-> "open", head |-> remote])

CreatePull ==
    /\ w.pc = "opening"
    /\ OpenPulls = {} /\ Openable
    /\ pulls' = Created
    /\ w' = [w EXCEPT !.pc = "settling", !.pull = Len(pulls) + 1]
    /\ UNCHANGED <<source, database, complete, local, remote, adopted,
                   delivered, budget>>

CreateRefused ==
    /\ w.pc = "opening"
    /\ OpenPulls = {} /\ Refusable
    /\ Retry
    /\ UNCHANGED <<line, memory, stored, world, budget>>

\* A call fails, or its answer is lost.
OpenUnanswered ==
    /\ w.pc = "opening"
    /\ \/ OpenPulls = {} /\ Openable /\ pulls' = Created
       \/ UNCHANGED pulls
    /\ Retry
    /\ Spend("faults")
    /\ UNCHANGED <<source, line, memory, stored, complete, local, remote,
                   adopted, delivered>>

Settled(state) == [row EXCEPT !.state = "done", !.owner = "nobody",
                              !.manifest = Advance(@, state)]

NextEntry == w' = [w EXCEPT !.pc = "claiming", !.own = FALSE, !.id = 0,
                            !.pull = 0, !.published = TRUE]

RecordPull == stored' = [number |-> w.pull, head |-> commit]

Seen == pulls[w.pull]

\* settle_publication of a pull request that was open when it was listed.
SettleOpen ==
    /\ w.pc = "settling"
    /\ Put(w.id, Settled("pr_open"))
    /\ RecordPull
    /\ NextEntry
    /\ UNCHANGED <<line, memory, world, budget>>

SettleClosed ==
    /\ w.pc = "settling"
    /\ Seen.state = "closed"
    /\ Put(w.id, Settled("superseded"))
    /\ RecordPull
    /\ NextEntry
    /\ UNCHANGED <<line, memory, world, budget>>

\* Merged meanwhile, with this very commit: assessed at once.
SettleMerged ==
    /\ w.pc = "settling"
    /\ Seen.state = "merged" /\ Seen.head = commit
    /\ LET i == ManifestOf(commit) IN
       \/ /\ Snapshot(commit) /\ Fits(outbox[i].batch, source)
          /\ outbox' = [outbox EXCEPT ![w.id] = Settled("none"),
                                       ![i].manifest = "merged"]
          /\ shown' = Refresh(i, outbox')
          /\ memory' = Promoted(outbox[i].batch)
          /\ UNCHANGED budget
       \/ /\ Snapshot(commit)
          /\ IF Fits(outbox[i].batch, source) THEN Spend("faults")
                                              ELSE UNCHANGED budget
          /\ Put(w.id, Settled("superseded"))
          /\ UNCHANGED memory
       \/ /\ ~Snapshot(commit)
          /\ Put(w.id, Settled("none"))
          /\ UNCHANGED <<memory, budget>>
    /\ RecordPull
    /\ NextEntry
    /\ UNCHANGED <<line, world>>

SettleOtherHead ==
    /\ w.pc = "settling"
    /\ Seen.state = "merged" /\ Seen.head # commit
    /\ Retry
    /\ UNCHANGED <<line, memory, stored, world, budget>>

Settle == SettleOpen \/ SettleClosed \/ SettleMerged \/ SettleOtherHead

PullRequest == ReusePull \/ CreatePull \/ CreateRefused \/ OpenUnanswered
                 \/ Settle

-----------------------------------------------------------------------------
(* Death, failures, time and people.                                       *)

\* The process dies, or a call fails in a way that leaves the row as it is.
Die ==
    /\ w.pc # "idle"
    /\ Quit
    /\ Spend("faults")
    /\ UNCHANGED <<line, memory, stored, world>>

\* Time shows where the queue is read: a process that left its row in
\* processing is found dead, or the lease of the row is over.
OwnerGone ==
    /\ w.pc = "claiming"
    /\ \E i \in Ids :
        /\ outbox[i].owner = "visible"
        /\ outbox' = [outbox EXCEPT ![i].owner = "gone"]
    /\ UNCHANGED <<line, shown, memory, stored, world, w, budget>>

Without(i) ==
    LET n == CHOOSE m \in DOMAIN line : line[m] = i
    IN  [m \in 1..(Len(line) - 1) |-> IF m < n THEN line[m] ELSE line[m + 1]]

\* available_at arrives: rows made available earlier come first.
RetryDue ==
    /\ w.pc \in {"scheduling", "claiming"}
    /\ \E i \in Ids :
        /\ outbox[i].delayed
        /\ outbox' = [outbox EXCEPT ![i].delayed = FALSE]
        /\ line' = Append(Without(i), i)
    /\ UNCHANGED <<shown, memory, stored, world, w, budget>>

Time == OwnerGone \/ RetryDue

\* The target a merge leaves in the tree of the base branch.
MergedTree(n) ==
    LET c == pulls[n].head IN
    [d \in Doc |-> IF c.tree[d] # c.base.tree[d] THEN c.tree[d]
                                                 ELSE source.tree[d]]

MoveOn ==
    /\ Spend("moves")
    /\ \E t \in SourceText,
          tree \in {source.tree} \cup
                   {MergedTree(n) : n \in {m \in DOMAIN pulls :
                        pulls[m].state = "merged" /\ pulls[m].head # Foreign}} :
        source' = [text |-> t, tree |-> tree]
    /\ source' # source
    /\ UNCHANGED <<database, outbox, complete, local, remote, pulls, adopted,
                   delivered, w>>

\* Somebody pushes to the candidate branch, or deletes it.
BranchMoved ==
    /\ Spend("choices")
    /\ remote' \in {Foreign, NoCommit} \ {remote}
    /\ pulls' = Follow(pulls, remote')
    /\ UNCHANGED <<source, database, complete, local, adopted, delivered, w>>

PullDecided ==
    /\ Spend("choices")
    /\ \E n \in OpenPulls, s \in {"merged", "closed"} :
        pulls' = [pulls EXCEPT ![n].state = s]
    /\ UNCHANGED <<source, database, complete, local, remote, adopted,
                   delivered, w>>

\* A person adopts the text of a document that has a canonical row; adopt
\* holds the repository lock and is one transaction here.
Adopt ==
    /\ w.pc = "idle"
    /\ Spend("choices")
    /\ \E d \in Doc, c \in Content :
        LET t == source.text[d] IN
        /\ \E u \in Text : <<d, u>> \in complete
        /\ memory'  = [memory EXCEPT ![d][t] = c]
        /\ adopted' = [adopted EXCEPT ![d][t] = c]
    /\ UNCHANGED <<source, outbox, line, shown, stored, complete, local,
                   remote, pulls, delivered, w>>

People == MoveOn \/ BranchMoved \/ PullDecided \/ Adopt

Sync == StartSync \/ Observe \/ Work \/ Schedule \/ Claim \/ Check
          \/ Publish \/ PullRequest

Next == Sync \/ Die \/ Time \/ People

Spec == Init /\ [][Next]_vars

\* Someone keeps running sync, commands go on, and time passes.
Fairness ==
    /\ WF_vars(Sync)
    /\ SF_vars(OwnerGone)
    /\ SF_vars(RetryDue)

FairSpec == Spec /\ Fairness

-----------------------------------------------------------------------------
(* Properties.                                                             *)

TypeOK ==
    /\ source \in Revision
    /\ outbox \in Seq(Row)
    /\ line \in Seq(Ids)
    /\ shown \in [DOMAIN shown -> Manifest]
    /\ memory \in [Doc -> [Text -> File]]
    /\ complete \subseteq Doc \X Text
    /\ local \in Commit \cup {NoCommit}
    /\ remote \in Tip
    /\ pulls \in Seq(Pull)
    /\ stored.number \in 0..Len(pulls)
    /\ w.id \in Ids \cup {0}
    /\ delivered \subseteq Commit
    /\ adopted \in [Doc -> [Text -> File]]

\* A content version shared by several manifests shows the strongest of their
\* states, whichever of them was advanced, merged or cancelled last.
StrongestAuthorization ==
    \A v \in DOMAIN shown : shown[v] = Strongest(v, outbox)

\* A commit that changes something stands for one set of files, whichever
\* batches led to it, so that none is refused for another one's sake; of those
\* that all come to the revision itself, one set is authorized.
OneCommitOneFileSet ==
    \A i, j \in Ids :
        /\ CommitOf(outbox[i].batch) = CommitOf(outbox[j].batch)
        /\ \/ ~ChangesNothing(CommitOf(outbox[i].batch))
           \/ outbox[i].manifest # "none" /\ outbox[j].manifest # "none"
        => outbox[i].batch = outbox[j].batch

\* Whatever answers were lost and however often it was retried: a row is
\* settled as published only when its commit did reach the branch.
SettledWasDelivered ==
    \A i \in Ids :
        outbox[i].state = "done" /\ ~outbox[i].rejected =>
            CommitOf(outbox[i].batch) \in delivered

\* At most one row of a batch is waiting, and none beside a published one.
PublishedOnce ==
    \A i, j \in Ids :
        i < j /\ outbox[i].batch = outbox[j].batch =>
            /\ outbox[i].state = "done"
            /\ outbox[i].rejected \/ outbox[i].manifest = "superseded"

\* Trusted memory holds only what a person adopted or merged.
TrustedByPeople ==
    \A d \in Doc, t \in Text :
        memory[d][t] # NoText =>
            \/ memory[d][t] = adopted[d][t]
            \/ \E n \in DOMAIN pulls :
                /\ pulls[n].state = "merged" /\ pulls[n].head # Foreign
                /\ pulls[n].head.base.text[d] = t
                /\ pulls[n].head.tree[d] = memory[d][t]

\* A sync sends only files whose documents are as its own revision has them,
\* however old the row is that it recovered.
PushesCurrentTexts ==
    [][w.pc = "sending" /\ remote' # remote /\ remote' \in Commit =>
        Fits(row.batch, w.run)]_vars

\* What people who look at the candidate branch are promised.
Intents ==
    {[commit |-> CommitOf(outbox[i].batch), tip |-> outbox[i].tip] :
        i \in {j \in Ids : outbox[j].prepared /\ outbox[j].state # "done"}}

Outside == INSTANCE CandidateBranch WITH intents <- Intents

BranchSpec == Outside!Spec

\* Rows that no sync can finish as things stand.  The branch moved or the
\* local branch went on after the commit was prepared; or the commit has to get
\* a pull request of its own and the host may refuse it, as it changes nothing
\* or was merged before; or another batch stands for the commit already, which
\* by OneCommitOneFileSet is then one that changes nothing.
Overtaken(r) ==
    LET c == CommitOf(r.batch)
    IN  r.prepared /\ remote # c /\ (remote # r.tip \/ local # c)

Unwanted(c) == OpenPulls = {} /\ (ChangesNothing(c) \/ MergedBefore(c))

StandsForAnother(r) ==
    \E j \in Binding(CommitOf(r.batch)) : outbox[j].batch # r.batch

Unfinishable(i) ==
    /\ outbox[i].state # "done"
    /\ \/ Overtaken(outbox[i])
       \/ Unwanted(CommitOf(outbox[i].batch))
       \/ StandsForAnother(outbox[i])

\* Whatever was interrupted, refused or lost, syncs settle the queue in the
\* end, unless a row is left that none can finish, or the last pull request
\* was merged with a head that is not fani's, which ends every later sync.
QueueDrains ==
    \/ []<>(\A i \in Ids : outbox[i].state = "done")
    \/ <>[](\E i \in Ids : Unfinishable(i))
    \/ <>[](Merged /\ StoredPull.head # stored.head)

-----------------------------------------------------------------------------
(* What the documentation says and the code does not keep.                 *)

\* Adopted text is the trusted text of its source until it is adopted anew.
AdoptionStands ==
    \A d \in Doc, t \in Text :
        adopted[d][t] # NoText => memory[d][t] = adopted[d][t]

=============================================================================
