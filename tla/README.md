# A formal model of fani

fani keeps translations of a repository's documents up to date: it plans which
source documents need work, has an agent translate, repair and review them,
stores every step in a SQLite database, writes the verified bytes into the
worktree and, if asked to, publishes them through a Git branch and a pull
request. It is meant to be run again and again, by hand, from a timer or in CI,
to be killed at any moment, and never to overwrite text a person wrote.

This directory holds TLA+ modules for the parts of fani where that is hard to
get right, TLC configurations that check them on small instances, and proofs
of their main properties for every instance, checked by TLAPS. Paths below are
relative to the repository (`src/src/...` is the crate's own code).

- [Modules and runs](#modules-and-runs)
- [Inventory](#inventory)
- [Modules RepoLock and Turns](#modules-repolock-and-turns)
- [Modules Outbox, Materialize and TargetFile](#modules-outbox-materialize-and-targetfile)
- [Modules Publication and CandidateBranch](#modules-publication-and-candidatebranch)
- [Module Pipeline](#module-pipeline)
- [Modules Agents and SerialBatch](#modules-agents-and-serialbatch)
- [What the checks show](#what-the-checks-show)
- [Bounds](#bounds) and [fairness](#fairness)
- [Proofs](#proofs)
- [Where the code and its documentation part](#where-the-code-and-its-documentation-part)
- [Not modelled](#not-modelled)
- [Plan](#plan)

## Modules and runs

| Module | What it is |
|---|---|
| `RepoLock` | exclusion of fani processes on one repository: kernel flock, lease row, recovery |
| `Turns` | abstract specification: what the lock promises to the processes that ask for it |
| `MCRepoLock` | three processes, two databases |
| `RepoLockProofs` | theorems about `RepoLock`, its refinement of `Turns` among them |
| `Outbox` | the rows of one path in `materialization_outbox`, and the transactions on them, as operators |
| `Materialize` | one translated file: sync, adopt and discard, people, faults and time |
| `TargetFile` | abstract specification: what commands promise to people who share the file with them |
| `MCMaterialize` | two source texts, three target texts |
| `MaterializeProofs` | theorems about `Materialize`: its invariant and its properties |
| `MaterializeRefinement` | `Materialize` implements `TargetFile` |
| `MaterializeUntroubled` | what holds of reports and of `ok` until a command fails |
| `Publication` | publication of one locale: queue, commit, push, pull request, merge, trust |
| `CandidateBranch` | abstract specification: what the candidate branch promises to those who look at it |
| `MCPublication` | two documents, two source texts, two target texts |
| `PublicationProofs` | theorems about `Publication`, its refinement of `CandidateBranch` among them |
| `Pipeline` | translation pipeline of one locale: planning, reuse, agents' answers, review, verification |
| `MCPipeline` | two units of one document, two revisions, three texts |
| `PipelineProofs` | theorems about `Pipeline` |
| `Agents` | a batch of tasks: workers, attempts, processes, deadlines, sweeps |
| `SerialBatch` | abstract specification: a batch is one loop over its tasks |
| `MCAgents` | two tasks, two workers, two attempts |
| `AgentsProofs` | theorems about `Agents`: its invariant and its properties |
| `AgentsRefinement` | `Agents` implements `SerialBatch`, and its batches are complete |

| Run | Configuration | Expected | Question |
|---|---|---|---|
| `repo_lock` | `MCRepoLock.cfg` | pass | is the repository exclusive, and is a lock never lost or stuck |
| `reconcile` | `MCReconcile.cfg` | pass | with adopt and discard in between: which text may be overwritten, by which intent, and what the tables then say |
| `settles` | `MCSettles.cfg` | pass | what may any number of syncs take for a conflict, overwrite although it was one, and call finished, and does every interrupted state converge |
| `reported_edit` | `MCReportedEdit.cfg` | violation | is every reported human edit kept |
| `reported_edit_is_human` | `MCReportedEditIsHuman.cfg` | violation | is only a human edit reported as one |
| `ok_is_up_to_date` | `MCOkIsUpToDate.cfg` | violation | does `ok` mean up to date |
| `publication` | `MCPublication.cfg` | pass | what is pushed, settled, trusted and left over, whatever is lost or repeated |
| `adoption_reverted` | `MCAdoptionStands.cfg` | violation | does adopted text stay trusted |
| `pipeline` | `MCPipeline.cfg` | pass | what is paid for again, and what is let through |
| `pipeline_adopted` | `MCAdoptedIsReused.cfg` | violation | does a sync use what was adopted |
| `agents` | `MCAgents.cfg` | pass | does every batch end with all results, and what is left of its processes |
| `concurrency` | `MCConcurrency.cfg` | violation | do workers that are configured run side by side |

`tlc -config MCSettles.cfg MCMaterialize` runs a configuration,
`tlapm MaterializeProofs.tla` checks the proofs of a module.

## Inventory

The components, the state each keeps, what it does and what makes it correct.
"Hard" names what an ordinary test hardly reaches; `PROJECT.json` lists each of
these hazards at its line, with the properties that cover it, and says of each
component which modules model it.

| Component (under `src/src/`) | State | Operations | Hard |
|---|---|---|---|
| Repository lock (`adapters/lock.rs`, `adapters/db/leases.rs`) | flock on the directory inode; a `leases` row with owner, token and expiry | guard, acquire, release, drop | two processes with different databases; expiry under a paused owner; death, failed release; fencing token |
| Command dispatch (`adapters/native.rs`) | none of its own | preflight (pin the source revision), guard, open the database, lease, run, release | the revision is pinned before the lock is won |
| Orchestrator (`application/sync.rs`) | the run and its events | publication recovery, retire effects, plan, prepare, translate, repair, review, verify, materialize, publish; status of the run | order of stages; what "ok" stands for |
| Planner, preparation (`application/sync/planning.rs`, `preparation.rs`) | reads canonical rows, memory, target | detect conflicts, match units, schedule work | the target read here is not the target written later |
| Translation, repair, review (`application/sync/translation.rs`, `repair.rs`, `review.rs`, `recovery.rs`; `adapters/db/attempts.rs`) | attempts, receipts, candidates, selected candidate | run agent, record, select, retire, adjudicate | death between the agent's answer and its record; retired attempts; limits |
| Verification, documentation checks (`application/sync/verification.rs`, `adapters/documentation.rs`) | verified documents | render, parse back, run checks | a check is a subprocess with a time limit |
| Materialization effects (`adapters/db/effects.rs`, `adapters/db.rs`) | `materialization_outbox`: state, owner, lease, availability, payload | schedule, supersede, claim, retry, complete | chains of dedupe keys; claims of dead owners; at most one live intent on a path |
| Materialization, file writer (`application/sync/materialization.rs`, `adapters/materialize.rs`) | canonical row, the file | commit, claim, compare, write, settle | each is its own transaction or system call; people edit in between |
| Reconciliation (`application/sync/reconciliation.rs`, `adapters/db/workflows.rs`) | canonical row, memory, intent of a discard | adopt, discard | an interrupted discard is run again later |
| Publication (`application/sync/publication.rs`, `publication/`, `adapters/db/publication.rs`) | `publication_outbox`, candidates, manifests | schedule, claim, prepare, push, ensure the pull request, settle, observe a merge | lost answers, a stale candidate, an expired lease, a blocked queue |
| Git publisher (`adapters/gitout.rs`) | local and remote candidate ref | prepare a commit, compare-and-swap push | death between ref, row and push; a foreign tip |
| Pull requests (`adapters/github.rs`) | the code host | ensure, observe, compare the merged head | duplicated and delayed calls |
| Memory, manifests (`adapters/db/publication.rs`, `canonical.rs`, `workflows.rs`) | ranks, trust, authorization | record, promote, adopt | promotion after a newer adoption; shared versions |
| Unit matching (`domain/matching.rs`) | pure | match units of two revisions | ties, moves, duplicates |
| Schema (`adapters/db/schema.rs`, `src/migrations/`) | schema version, backup | migrate | interruption; two repositories, one database |
| Processes, agents (`adapters/process.rs`, `adapters/agent.rs`) | process tree | run with limits, retry, reap | signals and reaping |
| Documents, discovery, configuration, reports (`domain/`, `adapters/source.rs`, `adapters/config.rs`) | none | parse, protect, segment, print | text, not protocol |

How they interact: a command takes the **lock**, then the **orchestrator**
calls the stages in order, in one thread. Stages share nothing but the
**database**, the **worktree** and the **remote**. All concurrency is thus
between processes, and between fani and people, Git and the code host; every
transaction is atomic, and between two of them anything may happen. Recovery is
not a procedure of its own: the next command reads what the last one left and
goes on from there. This is why `Materialize`, `Publication` and `Pipeline` are
state machines in which any command may be cut off after any of its steps. The
one place with threads is the execution of a batch of agent tasks (`Agents`).

The modules meet where one stage hands its result to the next, and each stands
for its neighbours in one step:

| In | stands for | by |
|---|---|---|
| all but `RepoLock` | the exclusion of commands | one running command `w` |
| `Materialize` | the pipeline | `Draft`, `PipelineStops` |
| `Pipeline` | a batch of agent tasks | `TakeText`, `TakeVerdict`, `TakeFailure` |
| `Pipeline` | materialization, people's edits | `Verify`, `Adopt` |
| `Publication` | planning to materialization | `Work` |
| `Agents` | what an agent is asked, and whether its answer is valid | `good` |

## Modules RepoLock and Turns

One process goes `new → guarded → opened → leased → released → lingering →
gone`; a busy flock, a refused lease, a failed release and a death leave this
path. `flock` is the kernel lock, one per repository directory. `lease` is the
row, one per database *file*: two processes with different `database` paths
share the flock but not the row. `held` is the fencing token in a process's
`RepoLock` value.

| Action | Code |
|---|---|
| `AcquireGuard`, `GuardBusy` | `RepositoryGuard::acquire`, `Flock::lock` |
| `OpenDatabase`, `DropGuard` | `Database::open` under the guard; doctor, or a database that does not open |
| `AcquireLease`, `LeaseRefused` | `RepoLock::acquire_guarded_with_stale`, `Database::acquire_lease` with the dead owner looked up in `/proc` |
| `ReleaseLease`, `ReleaseFlock` | the two halves of `RepoLock::release` |
| `ReleaseFails`, `DropLock` | `release` returns an error and keeps its value; `Drop` tries again |
| `Exit`, `Crash`, `Reap`, `Expire`, `ResetRow` | the end of a process, its death, its parent's wait, time, a row deleted from outside |

A process that has died but has not been waited for is still shown by `/proc`:
`unreaped` is such a process, `gone` one that is not shown. A pid that is used
again is told apart by its start time in the code, so processes have distinct
names here. `lease[d].expired` stands for `expires_at <= now`, and may become
true at any moment, also under a living owner.

`Turns` is what all of this amounts to for those who ask for the repository: one
goes in when nobody is inside, one is sent away only while somebody is, and
whoever is inside leaves again. `Door` maps it: `waiting` are the processes that
have not tried the flock, `inside` those that work on the repository, from the
moment they hold the flock until they drop it. It says more than exclusion:
nothing that a process leaves behind, in a database or as an unreaped pid, can
turn another one away at the flock.

## Modules Outbox, Materialize and TargetFile

**One path.** `Materialize` is about one target file in one language. Effects
of different paths do not touch each other (each transaction selects by
repository, locale and path), and the stages treat documents one by one.

**Commands do not overlap.** `w` is the one running command; that there is only
one is what `RepoLock` shows. A command that waits for the lock has already
pinned its source revision: `waiting` holds the revisions such commands
pinned, and any of them may be the one that is synced or adopted next
(`Resolved`).

**Texts.** A `Source` is a text of the source document at a revision (the code
compares its mapping hash); a `Content` is a text of the target. Hashes are
equal exactly when texts are, so a hash is written as the text it is the hash
of; `NoHash` is SQL `NULL`, and `Vanished` the literal `"missing"` that the code
stores where a hash is expected. `Translation[s]` is what the pipeline makes of
source `s`, if it succeeds: candidates and receipts make it repeatable.
Trusted memory takes precedence (`Desired`).

**Effects.** The rows of a path are a function from effects to rows, since of a
chain `base`, `base:after:1`, ... only the last row can be live. A row's owner
is what `/proc` says of the process that claimed it: `visible` also covers a
worker that returned an error and goes on with another repository. `expired`
and `delayed` stand for the comparisons with `now`.

| Action | Code |
|---|---|
| `SyncStart` | preflight, then `retire_incompatible_materializations` |
| `PlanConflict`, `PlanDocument` | `inspect_document`: conflict, or the expected hash |
| `Draft`, `PipelineStops` | translation to verification as one step: a verified document, or none |
| `CommitInPlace`, `Commit`, `CommitRefused` | `commit_materialization`: canonical row and effect in one transaction |
| `ClaimEffect`, `SkipEffect` | `claim_outbox_key` returns the row or `None` |
| `ApplyRead`, `ApplyWrite`, `ApplyFails` | `apply`: compare, then `write_atomic`; the error path with `retry_outbox` |
| `SettleMaterialized`, `SettleHumanEdit` | the two outcomes of `settle_materialization` |
| `AdoptStart`, `AdoptRejected`, `AdoptCommit` | `adopt`: read, validate, `adopt_document` |
| `DiscardStart`, `BeginDiscard`, `DiscardRefused`, `CompleteDiscard` | `discard`: read, `begin_discard`, `apply`, `complete_discard` |
| `CommandStops` | the process dies, or a call fails and its error ends the command |
| `MoveSource`, `HumanEdit`, `OwnerGone`, `LeaseExpires`, `RetryDue` | the world |

Effects are worked on under a 60 s lease that nobody renews; the model lets it
expire whenever it likes.

**Seen from outside.** `TargetFile` knows the file, the number of changes people
have made, and the intents on record; an intent is a text and what it replaces.
A command changes the file only by writing the text of an intent over what that
intent replaces, there is one intent at most, and the write leaves it on record.
`Outside` maps it: the live rows are the intents, and what a row replaces is the
recorded hash, or for a discard the hash of what its person saw (`IntentOf`).
Commits, retries, deaths, supersession, settlement and adoption are steps that
put down another intent, close it, or do nothing.

**History.** `writer`, `reported`, `told` and `consent` are not in the code and
guard no action. They record who changed the file last, which stage reported the
file as it is now, which texts the check before a write ever reported, and which
target a person asked to discard; the properties are stated with them.

**Mutated forms.** A definition introduced by "Mutated form" is not part of any
specification; it is what the code would be with a plausible mistake, kept to
show that each property notices it.

## Modules Publication and CandidateBranch

**One locale.** A sync of a locale first looks at its last pull request, then
recovers what is left in `publication_outbox`, then works, schedules a batch of
its own and publishes until no row is available. Rows, the candidate branch and
its pull requests belong to one locale; locales do not disturb each other.

**Data.** A text of a document stands for its mapping hash together with the
policy fingerprint; a revision is the texts of all documents and the targets its
tree holds. A commit (`CommitOf`) is its base, its tree and, since its message
counts the translated files (`src/src/adapters/gitout.rs:606`), the number of
files of its batch; its author and date depend on no batch. Where the tree is
the one the base has, no commit is made and the revision itself is the candidate
(`ChangesNothing`), whatever the batch counts. So batches of different files may
meet in one commit, and `Conflict` refuses the second one. Content versions are
by document, base and content, as their table has them. `line` orders the rows
by `available_at`.

| Action | Code |
|---|---|
| `StartSync` | `begin_run` at the pinned revision |
| `ObserveNothingNew`, `ObserveOtherHead`, `ObserveMerge`, `ObserveUnfitMerge` | `reconcile_pull_request`, `assess_merged_publication`, `observe_publication` |
| `Work` | planning to materialization: the verified documents of the revision |
| `Schedule` | `schedule_publication`, with the chain of keys in `effect_key` |
| `Claim` | `claim_publication_locale`: rows of dead owners and expired leases come back, the first available one is claimed |
| `Accept`, `Reject` | the checks in `publish_next`: documents as they are now, project checks where they must run again |
| `PrepareCommit` | `create_candidate`: the local branch is set |
| `PersistCandidate`, `PersistConflict` | `persist_publication_candidate`: manifest, commit and expected tip in one transaction |
| `LookAtBranch`, `AlreadyPushed`, `BranchChanged`, `Push`, `PushRefused`, `PushUnanswered` | `push_candidate`: `ls-remote`, then `--force-with-lease` with the recorded tip; `retry_outbox` |
| `ReusePull`, `CreatePull`, `CreateRefused`, `OpenUnanswered` | list and create at the code host |
| `SettleOpen`, `SettleClosed`, `SettleMerged`, `SettleOtherHead` | `settle_publication` by what the pull request has become |
| `Die`, `OwnerGone`, `RetryDue` | death or a failed call; a dead owner or expired lease; a delay that passed |
| `MoveOn`, `BranchMoved`, `PullDecided`, `Adopt` | people: source, branch, pull request, memory |

`adopted` and `delivered` are history: what people adopted, and which commits
have been the remote tip. They guard no action.

`CandidateBranch` is the promise seen from outside: two variables, the branch
and the live intents. The branch moves only from the tip an intent names to its
commit, or by people. `Publication` implements it, with `Intents` (the rows that
name a commit and are not done) for `intents`.

What the host does with a request for a pull request is external (`Openable`,
`Refusable`). It opens none for a branch that is not there or brings nothing new.
Of a commit that was merged before it is left open: after a merge commit the host
finds no commits between the branches and refuses, after a squash or a rebase it
does not. A merged request is never found again by `OpenPulls`, since the code lists
open ones only (`src/src/adapters/github.rs:254`).

**Assumptions.** Pushing and pull requests are on. A push or call of a process
that died does not take effect later than its death. People move the branch at
the code host, not the local one. A batch that leaves out a document costs a
fault of the bounds; a document that was complete at a text is in every later batch
of that text (`Work`), which leaves out what divergence 5 below does to a document
whose text was adopted. A dead owner and an expired lease are one event
(`OwnerGone`), shown where the queue is read, as nothing else looks at them.

## Module Pipeline

A sync at a source revision continues the run of that revision. It prepares
document by document, asks for units without a text, repairs, has every text
approved or replaced, asks for advice, and verifies the documents that are
whole. Units, stages and repair rounds are worked on one after the other: `w`
holds the stage, the round and the next unit (`collecting`), then the answers of
the batch that are still to be stored (`answering`).

An attempt is its key, what it was about, its answer and how it ended; an answer
is a text, an approval (`OK`) or none. Which answers pass deterministic
validation is given by `Valid`; what the deterministic repair makes of one that
does not, by `Separated`.

| Action | Code |
|---|---|
| `StartSync` | `begin_run` finds the run of the revision again |
| `PrepareDocument`, `PlanConflict` | `inspect_document`, `prepare_document`: what of memory, candidates and reviews is reused, what `max_tasks` lets through |
| `Pass`, `RecoverText`, `RecoverVerdict` | `collect`: nothing to do, or a stored answer (`recovered_attempt`) |
| `SkipFailed`, `AskAnew`, `Ask`, `Fix` | a failed attempt stands; a review of another text is retired (`retire_attempt`); a new question; the deterministic repair |
| `TakeText`, `TakeVerdict`, `TakeFailure` | one answer and its candidate in a transaction (`record_attempt_candidate`) |
| `Verify`, `Blocked` | assembly and the gate before materialization |
| `Die`, `MoveOn`, `Adopt` | death or a failed check; a change of the source, also back to an earlier revision; an edit and its adoption |

`verified` is history: what each run let through since source or memory changed.

**Assumptions.** A unit keeps its stable id over all revisions; matching units
is not modelled. Configuration and version stay the same during a behaviour. The
source moves between syncs, which is no restriction: a sync pins its revision
when it starts. Findings and work items are written for reports and are left
out. An attempt that failed is final for its run, so that a failed revision stops
the locale until the source or the configuration changes; `Stuck` names this.
The deterministic repair looks at the last attempt of a work item that did not
succeed (`failed_attempt_context`), which may be one of a review: then the
rejected translation is not seen again and the repair is left to an agent.
`Rejected` is that attempt.

## Modules Agents and SerialBatch

`execute` starts `min(concurrency, tasks)` worker threads. Each takes the next
task, takes the mutex of the results, makes the attempts under it, and hands in
one result. A command runs under a supervisor, a process of the same program
which is a subreaper and ends after its descendants; fani is a subreaper as
well, and sweeps after each attempt.

| Action | Code (`adapters/agent.rs`, `adapters/process.rs`) |
|---|---|
| `Fetch`, `Lock`, `Answer`, `AttemptFailed` | `execute`: the counter, the mutex, the loop over attempts |
| `Post`, `PostRefused` | an attempt over HTTP, and a permanent failure |
| `Start`, `StartFails` | `spawn_tracked` under the spawn lock |
| `Exited`, `Timeout`, `Stop`, `Drained`, `ReaderFails`, `Swept` | waiting, the deadline, `terminate_process_group`, the readers, `finish_process_group` |
| `Discover`, `Signal`, `Again` | `cleanup_supervisor_orphans`: find, kill, look again |
| `ReapSupervisor`, `ReapTokens`, `ReaperEnds` | the background reaper of an attempt that outlived its deadline |
| `Cleanup`, `SupervisorEnds` | `run_process_wrapper` |
| `Dies`, `Ends`, `Forks`, `Killed`, `Rest` | the kernel, the command and its descendants |

Two kinds of descendants stand for all: a `child` carries the attempt's token in
its environment and closes its pipes, a `stray` drops the token and keeps the
pipes open. The first is found by its token, the second keeps the readers
waiting and is found as an orphan.

`SerialBatch` is a loop over the tasks: begin one that nobody has reported, try it
again while it has retries, report it, and only then begin another. `Outside` maps
it: the task and attempt of the worker that holds the mutex are the current ones,
`output` is the results. Workers, processes, readers, deadlines and sweeps are
invisible to it. That tasks are neither skipped nor reported twice is hence said
of every moment, not only of the end.

**Assumptions.** Process ids are not used again, and descendants fork only while
their supervisor lives. An HTTP time limit is the transport failure of `Post`.
The children of fani that have no supervisor, `git` and `gh`, are not in the
model: the search for orphans would take one for an orphan if it ran while a
reaper is still at work.

## What the checks show

`repo_lock`: `MutualExclusion` (the guard covers opening, migration and the
whole command, whichever database is configured), `OwnRowSurvives` (the row of
a running command is not taken over, even once expired),
`RowsAreHeldOrAbandoned` (an orderly end leaves no row),
`RefusedOnlyForVisibleRemains` (after the flock is won, only an unexpired row of
an abandoned process that `/proc` still shows stands in the way), `TurnsSpec`
(the refinement of `Turns`) and `FlockIsFreedAgain`.

`reconcile` and `settles`, each property in the run whose world can endanger it more:

- `AtMostOneLiveEffect`: no older intent survives on the path next to a newer
  one, so recovery can never write yesterday's text over today's.
- `MaterializedIsTrue`: a row that says `materialized` is right unless people
  edited since, even for a text that was current, was replaced, and comes back.
- `OkIsMaterializedOrQueued`: `ok` leaves the work done or in the table. This is
  stated for syncs only: adopt keeps live effects of older content.
- `PlannedConflictIsKept`: what planning reported is not overwritten by any
  later sync, retry or recovery, from whatever source revision.
- `HumanTextIsKept`: text written by people alone is not overwritten however
  late it appears, with the exception found below.
- `OwnWriteIsNoConflict`: fani never mistakes a write it has settled for a
  person's.
- `DiscardOnlyWhatWasSeen`: a discard that is interrupted and run again does
  not destroy an edit made in between.
- `FileSpec`: the refinement of `TargetFile`. Whatever command finds an intent that
  an interrupted one left, it carries out that one over the text it was recorded
  for, or closes it.

`settles`: `EventuallySettled`. When sources and people come to rest, the file
comes to hold what source and memory call for, or the planner keeps reporting
it. Neither an effect whose owner died or lingers nor a retry delay blocks the
document for good.

`publication`:

- `StrongestAuthorization`: several batches can contain the same version of a
  file. What it shows is the strongest state of all manifests that hold it,
  also after the one that changed last was cancelled.
- `OneCommitOneFileSet`: two batches that lead to one commit are one batch, so
  that a merge of the commit says which files it authorized and no row is refused
  for another one's sake. It takes the message for that: of two batches with one
  tree, the one that also holds a file as the base has it counts more. And it takes
  `Work`: two batches of one revision with equally many files are of the same
  documents, as batches of one source only grow. Where the commit is the revision
  itself nothing is counted; there only one of the batches is ever authorized.
- `SettledWasDelivered`: however many answers were lost, a row counts as
  published only when its commit did reach the branch.
- `PublishedOnce`: a batch that is waiting is not queued again, and one that was
  published is queued again only after its publication was withdrawn.
- `TrustedByPeople`: what memory trusts was adopted, or merged from a commit
  that holds this text for this source.
- `PushesCurrentTexts`: recovery of an old row never sends files whose documents
  have changed in the revision the sync is about.
- `BranchSpec`: the refinement of `CandidateBranch`.
- `QueueDrains`: syncs settle every row in the end, with exceptions that the code
  has and that the property names. A pull request merged with a head that is not
  the stored one ends every later sync of the locale until somebody removes its
  row. And there are rows that no sync finishes as things stand (`Unfinishable`):
  - `Overtaken`: the branch went elsewhere after the commit was prepared, or the
    local one went on;
  - `Unwanted`: the commit needs a pull request of its own and brings nothing new.
    It changes nothing, which is an ordinary state once a merge has reached the
    source; or it was merged before. One lost answer is enough for that: the
    request was created, a person merges it, the retry lists open requests only,
    asks for a second one and is refused (after a merge commit, not after a
    squash), and every later sync asks again;
  - `StandsForAnother`: the commit is the revision itself and bound to the files of
    another batch.

`pipeline`:

- `VerifiedIsReviewed`: with the revision stage on, every text that is let
  through was approved by a review of this very text in this very run, or is
  the review's own, whatever was recovered, reused, adopted or retired.
- `AskedOnce`: no agent is asked again what this run has stored an answer to.
  `src/docs/architecture/adr-0001-native-single-authority.md:42` promises this of
  completed agent work. An answer that was not stored yet when the process died is
  asked for again, and paid for twice; nothing is claimed of it. One kind of stored
  answer is given up: a review is retired when its unit has another text. Should the
  earlier text come back before the new review is stored (a person adopts a text,
  replaces it, the next sync dies after it retired the review, and the person adopts
  the first text again), that review is paid for twice.
- `VerifiedTextStands`: as long as the source stays, one more sync of the same
  memory lets the same text through, also after a death in the middle of repair or
  review. It is stated for units without trusted text; what happens to these is
  divergence 5 below. It is silent about a source that leaves and comes back, and
  has to be. A first revision has verified `t1`; the source moves to a second one,
  under which the unit gets and selects `t2`; it moves back, and a sync of the first
  dies after it has prepared the document, which has then been recorded as current.
  The next one takes every unit of the document for unchanged
  (`src/src/application/sync/context.rs:91`), so that the planner reuses the newest
  selected candidate of whatever run (`src/src/application/sync/planning.rs:258`),
  and verifies `t2`. Nobody has adopted a text. Both were verified for this text of
  the unit, and no document says which of them is to stand.
- `AdoptedYieldsToReview`: what people adopted for a source is let through as it
  is, unless a review of this run was of another text or made another one of this
  text. Of a translator's answers, repairs and memory none can displace it.
- `SelectionIsVerified`: between syncs the selected candidate is the text that
  was let through, not an answer of an earlier stage.
- `EventuallyVerified`: batches bounded by `max_tasks` come to an end.

`agents`:

- `OneAgentAtATime`: attempts never overlap, whatever `concurrency` is: the
  mutex of the results is held while the pushed value is computed
  (`src/src/adapters/agent.rs:621`). Sweeps and reapers rest on it. It is not what
  the documentation says of `concurrency`: this is divergence 6 below, which the run
  `concurrency` shows.
- `AnswerIsFinal`: when an answer is taken, no process of its attempt is left.
- `OthersAreSpared`: a sweep or reaper of one attempt never kills a process of
  another one that is still supervised.
- `SerialSpec`: the refinement of `SerialBatch`; its one turn at a time is divergence 6
  as well.
- `EveryTaskAnswered`: a batch ends with one result for each task, also if
  commands hang, fork, keep pipes open or lose their supervisor.
- `NothingLeft`: in the end no process and no reaper is left, except after a
  reader failed; that path sweeps nothing. It is about a fani that lives on, as
  reapers are threads of its own.

Every property of a passing run is broken by a small change of a definition the
model translates from the code; `PROJECT.json` names the change under `mutants`.

### Bounds

| | sources | texts | moves | edits | choices | faults | distinct states |
|---|---|---|---|---|---|---|---|
| `reconcile` | 2 | 3 | 1 | 2 | 2 | 1 | 1.7 million |
| `settles` | 2 | 3 | 1 | 1 | 1 | 2 | 0.3 million |

`MaxMoves`, `MaxEdits`, `MaxChoices` and `MaxFaults` bound how often the world
acts; the number of syncs is not bounded. Two sources let the current text
change and change back, which is what effect keys that are already done, stale
pinned revisions and incompatible effects need. The three texts are a
translation of each source and one only a person writes. Two faults in a row
interrupt a command and the recovery from it; two choices interrupt a discard or
an adoption and repeat it, or follow one by the other. `reconcile` uses that the
two sources, each with its translation, may change places (`Alike`): the model
never orders or chooses among texts, and a file may be either translation to
begin with. `settles` checks liveness and uses no symmetry. It carries the three
safety properties that are about syncs as well; with two moves, three edits and
two faults around syncs only they have been checked once, in 0.6 million states.
Safety does not rest on these numbers: the safety properties are proved without
them. `RepoLock` has no bounds but its sets: one process holds the lock, one
comes meanwhile, and a third finds what both left.

`publication` (340,007 distinct states) takes the bounds on moves, choices and
faults together, as one of 2/1/0, 2/0/1, 1/1/1, 1/2/0, 0/2/1, 0/1/2 and 1/0/2:
three events, in every combination that has two kinds of them. There are two
documents. The guide has a translation of its own for each text; the menu
translates alike from both, so that different revisions share a content version,
and a move of its text alone makes a batch that changes nothing where the
targets are merged. The source takes three of the four pairs of texts, which
keeps the run short. A batch that lacks a document, and a later one of the same
source that has it, take one fault; a lost answer and a merge take a fault and a
choice; a merge that reaches the source takes a choice and a move.

`pipeline` (649,880) has two units of one document, and a second revision that
changes one of them; `max_tasks` is 1, so that two syncs are needed, and the
repair budget 1. Three texts pass for the first unit, so that what people adopt,
what the translator answers and what the revision makes of it can all differ. Each
set of review stages gets two events of two kinds (a move and an edit, a move and
a fault), two faults, or two edits and a fault; the proofreader alone, which
changes no text, an edit and a fault. The safety properties have also been
checked once for a move, an edit and a fault together (3.0 million states) and for
longer behaviours with two texts (moves/edits/faults of 2/1/2, 3/0/2, 4/0/1, 1/3/1
and 2/2/0, up to 13.9 million states); they are proved for any.

`agents` (345,299) has up to two tasks, two workers and two attempts. One task
meets everything at once: two descendants, a killed supervisor and two
deadlines. Two tasks get that without a retry, or a retry and one trouble at a
time, which is what the interplay of two attempts needs. Larger joint bounds (two
tasks, a retry, a fork and a kill; or a kill and a deadline) have been checked
once, with 0.9 to 1.25 million states.

Deadlock is checked in all runs but `repo_lock`, where each process works on the
repository once and everything ends.

### Fairness

`RepoLock`: weak fairness of each process's steps. They wait for nothing but the
file system, the database and the agent, all with time limits; a process
stopped for good (SIGSTOP) would keep its flock, and is not covered.

`Materialize`: a running command takes its next step, for the same reason (weak
fairness). Sync is started again and again (strong fairness of `SyncStart`,
because other commands may come in between): this is how fani is operated, by a
timer or in CI (`src/systemd/`, `src/examples/github/`). Owners disappear,
leases expire and delays pass (weak fairness each), as clocks and process tables
have it. Nothing is assumed of people, source changes or faults, which are
bounded.

`Publication`: syncs are started again and go on (weak fairness of `Sync`).
Owners disappear and delays pass (strong fairness of `OwnerGone` and `RetryDue`,
which the model shows only at the moments when the queue is read).

`Pipeline`: syncs are started again and go on (weak fairness of `Sync`), since
calls of agents have time limits.

`Agents`: threads, supervisors and the kernel's kills go on (weak fairness of
each). Commands may do nothing for ever: then the deadline passes, as often as
the bound `late` allows, and only after that they are taken to end by themselves
(`InTime`). A start that fails and a reader that fails are possible and never
assumed. fani itself is taken to live until its reapers have ended, which no code
waits for: they are detached threads and die with it, and a supervisor that is still
there then is left to `init`.

## Proofs

`RepoLockProofs` proves, for any set of processes and of databases, type
correctness and each safety property of `RepoLock`. The kernel lock carries the
argument: `WorkersHoldFlock` says that a working process is the one the flock
names, so there is one at most, and no other process can touch its row. `RowInv`
adds that a row is either the running holder's, in its own database, or the
remains of an abandoned process. The one assumption is `NobodyAssumption`.

`TurnsImplemented` shows that `RepoLock` implements `Turns`. Taking the guard is
`Enter`, a busy guard is `SentAway`, leaving the working stages in any way,
by a refused lease, a failed release or death too, is `Leave`, and whatever happens
to rows, databases and remains is a stutter. `WorkersHoldFlock` is needed at the door:
the flock is free only if nobody is inside. The converse, `HolderWorks`, is needed
for those who are sent away: the flock they found taken belongs to a process that
works, so death and a failed release must give it up.

`MaterializeProofs` proves every safety property of the passing runs, for any
sets of sources and texts, any translation function and any bounds. The
inductive invariant `Inv` is built in layers, each inductive given the ones
before it:

1. `TypeOK` and `WorkerOK`: types, and what a command carries at each stage.
2. `EffectInv`: a command between commit and settlement works on a live row
   (`KeyIsLive`); at most one row is live; a live discard carries the hash of
   what its person saw (`ConsentIsRecorded`), and so does the worker that
   executes it.
3. `FileInv`: the canonical row is the one the command works for
   (`CanonIsDesired`), the expected hash is the recorded one
   (`ExpectsRecorded`), and what was seen is still there unless a person changed
   it (`SeenIsTarget`, `CurrentIsDesired`, `WriteIsExpected`). The invariant that
   makes reports stand is `ReportStands`: what planning reported differs from the
   hash any later sync will expect. `RecordedIsKnown` is the same for fani's own
   writes.

The properties alone are not inductive: a state in which the worker expects
another hash than the recorded one satisfies all of them, and its next step
breaks them. `OriginInv` (every text in the canonical row came from the
pipeline, from memory, or was reported) and `OkInv` are added for
`HumanTextIsKept` and `OkIsMaterializedOrQueued`.

What the transactions on the outbox do to a well-typed table is stated once, in
lemmas such as `ScheduleLemma` (scheduling leaves exactly the row of its own key
live).

`MaterializeRefinement` shows that `Materialize` implements `TargetFile`. Each
step is one of four (`FileFrames`): it changes neither file nor intents; it
changes the intents, which are then none or one (`OneIntent`, from
`AtMostOneLiveEffect`); it is an edit; or it is a rename. For the rename,
`OwnIntent` says that the row of the writing command's own key is live, names the
text that is written, and replaces the hash that the command compared with: this
is where `KeyIsLive` and `ExpectsRecorded`, or `ConsentIsRecorded` for a discard,
come together, and `WriteIsExpected` says that the file still has that hash.
`FileImplemented` is about adopt and discard as well as sync.

`MaterializeUntroubled` proves two sentences of the documentation up to the point
where the code leaves them (divergences 2 and 3 below). As long as no command has
died and none of its calls has failed (`Untroubled`), `Calm` is inductive next to
`Inv`: a file that fani wrote and has not recorded is the one its running command is
about to settle, no row is delayed, a live materialization is the running sync's
own, and a row about to be claimed is pending. So nothing is passed over, and the
check before the write meets no text of fani's own. This holds with any number of
edits, at any moment, and without the assumption about the window below.

`PublicationProofs` proves every safety property of the run and the refinement of
`CandidateBranch`, for any documents, texts, translations and bounds. Its
invariant `IInv` has five parts:

1. `Types`: types, with what a sync carries at each stage.
2. `RowInv`: the row a sync works on is still in processing and names the commit
   where it should; from its check until it is settled it fits the revision of the
   sync. This is `PushesCurrentTexts`.
3. `HostInv`: when a push is about to be sent the local branch is the commit of
   the row; when a pull request is opened or settled that commit has been
   delivered, and so has any commit of fani's at the remote. This gives
   `SettledWasDelivered`.
4. `Rows`: `StrongestAuthorization`, `OneAuthorizedFileSet`, `SettledWasDelivered`
   and `PublishedOnce` together, since the same transactions change them.
   `OneAuthorizedFileSet` is what the check in `PersistConflict` gives: of the rows
   with one commit, one batch is authorized.
5. `TrustedByPeople`.

`FilesOfACommit` says more than that check does: a commit that changes something
never meets it. `Growth` is the invariant for that. What is in a batch is complete,
what is complete at a text is in every later batch of the text, so the batches of one
source form a chain of growing document sets. Two batches with one commit have one
revision, thus are of this chain, and count equally many files, so they are of the
same documents (here `DocAssumption` is needed, that documents are finitely many);
then their trees tell their files (`SameFiles`).

No action changes the outbox in more than three ways: quietly (owners, delays,
states that no property looks at), in one row with its content refreshed, or by a
new row. `QuietKeeps`, `PutKeeps`, `MergedKeeps` and `ScheduleKeeps` show what each
way keeps, `Frames` and `Moves` which action takes which. For the refinement
`PersistCandidate` is `Intend` or a stutter (a recovered row has its intent
already), the pushes are `Push`, settlement and rejection are `Close` or a
stutter, and `BranchMoved` is `People`. The step that needs the invariant is the
push: that the row it works on is unsettled and names its commit (`RowInv`), and
that the local branch is this commit (`HostInv`), is what makes the pushed tip the
one a live intent names.

`UnmergedAdoptionStands` says where divergence 4 begins: until a pull request is
merged with a head of fani, memory keeps everything people adopted, through any
number of syncs, failures, rejected and settled batches and merges of other heads.

`PublishingComesToAnEnd` is the part of `QueueDrains` that is no matter of fairness.
A sync has five parts (observation, recovery, work, scheduling, publication); two of
them loop over the rows of the queue, and each row goes through seven stations from
its claim to its receipt. Every step of the sync ends it, takes it to a later part,
settles a row for good, or takes its row to a later station. A step of time or of
people leaves it where it is, and no row it has settled comes back. So a sync that
keeps taking steps ends after at most as many as there are open rows and stations,
whatever the answers of Git and the code host; a row that a sync gives back ends the
sync as well.

`PipelineProofs` proves every safety property of `Pipeline`, for any units,
documents, revisions, answers and bounds and any set of review stages. `Types`
holds what the tables are, what a sync is at each stage (`Position`), and of every
work item that at most one attempt holds a key (`Well`). The rest of `IInv` is said
unit by unit:

1. `AskedInv`: nobody holds the key a unit is being asked under. With `Well` this is
   `AskedOnce`.
2. `RevisionInv`, `ProofreadInv`: once the sync has dealt with a unit in a review
   stage, its text is a fixed point of the receipts stored (`Revised`,
   `Proofread`): recovering them changes it no more. At verification this gives
   `VerifiedIsReviewed`.
3. `ChoiceInv`: the selected candidate is the text of the sync, and one that the
   planner will reuse (`Selects`).
4. `StandingInv`: a text verified before is selected, is such a fixed point, and is
   the text of the sync from planning on. This is what carries a text from one sync
   to the next: the planner finds it (`PlannedStands`), the reviews recover their
   receipts instead of asking, and nothing replaces it.

`VerifiedStands` is about the time while the source stays: the history it is
stated with begins anew when the source moves or a text is adopted (see above
for what can happen when the source comes back). `VerifiedTextStands` alone says
nothing about attempts, so it is not inductive: a stored receipt about another
text would let the next sync retire it and ask for a new one.

`AdoptedStands` is the counterpart for units with trusted text, where
`VerifiedTextStands` is silent, and says where divergence 5 begins. `HumanInv` is its
invariant: from the moment a sync has planned a unit, its text is the adopted one, or
a review of this run contests that one. It rests on three facts. Planning begins with
the adopted text unless an earlier review speaks against it. Only a revision replaces
a text that is there (`Replaced`), and its receipt then contests what it replaced.
And attempts remember (`Remembers`): their keys, answers and subjects never change,
and retiring one does not make it a failure, so that what contests goes on contesting.

`SyncsComeToAnEnd` does for `EventuallyVerified` what `PublishingComesToAnEnd` does
for `QueueDrains`: every step of a sync leaves it idle or goes further in the order of
stages, repair rounds, documents or units, and answers still to be stored, and
`Within` bounds each of these. It is not obvious in one place: a review may ask for a
unit again in the next sync, and repair goes round by round, but within one sync no
answer, failure or retired attempt leads back to an earlier stage or round.

Collecting and answering are about one unit at a time; `UnitStep` shows
what such a step owes for its unit and that the others keep what they have, and
each action then has only its own unit to account for.

`AgentsProofs` proves every safety property of `Agents`, for any number of tasks,
workers and retries. `Turns` says that the mutex names the one worker that makes
attempts, `Shares` that no task is at two workers. `History` says that there is no
trace of an attempt before it begins, so that a new attempt finds nothing of its
own. `Unseen` says that no sweep has the processes of a running attempt in its
list, as its supervisor is protected (`Kept`) before any list can show it; `Whole`
and `Ended` say that a supervisor outlives what it supervises where its answer
counts, and has ended where output is read, so that an attempt whose answer is
taken has no process left.

`AgentsRefinement` shows that `Agents` implements `SerialBatch`. Its invariant is
`Reports`: every task that was handed out is at exactly one worker or has exactly
one result, a worker waiting for the mutex is at its first attempt, and a worker
that has gone home left no task waiting. Most steps are `Quiet`; taking the mutex is
`Begin`, and it is `Reports` that makes its task one nobody has reported; a further
attempt is `Again`, whose bound is that of the retries; handing in is `Report`.
`BatchIsComplete` follows: when all workers are done, every task has its result. That
they do get done is liveness and stays with the run (`EveryTaskAnswered`).

| Theorem | Property |
|---|---|
| `RepoLockProofs!TypeCorrect` | `TypeOK` |
| `Exclusion` | `MutualExclusion` |
| `HolderKeepsRow` | `OwnRowSurvives` |
| `NoStrayRows` | `RowsAreHeldOrAbandoned` |
| `RefusalIsJustified` | `RefusedOnlyForVisibleRemains` |
| `TurnsImplemented` | `TurnsSpec` |
| `MaterializeProofs!TypeCorrect` | `TypeOK` |
| `OneLiveEffect` | `AtMostOneLiveEffect` |
| `MaterializedTruth` | `MaterializedIsTrue` |
| `OkEffects` | `OkIsMaterializedOrQueued` |
| `OwnWrites` | `OwnWriteIsNoConflict` |
| `PlannedConflicts` | `PlannedConflictIsKept`, if nobody edits in the window |
| `HumanTexts` | `HumanTextIsKept`, if nobody edits in the window |
| `Discards` | `DiscardOnlyWhatWasSeen`, if nobody edits in the window |
| `MaterializeRefinement!FileImplemented` | `FileSpec`, if nobody edits in the window |
| `MaterializeUntroubled!UntroubledOkIsUpToDate` | `OkIsUpToDate`, until a command fails |
| `UntroubledReportIsHuman` | what `ReportedEditIsHuman` says, until a command fails |
| `PublicationProofs!TypeCorrect` | `TypeOK` |
| `StrongestShown` | `StrongestAuthorization` |
| `FilesOfACommit` | `OneCommitOneFileSet`, for finitely many documents |
| `SettledAfterDelivery` | `SettledWasDelivered` |
| `BatchQueuedOnce` | `PublishedOnce` |
| `TrustIsEarned` | `TrustedByPeople` |
| `OnlyCurrentTexts` | `PushesCurrentTexts` |
| `BranchImplemented` | `BranchSpec` |
| `UnmergedAdoptionStands` | `AdoptionStands`, until a pull request is merged |
| `PublishingComesToAnEnd` | every step of a sync ends it or gets it further; nothing sets it back |
| `PipelineProofs!TypeCorrect` | `TypeOK` |
| `SelectedAsVerified` | `SelectionIsVerified` |
| `ReviewedIfVerified` | `VerifiedIsReviewed` |
| `PaidOnce` | `AskedOnce` |
| `VerifiedStands` | `VerifiedTextStands`, while the source stays |
| `AdoptedStands` | `AdoptedYieldsToReview` |
| `SyncsComeToAnEnd` | every step of a sync ends it or gets it further, within bounds |
| `AgentsProofs!TypeCorrect` | `TypeOK` |
| `OneAtATime` | `OneAgentAtATime` |
| `AnswersAreFinal` | `AnswerIsFinal` |
| `Spared` | `OthersAreSpared` |
| `AgentsRefinement!TasksAccountedFor` | every task is waiting, at one worker, or reported |
| `BatchIsComplete` | a batch that is over has all results |
| `SerialImplemented` | `SerialSpec` |

**The window.** `apply` compares the file and then renames a new one over it; an
edit between the two is lost, and no file system offers a conditional rename.
`EditsDuringRename` says whether such edits are considered. Four theorems
assume it false, as the runs do; the other seven about `Materialize` do not need
it. All other instants of a command are open to edits. `MaterializeAssumption` says
that the special values differ from texts and from each other;
`PublicationAssumption`, `CommitAssumption`, `PipelineAssumption` and
`AgentsAssumption` type the constants; `DocAssumption` says that a project has
finitely many documents.

**Only model-checked**: `FlockIsFreedAgain`, `EventuallySettled`, `QueueDrains`,
`EventuallyVerified`, `EveryTaskAnswered` and `NothingLeft`, since liveness under
fairness needs `ENABLED`, which the prover does not handle (the two theorems on how
syncs come to an end prove that they do not go round in circles; that steps are taken
at all is what remains). All safety and action
properties and all four refinements of the passing runs are proved.

## Where the code and its documentation part

1. **A reported edit can be overwritten** (`reported_edit`). If a file is edited
   after planning, the check before the write reports `HUMAN-EDIT`, and the
   transaction that records it also stores the hash of the person's text as the
   last known one (`src/src/adapters/db/canonical.rs:265`). The next sync plans
   no conflict and replaces the text. `src/README.md:111` promises that a changed
   target is never silently overwritten. Edits that *planning* sees are safe
   (`PlannedConflictIsKept`), and no other human text is lost
   (`HumanTextIsKept`).
2. **fani's own write can be reported as a person's** (`reported_edit_is_human`).
   After a write that landed but was not settled, and a source that moved on, the
   next sync reports "target changed outside fani"
   (`src/src/application/sync/materialization.rs:206`). It takes an interruption:
   settled writes are safe (`OwnWriteIsNoConflict`), and until a command dies or a
   call fails every report is about a person's change (`UntroubledReportIsHuman`).
3. **`ok` does not mean up to date** (`ok_is_up_to_date`). A document whose effect
   is delayed or still leased is passed over without a finding, and the run ends
   `ok`. `src/README.md:99` says "Up to date, or completed and verified". The work
   is not lost (`OkIsMaterializedOrQueued`, `EventuallySettled`), and until a command
   dies or a call fails `ok` does mean up to date (`UntroubledOkIsUpToDate`).
4. **An adoption is undone by the next sync** (`adoption_reverted`). Every sync
   looks at the newest pull request, also one whose merge it has observed before,
   and promotes its content again (`src/src/application/sync/publication.rs:100`,
   `src/src/adapters/db/publication.rs:340`). A text adopted after the merge becomes
   history. `src/docs/best-practices.md:192` and `src/README.md:80` say that `adopt`
   makes it canonical trusted memory. Once adopted, it should be trusted until it
   is adopted anew or another pull request is merged. It takes a merge: before the
   first one adopted text stays trusted (`UnmergedAdoptionStands`).
5. **A sync replaces what was adopted** (`pipeline_adopted`). With a review stage
   on, the stored review of the earlier text keeps the planner from using the
   adopted one at the same source (`src/src/application/sync/planning.rs:127`); the
   stored translation is recovered, passes the review it once passed, and is
   written over the target. `src/docs/architecture/native-i18n.md:30` promises
   the opposite, and `src/tests/native_cli.rs:1878` tests it without a review stage.
   With both review stages on there is a further turn: if the revision replaces an
   adopted text, the proofreader's receipt is about the replacement, so the next
   sync drops the adopted text, asks the translator and may write a third one.
   It takes a review of the same run: without one that speaks against the adopted
   text, that text is what is let through (`AdoptedStands`).
6. **Concurrency is not used** (`concurrency`). Workers are started, take their
   tasks, and then make the attempts one worker at a time, as the call of the agent is
   the argument of a push into the locked results (`src/src/adapters/agent.rs:623`).
   `src/docs/best-practices.md:11` and `:139` speak of raising concurrency for
   throughput, provider limits and spend, and `src/examples/fani.toml:109` sets 4.
   What is bounded and cleaned up is so all the more (`OneAgentAtATime`,
   `SerialSpec`); a repair of this would have to see to sweeps, which rely on it.

One more has no run of its own, as `QueueDrains` states it as its exceptions:
`src/docs/architecture/native-i18n.md:153` says "Push and pull-request operations
have durable idempotency keys and reconciliation. [...] Uncertain delivery is queried
before retry." The query is for open requests. One that was created, not answered
for and merged is not found, and its row is retried by every sync; so is a row whose
commit changes nothing. Neither is ever settled, though what it was to deliver has
arrived.

## Not modelled

- Unit matching: `domain/matching.rs` matches units of two revisions by
  stable ids, hashes and positions. `Pipeline` assumes its result for units that
  keep their ids; ties, moves and splits are left out.
- Schema and migration: one transaction under a lease of its own, before any
  command works.
- Within the modelled parts: the wording of findings, events and timings;
  several documents in `Materialize`, for the reason given there; the checks an
  adopted target must pass; the rejection of a stored effect whose document has
  another intent (`DOCUMENT-INTENT`,
  `src/src/application/sync/materialization.rs:146`): the payload is taken to be
  the one the document recorded; symbolic links and other files that `apply`
  refuses; edits between its read and its rename; publication without push or
  without pull requests, and titles and bodies of these; the bytes of agents'
  requests and answers, and their limits; `status`, which only reads.
- Parsing of documents and configuration, discovery, reports, completions, release
  scripts: text and input/output without a protocol.

## Plan

`RepoLock`, `Outbox`, `Materialize`, `Publication`, `Pipeline` and `Agents`, the
abstract specifications `Turns`, `TargetFile`, `CandidateBranch` and `SerialBatch`,
and the proofs about them are done. What is left, in order of what it would add:

1. What liveness rests on, as action properties, for `Materialize` and `Agents` as
   it is done for `Publication` and `Pipeline`: each step of a running command or
   worker brings it closer to its end, so that only agents, clocks and people can
   hold it up.
2. Unit matching as operators, checked against a reference definition over bounded
   inputs; units that change their ids in `Pipeline`.
3. `Migration`: lease, backup, idle check, schema version, interruption.
4. The precedence of run statuses as an operator.
