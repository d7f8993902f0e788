---------------------------- MODULE Materialize ----------------------------
(***************************************************************************)
(* One translated file: its canonical row in the database, the durable     *)
(* effects that bring the file in line with that row, and the people who   *)
(* edit the file meanwhile.                                                *)
(*                                                                         *)
(* A command (sync, adopt, discard) is a sequence of separate transactions *)
(* and file accesses: between any two of them the file may be edited, the  *)
(* process may die or a call may fail.  Commands do not overlap: each one  *)
(* runs under the repository lock (module RepoLock).                       *)
(*                                                                         *)
(* A source stands for a revision's text of the source document (its       *)
(* mapping hash); contents are abstract and equal exactly when their       *)
(* hashes are.  Publication is not modelled here.                          *)
(*                                                                         *)
(* Sources: application/sync/{planning,preparation,materialization,        *)
(* reconciliation}.rs, application/sync.rs, adapters/materialize.rs and    *)
(* adapters/db/{canonical,workflows,effects}.rs, under src/src.            *)
(***************************************************************************)
EXTENDS Naturals

CONSTANTS
    Source,       \* texts of the source document
    Content,      \* texts of the target file
    Translation,  \* what the translation pipeline makes of each source
    NoText,       \* no text: no row, no file, no memory
    NoHash,       \* NULL
    Vanished,     \* the literal "missing", stored where a hash is expected
    MaxMoves,     \* bound: changes of the source
    MaxEdits,     \* bound: human changes of the target
    MaxChoices,   \* bound: adopt and discard commands
    MaxFaults,    \* bound: deaths, failed calls and unsuccessful pipelines
    EditsDuringRename  \* whether people edit between apply's read and rename

ASSUME MaterializeAssumption ==
    /\ Translation \in [Source -> Content]
    /\ NoText \notin Content
    /\ NoHash \notin Content \cup {Vanished}
    /\ Vanished \notin Content \cup {NoText}
    /\ {MaxMoves, MaxEdits, MaxChoices, MaxFaults} \subseteq Nat
    /\ EditsDuringRename \in BOOLEAN

VARIABLES
    source,    \* the source text at publish.source_ref
    waiting,   \* earlier texts, resolved by commands that wait for the lock
    target,    \* the file in the worktree
    canon,     \* the row of canonical_files
    memory,    \* trusted translation memory, by source
    drafted,   \* sources with a complete stored candidate translation
    rows,      \* materialization_outbox
    w,         \* the running command
    ok,        \* whether the last command was a sync that ended "ok"
    writer,    \* history: who changed the target last
    reported,  \* history: which stage reported the target as it is now
    told,      \* history: texts that the check before a write reported
    consent,   \* history: the target a person asked to discard
    budget     \* what is left of the bounds

vars == <<source, waiting, target, canon, memory, drafted, rows, w, ok,
          writer, reported, told, consent, budget>>

-----------------------------------------------------------------------------
(* Data.                                                                   *)

File == Content \cup {NoText}
Hash == Content \cup {NoHash, Vanished}

\* actual_hash of an Option<bytes>.
HashOf(file) == IF file = NoText THEN NoHash ELSE file

\* Dedupe keys without the parts that are fixed here; a discard names the
\* content version, which is a content at a source.
Effect == [op : {"materialize", "discard"}, content : Content, src : Source]

INSTANCE Outbox WITH Base <- Effect

Canonical == [content : Content, hash : Hash, src : Source,
              state : {"candidate", "materialized", "human_edit", "adopted"}]
NoCanon   == [content |-> NoText]

Idle == [pc |-> "idle", mode |-> "none", src |-> NoText, expected |-> NoHash,
         desired |-> NoText, seen |-> NoText, result |-> "none"]

Worker == [pc : {"idle", "planning", "drafting", "committing", "claiming",
                 "applying", "writing", "settling", "adopting", "discarding"},
           mode     : {"none", "sync", "adopt", "discard"},
           src      : Source \cup {NoText},
           expected : Hash,
           desired  : File,
           seen     : File,
           result   : {"none", "current", "human_edit", "vanished"}]

\* The row the command works on.
Key == [op |-> IF w.mode = "discard" THEN "discard" ELSE "materialize",
        content |-> w.desired, src |-> w.src]

HasCanon == canon # NoCanon

\* What a verified sync of s would materialize: exact trusted memory first.
Desired(s) == IF memory[s] # NoText THEN memory[s] ELSE Translation[s]

Init ==
    /\ source \in Source
    /\ waiting = {}
    /\ target \in File
    /\ canon = NoCanon
    /\ memory = [s \in Source |-> NoText]
    /\ drafted = {}
    /\ rows = [b \in Effect |-> NoRow]
    /\ w = Idle
    /\ ok = FALSE
    /\ writer = "human"
    /\ reported = "none"
    /\ told = {}
    /\ consent = NoText
    /\ budget = [moves |-> MaxMoves, edits |-> MaxEdits,
                 choices |-> MaxChoices, faults |-> MaxFaults]

Spend(what) == budget[what] > 0 /\ budget' = [budget EXCEPT ![what] = @ - 1]

\* The command is over.
Finish(verdict) == w' = Idle /\ ok' = verdict

-----------------------------------------------------------------------------
(* Sync: plan.                                                             *)

\* The payload of a discard does not decode as a materialization; one of a
\* materialization must belong to the source text that is current now.
Incompatible(s) == {b \in Live(rows) : b.op = "discard" \/ b.src # s}

\* preflight_repo resolves the source before the command has the lock: the
\* source may have moved on, and other commands may have run since.
Resolved(s) ==
    /\ s \in {source} \cup waiting
    /\ waiting' = waiting \ {s}

\* Retire incompatible effects, which fails when one still has a live owner.
SyncStart(s) ==
    /\ w = Idle
    /\ Resolved(s)
    /\ IF OwnedByLive(rows, Incompatible(s))
       THEN Finish(FALSE) /\ UNCHANGED rows
       ELSE /\ w' = [Idle EXCEPT !.pc = "planning", !.mode = "sync",
                                 !.src = s]
            /\ ok' = FALSE
            /\ rows' = Cancel(rows, Incompatible(s))
    /\ UNCHANGED <<source, target, canon, memory, drafted, writer, reported,
                   told, consent, budget>>

\* inspect_document: the target is neither the canonical content nor what
\* was last recorded of the file; or nobody knows it.
Diverges ==
    IF HasCanon
    THEN HashOf(target) \notin {canon.content, canon.hash}
    ELSE /\ target # NoText
         /\ w.src \in drafted => target # Desired(w.src)

\* Mutated form: the divergent hash is recorded with the report.
PlanConflictRecordingHash ==
    /\ w.pc = "planning"
    /\ Diverges
    /\ canon' = IF HasCanon THEN [canon EXCEPT !.hash = HashOf(target)]
                           ELSE canon
    /\ reported' = "plan"
    /\ Finish(FALSE)
    /\ UNCHANGED <<source, waiting, target, memory, drafted, rows, writer,
                   told, consent, budget>>

PlanConflict ==
    /\ w.pc = "planning"
    /\ Diverges
    /\ reported' = "plan"
    /\ Finish(FALSE)
    /\ UNCHANGED <<source, waiting, target, canon, memory, drafted, rows,
                   writer, told, consent, budget>>

PlanDocument ==
    /\ w.pc = "planning"
    /\ ~Diverges
    /\ w' = [w EXCEPT !.pc = "drafting",
                      !.expected = IF HasCanon THEN canon.hash ELSE NoHash]
    /\ UNCHANGED <<source, waiting, target, canon, memory, drafted, rows, ok,
                   writer, reported, told, consent, budget>>

-----------------------------------------------------------------------------
(* Sync: translate, commit the canonical bytes and their effect.           *)

\* Translation, repair, review and verification end without a verified
\* document: findings, units left for a later batch, or an error.
PipelineStops ==
    /\ w.pc = "drafting"
    /\ Spend("faults")
    /\ Finish(FALSE)
    /\ UNCHANGED <<source, waiting, target, canon, memory, drafted, rows,
                   writer, reported, told, consent>>

\* The document is verified; materialize reads the target on its own.
Draft ==
    /\ w.pc = "drafting"
    /\ drafted' = drafted \cup {w.src}
    /\ w' = [w EXCEPT !.pc = "committing", !.desired = Desired(w.src),
                      !.seen = target]
    /\ UNCHANGED <<source, waiting, target, canon, memory, rows, ok, writer,
                   reported, told, consent, budget>>

\* Mutated form: bytes that were current before are taken for current.
AlreadyInPlaceUnseen(key) == rows[key].state = "done"

\* The effect was settled before and the target was seen to be right.
AlreadyInPlace(key) == rows[key].state = "done" /\ w.seen = key.content

\* persist_canonical_document resets the state of the row.
NewCanon == [content |-> w.desired, hash |-> w.expected, src |-> w.src,
             state |-> "candidate"]

CommitInPlace ==
    /\ w.pc = "committing"
    /\ AlreadyInPlace(Key)
    /\ canon' = [NewCanon EXCEPT !.state = "materialized", !.hash = w.desired]
    /\ reported' = "none"
    /\ Finish(TRUE)
    /\ UNCHANGED <<source, waiting, target, memory, drafted, rows, writer, told,
                   consent, budget>>

Commit ==
    /\ w.pc = "committing"
    /\ ~AlreadyInPlace(Key)
    /\ ~OwnedByLive(rows, Effect \ {Key})
    /\ canon' = NewCanon
    /\ rows' = Schedule(rows, Key, NoHash)
    /\ w' = [w EXCEPT !.pc = "claiming", !.seen = NoText]
    /\ UNCHANGED <<source, waiting, target, memory, drafted, ok, writer,
                   reported, told, consent, budget>>

\* An older effect on the path is still owned: nothing is committed.
CommitRefused ==
    /\ w.pc = "committing"
    /\ ~AlreadyInPlace(Key)
    /\ OwnedByLive(rows, Effect \ {Key})
    /\ Finish(FALSE)
    /\ UNCHANGED <<source, waiting, target, canon, memory, drafted, rows,
                   writer, reported, told, consent, budget>>

-----------------------------------------------------------------------------
(* Sync: claim the effect, apply it, settle it.                            *)
(* Its stored payload is taken to be the one that the document recorded.   *)

ClaimEffect ==
    /\ w.pc = "claiming"
    /\ Claimable(rows, Key)
    /\ rows' = Claim(rows, Key)
    /\ w' = [w EXCEPT !.pc = "applying"]
    /\ UNCHANGED <<source, waiting, target, canon, memory, drafted, ok, writer,
                   reported, told, consent, budget>>

\* Mutated form: an effect that is not available is given up.
SkipEffectAndDropIt ==
    /\ w.pc = "claiming"
    /\ ~Claimable(rows, Key)
    /\ rows' = Complete(rows, Key)
    /\ Finish(TRUE)
    /\ UNCHANGED <<source, waiting, target, canon, memory, drafted, writer,
                   reported, told, consent, budget>>

\* Somebody holds the effect, or it is not due yet: the document is passed
\* over without a finding.
SkipEffect ==
    /\ w.pc = "claiming"
    /\ ~Claimable(rows, Key)
    /\ Finish(TRUE)
    /\ UNCHANGED <<source, waiting, target, canon, memory, drafted, rows,
                   writer, reported, told, consent, budget>>

\* Mutated form: the check made when planning is relied on.
ApplyReadTrustingPlan ==
    /\ w.pc = "applying"
    /\ w' = IF target = w.desired
            THEN [w EXCEPT !.pc = "settling", !.result = "current"]
            ELSE [w EXCEPT !.pc = "writing"]
    /\ UNCHANGED <<source, waiting, target, canon, memory, drafted, rows, ok,
                   writer, reported, told, consent, budget>>

\* The first half of apply, for a materialization and for a discard: the
\* file is read and compared, first with the desired bytes, then with the
\* expected hash.
ApplyRead ==
    /\ w.pc = "applying"
    /\ w' = CASE target = w.desired ->
                   [w EXCEPT !.pc = "settling", !.result = "current"]
              [] target # w.desired /\ HashOf(target) = w.expected ->
                   [w EXCEPT !.pc = "writing"]
              [] OTHER ->
                   [w EXCEPT !.pc = "settling", !.seen = target,
                             !.result = IF target = NoText THEN "vanished"
                                                           ELSE "human_edit"]
    /\ UNCHANGED <<source, waiting, target, canon, memory, drafted, rows, ok,
                   writer, reported, told, consent, budget>>

\* write_atomic: the new file is renamed over the old one.
ApplyWrite ==
    /\ w.pc = "writing"
    /\ target' = w.desired
    /\ writer' = "fani"
    /\ reported' = "none"
    /\ w' = [w EXCEPT !.pc = "settling", !.result = "current"]
    /\ UNCHANGED <<source, waiting, canon, memory, drafted, rows, ok, told,
                   consent, budget>>

\* write_atomic fails, before or after the rename.
ApplyFails ==
    /\ w.pc = "writing"
    /\ Spend("faults")
    /\ \/ target' = w.desired /\ writer' = "fani" /\ reported' = "none"
       \/ UNCHANGED <<target, writer, reported>>
    /\ rows' = IF w.mode = "sync" THEN Retry(rows, Key) ELSE rows
    /\ Finish(FALSE)
    /\ UNCHANGED <<source, waiting, canon, memory, drafted, told, consent>>

\* fani has recorded the file it wrote as its own.
Recorded == IF writer = "fani" THEN "recorded" ELSE writer

\* Mutated form: the recorded hash is not brought up to date.
SettleMaterializedWithoutHash ==
    /\ w.pc = "settling" /\ w.mode = "sync" /\ w.result = "current"
    /\ canon' = [canon EXCEPT !.state = "materialized"]
    /\ rows' = Complete(rows, Key)
    /\ writer' = Recorded
    /\ reported' = "none"
    /\ Finish(TRUE)
    /\ UNCHANGED <<source, waiting, target, memory, drafted, told, consent,
                   budget>>

\* The file was found to be, or made, the verified text.
SettleMaterialized ==
    /\ w.pc = "settling" /\ w.mode = "sync" /\ w.result = "current"
    /\ canon' = [canon EXCEPT !.state = "materialized", !.hash = w.desired]
    /\ rows' = Complete(rows, Key)
    /\ writer' = Recorded
    /\ reported' = "none"
    /\ Finish(TRUE)
    /\ UNCHANGED <<source, waiting, target, memory, drafted, told, consent,
                   budget>>

\* Mutated form: a vanished target has no word of its own.
SettleHumanEditByHashOnly ==
    /\ w.pc = "settling" /\ w.mode = "sync" /\ w.result # "current"
    /\ canon' = [canon EXCEPT !.state = "human_edit", !.hash = w.seen]
    /\ rows' = Complete(rows, Key)
    /\ told' = told \cup {w.seen}
    /\ reported' = IF target = w.seen THEN "apply" ELSE reported
    /\ Finish(FALSE)
    /\ UNCHANGED <<source, waiting, target, memory, drafted, writer,
                   consent, budget>>

\* The target differs from what was planned: it is left alone, reported, and
\* its hash is recorded.
SettleHumanEdit ==
    /\ w.pc = "settling" /\ w.mode = "sync" /\ w.result # "current"
    /\ canon' = [canon EXCEPT !.state = "human_edit",
                              !.hash = IF w.result = "vanished" THEN Vanished
                                                                ELSE w.seen]
    /\ rows' = Complete(rows, Key)
    /\ told' = told \cup {w.seen}
    /\ reported' = IF target = w.seen THEN "apply" ELSE reported
    /\ Finish(FALSE)
    /\ UNCHANGED <<source, waiting, target, memory, drafted, writer,
                   consent, budget>>

-----------------------------------------------------------------------------
(* Adopt: the target as a person left it becomes canonical and trusted.    *)

\* The bytes are read once, for validation and for the commit.
AdoptStart(s) ==
    /\ w = Idle
    /\ HasCanon /\ target # NoText
    /\ Resolved(s)
    /\ Spend("choices")
    /\ w' = [Idle EXCEPT !.pc = "adopting", !.mode = "adopt", !.src = s,
                         !.seen = target]
    /\ ok' = FALSE
    /\ UNCHANGED <<source, target, canon, memory, drafted, rows, writer,
                   reported, told, consent>>

\* The target fails validation or the configured documentation checks.
AdoptRejected ==
    /\ w.pc = "adopting"
    /\ Finish(FALSE)
    /\ UNCHANGED <<source, waiting, target, canon, memory, drafted, rows,
                   writer, reported, told, consent, budget>>

\* adopt_document; effects that are still live are left as they are.
AdoptCommit ==
    /\ w.pc = "adopting"
    /\ canon' = [content |-> w.seen, hash |-> w.seen, src |-> w.src,
                 state |-> "adopted"]
    /\ memory' = [memory EXCEPT ![w.src] = w.seen]
    /\ IF target = w.seen
       THEN writer' = "recorded" /\ reported' = "none"
       ELSE UNCHANGED <<writer, reported>>
    /\ Finish(FALSE)
    /\ UNCHANGED <<source, waiting, target, drafted, rows, told, consent,
                   budget>>

-----------------------------------------------------------------------------
(* Discard: the target goes back to the canonical content.                 *)

\* The canonical row and the target are read.
DiscardStart ==
    /\ w = Idle
    /\ HasCanon
    /\ Spend("choices")
    /\ w' = [Idle EXCEPT !.pc = "discarding", !.mode = "discard",
                         !.src = canon.src, !.desired = canon.content,
                         !.seen = target]
    /\ ok' = FALSE
    /\ UNCHANGED <<source, waiting, target, canon, memory, drafted, rows,
                   writer, reported, told, consent>>

\* Mutated form: the hash observed by this command is expected, whatever
\* the row of an interrupted discard says.
BeginDiscardOnWhatIsSeen ==
    /\ w.pc = "discarding"
    /\ ~OwnedByLive(rows, Effect \ {Key})
    /\ rows' = Schedule(rows, Key, HashOf(w.seen))
    /\ w' = [w EXCEPT !.pc = "applying", !.expected = HashOf(w.seen),
                      !.seen = NoText]
    /\ consent' = IF Key \in Live(rows) THEN consent ELSE w.seen
    /\ UNCHANGED <<source, waiting, target, canon, memory, drafted, ok, writer,
                   reported, told, budget>>

\* begin_discard: the intent is recorded with the observed hash; the row of
\* an interrupted discard keeps the hash observed then.
BeginDiscard ==
    /\ w.pc = "discarding"
    /\ ~OwnedByLive(rows, Effect \ {Key})
    /\ rows' = Schedule(rows, Key, HashOf(w.seen))
    /\ w' = [w EXCEPT !.pc = "applying", !.expected = rows'[Key].expects,
                      !.seen = NoText]
    /\ consent' = IF Key \in Live(rows) THEN consent ELSE w.seen
    /\ UNCHANGED <<source, waiting, target, canon, memory, drafted, ok, writer,
                   reported, told, budget>>

\* An older effect is still owned, or apply found another target: the error
\* leaves the row, if there is one, pending.
DiscardRefused ==
    /\ \/ w.pc = "discarding" /\ OwnedByLive(rows, Effect \ {Key})
       \/ w.pc = "settling" /\ w.mode = "discard" /\ w.result # "current"
    /\ Finish(FALSE)
    /\ UNCHANGED <<source, waiting, target, canon, memory, drafted, rows,
                   writer, reported, told, consent, budget>>

\* complete_discard: the row was never claimed.
CompleteDiscard ==
    /\ w.pc = "settling" /\ w.mode = "discard" /\ w.result = "current"
    /\ rows[Key].state = "pending"
    /\ canon' = [canon EXCEPT !.state = "materialized", !.hash = w.desired]
    /\ rows' = Complete(rows, Key)
    /\ writer' = Recorded
    /\ reported' = "none"
    /\ Finish(FALSE)
    /\ UNCHANGED <<source, waiting, target, memory, drafted, told, consent,
                   budget>>

-----------------------------------------------------------------------------
(* The world around the command.                                           *)

\* The process dies, or a call fails and the command gives up.
CommandStops ==
    /\ w # Idle
    /\ Spend("faults")
    /\ rows' = Left(rows)
    /\ Finish(FALSE)
    /\ UNCHANGED <<source, waiting, target, canon, memory, drafted, writer,
                   reported, told, consent>>

MoveSource(s) ==
    /\ s # source
    /\ Spend("moves")
    /\ source' = s
    /\ waiting' \in {waiting, waiting \cup {source}}
    /\ UNCHANGED <<target, canon, memory, drafted, rows, w, ok, writer,
                   reported, told, consent>>

\* Somebody writes, restores or removes the target.
HumanEdit(file) ==
    /\ file # target
    /\ w.pc = "writing" => EditsDuringRename
    /\ Spend("edits")
    /\ target' = file
    /\ writer' = "human"
    /\ reported' = "none"
    /\ UNCHANGED <<source, waiting, canon, memory, drafted, rows, w, ok, told,
                   consent>>

\* The process that left a row processing is no longer shown by /proc.
OwnerGone(b) ==
    /\ rows[b].owner = "visible"
    /\ rows' = [rows EXCEPT ![b].owner = "gone"]
    /\ UNCHANGED <<source, waiting, target, canon, memory, drafted, w, ok,
                   writer, reported, told, consent, budget>>

LeaseExpires(b) ==
    /\ rows[b].state = "processing" /\ ~rows[b].expired
    /\ rows' = [rows EXCEPT ![b].expired = TRUE]
    /\ UNCHANGED <<source, waiting, target, canon, memory, drafted, w, ok,
                   writer, reported, told, consent, budget>>

RetryDue(b) ==
    /\ rows[b].delayed
    /\ rows' = [rows EXCEPT ![b].delayed = FALSE]
    /\ UNCHANGED <<source, waiting, target, canon, memory, drafted, w, ok,
                   writer, reported, told, consent, budget>>

SyncStep ==
    \/ PlanConflict \/ PlanDocument \/ Draft
    \/ CommitInPlace \/ Commit \/ CommitRefused
    \/ ClaimEffect \/ SkipEffect \/ SettleMaterialized \/ SettleHumanEdit

ApplyStep   == ApplyRead \/ ApplyWrite
AdoptStep   == AdoptRejected \/ AdoptCommit
DiscardStep == BeginDiscard \/ DiscardRefused \/ CompleteDiscard

Fault == PipelineStops \/ ApplyFails \/ CommandStops

Person ==
    \/ \E s \in Source : AdoptStart(s) \/ MoveSource(s)
    \/ DiscardStart
    \/ \E file \in File : HumanEdit(file)

Clock == \E b \in Effect : OwnerGone(b) \/ LeaseExpires(b) \/ RetryDue(b)

Next ==
    \/ \E s \in Source : SyncStart(s)
    \/ SyncStep \/ ApplyStep \/ AdoptStep \/ DiscardStep
    \/ Fault \/ Person \/ Clock

Spec == Init /\ [][Next]_vars

\* Sync is run again and again, whatever else is run in between; a running
\* command goes on; owners go, leases expire and delays pass.
Fairness ==
    /\ SF_vars(\E s \in Source : SyncStart(s))
    /\ WF_vars(SyncStep \/ ApplyStep \/ AdoptStep \/ DiscardStep)
    /\ WF_vars(\E b \in Effect : OwnerGone(b))
    /\ WF_vars(\E b \in Effect : LeaseExpires(b))
    /\ WF_vars(\E b \in Effect : RetryDue(b))

FairSpec == Spec /\ Fairness

-----------------------------------------------------------------------------
(* Properties.                                                             *)

TypeOK ==
    /\ source   \in Source
    /\ waiting  \subseteq Source
    /\ target   \in File
    /\ canon    \in Canonical \cup {NoCanon}
    /\ memory   \in [Source -> File]
    /\ drafted  \subseteq Source
    /\ rows     \in [Effect -> Row]
    /\ w        \in Worker
    /\ ok       \in BOOLEAN
    /\ writer   \in {"human", "fani", "recorded"}
    /\ reported \in {"none", "plan", "apply"}
    /\ told     \subseteq File
    /\ consent  \in File
    /\ budget   \in [{"moves", "edits", "choices", "faults"} -> Nat]

\* A step in which a command of this kind replaces the target.
FaniWrites(mode) == w.mode = mode /\ target' # target /\ writer' = "fani"

\* Translations, adopted texts, and no text at all.
KnownTexts == {NoText} \cup UNION {{Translation[s], memory[s]} : s \in Source}

\* Whatever commands were interrupted, at most one effect on the path is
\* live, so no older intent can be picked up after a newer one.
AtMostOneLiveEffect ==
    \A a, b \in Live(rows) : a = b

\* A canonical row that says "materialized" tells the truth: unless people
\* changed the file since, the file holds exactly the canonical content.
MaterializedIsTrue ==
    HasCanon /\ canon.state = "materialized" /\ writer # "human" =>
        target = canon.content

\* A sync that ends "ok" has materialized the document or leaves an effect
\* that a later sync of this source will find and complete.
OkIsMaterializedOrQueued ==
    ok =>
        \/ canon.state = "materialized"
        \/ [op |-> "materialize", content |-> canon.content, src |-> canon.src]
               \in Live(rows)

\* Once planning reported a target as a human edit, no sync overwrites it,
\* not even one that planned from another source text: only a further edit,
\* adopt, discard, or a sync whose own verified text the file turns out to
\* hold ends that.
PlannedConflictIsKept ==
    [][FaniWrites("sync") => reported # "plan"]_vars

\* Text that only people have written, and that nobody adopted, is not
\* overwritten by a sync, however late it is written, unless the check before
\* a write has reported that text before (see ReportedEditIsKept).
HumanTextIsKept ==
    [][FaniWrites("sync") => target \in KnownTexts \cup told]_vars

\* A file whose last write fani recorded is never reported as a human edit,
\* through any interleaving of source changes, interruptions and retries.
OwnWriteIsNoConflict ==
    [][reported' # reported /\ reported' # "none" => writer # "recorded"]_vars

\* A discard, however often interrupted and run again, overwrites only the
\* target that was seen when the discard was first recorded.
DiscardOnlyWhatWasSeen ==
    [][FaniWrites("discard") => target = consent]_vars

\* What the row of a live effect would have a command do to the file.
IntentOf(b) ==
    [text |-> b.content,
     from |-> IF b.op = "discard" THEN rows[b].expects
              ELSE IF HasCanon THEN canon.hash ELSE NoHash]

\* Seen from the file: commands write only what a row on record says, over
\* only what that row replaces, and the row survives the write.
Outside == INSTANCE TargetFile WITH
    file    <- HashOf(target),
    edits   <- MaxEdits - budget.edits,
    intents <- {IntentOf(b) : b \in Live(rows)}

FileSpec == Outside!Spec

\* In the end the file holds what the source and the trusted memory call
\* for, or the planner keeps asking for adopt or discard.
Current  == target = Desired(source)
Disputed == HasCanon /\ HashOf(target) \notin {canon.content, canon.hash}
Untracked == ~HasCanon /\ target # NoText

EventuallySettled == <>[](Current \/ Disputed \/ Untracked)

-----------------------------------------------------------------------------
(* What the documentation says and the code does not keep.                 *)

\* README: a changed target is never silently overwritten.
ReportedEditIsKept ==
    [][FaniWrites("sync") => reported = "none"]_vars

\* A target is reported as changed outside fani only if somebody changed it.
ReportedEditIsHuman ==
    [][reported' # reported /\ reported' # "none" => writer = "human"]_vars

\* README: exit 0 means up to date, or completed and verified.
OkIsUpToDate ==
    ok => canon.state = "materialized"
=============================================================================
