-------------------------- MODULE PublicationProofs --------------------------
(***************************************************************************)
(* Proofs about Publication, for any documents, texts, drafts and bounds.  *)
(*                                                                         *)
(* The steps between claiming a row and settling it rest on what earlier   *)
(* steps of the same sync ascertained, and everything but the row may have *)
(* changed since.  What still holds is the invariant: the row is still in  *)
(* processing and fits the revision of the run (RowInv), a commit that is  *)
(* about to be settled has been on the branch, and the tip of the branch   *)
(* is always among what was delivered (HostInv).  Rows says what the       *)
(* transactions keep of the outbox and the content versions.  On top of it *)
(* the batches of one source only grow (Growth), by which a commit that    *)
(* changes something tells its files.                                      *)
(*                                                                         *)
(* The outbox changes in three ways: quietly, where nothing but owner,     *)
(* delay, tries and waiting changes (QuietKeeps); in one row and the       *)
(* content of its manifest (PutKeeps, MergedKeeps); and by a new row       *)
(* (ScheduleKeeps).  Every action is one of these (OutboxStep).            *)
(***************************************************************************)
EXTENDS Publication, FiniteSetTheorems, NaturalsInduction, WellFoundedInduction, TLAPS

-----------------------------------------------------------------------------
(* Data.                                                                   *)

USE PublicationAssumption, CommitAssumption

LEMMA DocumentsAre ==
    \A b : Documents(b) \subseteq Doc /\ IsFiniteSet(Documents(b))
BY DocAssumption, FS_Subset DEF Documents

LEMMA CommitType == \A b \in Batch : CommitOf(b) \in Commit
<1> SUFFICES ASSUME NEW b \in Batch PROVE CommitOf(b) \in Commit
  OBVIOUS
<1>1. b.base \in Revision /\ b.base.tree \in Tree /\ b.files \in Tree
  BY DEF Batch, Revision
<1>2. TreeOf(b) \in Tree
  BY <1>1 DEF TreeOf, Tree
<1>3. Cardinality(Documents(b)) \in Nat
  BY DocumentsAre, FS_CardinalityType
<1> QED
  BY <1>1, <1>2, <1>3 DEF Commit, CommitOf

\* A commit names its revision, and where it is bound to files, its batch.
LEMMA SameBatch ==
    \A a, b \in Batch :
        CommitOf(a) = CommitOf(b) /\ a.files = b.files => a = b
BY DEF Batch, CommitOf

LEMMA RowType ==
    \A r \in Row :
        /\ r.batch \in Batch /\ r.tip \in Tip /\ r.manifest \in Manifest
        /\ r.state \in {"pending", "processing", "done"}
        /\ r.prepared \in BOOLEAN /\ r.rejected \in BOOLEAN
        /\ CommitOf(r.batch) \in Commit
BY CommitType DEF Row

LEMMA FreshType == \A b \in Batch : Fresh(b) \in Row
BY DEF Fresh, Row, Tip, Manifest

LEMMA LeftType ==
    \A r \in Row :
        IF r.owner = "worker" THEN [r EXCEPT !.owner = "visible"] \in Row
                              ELSE r \in Row
BY DEF Row

LEMMA AdvanceType ==
    \A m \in Manifest :
        /\ \A s \in Manifest : Advance(m, s) \in Manifest
        /\ \A s \in Manifest : Advance(m, s) = "none" => m = "none"
        /\ \A s : Advance("none", s) = "none"
        /\ \A s : m \in {"merged", "superseded"} => Advance(m, s) = m
        /\ Advance(m, "none") = m
BY DEF Advance, Rank, Manifest

LEMMA Largest ==
    ASSUME NEW S \in SUBSET Nat, S # {}, NEW k \in Nat, \A s \in S : s <= k
    PROVE  \E m \in S : \A s \in S : s <= m
<1> DEFINE T == {k - s : s \in S}
<1>0. \A s \in S : s \in Nat /\ k - s \in Nat
  <2> SUFFICES ASSUME NEW s \in S PROVE s \in Nat /\ k - s \in Nat
    OBVIOUS
  <2>1. s \in Nat /\ s <= k
    OBVIOUS
  <2> QED
    BY <2>1
<1>1. T \subseteq Nat /\ T # {}
  <2>1. PICK s \in S : k - s \in T
    OBVIOUS
  <2> QED
    BY <1>0, <2>1
<1>2. PICK x \in T : \A y \in T : ~(<<y, x>> \in OpToRel(<, Nat))
  BY <1>1, NatLessThanWellFounded, WFMin
<1>3. \A y \in T : x <= y
  <2> SUFFICES ASSUME NEW y \in T PROVE x <= y
    OBVIOUS
  <2>1. y \in Nat /\ x \in Nat
    BY <1>1
  <2>2. ~(y < x)
    BY <1>2, <2>1 DEF OpToRel
  <2> QED
    BY <2>1, <2>2
<1>4. PICK m \in S : x = k - m
  BY <1>2
<1>5. \A s \in S : k - m <= k - s
  BY <1>3, <1>4
<1> QED
  BY <1>0, <1>4, <1>5

LEMMA NewestIs ==
    ASSUME outbox \in Seq(Row), NEW I \in SUBSET Ids, I # {}
    PROVE  Newest(I) \in I /\ \A j \in I : j <= Newest(I)
<1>1. I \in SUBSET Nat /\ \A i \in I : i <= Len(outbox)
  BY DEF Ids
<1>2. \E m \in I : \A j \in I : j <= m
  <2>1. Len(outbox) \in Nat
    OBVIOUS
  <2> QED
    BY <1>1, <2>1, Largest
<1>3. \E m \in I : \A j \in I : m >= j
  BY <1>1, <1>2
<1>4. Newest(I) \in I /\ \A j \in I : Newest(I) >= j
  BY <1>3 DEF Newest
<1> QED
  BY <1>1, <1>4

\* The manifest that is promoted is one that binds the commit.
LEMMA ManifestOfIs ==
    ASSUME outbox \in Seq(Row), NEW c, Snapshot(c)
    PROVE  /\ ManifestOf(c) \in Ids /\ Live(ManifestOf(c))
           /\ CommitOf(outbox[ManifestOf(c)].batch) = c
<1> DEFINE B == {j \in Binding(c) : Live(j)}
           M == {j \in B : outbox[j].manifest = "merged"}
           Best(i) == \A j \in B :
               \/ outbox[i].manifest = "merged" /\ outbox[j].manifest # "merged"
               \/ /\ outbox[i].manifest = "merged" <=> outbox[j].manifest = "merged"
                  /\ i >= j
<1>1. B \subseteq Ids /\ B # {} /\ M \subseteq Ids
  BY DEF Snapshot, Binding
<1>2. Ids \subseteq Nat
  BY DEF Ids
<1>3. \E i \in B : Best(i)
  <2>1. CASE M # {}
    <3>1. Newest(M) \in M /\ \A j \in M : j <= Newest(M)
      BY <1>1, <2>1, NewestIs
    <3>2. \A j \in M : Newest(M) >= j
      BY <1>1, <1>2, <3>1
    <3>3. Best(Newest(M))
      BY <3>1, <3>2
    <3> QED
      BY <3>1, <3>3
  <2>2. CASE M = {}
    <3>1. Newest(B) \in B /\ \A j \in B : j <= Newest(B)
      BY <1>1, NewestIs
    <3>2. \A j \in B : Newest(B) >= j
      BY <1>1, <1>2, <3>1
    <3>3. Best(Newest(B))
      BY <2>2, <3>1, <3>2
    <3> QED
      BY <3>1, <3>3
  <2> QED
    BY <2>1, <2>2
<1>4. ManifestOf(c) = CHOOSE i \in B : Best(i)
  BY DEF ManifestOf
<1> HIDE DEF Best, B
<1>5. ManifestOf(c) \in B
  BY <1>3, <1>4
<1> QED
  BY <1>1, <1>5 DEF B, Binding

\* Manifests about a content version.
States(v, rows) ==
    {rows[i].manifest : i \in {j \in DOMAIN rows : rows[j].manifest # "none"
                                       /\ v \in VersionsOf(rows[j].batch)}}

LEMMA StrengthIs ==
    /\ \A m \in Manifest : Strength(m) \in Nat /\ Strength(m) <= 5
    /\ \A m, n \in Manifest : Strength(m) = Strength(n) => m = n
    /\ \A m \in Manifest : Strength("merged") >= Strength(m)
<1>1. /\ Strength("merged") = 5 /\ Strength("pr_open") = 4
      /\ Strength("push_pending") = 3 /\ Strength("commit_created") = 2
      /\ Strength("superseded") = 1 /\ Strength("none") = 0
  BY DEF Strength
<1> QED
  BY <1>1 DEF Manifest

LEMMA StrongestIs ==
    ASSUME NEW v, NEW rows \in Seq(Row), States(v, rows) # {}
    PROVE  /\ Strongest(v, rows) \in States(v, rows)
           /\ \A n \in States(v, rows) :
                Strength(Strongest(v, rows)) >= Strength(n)
<1> DEFINE A == States(v, rows)
           S == {Strength(m) : m \in A}
<1>1. A \subseteq Manifest
  BY RowType DEF States
<1>2. S \in SUBSET Nat /\ S # {} /\ \A s \in S : s <= 5
  BY <1>1, StrengthIs
<1>3. \E m \in S : \A s \in S : s <= m
  <2> HIDE DEF S
  <2> QED
    BY <1>2, Largest
<1>4. \E m \in A : \A n \in A : Strength(m) >= Strength(n)
  BY <1>1, <1>3, StrengthIs
<1>5. Strongest(v, rows) = CHOOSE m \in A : \A n \in A : Strength(m) >= Strength(n)
  BY DEF Strongest, States
<1> HIDE DEF A
<1>6. /\ Strongest(v, rows) \in A
      /\ \A n \in A : Strength(Strongest(v, rows)) >= Strength(n)
  BY <1>4, <1>5
<1> QED
  BY <1>6 DEF A

-----------------------------------------------------------------------------
(* The invariant.                                                          *)

\* Where the running sync is, and where it works on a row.
Label == {"idle", "observing", "claiming", "working", "scheduling", "checking",
          "preparing", "persisting", "pushing", "sending", "opening",
          "settling"}
AtRow == {"checking", "preparing", "persisting", "pushing", "sending",
          "opening", "settling"}

Running == [pc : Label, stage : {"none", "recovery", "publish"},
          run : Revision \cup {NoRun}, files : Tree, own : BOOLEAN,
          id : Nat, pull : Nat, published : BOOLEAN]

Types ==
    /\ source \in Revision
    /\ outbox \in Seq(Row)
    /\ line \in Seq(Ids)
    /\ shown = [v \in DOMAIN shown |-> shown[v]]
    /\ memory \in [Doc -> [Text -> File]]
    /\ complete \subseteq Doc \X Text
    /\ local \in Commit \cup {NoCommit}
    /\ remote \in Tip
    /\ pulls \in Seq(Pull)
    /\ \A n \in DOMAIN pulls : pulls[n].head # NoCommit
    /\ \/ stored = NoPull
       \/ stored.number \in DOMAIN pulls /\ stored.head \in Commit
    /\ w \in Running
    /\ w.id \in Ids \cup {0}
    /\ w.pc # "idle" => w.run \in Revision
    /\ delivered \subseteq Commit
    /\ adopted \in [Doc -> [Text -> File]]
    /\ budget \in [{"moves", "choices", "faults"} -> Nat]

\* What has been ascertained of the row the sync works on.
RowInv ==
    /\ w.pc \in AtRow => w.id \in Ids /\ row.state = "processing"
    /\ w.pc \in AtRow \ {"checking"} => Fits(row.batch, w.run)
    /\ w.pc \in {"pushing", "sending", "opening", "settling"} =>
           row.prepared /\ row.manifest # "none"

\* What has been ascertained of branch and pull request.
HostInv ==
    /\ w.pc = "sending" => local = commit
    /\ w.pc \in {"opening", "settling"} => commit \in delivered
    /\ w.pc = "settling" => w.pull \in DOMAIN pulls
    /\ remote \in Commit => remote \in delivered

ShownInv ==
    \A v \in DOMAIN shown :
        /\ shown[v] \in States(v, outbox)
        /\ \A n \in States(v, outbox) : Strength(shown[v]) >= Strength(n)

\* One batch of those with the same commit is authorized.
OneAuthorizedFileSet ==
    \A i, j \in Ids :
        /\ outbox[i].manifest # "none" /\ outbox[j].manifest # "none"
        /\ CommitOf(outbox[i].batch) = CommitOf(outbox[j].batch)
        => outbox[i].batch = outbox[j].batch

Rows == /\ ShownInv /\ OneAuthorizedFileSet /\ SettledWasDelivered
        /\ PublishedOnce

IInv == Types /\ RowInv /\ HostInv /\ Rows /\ TrustedByPeople

-----------------------------------------------------------------------------
(* Steps of the outbox.                                                    *)

\* Nothing but owner, delay, tries and the state before "done" changes.
Same(i) ==
    /\ outbox'[i].batch = outbox[i].batch
    /\ outbox'[i].prepared = outbox[i].prepared
    /\ outbox'[i].tip = outbox[i].tip
    /\ outbox'[i].rejected = outbox[i].rejected
    /\ outbox'[i].manifest = outbox[i].manifest
    /\ outbox'[i].state = "done" <=> outbox[i].state = "done"

Becomes(i) ==
    /\ outbox'[i].batch = outbox[i].batch
    /\ outbox[i].state = "done" => outbox'[i].state = "done"
    /\ outbox[i].rejected => outbox'[i].rejected
    /\ outbox[i].manifest = "superseded" => outbox'[i].manifest = "superseded"
    /\ outbox'[i].state = "done" /\ ~outbox'[i].rejected =>
           \/ outbox[i].state = "done" /\ ~outbox[i].rejected
           \/ CommitOf(outbox[i].batch) \in delivered'

LEMMA OnceKeeps ==
    ASSUME outbox \in Seq(Row), PublishedOnce,
           DOMAIN outbox' = DOMAIN outbox, \A i \in Ids : Becomes(i)
    PROVE  PublishedOnce'
BY DEF PublishedOnce, Becomes, Ids

LEMMA SettledKeeps ==
    ASSUME outbox \in Seq(Row), SettledWasDelivered, delivered \subseteq delivered',
           DOMAIN outbox' = DOMAIN outbox, \A i \in Ids : Becomes(i)
    PROVE  SettledWasDelivered'
BY DEF SettledWasDelivered, Becomes, Ids

LEMMA FilesKeep ==
    ASSUME outbox \in Seq(Row), OneAuthorizedFileSet,
           DOMAIN outbox' = DOMAIN outbox,
           \A i \in Ids :
               /\ outbox'[i].batch = outbox[i].batch
               /\ outbox'[i].manifest # "none" => outbox[i].manifest # "none"
    PROVE  OneAuthorizedFileSet'
BY DEF OneAuthorizedFileSet, Ids

LEMMA ShownKeeps ==
    ASSUME outbox \in Seq(Row), ShownInv, UNCHANGED shown,
           DOMAIN outbox' = DOMAIN outbox,
           \A i \in Ids : /\ outbox'[i].batch = outbox[i].batch
                          /\ outbox'[i].manifest = outbox[i].manifest
    PROVE  ShownInv'
<1>1. \A v : States(v, outbox)' = States(v, outbox)
  BY DEF States, Ids
<1> QED
  BY <1>1 DEF ShownInv

LEMMA RefreshKeeps ==
    ASSUME outbox \in Seq(Row), outbox' \in Seq(Row), ShownInv,
           DOMAIN outbox' = DOMAIN outbox, NEW k \in Ids,
           \A i \in Ids : outbox'[i].batch = outbox[i].batch,
           \A i \in Ids \ {k} : outbox'[i].manifest = outbox[i].manifest,
           outbox[k].manifest = "merged" => outbox'[k].manifest = "merged",
           outbox'[k].manifest # "none",
           shown' = Refresh(k, outbox')
    PROVE  ShownInv' /\ shown' = [v \in DOMAIN shown' |-> shown'[v]]
<1> DEFINE V == VersionsOf(outbox[k].batch)
<1>0. VersionsOf(outbox'[k].batch) = V
  OBVIOUS
<1>1. /\ DOMAIN shown' = DOMAIN shown \cup V
      /\ shown' = [v \in DOMAIN shown' |-> shown'[v]]
      /\ \A v \in DOMAIN shown' :
            shown'[v] = IF v \in V /\ (v \in DOMAIN shown => shown[v] # "merged")
                        THEN Strongest(v, outbox') ELSE shown[v]
  BY <1>0 DEF Refresh
<1> SUFFICES ASSUME NEW v \in DOMAIN shown'
             PROVE  /\ shown'[v] \in States(v, outbox')
                    /\ \A n \in States(v, outbox') : Strength(shown'[v]) >= Strength(n)
  BY <1>1 DEF ShownInv
<1>2. CASE v \in V /\ (v \in DOMAIN shown => shown[v] # "merged")
  <2>1. outbox'[k].manifest \in States(v, outbox')
    BY <1>0, <1>2 DEF States, Ids
  <2> QED
    BY <1>1, <1>2, <2>1, StrongestIs
<1>3. CASE v \notin V
  <2> DEFINE I == {j \in Ids : outbox[j].manifest # "none"
                               /\ v \in VersionsOf(outbox[j].batch)}
             J == {j \in Ids : outbox'[j].manifest # "none"
                               /\ v \in VersionsOf(outbox'[j].batch)}
  <2>1. I = J /\ k \notin I
    BY <1>0, <1>3
  <2>2. \A j \in I : outbox'[j].manifest = outbox[j].manifest
    BY <2>1
  <2>3. /\ States(v, outbox) = {outbox[j].manifest : j \in I}
        /\ States(v, outbox') = {outbox'[j].manifest : j \in J}
    BY DEF States, Ids
  <2> HIDE DEF I, J
  <2>4. States(v, outbox') = States(v, outbox)
    BY <2>1, <2>2, <2>3
  <2> QED
    BY <1>1, <1>3, <2>4 DEF ShownInv
<1>4. CASE v \in V /\ v \in DOMAIN shown /\ shown[v] = "merged"
  <2>1. shown'[v] = "merged" /\ "merged" \in States(v, outbox)
    BY <1>1, <1>4 DEF ShownInv
  <2>2. PICK i \in Ids : outbox[i].manifest = "merged" /\ v \in VersionsOf(outbox[i].batch)
    BY <2>1 DEF States, Ids
  <2>3. outbox'[i].manifest = "merged" /\ v \in VersionsOf(outbox'[i].batch)
    BY <2>2
  <2>4. "merged" \in States(v, outbox')
    BY <2>3 DEF States, Ids
  <2>5. States(v, outbox') \subseteq Manifest
    BY RowType DEF States
  <2> QED
    BY <2>1, <2>4, <2>5, StrengthIs
<1> QED
  BY <1>1, <1>2, <1>3, <1>4

\* An action that writes nothing but owners, delays and tries.
LEMMA QuietKeeps ==
    ASSUME outbox \in Seq(Row), Rows, UNCHANGED shown,
           delivered \subseteq delivered',
           DOMAIN outbox' = DOMAIN outbox, \A i \in Ids : Same(i)
    PROVE  Rows'
<1>1. \A i \in Ids : Becomes(i)
  BY DEF Same, Becomes
<1>2. \A i \in Ids : /\ outbox'[i].batch = outbox[i].batch
                     /\ outbox'[i].manifest = outbox[i].manifest
  BY DEF Same
<1> QED
  BY <1>1, <1>2, OnceKeeps, SettledKeeps, FilesKeep, ShownKeeps DEF Rows

\* One row is written and its content refreshed.
LEMMA PutKeeps ==
    ASSUME outbox \in Seq(Row), Rows, NEW k \in Ids, NEW r \in Row, Put(k, r),
           delivered \subseteq delivered',
           shown = [v \in DOMAIN shown |-> shown[v]],
           r.batch = outbox[k].batch,
           outbox[k].state = "done" => r.state = "done",
           outbox[k].rejected => r.rejected,
           outbox[k].manifest \in {"superseded", "merged"} =>
               r.manifest = outbox[k].manifest,
           r.manifest = "none" => outbox[k].manifest = "none",
           r.state = "done" /\ ~r.rejected =>
               \/ outbox[k].state = "done" /\ ~outbox[k].rejected
               \/ CommitOf(outbox[k].batch) \in delivered',
           r.manifest # "none" =>
               \/ outbox[k].manifest # "none"
               \/ \A j \in Binding(CommitOf(outbox[k].batch)) :
                    outbox[j].batch = outbox[k].batch
    PROVE  /\ Rows' /\ outbox' \in Seq(Row) /\ DOMAIN outbox' = DOMAIN outbox
           /\ shown' = [v \in DOMAIN shown' |-> shown'[v]]
           /\ \A i \in Ids : outbox'[i].batch = outbox[i].batch
<1>1. /\ outbox' = [outbox EXCEPT ![k] = r]
      /\ shown' = IF r.manifest = "none" THEN shown ELSE Refresh(k, outbox')
  BY DEF Put
<1>2. /\ outbox' \in Seq(Row) /\ DOMAIN outbox' = DOMAIN outbox
      /\ outbox'[k] = r /\ \A i \in Ids \ {k} : outbox'[i] = outbox[i]
  BY <1>1 DEF Ids
<1>3. \A i \in Ids : Becomes(i)
  BY <1>2 DEF Becomes
<1>4. PublishedOnce' /\ SettledWasDelivered'
  BY <1>2, <1>3, OnceKeeps, SettledKeeps DEF Rows
<1>5. ShownInv' /\ shown' = [v \in DOMAIN shown' |-> shown'[v]]
  <2>1. CASE r.manifest = "none"
    <3>1. UNCHANGED shown
      BY <1>1, <2>1
    <3>2. \A i \in Ids : /\ outbox'[i].batch = outbox[i].batch
                         /\ outbox'[i].manifest = outbox[i].manifest
      BY <1>2, <2>1
    <3> QED
      BY <1>2, <3>1, <3>2, ShownKeeps DEF Rows
  <2>2. CASE r.manifest # "none"
    <3>1. shown' = Refresh(k, outbox')
      BY <1>1, <2>2
    <3> QED
      BY <1>2, <2>2, <3>1, RefreshKeeps DEF Rows
  <2> QED
    BY <2>1, <2>2
<1>6. OneAuthorizedFileSet'
  <2> SUFFICES ASSUME NEW i \in Ids, NEW j \in Ids,
                      outbox'[i].manifest # "none", outbox'[j].manifest # "none",
                      CommitOf(outbox'[i].batch) = CommitOf(outbox'[j].batch)
               PROVE  outbox'[i].batch = outbox'[j].batch
    BY <1>2 DEF OneAuthorizedFileSet, Ids
  <2>1. /\ outbox'[i].batch = outbox[i].batch /\ outbox'[j].batch = outbox[j].batch
    BY <1>2
  <2>2. CASE outbox[i].manifest # "none" /\ outbox[j].manifest # "none"
    BY <2>1, <2>2 DEF Rows, OneAuthorizedFileSet
  <2>3. ASSUME NEW a \in Ids, NEW b \in Ids, outbox[a].manifest = "none",
               outbox'[a].manifest # "none", outbox'[b].manifest # "none",
               CommitOf(outbox[a].batch) = CommitOf(outbox[b].batch)
        PROVE  outbox[a].batch = outbox[b].batch
    <3>1. a = k
      BY <1>2, <2>3
    <3>2. CASE b = k
      BY <3>1, <3>2
    <3>3. CASE b # k
      <4>1. outbox[b].manifest # "none"
        BY <1>2, <2>3, <3>3
      <4>2. b \in Binding(CommitOf(outbox[k].batch))
        BY <2>3, <3>1, <4>1 DEF Binding
      <4>3. r.manifest # "none" /\ outbox[k].manifest = "none"
        BY <1>2, <2>3, <3>1
      <4> QED
        BY <3>1, <4>2, <4>3
    <3> QED
      BY <3>2, <3>3
  <2>4. CASE outbox[i].manifest = "none"
    BY <2>1, <2>3, <2>4
  <2>5. CASE outbox[j].manifest = "none"
    BY <2>1, <2>3, <2>5
  <2> QED
    BY <2>2, <2>4, <2>5
<1> QED
  BY <1>2, <1>4, <1>5, <1>6 DEF Rows

-----------------------------------------------------------------------------
(* What the actions do to the outbox.                                      *)

LEMMA QuitRows ==
    ASSUME outbox \in Seq(Row), Quit
    PROVE  /\ outbox' \in Seq(Row) /\ DOMAIN outbox' = DOMAIN outbox
           /\ \A i \in Ids : Same(i)
<1>1. outbox' = [i \in DOMAIN outbox |->
                    IF outbox[i].owner = "worker"
                    THEN [outbox[i] EXCEPT !.owner = "visible"] ELSE outbox[i]]
  BY DEF Quit, Left
<1>2. \A i \in Ids : outbox'[i] \in Row
  BY <1>1, LeftType DEF Ids
<1>3. outbox' \in Seq(Row) /\ DOMAIN outbox' = DOMAIN outbox
  BY <1>1, <1>2 DEF Ids
<1>4. \A i \in Ids : Same(i)
  BY <1>1 DEF Same, Ids, Row
<1> QED
  BY <1>3, <1>4

LEMMA RetryRows ==
    ASSUME outbox \in Seq(Row), w.id \in Ids, row.state # "done", Retry
    PROVE  /\ outbox' \in Seq(Row) /\ DOMAIN outbox' = DOMAIN outbox
           /\ \A i \in Ids : Same(i)
<1> DEFINE r == [row EXCEPT !.state = "pending", !.owner = "nobody", !.delayed = TRUE]
<1>1. row \in Row
  BY DEF row, Ids
<1>2. /\ r \in Row /\ r.batch = row.batch /\ r.prepared = row.prepared
      /\ r.tip = row.tip /\ r.rejected = row.rejected
      /\ r.manifest = row.manifest /\ r.state = "pending"
  BY <1>1 DEF Row
<1>3. outbox' = [outbox EXCEPT ![w.id] = r]
  BY DEF Retry, row, Ids
<1> HIDE DEF r
<1>4. /\ outbox' \in Seq(Row) /\ DOMAIN outbox' = DOMAIN outbox
      /\ outbox'[w.id] = r /\ \A i \in Ids \ {w.id} : outbox'[i] = outbox[i]
  BY <1>2, <1>3 DEF Ids
<1>5. \A i \in Ids : Same(i)
  BY <1>2, <1>4 DEF Same, row
<1> QED
  BY <1>4, <1>5

LEMMA TakeBackRows ==
    ASSUME outbox \in Seq(Row)
    PROVE  /\ TakeBack(outbox) \in Seq(Row)
           /\ DOMAIN TakeBack(outbox) = DOMAIN outbox
           /\ \A i \in Ids : LET r == TakeBack(outbox)[i] IN
                /\ r.batch = outbox[i].batch /\ r.prepared = outbox[i].prepared
                /\ r.tip = outbox[i].tip /\ r.rejected = outbox[i].rejected
                /\ r.manifest = outbox[i].manifest
                /\ r.state = "done" <=> outbox[i].state = "done"
<1>1. TakeBack(outbox) = [i \in DOMAIN outbox |->
          IF TakenBack(outbox[i])
          THEN [outbox[i] EXCEPT !.state = "pending", !.owner = "nobody"]
          ELSE outbox[i]]
  BY DEF TakeBack
<1>2. \A r \in Row : LET s == [r EXCEPT !.state = "pending", !.owner = "nobody"] IN
         /\ s \in Row /\ s.batch = r.batch /\ s.prepared = r.prepared
         /\ s.tip = r.tip /\ s.rejected = r.rejected /\ s.manifest = r.manifest
         /\ s.state = "pending"
  BY DEF Row
<1>3. \A i \in Ids : outbox[i] \in Row
  BY DEF Ids
<1> DEFINE rows == TakeBack(outbox)
<1>4. ASSUME NEW i \in Ids
      PROVE  /\ rows[i] \in Row
             /\ rows[i].batch = outbox[i].batch
             /\ rows[i].prepared = outbox[i].prepared
             /\ rows[i].tip = outbox[i].tip /\ rows[i].rejected = outbox[i].rejected
             /\ rows[i].manifest = outbox[i].manifest
             /\ rows[i].state = "done" <=> outbox[i].state = "done"
  <2>1. CASE TakenBack(outbox[i])
    <3>1. rows[i] = [outbox[i] EXCEPT !.state = "pending", !.owner = "nobody"]
      BY <1>1, <2>1 DEF Ids
    <3>2. outbox[i].state # "done"
      BY <2>1 DEF TakenBack
    <3>3. outbox[i] \in Row
      BY <1>3
    <3> DEFINE s == [outbox[i] EXCEPT !.state = "pending", !.owner = "nobody"]
    <3>4. /\ s \in Row /\ s.batch = outbox[i].batch
          /\ s.prepared = outbox[i].prepared /\ s.tip = outbox[i].tip
          /\ s.rejected = outbox[i].rejected /\ s.manifest = outbox[i].manifest
          /\ s.state = "pending"
      BY <1>2, <3>3
    <3>5. rows[i] = s
      BY <3>1
    <3> HIDE DEF rows, s
    <3> QED
      BY <3>2, <3>4, <3>5
  <2>2. CASE ~TakenBack(outbox[i])
    <3>1. rows[i] = outbox[i]
      BY <1>1, <2>2 DEF Ids
    <3> QED
      BY <1>3, <3>1
  <2> QED
    BY <2>1, <2>2
<1>5. DOMAIN rows = DOMAIN outbox
  BY <1>1
<1> HIDE DEF rows
<1>6. /\ Len(outbox) \in Nat /\ Ids = 1..Len(outbox)
      /\ rows = [i \in Ids |-> rows[i]]
  <2>1. rows = [i \in DOMAIN outbox |-> rows[i]]
    BY <1>1, Zenon DEF rows
  <2> QED
    BY <2>1 DEF Ids
<1>7. rows \in [1..Len(outbox) -> Row]
  BY <1>4, <1>6
<1>8. rows \in Seq(Row)
  BY <1>6, <1>7
<1> QED
  BY <1>4, <1>5, <1>8 DEF rows

LEMMA Least ==
    ASSUME NEW S \in SUBSET Nat, S # {}
    PROVE  \E m \in S : \A k \in S : m <= k
<1>1. PICK x \in S : \A y \in S : ~(<<y, x>> \in OpToRel(<, Nat))
  BY NatLessThanWellFounded, WFMin
<1>2. \A y \in S : x <= y
  <2> SUFFICES ASSUME NEW y \in S PROVE x <= y
    OBVIOUS
  <2>1. y \in Nat /\ x \in Nat
    OBVIOUS
  <2>2. ~(y < x)
    BY <1>1, <2>1 DEF OpToRel
  <2> QED
    BY <2>1, <2>2
<1> QED
  BY <1>2

LEMMA ClaimRows ==
    ASSUME outbox \in Seq(Row), line \in Seq(Ids), w \in Running, Claim
    PROVE  /\ outbox' \in Seq(Row) /\ DOMAIN outbox' = DOMAIN outbox
           /\ \A i \in Ids : Same(i)
           /\ \/ EndStage
              \/ \E i \in Ids : /\ outbox'[i].state = "processing"
                                /\ w' = [w EXCEPT !.pc = "checking", !.id = i]
<1> DEFINE rows == TakeBack(outbox)
           ready == {n \in DOMAIN line : Available(rows[line[n]])}
           n == CHOOSE m \in ready : \A k \in ready : m <= k
           r == [rows[line[n]] EXCEPT !.state = "processing", !.owner = "worker",
                                      !.tries = IF @ = 2 THEN 2 ELSE @ + 1]
<1>1. /\ rows \in Seq(Row) /\ DOMAIN rows = DOMAIN outbox
      /\ \A i \in Ids :
            /\ rows[i].batch = outbox[i].batch
            /\ rows[i].prepared = outbox[i].prepared
            /\ rows[i].tip = outbox[i].tip
            /\ rows[i].rejected = outbox[i].rejected
            /\ rows[i].manifest = outbox[i].manifest
            /\ rows[i].state = "done" <=> outbox[i].state = "done"
  BY TakeBackRows
<1>2. CASE ready = {}
  <2>1. outbox' = rows /\ EndStage
    BY <1>2 DEF Claim
  <2> HIDE DEF rows
  <2> QED
    BY <1>1, <2>1 DEF Same
<1>3. CASE ready # {}
  <2>1. /\ outbox' = [rows EXCEPT ![line[n]].state = "processing",
                                  ![line[n]].owner = "worker",
                                  ![line[n]].tries = IF @ = 2 THEN 2 ELSE @ + 1]
        /\ w' = [w EXCEPT !.pc = "checking", !.id = line[n]]
    BY <1>3 DEF Claim
  <2>2. n \in ready
    <3>1. ready \in SUBSET Nat
      OBVIOUS
    <3>2. \E m \in ready : \A k \in ready : m <= k
      BY <1>3, <3>1, Least
    <3> QED
      BY <3>2
  <2>3. line[n] \in Ids /\ rows[line[n]].state = "pending"
    BY <2>2 DEF Available
  <2> HIDE DEF rows, ready, n
  <2>4. rows[line[n]] \in Row
    BY <1>1, <2>3 DEF Ids
  <2>5. /\ r \in Row /\ r.batch = rows[line[n]].batch
        /\ r.prepared = rows[line[n]].prepared /\ r.tip = rows[line[n]].tip
        /\ r.rejected = rows[line[n]].rejected
        /\ r.manifest = rows[line[n]].manifest /\ r.state = "processing"
    <3> DEFINE t == IF rows[line[n]].tries = 2 THEN 2 ELSE rows[line[n]].tries + 1
    <3>1. t \in 0..2
      BY <2>4 DEF Row
    <3>2. r = [rows[line[n]] EXCEPT !.state = "processing", !.owner = "worker",
                                    !.tries = t]
      BY <2>4 DEF Row
    <3> HIDE DEF t, r
    <3> QED
      BY <2>4, <3>1, <3>2 DEF Row
  <2>6. outbox' = [rows EXCEPT ![line[n]] = r]
    BY <1>1, <2>1, <2>3, <2>4 DEF Row, Ids
  <2> HIDE DEF r
  <2>7. /\ outbox' \in Seq(Row) /\ DOMAIN outbox' = DOMAIN outbox
        /\ outbox'[line[n]] = r
        /\ \A i \in Ids \ {line[n]} : outbox'[i] = rows[i]
    BY <1>1, <2>3, <2>5, <2>6 DEF Ids
  <2>8. \A i \in Ids : Same(i)
    BY <1>1, <2>3, <2>5, <2>7 DEF Same
  <2> QED
    BY <2>1, <2>3, <2>5, <2>7, <2>8
<1> QED
  BY <1>2, <1>3

LEMMA TimeRows ==
    ASSUME outbox \in Seq(Row), line \in Seq(Ids), Time
    PROVE  /\ outbox' \in Seq(Row) /\ DOMAIN outbox' = DOMAIN outbox
           /\ \A i \in Ids : Same(i)
           /\ line' \in Seq(Ids)
<1>1. CASE OwnerGone
  <2>1. PICK i \in Ids : outbox' = [outbox EXCEPT ![i].owner = "gone"]
    BY <1>1 DEF OwnerGone
  <2> DEFINE r == [outbox[i] EXCEPT !.owner = "gone"]
  <2>2. outbox[i] \in Row
    BY DEF Ids
  <2>3. r \in Row
    BY <2>2 DEF Row
  <2>4. outbox' = [outbox EXCEPT ![i] = r]
    BY <2>1 DEF Ids
  <2>5. outbox' \in Seq(Row) /\ DOMAIN outbox' = DOMAIN outbox
    BY <2>3, <2>4 DEF Ids
  <2>6. \A j \in Ids : Same(j)
    BY <2>2, <2>4 DEF Same, Ids, Row
  <2> QED
    BY <1>1, <2>5, <2>6 DEF OwnerGone
<1>2. CASE RetryDue
  <2>1. PICK i \in Ids : /\ outbox' = [outbox EXCEPT ![i].delayed = FALSE]
                         /\ line' = Append(Without(i), i)
    BY <1>2 DEF RetryDue
  <2> DEFINE r == [outbox[i] EXCEPT !.delayed = FALSE]
  <2>2. outbox[i] \in Row
    BY DEF Ids
  <2>3. r \in Row
    BY <2>2 DEF Row
  <2>4. outbox' = [outbox EXCEPT ![i] = r]
    BY <2>1 DEF Ids
  <2>5. outbox' \in Seq(Row) /\ DOMAIN outbox' = DOMAIN outbox
    BY <2>3, <2>4 DEF Ids
  <2>6. \A j \in Ids : Same(j)
    BY <2>2, <2>4 DEF Same, Ids, Row
  <2>7. Without(i) \in Seq(Ids)
    <3> DEFINE k == CHOOSE m \in DOMAIN line : line[m] = i
    <3>1. Without(i) = [m \in 1..(Len(line) - 1) |->
                            IF m < k THEN line[m] ELSE line[m + 1]]
      BY DEF Without
    <3> HIDE DEF k
    <3>2. \A m \in 1..(Len(line) - 1) : line[m] \in Ids /\ line[m + 1] \in Ids
      OBVIOUS
    <3>3. CASE Len(line) = 0
      <4>1. 1..(Len(line) - 1) = 1..0
        BY <3>3
      <4>2. Without(i) \in [1..0 -> Ids]
        BY <3>1, <3>2, <4>1
      <4> QED
        BY <4>2
    <3>4. CASE Len(line) # 0
      <4>1. Len(line) - 1 \in Nat
        BY <3>4
      <4> QED
        BY <3>1, <3>2, <4>1
    <3> QED
      BY <3>3, <3>4
  <2> QED
    BY <2>1, <2>5, <2>6, <2>7
<1> QED
  BY <1>1, <1>2 DEF Time

\* What every step keeps of outbox and content.
Kept ==
    /\ Rows' /\ outbox' \in Seq(Row) /\ Ids \subseteq Ids'
    /\ Ids' = Ids \/ Schedule
    /\ \A i \in Ids : outbox'[i].batch = outbox[i].batch
    /\ shown' = [v \in DOMAIN shown' |-> shown'[v]]

LEMMA QuietIsKept ==
    ASSUME IInv, UNCHANGED shown, delivered \subseteq delivered',
           outbox' \in Seq(Row), DOMAIN outbox' = DOMAIN outbox,
           \A i \in Ids : Same(i)
    PROVE  Kept
<1>1. outbox \in Seq(Row) /\ Rows /\ shown = [v \in DOMAIN shown |-> shown[v]]
  BY DEF IInv, Types
<1>2. Rows'
  BY <1>1, QuietKeeps
<1>3. shown' = [v \in DOMAIN shown' |-> shown'[v]]
  BY <1>1
<1>4. \A i \in Ids : outbox'[i].batch = outbox[i].batch
  BY DEF Same
<1> QED
  BY <1>2, <1>3, <1>4 DEF Kept, Ids

LEMMA UntouchedIsKept ==
    ASSUME IInv, UNCHANGED <<outbox, shown>>, delivered \subseteq delivered'
    PROVE  Kept
<1>1. outbox' \in Seq(Row) /\ \A i \in Ids : Same(i)
  BY DEF IInv, Types, Same
<1> QED
  BY <1>1, QuietIsKept

LEMMA SettledIs ==
    ASSUME outbox \in Seq(Row), w.id \in Ids, NEW s \in Manifest
    PROVE  /\ Settled(s) \in Row /\ Settled(s).batch = row.batch
           /\ Settled(s).state = "done" /\ Settled(s).rejected = row.rejected
           /\ Settled(s).prepared = row.prepared /\ Settled(s).tip = row.tip
           /\ Settled(s).manifest = Advance(row.manifest, s)
<1>1. row \in Row /\ row.manifest \in Manifest
  BY RowType DEF row, Ids
<1>2. Advance(row.manifest, s) \in Manifest
  BY <1>1, AdvanceType
<1>3. Settled(s) = [row EXCEPT !.state = "done", !.owner = "nobody",
                               !.manifest = Advance(row.manifest, s)]
  BY <1>1 DEF Settled, Row
<1> QED
  BY <1>1, <1>2, <1>3 DEF Row

LEMMA RecordedIs ==
    ASSUME outbox \in Seq(Row), w.id \in Ids, remote \in Tip
    PROVE  /\ Recorded \in Row /\ Recorded.batch = row.batch
           /\ Recorded.state = row.state /\ Recorded.rejected = row.rejected
           /\ Recorded.prepared = TRUE
           /\ Recorded.tip = IF row.prepared THEN row.tip ELSE remote
           /\ Recorded.manifest # "none"
           /\ row.manifest \in {"superseded", "merged"} =>
                 Recorded.manifest = row.manifest
<1> DEFINE m == IF row.manifest = "none" THEN "commit_created" ELSE row.manifest
           t == IF row.prepared THEN row.tip ELSE remote
           a == Advance(m, "push_pending")
<1>1. row \in Row /\ row.manifest \in Manifest /\ row.tip \in Tip
  BY RowType DEF row, Ids
<1>2. m \in Manifest /\ m # "none" /\ t \in Tip /\ "push_pending" \in Manifest
  BY <1>1 DEF Manifest
<1>3. /\ a \in Manifest /\ a # "none"
      /\ row.manifest \in {"superseded", "merged"} => a = row.manifest
  <2> HIDE DEF m
  <2>1. a \in Manifest /\ a # "none" /\ (m \in {"merged", "superseded"} => a = m)
    BY <1>2, AdvanceType
  <2> QED
    BY <2>1 DEF m
<1>4. Recorded = [row EXCEPT !.prepared = TRUE, !.tip = t, !.manifest = a]
  BY <1>1 DEF Recorded, Row
<1> HIDE DEF a, m
<1> QED
  BY <1>1, <1>2, <1>3, <1>4 DEF Row

LEMMA PersistKeeps ==
    ASSUME IInv, PersistCandidate
    PROVE  Kept
<1>1. /\ outbox \in Seq(Row) /\ Rows /\ remote \in Tip
      /\ shown = [v \in DOMAIN shown |-> shown[v]]
      /\ delivered \subseteq delivered'
  BY DEF IInv, Types, PersistCandidate, world
<1>2. w.id \in Ids /\ row.state = "processing" /\ Put(w.id, Recorded) /\ ~Conflict
  BY DEF IInv, RowInv, AtRow, PersistCandidate
<1>3. \A j \in Binding(CommitOf(outbox[w.id].batch)) :
          outbox[j].batch = outbox[w.id].batch
  <2> SUFFICES ASSUME NEW j \in Binding(CommitOf(outbox[w.id].batch))
               PROVE  outbox[j].batch = outbox[w.id].batch
    OBVIOUS
  <2>1. /\ j \in Ids
        /\ CommitOf(outbox[j].batch) = CommitOf(outbox[w.id].batch)
        /\ outbox[j].batch.files = outbox[w.id].batch.files
    BY <1>2 DEF Conflict, Binding, commit, row
  <2>2. outbox[j].batch \in Batch /\ outbox[w.id].batch \in Batch
    BY <1>1, <1>2, <2>1, RowType DEF Ids
  <2> QED
    BY <2>1, <2>2, SameBatch
<1> DEFINE r == Recorded
<1>4. /\ r \in Row /\ r.batch = outbox[w.id].batch
      /\ r.state = "processing" /\ outbox[w.id].state = "processing"
      /\ r.rejected = outbox[w.id].rejected /\ r.manifest # "none"
      /\ outbox[w.id].manifest \in {"superseded", "merged"} =>
            r.manifest = outbox[w.id].manifest
  BY <1>1, <1>2, RecordedIs DEF row
<1>5. Put(w.id, r)
  BY <1>2
<1> HIDE DEF r
<1>6. /\ Rows' /\ outbox' \in Seq(Row) /\ DOMAIN outbox' = DOMAIN outbox
      /\ shown' = [v \in DOMAIN shown' |-> shown'[v]]
      /\ \A j \in Ids : outbox'[j].batch = outbox[j].batch
  BY <1>1, <1>2, <1>3, <1>4, <1>5, PutKeeps
<1> QED
  BY <1>6 DEF Kept, Ids

LEMMA SettleKeeps ==
    ASSUME IInv, w.pc = "settling", NEW s \in Manifest, Put(w.id, Settled(s)),
           delivered \subseteq delivered'
    PROVE  Kept
<1>1. /\ outbox \in Seq(Row) /\ Rows
      /\ shown = [v \in DOMAIN shown |-> shown[v]]
  BY DEF IInv, Types
<1>2. /\ w.id \in Ids /\ row.manifest # "none" /\ commit \in delivered'
  BY DEF IInv, RowInv, HostInv, AtRow
<1> DEFINE r == Settled(s)
<1>3. /\ r \in Row /\ r.batch = outbox[w.id].batch /\ r.state = "done"
      /\ r.rejected = outbox[w.id].rejected
      /\ r.manifest = Advance(outbox[w.id].manifest, s)
  BY <1>1, <1>2, SettledIs DEF row
<1>4. Put(w.id, r)
  OBVIOUS
<1> HIDE DEF r
<1>5. outbox[w.id].manifest \in Manifest
  BY <1>1, <1>2, RowType DEF Ids
<1>6. /\ outbox[w.id].manifest \in {"superseded", "merged"} =>
            r.manifest = outbox[w.id].manifest
      /\ r.manifest # "none" /\ outbox[w.id].manifest # "none"
  BY <1>2, <1>3, <1>5, AdvanceType DEF row
<1>7. CommitOf(outbox[w.id].batch) \in delivered'
  BY <1>2 DEF commit, row
<1>8. /\ Rows' /\ outbox' \in Seq(Row) /\ DOMAIN outbox' = DOMAIN outbox
      /\ shown' = [v \in DOMAIN shown' |-> shown'[v]]
      /\ \A j \in Ids : outbox'[j].batch = outbox[j].batch
  BY <1>1, <1>2, <1>3, <1>4, <1>6, <1>7, PutKeeps
<1> QED
  BY <1>8 DEF Kept, Ids

LEMMA RejectKeeps ==
    ASSUME IInv, Reject
    PROVE  Kept
<1>1. /\ outbox \in Seq(Row) /\ Rows
      /\ shown = [v \in DOMAIN shown |-> shown[v]]
      /\ delivered \subseteq delivered'
  BY DEF IInv, Types, Reject, world
<1>2. w.id \in Ids
  BY DEF IInv, RowInv, AtRow, Reject
<1>3. outbox[w.id] \in Row /\ outbox[w.id].manifest \in Manifest
  BY <1>1, <1>2, RowType DEF Ids
<1> DEFINE a == IF row.prepared THEN Advance(row.manifest, "superseded")
                                ELSE row.manifest
           r == [row EXCEPT !.state = "done", !.owner = "nobody",
                            !.rejected = TRUE, !.manifest = a]
<1>4. /\ a \in Manifest /\ (a = "none" <=> outbox[w.id].manifest = "none")
      /\ outbox[w.id].manifest \in {"superseded", "merged"} =>
            a = outbox[w.id].manifest
  <2>1. "superseded" \in Manifest
    BY DEF Manifest
  <2> QED
    BY <1>3, <2>1, AdvanceType DEF row
<1>5. Put(w.id, r)
  <2>1. Put(w.id, [row EXCEPT !.state = "done", !.owner = "nobody",
                              !.rejected = TRUE,
                              !.manifest = IF row.prepared
                                           THEN Advance(@, "superseded") ELSE @])
    BY DEF Reject
  <2>2. r = [row EXCEPT !.state = "done", !.owner = "nobody",
                        !.rejected = TRUE,
                        !.manifest = IF row.prepared
                                     THEN Advance(@, "superseded") ELSE @]
    BY <1>3 DEF row, Row
  <2> QED
    BY <2>1, <2>2
<1> HIDE DEF a
<1>6. /\ r \in Row /\ r.batch = outbox[w.id].batch /\ r.state = "done"
      /\ r.rejected = TRUE /\ r.manifest = a
  BY <1>3, <1>4 DEF row, Row
<1> HIDE DEF r
<1>7. /\ Rows' /\ outbox' \in Seq(Row) /\ DOMAIN outbox' = DOMAIN outbox
      /\ shown' = [v \in DOMAIN shown' |-> shown'[v]]
      /\ \A j \in Ids : outbox'[j].batch = outbox[j].batch
  BY <1>1, <1>2, <1>4, <1>5, <1>6, PutKeeps
<1> QED
  BY <1>7 DEF Kept, Ids

LEMMA ObservedKeeps ==
    ASSUME IInv, NEW c, Snapshot(c), NEW m \in Manifest, delivered \subseteq delivered',
           Put(ManifestOf(c), [outbox[ManifestOf(c)] EXCEPT !.manifest = m]),
           m = "merged" \/ m = Advance(outbox[ManifestOf(c)].manifest, "superseded")
    PROVE  Kept
<1> DEFINE i == ManifestOf(c)
           r == [outbox[i] EXCEPT !.manifest = m]
<1>1. /\ outbox \in Seq(Row) /\ Rows
      /\ shown = [v \in DOMAIN shown |-> shown[v]]
  BY DEF IInv, Types
<1>2. i \in Ids /\ outbox[i].manifest \notin {"none", "superseded"}
  BY <1>1, ManifestOfIs DEF Live
<1>3. outbox[i] \in Row /\ outbox[i].manifest \in Manifest
  BY <1>1, <1>2, RowType DEF Ids
<1>4. Put(i, r) /\ (m = "merged" \/ m = Advance(outbox[i].manifest, "superseded"))
  OBVIOUS
<1> HIDE DEF i
<1>5. /\ m # "none"
      /\ outbox[i].manifest \in {"superseded", "merged"} => m = outbox[i].manifest
  <2>1. "superseded" \in Manifest
    BY DEF Manifest
  <2>2. CASE m = "merged"
    BY <1>2, <2>2
  <2>3. CASE m = Advance(outbox[i].manifest, "superseded")
    <3> DEFINE n == outbox[i].manifest
    <3>1. n \in Manifest /\ n # "none" /\ m = Advance(n, "superseded")
      BY <1>2, <1>3, <2>3
    <3> HIDE DEF n
    <3>2. m # "none" /\ (n \in {"superseded", "merged"} => m = n)
      BY <2>1, <3>1, AdvanceType
    <3> QED
      BY <3>2 DEF n
  <2> QED
    BY <1>4, <2>2, <2>3
<1>6. /\ r \in Row /\ r.batch = outbox[i].batch /\ r.state = outbox[i].state
      /\ r.rejected = outbox[i].rejected /\ r.manifest = m
  BY <1>3 DEF Row
<1> HIDE DEF r
<1>7. /\ Rows' /\ outbox' \in Seq(Row) /\ DOMAIN outbox' = DOMAIN outbox
      /\ shown' = [v \in DOMAIN shown' |-> shown'[v]]
      /\ \A j \in Ids : outbox'[j].batch = outbox[j].batch
  BY <1>1, <1>2, <1>4, <1>5, <1>6, PutKeeps
<1> QED
  BY <1>7 DEF Kept, Ids

LEMMA WriteRow ==
    ASSUME NEW rows \in Seq(Row), NEW i \in DOMAIN rows, NEW r \in Row
    PROVE  /\ [rows EXCEPT ![i] = r] \in Seq(Row)
           /\ DOMAIN [rows EXCEPT ![i] = r] = DOMAIN rows
           /\ [rows EXCEPT ![i] = r][i] = r
           /\ \A j \in DOMAIN rows \ {i} : [rows EXCEPT ![i] = r][j] = rows[j]
OBVIOUS

\* The receipt and the merge in one transaction, of one row or of two.
LEMMA MergedKeeps ==
    ASSUME IInv, w.pc = "settling", Snapshot(commit), delivered \subseteq delivered',
           outbox' = [outbox EXCEPT ![w.id] = Settled("none"),
                                    ![ManifestOf(commit)].manifest = "merged"],
           shown' = Refresh(ManifestOf(commit), outbox')
    PROVE  Kept
<1> DEFINE i == ManifestOf(commit)
           s == Settled("none")
<1>1. outbox \in Seq(Row) /\ Rows
  BY DEF IInv, Types
<1>2. w.id \in Ids /\ CommitOf(outbox[w.id].batch) \in delivered'
  BY DEF IInv, RowInv, HostInv, AtRow, commit, row
<1>3. i \in Ids /\ outbox[i].manifest \notin {"none", "superseded"}
  BY <1>1, ManifestOfIs DEF Live
<1>4. /\ s \in Row /\ s.batch = outbox[w.id].batch /\ s.state = "done"
      /\ s.rejected = outbox[w.id].rejected /\ s.manifest = outbox[w.id].manifest
  <2>1. "none" \in Manifest /\ outbox[w.id].manifest \in Manifest
    BY <1>1, <1>2, RowType DEF Ids, Manifest
  <2>2. Advance(outbox[w.id].manifest, "none") = outbox[w.id].manifest
    BY <2>1, AdvanceType
  <2> QED
    BY <1>1, <1>2, <2>1, <2>2, SettledIs DEF row
<1>5. /\ outbox' = [[outbox EXCEPT ![w.id] = s] EXCEPT ![i].manifest = "merged"]
      /\ shown' = Refresh(i, outbox')
  OBVIOUS
<1> HIDE DEF s, i
<1> DEFINE mid == [outbox EXCEPT ![w.id] = s]
           r == [mid[i] EXCEPT !.manifest = "merged"]
<1>6. /\ mid \in Seq(Row) /\ DOMAIN mid = DOMAIN outbox /\ mid[w.id] = s
      /\ \A j \in Ids \ {w.id} : mid[j] = outbox[j]
  BY <1>1, <1>2, <1>4 DEF Ids
<1>7. outbox' = [mid EXCEPT ![i] = r]
  BY <1>3, <1>5, <1>6 DEF Ids
<1> HIDE DEF mid
<1>8. mid[i] \in Row
  BY <1>3, <1>6 DEF Ids
<1>9. /\ r \in Row /\ r.batch = mid[i].batch /\ r.state = mid[i].state
      /\ r.rejected = mid[i].rejected /\ r.manifest = "merged"
  BY <1>8 DEF Row, Manifest
<1> HIDE DEF r
<1>10. /\ outbox' \in Seq(Row) /\ DOMAIN outbox' = DOMAIN outbox
       /\ outbox'[i] = r /\ \A j \in Ids \ {i} : outbox'[j] = mid[j]
  <2>1. i \in DOMAIN mid /\ DOMAIN mid = Ids
    BY <1>3, <1>6 DEF Ids
  <2>2. /\ outbox' \in Seq(Row) /\ DOMAIN outbox' = DOMAIN mid
        /\ outbox'[i] = r /\ \A j \in DOMAIN mid \ {i} : outbox'[j] = mid[j]
    <3>1. mid \in Seq(Row) /\ r \in Row /\ i \in DOMAIN mid
      BY <1>6, <1>9, <2>1
    <3> DEFINE new == [mid EXCEPT ![i] = r]
    <3>2. /\ new \in Seq(Row) /\ DOMAIN new = DOMAIN mid
          /\ new[i] = r /\ \A j \in DOMAIN mid \ {i} : new[j] = mid[j]
      BY <3>1, WriteRow
    <3>3. outbox' = new
      BY <1>7
    <3> HIDE DEF new
    <3> QED
      BY <3>2, <3>3, Zenon
  <2> QED
    BY <2>1, <2>2 DEF Ids
<1>11. \A j \in Ids :
          /\ mid[j].batch = outbox[j].batch
          /\ mid[j].rejected = outbox[j].rejected
          /\ mid[j].manifest = outbox[j].manifest
          /\ mid[j].state = IF j = w.id THEN "done" ELSE outbox[j].state
  BY <1>4, <1>6
<1>12. \A j \in Ids :
          /\ outbox'[j].batch = outbox[j].batch
          /\ outbox'[j].rejected = outbox[j].rejected
          /\ outbox'[j].manifest = IF j = i THEN "merged" ELSE outbox[j].manifest
          /\ outbox'[j].state = IF j = w.id THEN "done" ELSE outbox[j].state
  <2> SUFFICES ASSUME NEW j \in Ids
               PROVE  /\ outbox'[j].batch = outbox[j].batch
                      /\ outbox'[j].rejected = outbox[j].rejected
                      /\ outbox'[j].manifest =
                            IF j = i THEN "merged" ELSE outbox[j].manifest
                      /\ outbox'[j].state =
                            IF j = w.id THEN "done" ELSE outbox[j].state
    OBVIOUS
  <2>1. CASE j = i
    BY <1>3, <1>9, <1>10, <1>11, <2>1
  <2>2. CASE j # i
    <3>1. outbox'[j] = mid[j]
      BY <1>10, <2>2
    <3> QED
      BY <1>11, <2>2, <3>1, Zenon
  <2> QED
    BY <2>1, <2>2
<1>13. \A j \in Ids : Becomes(j)
  <2> SUFFICES ASSUME NEW j \in Ids PROVE Becomes(j)
    OBVIOUS
  <2>1. CASE j = w.id
    BY <1>2, <1>3, <1>12, <2>1 DEF Becomes
  <2>2. CASE j # w.id
    BY <1>3, <1>12, <2>2 DEF Becomes
  <2> QED
    BY <2>1, <2>2
<1>14. PublishedOnce' /\ SettledWasDelivered' /\ OneAuthorizedFileSet'
  BY <1>1, <1>3, <1>10, <1>12, <1>13, OnceKeeps, SettledKeeps, FilesKeep DEF Rows
<1>15. ShownInv' /\ shown' = [v \in DOMAIN shown' |-> shown'[v]]
  BY <1>1, <1>3, <1>5, <1>10, <1>12, RefreshKeeps DEF Rows
<1> QED
  BY <1>10, <1>12, <1>14, <1>15 DEF Kept, Rows, Ids

LEMMA ScheduleKeeps ==
    ASSUME IInv, Schedule
    PROVE  Kept /\ line' \in Seq(Ids')
<1> DEFINE b == [base |-> w.run, files |-> w.files]
           last == outbox[Newest(OfBatch(b))]
           stands == OfBatch(b) # {} /\ (last.state = "done" => Authorized(last))
<1>1. /\ outbox \in Seq(Row) /\ Rows /\ b \in Batch /\ line \in Seq(Ids)
      /\ shown = [v \in DOMAIN shown |-> shown[v]] /\ UNCHANGED shown
      /\ delivered \subseteq delivered'
  BY DEF IInv, Types, Schedule, world, Running, Batch
<1>2. CASE stands
  <2>1. UNCHANGED <<outbox, line>>
    BY <1>2 DEF Schedule
  <2> QED
    BY <1>1, <2>1, UntouchedIsKept DEF Ids
<1>3. CASE ~stands
  <2>1. /\ outbox' = Append(outbox, Fresh(b))
        /\ line' = Append(line, Len(outbox) + 1)
    BY <1>3 DEF Schedule
  <2>2. \A i \in OfBatch(b) : /\ outbox[i].state = "done"
                              /\ outbox[i].rejected \/ outbox[i].manifest = "superseded"
    <3> SUFFICES ASSUME NEW i \in OfBatch(b)
                 PROVE  /\ outbox[i].state = "done"
                        /\ outbox[i].rejected \/ outbox[i].manifest = "superseded"
      OBVIOUS
    <3> DEFINE n == Newest(OfBatch(b))
    <3>1. OfBatch(b) \in SUBSET Ids /\ OfBatch(b) # {}
      BY DEF OfBatch
    <3>2. n \in OfBatch(b) /\ i <= n
      BY <1>1, <3>1, NewestIs
    <3>3. outbox[n].state = "done" /\ ~Authorized(outbox[n])
      BY <1>3, <3>1
    <3> HIDE DEF n
    <3>4. CASE i = n
      BY <3>3, <3>4 DEF Authorized
    <3>5. CASE i # n
      <4>1. /\ i \in Ids /\ n \in Ids /\ i < n
            /\ outbox[i].batch = outbox[n].batch
        <5>1. /\ i \in Ids /\ outbox[i].batch = b
              /\ n \in Ids /\ outbox[n].batch = b
          BY <3>2 DEF OfBatch
        <5>2. i \in Nat /\ n \in Nat
          BY <1>1, <5>1 DEF Ids
        <5> QED
          BY <3>2, <3>5, <5>1, <5>2
      <4> QED
        BY <1>1, <4>1 DEF Rows, PublishedOnce
    <3> QED
      BY <3>4, <3>5
  <2> HIDE DEF b
  <2> DEFINE r == Fresh(b)
             k == Len(outbox) + 1
  <2>3. /\ r \in Row /\ r.batch = b /\ r.state = "pending" /\ r.manifest = "none"
    BY <1>1, FreshType DEF Fresh
  <2> HIDE DEF r
  <2>4. /\ outbox' \in Seq(Row) /\ DOMAIN outbox' = DOMAIN outbox \cup {k}
        /\ k \notin Ids /\ k \in Nat /\ outbox'[k] = r
        /\ \A i \in Ids : outbox'[i] = outbox[i] /\ i < k
    <3>1. outbox' = Append(outbox, r)
      BY <2>1 DEF r
    <3> QED
      BY <1>1, <2>3, <3>1 DEF Ids
  <2> HIDE DEF k
  <2>5. \A v : States(v, outbox') = States(v, outbox)
    <3> SUFFICES ASSUME NEW v PROVE States(v, outbox') = States(v, outbox)
      OBVIOUS
    <3> DEFINE I == {j \in DOMAIN outbox : outbox[j].manifest # "none"
                                  /\ v \in VersionsOf(outbox[j].batch)}
               J == {j \in DOMAIN outbox' : outbox'[j].manifest # "none"
                                  /\ v \in VersionsOf(outbox'[j].batch)}
    <3>1. I = J
      BY <2>3, <2>4 DEF Ids
    <3>2. \A j \in I : outbox'[j].manifest = outbox[j].manifest
      BY <2>4 DEF Ids
    <3>3. /\ States(v, outbox) = {outbox[j].manifest : j \in I}
          /\ States(v, outbox') = {outbox'[j].manifest : j \in J}
      BY DEF States
    <3> HIDE DEF I, J
    <3> QED
      BY <3>1, <3>2, <3>3
  <2>6. ShownInv'
    BY <1>1, <2>5 DEF ShownInv, Rows
  <2>7. OneAuthorizedFileSet'
    <3>1. \A i \in Ids' : outbox'[i].manifest # "none" =>
              i \in Ids /\ outbox'[i] = outbox[i]
      BY <2>3, <2>4 DEF Ids
    <3> QED
      BY <1>1, <3>1 DEF Rows, OneAuthorizedFileSet
  <2>8. SettledWasDelivered'
    BY <1>1, <2>3, <2>4 DEF Rows, SettledWasDelivered, Ids
  <2>9. PublishedOnce'
    <3> SUFFICES ASSUME NEW i \in Ids', NEW j \in Ids', i < j,
                        outbox'[i].batch = outbox'[j].batch
                 PROVE  /\ outbox'[i].state = "done"
                        /\ outbox'[i].rejected \/ outbox'[i].manifest = "superseded"
      BY DEF PublishedOnce
    <3>1. i \in Ids
      <4>1. i \in Ids \/ i = k
        BY <2>4 DEF Ids
      <4>2. j \in Nat /\ j <= k
        <5>1. j \in Ids \/ j = k
          BY <2>4 DEF Ids
        <5>2. Ids \subseteq Nat
          BY <1>1 DEF Ids
        <5>3. CASE j \in Ids
          <6>1. j \in Nat /\ k \in Nat /\ j < k
            BY <2>4, <5>2, <5>3
          <6> QED
            BY <6>1
        <5>4. CASE j = k
          BY <2>4, <5>4
        <5> QED
          BY <5>1, <5>3, <5>4
      <4>3. ~(k < j)
        BY <2>4, <4>2
      <4> QED
        BY <4>1, <4>3
    <3>2. CASE j \in Ids
      BY <1>1, <2>4, <3>1, <3>2 DEF Rows, PublishedOnce
    <3>3. CASE j = k
      <4>1. i \in OfBatch(b)
        BY <2>3, <2>4, <3>1, <3>3 DEF OfBatch
      <4> QED
        BY <2>2, <2>4, <3>1, <4>1
    <3> QED
      BY <2>4, <3>2, <3>3 DEF Ids
  <2>10. line' \in Seq(Ids')
    <3>1. line' = Append(line, k)
      BY <2>1 DEF k
    <3>2. Ids \subseteq Ids' /\ k \in Ids'
      BY <2>4 DEF Ids
    <3>3. line \in Seq(Ids')
      BY <1>1, <3>2
    <3> QED
      BY <3>1, <3>2, <3>3
  <2>11. Ids \subseteq Ids'
    BY <2>4 DEF Ids
  <2> QED
    BY <1>1, <2>4, <2>6, <2>7, <2>8, <2>9, <2>10, <2>11 DEF Kept, Rows
<1> QED
  BY <1>2, <1>3

LEMMA DeliveredGrows ==
    ASSUME [Next]_vars
    PROVE  delivered \subseteq delivered'
<1>1. CASE Sync
  BY <1>1 DEF Sync, StartSync, Observe, ObserveNothingNew, ObserveOtherHead,
     ObserveMerge, ObserveUnfitMerge, Work, Schedule, Claim, Check, Accept,
     Reject, Publish, PrepareCommit, PersistCandidate, PersistConflict,
     LookAtBranch, AlreadyPushed, BranchChanged, Push, PushRefused,
     PushUnanswered, Deliver, PullRequest, ReusePull, CreatePull,
     CreateRefused, OpenUnanswered, Settle, SettleOpen, SettleClosed,
     SettleMerged, SettleOtherHead, world
<1>2. CASE Die \/ Time
  BY <1>2 DEF Die, Time, OwnerGone, RetryDue, world
<1>3. CASE People
  BY <1>3 DEF People, MoveOn, BranchMoved, PullDecided, Adopt
<1>4. CASE UNCHANGED vars
  BY <1>4 DEF vars
<1> QED
  BY <1>1, <1>2, <1>3, <1>4 DEF Next

\* Outbox and content, step by step.
LEMMA OutboxStep ==
    ASSUME IInv, [Next]_vars
    PROVE  Kept
<1>1. /\ outbox \in Seq(Row) /\ line \in Seq(Ids) /\ w \in Running
      /\ delivered \subseteq delivered'
  BY DeliveredGrows DEF IInv, Types
<1>2. w.pc \in AtRow => w.id \in Ids /\ row.state # "done"
  BY DEF IInv, RowInv
<1>3. CASE Quit /\ UNCHANGED shown
  <2>1. /\ outbox' \in Seq(Row) /\ DOMAIN outbox' = DOMAIN outbox
        /\ \A i \in Ids : Same(i)
    BY <1>1, <1>3, QuitRows
  <2> QED
    BY <1>1, <1>3, <2>1, QuietIsKept
<1>4. CASE w.pc \in AtRow /\ Retry
  <2>1. /\ outbox' \in Seq(Row) /\ DOMAIN outbox' = DOMAIN outbox
        /\ \A i \in Ids : Same(i)
    BY <1>1, <1>2, <1>4, RetryRows
  <2>2. UNCHANGED shown
    BY <1>4 DEF Retry
  <2> QED
    BY <1>1, <2>1, <2>2, QuietIsKept
<1>5. CASE UNCHANGED <<outbox, shown>>
  BY <1>1, <1>5, UntouchedIsKept
<1>6. CASE StartSync
  BY <1>5, <1>6 DEF StartSync, database
<1>7. CASE Observe
  <2>1. CASE ObserveNothingNew
    BY <1>5, <2>1 DEF ObserveNothingNew, database
  <2>2. CASE ObserveOtherHead
    BY <1>3, <2>2 DEF ObserveOtherHead, Quit
  <2>3. CASE ObserveMerge
    <3>1. /\ Snapshot(stored.head) /\ "merged" \in Manifest
          /\ Put(ManifestOf(stored.head),
                 [outbox[ManifestOf(stored.head)] EXCEPT !.manifest = "merged"])
      BY <2>3 DEF ObserveMerge, Manifest
    <3> QED
      BY <1>1, <3>1, ObservedKeeps
  <2>4. CASE ObserveUnfitMerge
    <3> DEFINE i == ManifestOf(stored.head)
               m == Advance(outbox[i].manifest, "superseded")
    <3>1. /\ Snapshot(stored.head)
          /\ Put(i, [outbox[i] EXCEPT !.manifest = Advance(@, "superseded")])
      BY <2>4 DEF ObserveUnfitMerge
    <3>2. i \in Ids
      BY <1>1, <3>1, ManifestOfIs
    <3>3. outbox[i] \in Row
      BY <1>1, <3>2 DEF Ids
    <3>4. [outbox[i] EXCEPT !.manifest = Advance(@, "superseded")]
             = [outbox[i] EXCEPT !.manifest = m]
      BY <3>3 DEF Row
    <3>5. m \in Manifest
      <4>1. outbox[i].manifest \in Manifest /\ "superseded" \in Manifest
        BY <3>3, RowType DEF Manifest
      <4> QED
        BY <4>1, AdvanceType
    <3>6. Put(i, [outbox[i] EXCEPT !.manifest = m])
      BY <3>1, <3>4
    <3> QED
      BY <1>1, <3>1, <3>5, <3>6, ObservedKeeps
  <2> QED
    BY <1>7, <2>1, <2>2, <2>3, <2>4 DEF Observe
<1>8. CASE Work
  BY <1>5, <1>8 DEF Work, database
<1>9. CASE Schedule
  BY <1>9, ScheduleKeeps
<1>10. CASE Claim
  <2>1. /\ outbox' \in Seq(Row) /\ DOMAIN outbox' = DOMAIN outbox
        /\ \A i \in Ids : Same(i)
    BY <1>1, <1>10, ClaimRows
  <2>2. UNCHANGED shown
    BY <1>10 DEF Claim
  <2> QED
    BY <1>1, <2>1, <2>2, QuietIsKept
<1>11. CASE Check
  <2>1. CASE Accept
    BY <1>5, <2>1 DEF Accept, database
  <2> QED
    BY <1>11, <2>1, RejectKeeps DEF Check
<1>12. CASE Publish
  <2>1. CASE PrepareCommit \/ LookAtBranch \/ AlreadyPushed
    BY <1>5, <2>1 DEF PrepareCommit, LookAtBranch, AlreadyPushed, database
  <2>2. CASE PersistCandidate
    BY <2>2, PersistKeeps
  <2>3. CASE PersistConflict \/ BranchChanged
    BY <1>3, <2>3 DEF PersistConflict, BranchChanged, Quit
  <2>4. CASE Push
    BY <1>5, <2>4 DEF Push, database
  <2>5. CASE PushRefused \/ PushUnanswered
    BY <1>4, <2>5 DEF PushRefused, PushUnanswered, AtRow
  <2> QED
    BY <1>12, <2>1, <2>2, <2>3, <2>4, <2>5 DEF Publish
<1>13. CASE PullRequest
  <2>1. CASE ReusePull \/ CreatePull
    BY <1>5, <2>1 DEF ReusePull, CreatePull, database
  <2>2. CASE CreateRefused \/ OpenUnanswered \/ SettleOtherHead
    BY <1>4, <2>2 DEF CreateRefused, OpenUnanswered, SettleOtherHead, AtRow
  <2>3. CASE SettleOpen \/ SettleClosed
    <3>1. /\ w.pc = "settling" /\ "pr_open" \in Manifest /\ "superseded" \in Manifest
          /\ Put(w.id, Settled("pr_open")) \/ Put(w.id, Settled("superseded"))
      BY <2>3 DEF SettleOpen, SettleClosed, Manifest
    <3> QED
      BY <1>1, <3>1, SettleKeeps
  <2>4. CASE SettleMerged
    <3>1. w.pc = "settling" /\ "none" \in Manifest /\ "superseded" \in Manifest
      BY <2>4 DEF SettleMerged, Manifest
    <3>2. \/ /\ Snapshot(commit)
             /\ outbox' = [outbox EXCEPT ![w.id] = Settled("none"),
                                          ![ManifestOf(commit)].manifest = "merged"]
             /\ shown' = Refresh(ManifestOf(commit), outbox')
          \/ Put(w.id, Settled("superseded"))
          \/ Put(w.id, Settled("none"))
      BY <2>4 DEF SettleMerged
    <3> QED
      BY <1>1, <3>1, <3>2, SettleKeeps, MergedKeeps
  <2> QED
    BY <1>13, <2>1, <2>2, <2>3, <2>4 DEF PullRequest, Settle
<1>14. CASE Die
  BY <1>3, <1>14 DEF Die, Quit
<1>15. CASE Time
  <2>1. /\ outbox' \in Seq(Row) /\ DOMAIN outbox' = DOMAIN outbox
        /\ \A i \in Ids : Same(i)
    BY <1>1, <1>15, TimeRows
  <2>2. UNCHANGED shown
    BY <1>15 DEF Time, OwnerGone, RetryDue
  <2> QED
    BY <1>1, <2>1, <2>2, QuietIsKept
<1>16. CASE People
  BY <1>5, <1>16 DEF People, MoveOn, BranchMoved, PullDecided, Adopt, database
<1>17. CASE UNCHANGED vars
  BY <1>5, <1>17 DEF vars
<1> QED
  BY <1>6, <1>7, <1>8, <1>9, <1>10, <1>11, <1>12, <1>13, <1>14, <1>15, <1>16,
     <1>17 DEF Next, Sync

-----------------------------------------------------------------------------
(* Which step changes what.                                                *)

LEMMA Frames ==
    ASSUME [Next]_vars
    PROVE  /\ UNCHANGED source \/ MoveOn
           /\ UNCHANGED line \/ Schedule \/ RetryDue
           /\ UNCHANGED memory \/ ObserveMerge \/ SettleMerged \/ Adopt
           /\ UNCHANGED adopted \/ Adopt
           /\ UNCHANGED complete \/ Work
           /\ UNCHANGED local \/ PrepareCommit
           /\ \/ UNCHANGED <<remote, delivered>>
              \/ Push \/ PushUnanswered \/ BranchMoved
           /\ \/ UNCHANGED pulls
              \/ Push \/ PushUnanswered \/ CreatePull \/ OpenUnanswered
              \/ BranchMoved \/ PullDecided
           /\ UNCHANGED stored \/ SettleOpen \/ SettleClosed \/ SettleMerged
           /\ UNCHANGED budget \/ \E what \in {"moves", "choices", "faults"} :
                                     Spend(what)
<1>1. CASE StartSync \/ Observe \/ Work
  BY <1>1 DEF StartSync, Observe, ObserveNothingNew, ObserveOtherHead,
     ObserveMerge, ObserveUnfitMerge, Work, database, world
<1>2. CASE Schedule \/ Claim \/ Check
  BY <1>2 DEF Schedule, Claim, Check, Accept, Reject, database, world
<1>3. CASE Publish
  BY <1>3 DEF Publish, PrepareCommit, PersistCandidate, PersistConflict,
     LookAtBranch, AlreadyPushed, BranchChanged, Push, PushRefused,
     PushUnanswered, database, world
<1>4. CASE PullRequest
  BY <1>4 DEF PullRequest, ReusePull, CreatePull, CreateRefused,
     OpenUnanswered, Settle, SettleOpen, SettleClosed, SettleMerged,
     SettleOtherHead, database, world
<1>5. CASE Die \/ Time \/ People \/ UNCHANGED vars
  BY <1>5 DEF Die, Time, OwnerGone, RetryDue, People, MoveOn, BranchMoved,
     PullDecided, Adopt, database, world, vars
<1> QED
  BY <1>1, <1>2, <1>3, <1>4, <1>5 DEF Next, Sync

LEMMA WorkedOff ==
    ASSUME w \in Running, Work
    PROVE  w.pc = "working" /\ w'.pc = "scheduling" /\ w'.stage = "publish"
<1>1. PICK f : w' = [w EXCEPT !.pc = "scheduling", !.stage = "publish", !.files = f]
  BY DEF Work
<1> QED
  BY <1>1 DEF Work, Running

\* Where the sync is after a step: on its row only by these actions.
LEMMA Moves ==
    ASSUME [Next]_vars, w \in Running
    PROVE  \/ UNCHANGED <<w, outbox>>
           \/ w'.pc \notin AtRow
           \/ Claim \/ Accept \/ PrepareCommit \/ PersistCandidate
           \/ LookAtBranch \/ AlreadyPushed \/ Push \/ ReusePull \/ CreatePull
<1>1. /\ Idle.pc \notin AtRow
      /\ \A c \in Label \ AtRow : [w EXCEPT !.pc = c].pc \notin AtRow
  BY DEF Idle, Running, AtRow
<1>2. EndStage \/ w' = Idle => w'.pc \notin AtRow
  BY <1>1 DEF EndStage, Running, AtRow
<1>3. CASE StartSync \/ Observe
  <2>1. w' = [Idle EXCEPT !.pc = "observing", !.run = source] \/ ToRecovery \/ Quit
    BY <1>3 DEF StartSync, Observe, ObserveNothingNew, ObserveOtherHead,
       ObserveMerge, ObserveUnfitMerge
  <2> QED
    BY <1>2, <2>1 DEF Quit, ToRecovery, Idle, Running, AtRow
<1>4. CASE Work
  BY <1>4, WorkedOff DEF AtRow
<1>5. CASE Schedule
  BY <1>5 DEF Schedule, Running, AtRow
<1>6. CASE Check
  BY <1>2, <1>6 DEF Check, Reject
<1>7. CASE Publish
  BY <1>2, <1>7 DEF Publish, PersistConflict, BranchChanged, PushRefused,
     PushUnanswered, Quit, Retry
<1>8. CASE PullRequest
  <2>1. NextEntry => w'.pc \notin AtRow
    BY DEF NextEntry, Running, AtRow
  <2> QED
    BY <1>2, <1>8, <2>1 DEF PullRequest, CreateRefused, OpenUnanswered, Settle,
       SettleOpen, SettleClosed, SettleMerged, SettleOtherHead, Retry
<1>9. CASE Die
  BY <1>2, <1>9 DEF Die, Quit
<1>10. CASE Time \/ People \/ UNCHANGED vars
  <2>1. CASE Time
    BY <2>1 DEF Time, OwnerGone, RetryDue, AtRow
  <2>2. CASE People \/ UNCHANGED vars
    BY <2>2 DEF People, MoveOn, BranchMoved, PullDecided, Adopt, database, vars
  <2> QED
    BY <1>10, <2>1, <2>2
<1> QED
  BY <1>3, <1>4, <1>5, <1>6, <1>7, <1>8, <1>9, <1>10 DEF Next, Sync

LEMMA RunningStep ==
    ASSUME IInv, [Next]_vars
    PROVE  /\ w' \in Running
           /\ w'.pc # "idle" => w'.run \in Revision
           /\ w'.id \in Ids \cup {0}
<1>1. /\ w \in Running /\ source \in Revision /\ w.id \in Ids \cup {0}
      /\ w.pc # "idle" => w.run \in Revision
      /\ outbox \in Seq(Row) /\ line \in Seq(Ids) /\ pulls \in Seq(Pull)
      /\ memory \in [Doc -> [Text -> File]]
  BY DEF IInv, Types
<1>2. Idle \in Running /\ Idle.pc = "idle" /\ Idle.id = 0
  BY DEF Idle, Running, Label, NoFiles, Tree, File
<1>3. \A c \in Label : LET s == [w EXCEPT !.pc = c] IN
         s \in Running /\ s.run = w.run /\ s.id = w.id
  BY <1>1 DEF Running
<1>4. CASE UNCHANGED w
  BY <1>1, <1>4
<1>5. CASE w' = Idle
  BY <1>2, <1>5
<1>6. CASE EndStage /\ w.pc # "idle"
  BY <1>1, <1>2, <1>6 DEF EndStage, Running, Label
<1>7. CASE \E c \in Label : Goto(c) /\ w.pc # "idle"
  BY <1>1, <1>3, <1>7 DEF Goto
<1>8. CASE StartSync
  <2>1. w' = [Idle EXCEPT !.pc = "observing", !.run = source]
    BY <1>8 DEF StartSync
  <2> QED
    BY <1>1, <2>1 DEF Idle, Running, Label, NoFiles, Tree, File
<1>9. CASE Observe
  <2>1. w.pc # "idle" /\ (ToRecovery \/ Quit)
    BY <1>9 DEF Observe, ObserveNothingNew, ObserveOtherHead, ObserveMerge,
       ObserveUnfitMerge
  <2> QED
    BY <1>1, <1>5, <2>1 DEF ToRecovery, Quit, Running, Label
<1>10. CASE Work
  <2>1. PICK D \in SUBSET Doc :
            w' = [w EXCEPT !.pc = "scheduling", !.stage = "publish",
                     !.files = [d \in Doc |-> IF d \in D
                                              THEN Desired(d, w.run.text[d])
                                              ELSE NoText]]
    BY <1>10 DEF Work
  <2>2. w.pc # "idle"
    BY <1>10 DEF Work
  <2> DEFINE f == [d \in Doc |-> IF d \in D THEN Desired(d, w.run.text[d])
                                            ELSE NoText]
  <2>3. f \in Tree
    <3>1. \A d \in Doc : w.run.text[d] \in Text
      BY <1>1, <2>2 DEF Revision
    <3>2. \A d \in Doc, t \in Text : Desired(d, t) \in File
      BY <1>1 DEF Desired, File
    <3> QED
      BY <3>1, <3>2 DEF Tree, File
  <2> HIDE DEF f
  <2> QED
    BY <1>1, <2>1, <2>2, <2>3 DEF Running, Label, f
<1>11. CASE Schedule
  BY <1>1, <1>11 DEF Schedule, Running, Label, NoFiles, Tree, File
<1>12. CASE Claim
  <2>1. /\ w.pc # "idle"
        /\ \/ EndStage
           \/ \E i \in Ids : w' = [w EXCEPT !.pc = "checking", !.id = i]
    BY <1>1, <1>12, ClaimRows DEF Claim
  <2>2. Ids \subseteq Nat
    BY <1>1 DEF Ids
  <2> QED
    BY <1>1, <1>6, <2>1, <2>2 DEF Running, Label
<1>13. CASE Check
  BY <1>6, <1>7, <1>13 DEF Check, Accept, Reject, Label
<1>14. CASE Publish
  BY <1>5, <1>7, <1>14 DEF Publish, PrepareCommit, PersistCandidate,
     PersistConflict, LookAtBranch, AlreadyPushed, BranchChanged, Push,
     PushRefused, PushUnanswered, Quit, Retry, Label
<1>15. CASE PullRequest
  <2>1. CASE ReusePull
    <3>1. PICK n \in OpenPulls : w' = [w EXCEPT !.pc = "settling", !.pull = n]
      BY <2>1 DEF ReusePull
    <3>2. n \in Nat /\ w.pc # "idle"
      BY <1>1, <2>1 DEF OpenPulls, ReusePull
    <3> QED
      BY <1>1, <3>1, <3>2 DEF Running, Label
  <2>2. CASE CreatePull
    <3>1. /\ w.pc # "idle" /\ Len(pulls) + 1 \in Nat
          /\ w' = [w EXCEPT !.pc = "settling", !.pull = Len(pulls) + 1]
      BY <1>1, <2>2 DEF CreatePull
    <3> QED
      BY <1>1, <3>1 DEF Running, Label
  <2>3. CASE CreateRefused \/ OpenUnanswered \/ SettleOtherHead
    BY <1>5, <2>3 DEF CreateRefused, OpenUnanswered, SettleOtherHead, Retry
  <2>4. CASE SettleOpen \/ SettleClosed \/ SettleMerged
    <3>1. w.pc # "idle" /\ NextEntry
      BY <2>4 DEF SettleOpen, SettleClosed, SettleMerged
    <3> QED
      BY <1>1, <3>1 DEF NextEntry, Running, Label
  <2> QED
    BY <1>15, <2>1, <2>2, <2>3, <2>4 DEF PullRequest, Settle
<1>16. CASE Die
  BY <1>5, <1>16 DEF Die, Quit
<1>17. CASE Time \/ People \/ UNCHANGED vars
  BY <1>4, <1>17 DEF Time, OwnerGone, RetryDue, People, MoveOn, BranchMoved,
     PullDecided, Adopt, vars
<1> QED
  BY <1>8, <1>9, <1>10, <1>11, <1>12, <1>13, <1>14, <1>15, <1>16, <1>17
     DEF Next, Sync

\* What a row is to the sync that works on it.
LEMMA AtIts ==
    ASSUME IInv, w.pc \in AtRow
    PROVE  /\ w.id \in Ids /\ row \in Row /\ row.batch \in Batch
           /\ commit \in Commit
BY RowType DEF IInv, Types, RowInv, row, commit, Ids

LEMMA FollowIs ==
    ASSUME pulls \in Seq(Pull), \A n \in DOMAIN pulls : pulls[n].head # NoCommit,
           NEW tip \in Tip
    PROVE  LET f == Follow(pulls, tip) IN
           /\ f \in Seq(Pull) /\ DOMAIN f = DOMAIN pulls
           /\ \A n \in DOMAIN f : f[n].head # NoCommit
           /\ \A n \in DOMAIN pulls : pulls[n].state = "merged" => f[n] = pulls[n]
<1> DEFINE f == Follow(pulls, tip)
<1>1. f = [n \in DOMAIN pulls |->
              IF pulls[n].state # "open" THEN pulls[n]
              ELSE IF tip = NoCommit THEN [pulls[n] EXCEPT !.state = "closed"]
              ELSE [pulls[n] EXCEPT !.head = tip]]
  BY DEF Follow
<1>2. \A p \in Pull :
          /\ [p EXCEPT !.state = "closed"] \in Pull
          /\ [p EXCEPT !.state = "closed"].head = p.head
          /\ [p EXCEPT !.head = tip] \in Pull
          /\ [p EXCEPT !.head = tip].head = tip
  BY DEF Pull
<1>3. \A n \in DOMAIN pulls : pulls[n] \in Pull
  OBVIOUS
<1>4. DOMAIN f = DOMAIN pulls
  BY <1>1
<1>5. ASSUME NEW n \in DOMAIN pulls
      PROVE  /\ f[n] \in Pull /\ f[n].head # NoCommit
             /\ pulls[n].state = "merged" => f[n] = pulls[n]
  <2>1. CASE pulls[n].state # "open"
    BY <1>1, <1>3, <2>1
  <2>2. CASE pulls[n].state = "open" /\ tip = NoCommit
    <3>1. f[n] = [pulls[n] EXCEPT !.state = "closed"]
      BY <1>1, <2>2
    <3>2. /\ [pulls[n] EXCEPT !.state = "closed"] \in Pull
          /\ [pulls[n] EXCEPT !.state = "closed"].head = pulls[n].head
      BY <1>2, <1>3
    <3> HIDE DEF f
    <3> QED
      BY <2>2, <3>1, <3>2
  <2>3. CASE pulls[n].state = "open" /\ tip # NoCommit
    <3>1. f[n] = [pulls[n] EXCEPT !.head = tip]
      BY <1>1, <2>3
    <3>2. /\ [pulls[n] EXCEPT !.head = tip] \in Pull
          /\ [pulls[n] EXCEPT !.head = tip].head = tip
      BY <1>2, <1>3
    <3> HIDE DEF f
    <3> QED
      BY <2>3, <3>1, <3>2
  <2> QED
    BY <2>1, <2>2, <2>3
<1>6. f = [n \in DOMAIN pulls |-> f[n]]
  <2> HIDE DEF f
  <2> QED
    BY <1>1, Zenon DEF f
<1> HIDE DEF f
<1>7. f \in Seq(Pull)
  BY <1>5, <1>6
<1> QED
  BY <1>4, <1>5, <1>7 DEF f

\* Pull requests, and that a merge is final.
PullsKept ==
    /\ pulls' \in Seq(Pull)
    /\ \A n \in DOMAIN pulls' : pulls'[n].head # NoCommit
    /\ DOMAIN pulls \subseteq DOMAIN pulls'
    /\ \A n \in DOMAIN pulls : pulls[n].state = "merged" => pulls'[n] = pulls[n]

LEMMA PullsStep ==
    ASSUME IInv, [Next]_vars
    PROVE  PullsKept
<1>1. /\ pulls \in Seq(Pull) /\ remote \in Tip /\ local \in Tip
      /\ \A n \in DOMAIN pulls : pulls[n].head # NoCommit
  BY DEF IInv, Types, Tip
<1>2. CASE UNCHANGED pulls
  BY <1>1, <1>2 DEF PullsKept
<1>3. ASSUME NEW tip \in Tip, pulls' = Follow(pulls, tip) PROVE PullsKept
  BY <1>1, <1>3, FollowIs DEF PullsKept
<1>4. CASE Push \/ PushUnanswered
  BY <1>1, <1>2, <1>3, <1>4 DEF Push, PushUnanswered, Deliver
<1>5. CASE BranchMoved
  BY <1>3, <1>5 DEF BranchMoved, Tip
<1>6. CASE pulls' = Created /\ remote # NoCommit
  <2> DEFINE p == [state |-> "open", head |-> remote]
  <2>1. p \in Pull /\ p.head # NoCommit
    BY <1>1, <1>6 DEF Pull
  <2>2. pulls' = Append(pulls, p)
    BY <1>6 DEF Created
  <2> HIDE DEF p
  <2> QED
    BY <1>1, <2>1, <2>2 DEF PullsKept
<1>7. CASE CreatePull \/ OpenUnanswered
  BY <1>2, <1>6, <1>7 DEF CreatePull, OpenUnanswered, Openable
<1>8. CASE PullDecided
  <2>1. PICK n \in OpenPulls, s \in {"merged", "closed"} :
            pulls' = [pulls EXCEPT ![n].state = s]
    BY <1>8 DEF PullDecided
  <2> DEFINE p == [pulls[n] EXCEPT !.state = s]
  <2>2. n \in DOMAIN pulls /\ pulls[n] \in Pull /\ pulls[n].state = "open"
    BY <1>1 DEF OpenPulls
  <2>3. p \in Pull /\ p.head = pulls[n].head
    BY <2>2 DEF Pull
  <2>4. pulls' = [pulls EXCEPT ![n] = p]
    BY <1>1, <2>1, <2>2
  <2> HIDE DEF p
  <2>5. /\ pulls' \in Seq(Pull) /\ DOMAIN pulls' = DOMAIN pulls
        /\ pulls'[n] = p /\ \A m \in DOMAIN pulls \ {n} : pulls'[m] = pulls[m]
    BY <1>1, <2>2, <2>3, <2>4
  <2> QED
    BY <1>1, <2>2, <2>3, <2>5 DEF PullsKept
<1> QED
  BY <1>2, <1>4, <1>5, <1>7, <1>8, Frames

LEMMA HostTypes ==
    ASSUME IInv, [Next]_vars
    PROVE  /\ local' \in Commit \cup {NoCommit} /\ remote' \in Tip
           /\ delivered' \subseteq Commit
           /\ remote' \in Commit => remote' \in delivered'
<1>1. /\ local \in Commit \cup {NoCommit} /\ remote \in Tip
      /\ delivered \subseteq Commit
      /\ remote \in Commit => remote \in delivered
  BY DEF IInv, Types, HostInv
<1>2. local' \in Commit \cup {NoCommit}
  <2>1. CASE PrepareCommit
    <3>1. local' = commit /\ w.pc \in AtRow
      BY <2>1 DEF PrepareCommit, AtRow
    <3> QED
      BY <3>1, AtIts
  <2> QED
    BY <1>1, <2>1, Frames
<1> DEFINE Good == /\ remote' \in Tip /\ delivered' \subseteq Commit
                   /\ remote' \in Commit => remote' \in delivered'
<1>3. UNCHANGED <<remote, delivered>> => Good
  BY <1>1
<1>4. w.pc = "sending" /\ Deliver => Good
  <2> SUFFICES ASSUME w.pc = "sending", Deliver PROVE Good
    OBVIOUS
  <2>1. local = commit /\ commit \in Commit
    BY AtIts DEF IInv, HostInv, AtRow
  <2>2. remote' = local /\ delivered' = delivered \cup {local}
    BY DEF Deliver
  <2> QED
    BY <1>1, <2>1, <2>2 DEF Tip
<1>5. Push \/ PushUnanswered => Good
  <2>1. Push \/ PushUnanswered =>
            \/ w.pc = "sending" /\ Deliver
            \/ UNCHANGED <<remote, delivered>>
    BY DEF Push, PushUnanswered
  <2> HIDE DEF Good
  <2> QED
    BY <1>3, <1>4, <2>1
<1>6. BranchMoved => Good
  <2> SUFFICES ASSUME BranchMoved PROVE Good
    OBVIOUS
  <2>1. remote' \in {Foreign, NoCommit} /\ delivered' = delivered
    BY DEF BranchMoved
  <2> QED
    BY <1>1, <2>1 DEF Tip
<1> HIDE DEF Good
<1>7. Good
  BY <1>3, <1>5, <1>6, Frames
<1> QED
  BY <1>2, <1>7 DEF Good

LEMMA PromotedType ==
    ASSUME memory \in [Doc -> [Text -> File]], NEW b \in Batch
    PROVE  Promoted(b) \in [Doc -> [Text -> File]]
<1>1. b.files \in Tree /\ b.base \in Revision
  BY DEF Batch
<1>2. \A d \in Doc : b.files[d] \in File
  BY <1>1 DEF Tree
<1> QED
  BY <1>2 DEF Promoted

LEMMA TypesStep ==
    ASSUME IInv, [Next]_vars
    PROVE  Types'
<1>1. Kept /\ PullsKept
  BY OutboxStep, PullsStep
<1>2. outbox \in Seq(Row) /\ Types
  BY DEF IInv, Types
<1>3. source' \in Revision
  <2>1. CASE MoveOn
    <3>1. PICK t \in SourceText,
               tree \in {source.tree} \cup
                   {MergedTree(n) : n \in {m \in DOMAIN pulls :
                        pulls[m].state = "merged" /\ pulls[m].head # Foreign}} :
                  source' = [text |-> t, tree |-> tree]
      BY <2>1 DEF MoveOn
    <3>2. source.tree \in Tree
      BY <1>2 DEF Types, Revision
    <3>3. ASSUME NEW n \in DOMAIN pulls, pulls[n].head # Foreign
          PROVE  MergedTree(n) \in Tree
      <4>1. pulls[n].head \in Commit
        <5>1. pulls[n] \in Pull /\ pulls[n].head # NoCommit
          BY <1>2 DEF Types
        <5>2. pulls[n].head \in Tip
          BY <5>1 DEF Pull
        <5> QED
          BY <3>3, <5>1, <5>2 DEF Tip
      <4>2. pulls[n].head.tree \in Tree
        BY <4>1 DEF Commit
      <4> QED
        BY <3>2, <4>2 DEF MergedTree, Tree
    <3>4. tree \in Tree
      BY <3>2, <3>3
    <3> QED
      BY <3>1, <3>4 DEF Revision
  <2> QED
    BY <1>2, <2>1, Frames DEF Types
<1>4. line' \in Seq(Ids')
  <2>1. CASE Schedule
    BY <2>1, ScheduleKeeps
  <2>2. CASE RetryDue
    <3>1. line' \in Seq(Ids)
      BY <1>2, <2>2, TimeRows DEF Time, Types
    <3> QED
      BY <1>1, <3>1 DEF Kept
  <2>3. CASE UNCHANGED line
    BY <1>1, <1>2, <2>3 DEF Kept, Types
  <2> QED
    BY <2>1, <2>2, <2>3, Frames
<1>5. Adopt => /\ memory' \in [Doc -> [Text -> File]]
                /\ adopted' \in [Doc -> [Text -> File]]
  <2> SUFFICES ASSUME Adopt
               PROVE  /\ memory' \in [Doc -> [Text -> File]]
                      /\ adopted' \in [Doc -> [Text -> File]]
    OBVIOUS
  <2>1. PICK d \in Doc, c \in Content :
            /\ memory' = [memory EXCEPT ![d][source.text[d]] = c]
            /\ adopted' = [adopted EXCEPT ![d][source.text[d]] = c]
    BY DEF Adopt
  <2>2. c \in File
    BY DEF File
  <2>3. memory \in [Doc -> [Text -> File]] /\ adopted \in [Doc -> [Text -> File]]
    BY <1>2 DEF Types
  <2> QED
    BY <2>1, <2>2, <2>3
<1>6. memory' \in [Doc -> [Text -> File]]
  <2>1. CASE ObserveMerge
    <3> DEFINE i == ManifestOf(stored.head)
    <3>1. Snapshot(stored.head) /\ memory' = Promoted(outbox[i].batch)
      BY <2>1 DEF ObserveMerge
    <3>2. i \in Ids
      BY <1>2, <3>1, ManifestOfIs
    <3>3. outbox[i].batch \in Batch
      BY <1>2, <3>2, RowType DEF Ids
    <3> QED
      BY <1>2, <3>1, <3>3, PromotedType DEF Types
  <2>2. CASE SettleMerged
    <3> DEFINE i == ManifestOf(commit)
    <3>1. \/ UNCHANGED memory
          \/ Snapshot(commit) /\ memory' = Promoted(outbox[i].batch)
      BY <2>2 DEF SettleMerged
    <3>2. CASE Snapshot(commit) /\ memory' = Promoted(outbox[i].batch)
      <4>1. i \in Ids
        BY <1>2, <3>2, ManifestOfIs
      <4>2. outbox[i].batch \in Batch
        BY <1>2, <4>1, RowType DEF Ids
      <4> QED
        BY <1>2, <3>2, <4>2, PromotedType DEF Types
    <3> QED
      BY <1>2, <3>1, <3>2 DEF Types
  <2>3. CASE Adopt
    BY <1>2, <1>5, <2>3 DEF Types
  <2> QED
    BY <1>2, <2>1, <2>2, <2>3, Frames DEF Types
<1>7. adopted' \in [Doc -> [Text -> File]]
  BY <1>2, <1>5, Frames DEF Types
<1>8. complete' \subseteq Doc \X Text
  <2>1. CASE Work
    <3>1. w.run.text \in [Doc -> Text]
      BY <1>2, <2>1 DEF Work, Types, Revision
    <3>2. PICK D \in SUBSET Doc :
              complete' = complete \cup {<<d, w.run.text[d]>> : d \in D}
      BY <2>1 DEF Work
    <3> QED
      BY <1>2, <3>1, <3>2 DEF Types
  <2> QED
    BY <1>2, <2>1, Frames DEF Types
<1>9. \/ stored' = NoPull
      \/ stored'.number \in DOMAIN pulls' /\ stored'.head \in Commit
  <2>1. CASE UNCHANGED stored
    BY <1>1, <1>2, <2>1 DEF PullsKept, Types
  <2>2. CASE SettleOpen \/ SettleClosed \/ SettleMerged
    <3>1. w.pc = "settling" /\ stored' = [number |-> w.pull, head |-> commit]
      BY <2>2 DEF SettleOpen, SettleClosed, SettleMerged, RecordPull
    <3>2. w.pull \in DOMAIN pulls /\ commit \in Commit
      BY <3>1, AtIts DEF IInv, HostInv, AtRow
    <3> QED
      BY <1>1, <3>1, <3>2 DEF PullsKept
  <2> QED
    BY <2>1, <2>2, Frames
<1>10. budget' \in [{"moves", "choices", "faults"} -> Nat]
  <2>1. ASSUME NEW what \in {"moves", "choices", "faults"}, Spend(what)
        PROVE  budget' \in [{"moves", "choices", "faults"} -> Nat]
    <3>1. budget[what] \in Nat /\ budget[what] - 1 \in Nat
      BY <1>2, <2>1 DEF Types, Spend
    <3> QED
      BY <1>2, <2>1, <3>1 DEF Types, Spend
  <2> QED
    BY <1>2, <2>1, Frames DEF Types
<1>11. /\ w' \in Running /\ w'.id \in Ids' \cup {0}
       /\ w'.pc # "idle" => w'.run \in Revision
  BY <1>1, RunningStep DEF Kept
<1>12. /\ local' \in Commit \cup {NoCommit} /\ remote' \in Tip
       /\ delivered' \subseteq Commit
  BY HostTypes
<1> QED
  BY <1>1, <1>3, <1>4, <1>6, <1>7, <1>8, <1>9, <1>10, <1>11, <1>12
     DEF Types, Kept, PullsKept

-----------------------------------------------------------------------------
(* The row of the sync, and the host.                                      *)

\* A step on the row that changes its pc and leaves the outbox alone.
LEMMA SameRow ==
    ASSUME w \in Running, UNCHANGED outbox, w'.id = w.id, w'.run = w.run
    PROVE  /\ row' = row /\ commit' = commit
           /\ Fits(row.batch, w.run)' = Fits(row.batch, w.run)
           /\ (w.id \in Ids)' = (w.id \in Ids)
BY DEF row, commit, Fits, Ids

LEMMA PersistedRow ==
    ASSUME IInv, PersistCandidate
    PROVE  /\ w'.pc = "pushing" /\ w'.id = w.id /\ w'.run = w.run
           /\ w.id \in Ids' /\ row' = Recorded
           /\ row'.batch = row.batch /\ commit' = commit
           /\ row'.state = "processing" /\ row'.prepared
           /\ row'.manifest # "none" /\ Fits(row.batch, w.run)
<1>1. /\ w \in Running /\ outbox \in Seq(Row) /\ remote \in Tip
      /\ w.pc = "persisting" /\ Goto("pushing")
      /\ outbox' = [outbox EXCEPT ![w.id] = Recorded]
  BY DEF IInv, Types, PersistCandidate, Put
<1>2. w.id \in Ids /\ row.state = "processing" /\ Fits(row.batch, w.run)
  BY <1>1 DEF IInv, RowInv, AtRow
<1>3. w'.pc = "pushing" /\ w'.id = w.id /\ w'.run = w.run
  BY <1>1 DEF Goto, Running
<1> DEFINE r == Recorded
<1>4. /\ r.batch = row.batch /\ r.state = row.state /\ r.prepared
      /\ r.manifest # "none"
  BY <1>1, <1>2, RecordedIs
<1>5. outbox' = [outbox EXCEPT ![w.id] = r]
  BY <1>1
<1> HIDE DEF r
<1>6. DOMAIN outbox' = DOMAIN outbox /\ outbox'[w.id] = r
  BY <1>2, <1>5 DEF Ids
<1>7. row' = r
  BY <1>3, <1>6 DEF row
<1>8. commit' = commit
  BY <1>4, <1>7 DEF commit
<1> QED
  BY <1>2, <1>3, <1>4, <1>6, <1>7, <1>8 DEF Ids, r

LEMMA RowStep ==
    ASSUME IInv, [Next]_vars
    PROVE  RowInv'
<1>1. w \in Running /\ outbox \in Seq(Row) /\ line \in Seq(Ids) /\ RowInv
  BY DEF IInv, Types
<1>2. CASE w'.pc \notin AtRow
  BY <1>2 DEF RowInv, AtRow
<1>3. CASE UNCHANGED <<w, outbox>>
  <2>1. w'.id = w.id /\ w'.run = w.run /\ w'.pc = w.pc
    BY <1>3
  <2> QED
    BY <1>1, <1>3, <2>1, SameRow DEF RowInv
<1>4. CASE Claim
  <2>1. CASE EndStage
    BY <1>1, <1>2, <2>1 DEF EndStage, Running, AtRow, Idle
  <2>2. ASSUME NEW i \in Ids, outbox'[i].state = "processing",
               w' = [w EXCEPT !.pc = "checking", !.id = i]
        PROVE  RowInv'
    <3>1. w'.pc = "checking" /\ w'.id = i
      BY <1>1, <2>2 DEF Running
    <3>2. i \in Ids'
      BY <1>1, <1>4, ClaimRows DEF Ids
    <3> QED
      BY <2>2, <3>1, <3>2 DEF RowInv, AtRow, row
  <2> QED
    BY <1>1, <1>4, <2>1, <2>2, ClaimRows
<1>5. CASE Accept
  <2>1. /\ w.pc = "checking" /\ Fits(row.batch, w.run) /\ UNCHANGED outbox
        /\ w'.pc \in {"persisting", "preparing"} /\ w'.id = w.id /\ w'.run = w.run
    BY <1>1, <1>5 DEF Accept, Goto, Running
  <2> QED
    BY <1>1, <2>1, SameRow DEF RowInv, AtRow
<1>6. CASE PrepareCommit
  <2>1. /\ w.pc = "preparing" /\ UNCHANGED outbox
        /\ w'.pc = "persisting" /\ w'.id = w.id /\ w'.run = w.run
    BY <1>1, <1>6 DEF PrepareCommit, Goto, Running, database
  <2> QED
    BY <1>1, <2>1, SameRow DEF RowInv, AtRow
<1>7. CASE PersistCandidate
  BY <1>7, PersistedRow DEF RowInv, AtRow, Fits
<1>8. CASE LookAtBranch \/ AlreadyPushed \/ Push
  <2>1. /\ w.pc \in {"pushing", "sending"} /\ UNCHANGED outbox
        /\ w'.pc \in {"sending", "opening"} /\ w'.id = w.id /\ w'.run = w.run
    BY <1>1, <1>8 DEF LookAtBranch, AlreadyPushed, Push, Goto, Running, database
  <2> QED
    BY <1>1, <2>1, SameRow DEF RowInv, AtRow
<1>9. CASE ReusePull \/ CreatePull
  <2>1. /\ w.pc = "opening" /\ UNCHANGED outbox
        /\ w'.pc = "settling" /\ w'.id = w.id /\ w'.run = w.run
    BY <1>1, <1>9 DEF ReusePull, CreatePull, Running, database
  <2> QED
    BY <1>1, <2>1, SameRow DEF RowInv, AtRow
<1> QED
  BY <1>1, <1>2, <1>3, <1>4, <1>5, <1>6, <1>7, <1>8, <1>9, Moves

LEMMA HostStep ==
    ASSUME IInv, [Next]_vars
    PROVE  HostInv'
<1>1. /\ w \in Running /\ outbox \in Seq(Row) /\ line \in Seq(Ids) /\ HostInv
      /\ pulls \in Seq(Pull)
  BY DEF IInv, Types
<1>2. /\ remote' \in Commit => remote' \in delivered'
      /\ delivered \subseteq delivered' /\ DOMAIN pulls \subseteq DOMAIN pulls'
  BY HostTypes, DeliveredGrows, PullsStep DEF PullsKept
<1>3. CASE w'.pc \notin {"sending", "opening", "settling"}
  BY <1>2, <1>3 DEF HostInv
<1>4. CASE UNCHANGED <<w, outbox>>
  <2>1. w'.id = w.id /\ w'.run = w.run /\ w'.pc = w.pc /\ w'.pull = w.pull
    BY <1>4
  <2>2. commit' = commit
    BY <1>1, <1>4, <2>1, SameRow
  <2>3. w.pc = "sending" => UNCHANGED local
    <3>1. PrepareCommit => w.pc = "preparing"
      BY DEF PrepareCommit
    <3> QED
      BY <3>1, Frames
  <2> QED
    BY <1>1, <1>2, <2>1, <2>2, <2>3 DEF HostInv
<1>5. CASE Claim
  <2>1. w'.pc \notin {"sending", "opening", "settling"}
    <3>1. EndStage \/ \E i \in Ids : w' = [w EXCEPT !.pc = "checking", !.id = i]
      BY <1>1, <1>5, ClaimRows
    <3>2. CASE EndStage
      <4>1. CASE w' = Idle
        BY <4>1 DEF Idle
      <4>2. CASE w' = [w EXCEPT !.pc = "working", !.id = 0]
        BY <1>1, <4>2 DEF Running
      <4> QED
        BY <3>2, <4>1, <4>2 DEF EndStage
    <3>3. ASSUME NEW i \in Ids, w' = [w EXCEPT !.pc = "checking", !.id = i]
          PROVE  w'.pc = "checking"
      BY <1>1, <3>3 DEF Running
    <3> QED
      BY <3>1, <3>2, <3>3
  <2> QED
    BY <1>3, <2>1
<1>6. CASE Accept \/ PrepareCommit \/ PersistCandidate
  BY <1>1, <1>3, <1>6 DEF Accept, PrepareCommit, PersistCandidate, Goto, Running
<1>7. CASE LookAtBranch
  <2>1. /\ local = commit /\ UNCHANGED <<outbox, local>>
        /\ w'.pc = "sending" /\ w'.id = w.id /\ w'.run = w.run
    BY <1>1, <1>7 DEF LookAtBranch, Goto, Running, world, database
  <2> QED
    BY <1>1, <1>2, <2>1, SameRow DEF HostInv
<1>8. CASE AlreadyPushed
  <2>1. /\ w.pc = "pushing" /\ remote = commit /\ UNCHANGED outbox
        /\ w'.pc = "opening" /\ w'.id = w.id /\ w'.run = w.run
    BY <1>1, <1>8 DEF AlreadyPushed, Goto, Running, world, database
  <2>2. commit \in delivered
    BY <1>1, <2>1, AtIts DEF HostInv, AtRow
  <2> QED
    BY <1>1, <1>2, <2>1, <2>2, SameRow DEF HostInv
<1>9. CASE Push
  <2>1. /\ w.pc = "sending" /\ UNCHANGED outbox /\ local \in delivered'
        /\ w'.pc = "opening" /\ w'.id = w.id /\ w'.run = w.run
    BY <1>1, <1>9 DEF Push, Deliver, Goto, Running, database
  <2> QED
    BY <1>1, <1>2, <2>1, SameRow DEF HostInv
<1>10. CASE ReusePull
  <2>1. PICK n \in OpenPulls : w' = [w EXCEPT !.pc = "settling", !.pull = n]
    BY <1>10 DEF ReusePull
  <2>2. /\ w.pc = "opening" /\ UNCHANGED outbox /\ w'.pull \in DOMAIN pulls
        /\ w'.pc = "settling" /\ w'.id = w.id /\ w'.run = w.run
    BY <1>1, <1>10, <2>1 DEF ReusePull, OpenPulls, Running, database
  <2> QED
    BY <1>1, <1>2, <2>2, SameRow DEF HostInv
<1>11. CASE CreatePull
  <2>1. /\ w.pc = "opening" /\ UNCHANGED outbox /\ w'.pull = Len(pulls) + 1
        /\ w'.pc = "settling" /\ w'.id = w.id /\ w'.run = w.run
    BY <1>1, <1>11 DEF CreatePull, Running, database
  <2>2. Len(pulls) + 1 \in DOMAIN pulls'
    BY <1>1, <1>11 DEF CreatePull, Created
  <2> QED
    BY <1>1, <1>2, <2>1, <2>2, SameRow DEF HostInv
<1> QED
  BY <1>1, <1>3, <1>4, <1>5, <1>6, <1>7, <1>8, <1>9, <1>10, <1>11, Moves DEF AtRow

\* What was trusted has its reason still.
LEMMA StillTrusted ==
    ASSUME TrustedByPeople, PullsKept, NEW d \in Doc, NEW t \in Text,
           memory[d][t] # NoText
    PROVE  \/ memory[d][t] = adopted[d][t]
           \/ \E m \in DOMAIN pulls' :
               /\ pulls'[m].state = "merged" /\ pulls'[m].head # Foreign
               /\ pulls'[m].head.base.text[d] = t
               /\ pulls'[m].head.tree[d] = memory[d][t]
<1>1. CASE memory[d][t] = adopted[d][t]
  BY <1>1
<1>2. CASE memory[d][t] # adopted[d][t]
  <2>1. PICK n \in DOMAIN pulls :
            /\ pulls[n].state = "merged" /\ pulls[n].head # Foreign
            /\ pulls[n].head.base.text[d] = t
            /\ pulls[n].head.tree[d] = memory[d][t]
    BY <1>2 DEF TrustedByPeople
  <2>2. n \in DOMAIN pulls' /\ pulls'[n] = pulls[n]
    BY <2>1 DEF PullsKept
  <2> QED
    BY <2>1, <2>2
<1> QED
  BY <1>1, <1>2

\* What a merged pull request makes trusted is in its head.
LEMMA PromotedTrusted ==
    ASSUME IInv, [Next]_vars, NEW b \in Batch, NEW n \in DOMAIN pulls,
           pulls[n].state = "merged", pulls[n].head = CommitOf(b),
           memory' = Promoted(b), UNCHANGED adopted
    PROVE  TrustedByPeople'
<1>1. /\ memory \in [Doc -> [Text -> File]] /\ TrustedByPeople /\ PullsKept
  BY PullsStep DEF IInv, Types
<1>2. CommitOf(b) # Foreign
  BY CommitType
<1> SUFFICES ASSUME NEW d \in Doc, NEW t \in Text, memory'[d][t] # NoText
             PROVE  \/ memory'[d][t] = adopted'[d][t]
                    \/ \E m \in DOMAIN pulls' :
                        /\ pulls'[m].state = "merged" /\ pulls'[m].head # Foreign
                        /\ pulls'[m].head.base.text[d] = t
                        /\ pulls'[m].head.tree[d] = memory'[d][t]
  BY DEF TrustedByPeople
<1>3. CASE b.files[d] # NoText /\ b.base.text[d] = t
  <2>1. memory'[d][t] = b.files[d]
    BY <1>1, <1>3 DEF Promoted
  <2>2. /\ CommitOf(b).base.text[d] = t
        /\ CommitOf(b).tree[d] = b.files[d]
    BY <1>3 DEF CommitOf, TreeOf, Documents
  <2>3. n \in DOMAIN pulls' /\ pulls'[n] = pulls[n]
    BY <1>1 DEF PullsKept
  <2> QED
    BY <1>2, <2>1, <2>2, <2>3
<1>4. CASE ~(b.files[d] # NoText /\ b.base.text[d] = t)
  <2>1. memory'[d][t] = memory[d][t]
    BY <1>1, <1>4 DEF Promoted
  <2>2. adopted'[d][t] = adopted[d][t]
    OBVIOUS
  <2>3. \/ memory[d][t] = adopted[d][t]
        \/ \E m \in DOMAIN pulls' :
            /\ pulls'[m].state = "merged" /\ pulls'[m].head # Foreign
            /\ pulls'[m].head.base.text[d] = t
            /\ pulls'[m].head.tree[d] = memory[d][t]
    <3>1. memory[d][t] # NoText
      BY <2>1
    <3> QED
      BY <1>1, <3>1, StillTrusted
  <2> QED
    BY <2>1, <2>2, <2>3
<1> QED
  BY <1>3, <1>4

LEMMA TrustedStep ==
    ASSUME IInv, [Next]_vars
    PROVE  TrustedByPeople'
<1>1. /\ memory \in [Doc -> [Text -> File]] /\ adopted \in [Doc -> [Text -> File]]
      /\ TrustedByPeople /\ PullsKept /\ outbox \in Seq(Row)
  BY PullsStep DEF IInv, Types
<1>2. CASE UNCHANGED <<memory, adopted>>
  <2> SUFFICES ASSUME NEW d \in Doc, NEW t \in Text, memory'[d][t] # NoText
               PROVE  \/ memory'[d][t] = adopted'[d][t]
                      \/ \E m \in DOMAIN pulls' :
                          /\ pulls'[m].state = "merged" /\ pulls'[m].head # Foreign
                          /\ pulls'[m].head.base.text[d] = t
                          /\ pulls'[m].head.tree[d] = memory'[d][t]
    BY DEF TrustedByPeople
  <2>1. memory'[d][t] = memory[d][t] /\ adopted'[d][t] = adopted[d][t]
    BY <1>2
  <2>2. memory[d][t] # NoText
    BY <2>1
  <2>3. \/ memory[d][t] = adopted[d][t]
        \/ \E m \in DOMAIN pulls' :
            /\ pulls'[m].state = "merged" /\ pulls'[m].head # Foreign
            /\ pulls'[m].head.base.text[d] = t
            /\ pulls'[m].head.tree[d] = memory[d][t]
    BY <1>1, <2>2, StillTrusted
  <2> QED
    BY <2>1, <2>3
<1>3. CASE Adopt
  <2>1. PICK d \in Doc, c \in Content :
            /\ memory' = [memory EXCEPT ![d][source.text[d]] = c]
            /\ adopted' = [adopted EXCEPT ![d][source.text[d]] = c]
    BY <1>3 DEF Adopt
  <2> SUFFICES ASSUME NEW e \in Doc, NEW t \in Text, memory'[e][t] # NoText
               PROVE  \/ memory'[e][t] = adopted'[e][t]
                      \/ \E m \in DOMAIN pulls' :
                          /\ pulls'[m].state = "merged" /\ pulls'[m].head # Foreign
                          /\ pulls'[m].head.base.text[e] = t
                          /\ pulls'[m].head.tree[e] = memory'[e][t]
    BY DEF TrustedByPeople
  <2>2. CASE e = d /\ t = source.text[d]
    BY <1>1, <2>1, <2>2
  <2>3. CASE ~(e = d /\ t = source.text[d])
    <3>1. memory'[e][t] = memory[e][t] /\ adopted'[e][t] = adopted[e][t]
      BY <1>1, <2>1, <2>3
    <3>2. memory[e][t] # NoText
      BY <3>1
    <3>3. \/ memory[e][t] = adopted[e][t]
          \/ \E m \in DOMAIN pulls' :
              /\ pulls'[m].state = "merged" /\ pulls'[m].head # Foreign
              /\ pulls'[m].head.base.text[e] = t
              /\ pulls'[m].head.tree[e] = memory[e][t]
      BY <1>1, <3>2, StillTrusted
    <3> QED
      BY <3>1, <3>3
  <2> QED
    BY <2>2, <2>3
<1>4. CASE ObserveMerge
  <2> DEFINE i == ManifestOf(stored.head)
  <2>1. /\ Merged /\ StoredPull.head = stored.head /\ Snapshot(stored.head)
        /\ memory' = Promoted(outbox[i].batch) /\ UNCHANGED adopted
    BY <1>4 DEF ObserveMerge, world
  <2>2. i \in Ids /\ CommitOf(outbox[i].batch) = stored.head
    BY <1>1, <2>1, ManifestOfIs
  <2>3. outbox[i].batch \in Batch
    BY <1>1, <2>2, RowType DEF Ids
  <2>4. /\ stored.number \in DOMAIN pulls /\ pulls[stored.number].state = "merged"
        /\ pulls[stored.number].head = CommitOf(outbox[i].batch)
    BY <2>1, <2>2 DEF Merged, StoredPull, IInv, Types
  <2> QED
    BY <2>1, <2>3, <2>4, PromotedTrusted
<1>5. CASE SettleMerged
  <2> DEFINE i == ManifestOf(commit)
  <2>1. /\ w.pc = "settling" /\ Seen.state = "merged" /\ Seen.head = commit
        /\ UNCHANGED adopted
        /\ \/ UNCHANGED memory
           \/ Snapshot(commit) /\ memory' = Promoted(outbox[i].batch)
    BY <1>5 DEF SettleMerged, world
  <2>2. CASE Snapshot(commit) /\ memory' = Promoted(outbox[i].batch)
    <3>1. i \in Ids /\ CommitOf(outbox[i].batch) = commit
      BY <1>1, <2>2, ManifestOfIs
    <3>2. outbox[i].batch \in Batch
      BY <1>1, <3>1, RowType DEF Ids
    <3>3. /\ w.pull \in DOMAIN pulls /\ pulls[w.pull].state = "merged"
          /\ pulls[w.pull].head = CommitOf(outbox[i].batch)
      BY <2>1, <3>1 DEF Seen, IInv, HostInv
    <3> QED
      BY <2>1, <2>2, <3>2, <3>3, PromotedTrusted
  <2> QED
    BY <1>2, <2>1, <2>2
<1> QED
  BY <1>2, <1>3, <1>4, <1>5, Frames

LEMMA Invariant == Spec => []IInv
<1>1. Init => IInv
  <2> SUFFICES ASSUME Init PROVE IInv
    OBVIOUS
  <2>1. /\ outbox = <<>> /\ line = <<>> /\ pulls = <<>> /\ stored = NoPull
        /\ w = Idle /\ local = NoCommit /\ remote = NoCommit /\ delivered = {}
        /\ complete = {} /\ shown = [v \in {} |-> "none"] /\ budget \in Bounds
        /\ source = [text |-> First, tree |-> NoFiles]
        /\ memory = [d \in Doc |-> [t \in Text |-> NoText]]
        /\ adopted = [d \in Doc |-> [t \in Text |-> NoText]]
    BY DEF Init
  <2>2. DOMAIN outbox = {} /\ DOMAIN shown = {} /\ Ids = {} /\ DOMAIN pulls = {}
    BY <2>1 DEF Ids
  <2>3. Types
    <3>1. source \in Revision
      BY <2>1 DEF Revision, NoFiles, Tree, File
    <3>2. /\ w \in Running /\ w.id \in Ids \cup {0}
          /\ w.pc # "idle" => w.run \in Revision
      BY <2>1 DEF Idle, Running, Label, NoFiles, Tree, File
    <3>3. memory \in [Doc -> [Text -> File]] /\ adopted \in [Doc -> [Text -> File]]
      BY <2>1 DEF File
    <3>4. outbox \in Seq(Row) /\ line \in Seq(Ids) /\ pulls \in Seq(Pull)
      BY <2>1
    <3>5. shown = [v \in DOMAIN shown |-> shown[v]]
      BY <2>1
    <3>6. budget \in [{"moves", "choices", "faults"} -> Nat]
      BY <2>1
    <3>7. /\ complete \subseteq Doc \X Text /\ local \in Commit \cup {NoCommit}
          /\ remote \in Tip /\ delivered \subseteq Commit
          /\ \A n \in DOMAIN pulls : pulls[n].head # NoCommit
          /\ stored = NoPull
      BY <2>1, <2>2 DEF Tip
    <3> QED
      BY <3>1, <3>2, <3>3, <3>4, <3>5, <3>6, <3>7, Zenon DEF Types
  <2>4. RowInv /\ HostInv
    BY <2>1 DEF RowInv, HostInv, AtRow, Idle
  <2>5. Rows
    BY <2>2 DEF Rows, ShownInv, OneAuthorizedFileSet, SettledWasDelivered,
       PublishedOnce
  <2>6. TrustedByPeople
    BY <2>1 DEF TrustedByPeople
  <2> QED
    BY <2>3, <2>4, <2>5, <2>6 DEF IInv
<1>2. IInv /\ [Next]_vars => IInv'
  <2> SUFFICES ASSUME IInv, [Next]_vars PROVE IInv'
    OBVIOUS
  <2>1. Rows'
    BY OutboxStep DEF Kept
  <2> QED
    BY <2>1, TypesStep, RowStep, HostStep, TrustedStep DEF IInv
<1> QED
  BY <1>1, <1>2, PTL DEF Spec

-----------------------------------------------------------------------------
(* Batches of one source grow.                                             *)
(*                                                                         *)
(* What is complete at a text stays so, and every later batch of the text  *)
(* takes it in (Work).  Two batches of one revision with equally many      *)
(* files are therefore batches of the same documents, and then the tree of *)
(* their commit tells their files.                                         *)

\* The documents of a batch are complete, and in every later batch of the
\* same texts, those being scheduled included.
Growth ==
    /\ \A i \in Ids : \A d \in Documents(outbox[i].batch) :
           <<d, outbox[i].batch.base.text[d]>> \in complete
    /\ \A i, j \in Ids :
           i < j /\ outbox[i].batch.base.text = outbox[j].batch.base.text =>
               Documents(outbox[i].batch) \subseteq Documents(outbox[j].batch)
    /\ w.pc = "scheduling" =>
           /\ \A d \in Documents(w) : <<d, w.run.text[d]>> \in complete
           /\ \A i \in Ids : outbox[i].batch.base.text = w.run.text =>
                  Documents(outbox[i].batch) \subseteq Documents(w)

\* Only Work leads to a batch to schedule, and Schedule away from it.
LEMMA Gathered ==
    ASSUME [Next]_vars, w \in Running, w'.pc = "scheduling"
    PROVE  Work \/ (w' = w /\ ~Schedule)
<1>1. /\ \A c \in Label \ {"scheduling"} : [w EXCEPT !.pc = c].pc # "scheduling"
      /\ Idle.pc # "scheduling"
  BY DEF Idle, Running
<1>2. ~EndStage /\ w' # Idle
  BY <1>1 DEF EndStage, Running, Label
<1>3. ~(StartSync \/ Observe \/ Schedule)
  <2>1. ASSUME StartSync \/ Observe
        PROVE  \/ w' = [Idle EXCEPT !.pc = "observing", !.run = source]
               \/ ToRecovery \/ Quit
    BY <2>1 DEF StartSync, Observe, ObserveNothingNew, ObserveOtherHead,
       ObserveMerge, ObserveUnfitMerge
  <2>2. ~Schedule
    BY DEF Schedule, Running
  <2> QED
    BY <1>2, <2>1, <2>2 DEF Quit, ToRecovery, Idle, Running
<1>4. ~(Claim \/ Check)
  BY <1>2 DEF Claim, Check, Accept, Reject, Goto, Running
<1>5. ~Publish
  BY <1>2 DEF Publish, PrepareCommit, PersistCandidate, PersistConflict,
     LookAtBranch, AlreadyPushed, BranchChanged, Push, PushRefused,
     PushUnanswered, Quit, Retry, Goto, Running
<1>6. ~PullRequest
  <2>1. ~NextEntry
    BY DEF NextEntry, Running
  <2>2. ~(ReusePull \/ CreatePull)
    BY DEF ReusePull, CreatePull, Running
  <2> QED
    BY <1>2, <2>1, <2>2 DEF PullRequest, CreateRefused, OpenUnanswered, Settle,
       SettleOpen, SettleClosed, SettleMerged, SettleOtherHead, Retry
<1>7. ~Die
  BY <1>2 DEF Die, Quit
<1>8. Time \/ People \/ UNCHANGED vars => w' = w
  BY DEF Time, OwnerGone, RetryDue, People, MoveOn, BranchMoved, PullDecided,
     Adopt, database, vars
<1> QED
  BY <1>3, <1>4, <1>5, <1>6, <1>7, <1>8 DEF Next, Sync

\* The batch that Work leaves to schedule: what is complete or trusted at the
\* texts of the run is in it, and what is in it is complete.
LEMMA GatheredAll ==
    ASSUME IInv, Work
    PROVE  /\ complete \subseteq complete' /\ UNCHANGED outbox
           /\ w'.run = w.run
           /\ \A d \in Documents(w') : <<d, w'.run.text[d]>> \in complete'
           /\ \A d \in Doc :
                  <<d, w.run.text[d]>> \in complete => d \in Documents(w')
<1>1. /\ w \in Running /\ w.run \in Revision
      /\ memory \in [Doc -> [Text -> File]]
  BY DEF IInv, Types, Work
<1>2. PICK D \in SUBSET Doc :
        /\ Ready(w.run) \subseteq D
        /\ complete' = complete \cup {<<d, w.run.text[d]>> : d \in D}
        /\ w' = [w EXCEPT !.pc = "scheduling", !.stage = "publish",
                     !.files = [d \in Doc |-> IF d \in D
                                              THEN Desired(d, w.run.text[d])
                                              ELSE NoText]]
  BY DEF Work
<1> DEFINE f == [d \in Doc |-> IF d \in D THEN Desired(d, w.run.text[d])
                                          ELSE NoText]
<1>3. \A d \in Doc : f[d] # NoText <=> d \in D
  <2>1. \A d \in Doc : w.run.text[d] \in Text
    BY <1>1 DEF Revision
  <2>2. \A d \in Doc, t \in Text : Desired(d, t) # NoText
    BY DEF Desired
  <2> QED
    BY <2>1, <2>2
<1>4. w'.files = f /\ w'.run = w.run
  BY <1>1, <1>2 DEF Running
<1> HIDE DEF f
<1>5. Documents(w') = D
  BY <1>3, <1>4 DEF Documents
<1>6. UNCHANGED outbox
  BY DEF Work, database
<1>7. \A d \in D : <<d, w'.run.text[d]>> \in complete'
  BY <1>2, <1>4
<1>8. \A d \in Doc : <<d, w.run.text[d]>> \in complete => d \in D
  BY <1>2 DEF Ready
<1> QED
  BY <1>2, <1>4, <1>5, <1>6, <1>7, <1>8

LEMMA GrowthStep ==
    ASSUME IInv, Growth, [Next]_vars
    PROVE  Growth'
<1>1. /\ outbox \in Seq(Row) /\ outbox' \in Seq(Row) /\ w \in Running
      /\ complete \subseteq complete' /\ Ids \subseteq Ids'
      /\ Ids' = Ids \/ Schedule
      /\ \A i \in Ids : outbox'[i].batch = outbox[i].batch
  BY OutboxStep, Frames DEF Kept, IInv, Types, Work
<1>2. ASSUME Ids' = Ids
      PROVE  /\ \A i \in Ids' : \A d \in Documents(outbox'[i].batch) :
                    <<d, outbox'[i].batch.base.text[d]>> \in complete'
             /\ \A i, j \in Ids' :
                    i < j /\ outbox'[i].batch.base.text = outbox'[j].batch.base.text =>
                        Documents(outbox'[i].batch) \subseteq Documents(outbox'[j].batch)
  BY <1>1, <1>2 DEF Growth
<1>3. CASE w'.pc = "scheduling"
  <2>1. CASE Work
    <3>1. /\ UNCHANGED outbox /\ w'.run = w.run /\ Ids' = Ids
          /\ \A d \in Documents(w') : <<d, w'.run.text[d]>> \in complete'
          /\ \A d \in Doc :
                  <<d, w.run.text[d]>> \in complete => d \in Documents(w')
      BY <2>1, GatheredAll DEF Ids
    <3>2. ASSUME NEW i \in Ids, outbox[i].batch.base.text = w.run.text
          PROVE  Documents(outbox[i].batch) \subseteq Documents(w')
      <4>1. \A d \in Documents(outbox[i].batch) : <<d, w.run.text[d]>> \in complete
        BY <3>2 DEF Growth
      <4> QED
        BY <3>1, <4>1, DocumentsAre
    <3> QED
      BY <1>2, <3>1, <3>2 DEF Growth
  <2>2. CASE w' = w /\ ~Schedule
    BY <1>1, <1>2, <1>3, <2>2 DEF Growth
  <2> QED
    BY <1>1, <1>3, <2>1, <2>2, Gathered
<1>4. CASE w'.pc # "scheduling" /\ Ids' = Ids
  BY <1>2, <1>4 DEF Growth
<1>5. CASE w'.pc # "scheduling" /\ Ids' # Ids
  <2>1. Schedule
    BY <1>1, <1>5
  <2>2. PICK b : b = [base |-> w.run, files |-> w.files]
    OBVIOUS
  <2>3. outbox' = Append(outbox, Fresh(b)) /\ w.pc = "scheduling"
    BY <1>5, <2>1, <2>2 DEF Schedule, Ids
  <2>4. PICK k : k = Len(outbox) + 1
    OBVIOUS
  <2>5. /\ Ids' = Ids \cup {k} /\ Ids \subseteq Nat /\ k \in Nat
        /\ outbox'[k].batch = b /\ \A i \in Ids : ~(k < i)
    <3>1. PICK r : r = Fresh(b)
      OBVIOUS
    <3>2. r.batch = b
      BY <3>1 DEF Fresh
    <3>3. outbox' = Append(outbox, r)
      BY <2>3, <3>1
    <3>4. /\ DOMAIN outbox' = DOMAIN outbox \cup {k} /\ outbox'[k] = r
          /\ DOMAIN outbox = 1..Len(outbox) /\ Len(outbox) \in Nat /\ k \in Nat
      BY <1>1, <2>4, <3>3
    <3>5. \A i \in DOMAIN outbox : ~(k < i)
      BY <2>4, <3>4
    <3> QED
      BY <3>2, <3>4, <3>5 DEF Ids
  <2>6. Documents(b) = Documents(w) /\ b.base.text = w.run.text
    BY <2>2 DEF Documents
  <2>7. ASSUME NEW i \in Ids'
        PROVE  \A d \in Documents(outbox'[i].batch) :
                   <<d, outbox'[i].batch.base.text[d]>> \in complete'
    BY <1>1, <2>3, <2>5, <2>6 DEF Growth
  <2>8. ASSUME NEW i \in Ids', NEW j \in Ids', i < j,
               outbox'[i].batch.base.text = outbox'[j].batch.base.text
        PROVE  Documents(outbox'[i].batch) \subseteq Documents(outbox'[j].batch)
    <3>1. CASE i \in Ids /\ j \in Ids
      BY <1>1, <2>8, <3>1 DEF Growth
    <3>2. CASE i \in Ids /\ j = k
      <4>1. outbox'[i].batch = outbox[i].batch /\ outbox'[j].batch = b
        BY <1>1, <2>5, <3>2
      <4>2. outbox[i].batch.base.text = w.run.text
        BY <2>6, <2>8, <4>1
      <4>3. Documents(outbox[i].batch) \subseteq Documents(w)
        BY <2>3, <3>2, <4>2 DEF Growth
      <4> QED
        BY <2>6, <4>1, <4>3
    <3>3. CASE i = k
      <4>1. ~(k < k)
        BY <2>5
      <4> QED
        BY <2>5, <2>8, <3>3, <4>1
    <3> QED
      BY <2>5, <3>1, <3>2, <3>3
  <2> QED
    BY <1>5, <2>7, <2>8 DEF Growth
<1> QED
  BY <1>3, <1>4, <1>5

LEMMA Growing == Spec => []Growth
<1>1. Init => Growth
  BY DEF Init, Growth, Ids, Idle
<1>2. IInv /\ Growth /\ [Next]_vars => Growth'
  BY GrowthStep
<1> QED
  BY <1>1, <1>2, Invariant, PTL DEF Spec

\* A commit that changes something tells its batch among those of the outbox.
LEMMA SameFiles ==
    ASSUME IInv, Growth, NEW i \in Ids, NEW j \in Ids,
           CommitOf(outbox[i].batch) = CommitOf(outbox[j].batch),
           ~ChangesNothing(CommitOf(outbox[i].batch))
    PROVE  outbox[i].batch = outbox[j].batch
<1>1. PICK a, b : a = outbox[i].batch /\ b = outbox[j].batch
  OBVIOUS
<1>2. /\ outbox \in Seq(Row) /\ a \in Batch /\ b \in Batch
      /\ a.files \in Tree /\ b.files \in Tree
      /\ CommitOf(a) = CommitOf(b) /\ ~ChangesNothing(CommitOf(a))
      /\ i \in Nat /\ j \in Nat
  BY <1>1, RowType DEF IInv, Types, Ids, Batch
<1>3. a.base = b.base /\ TreeOf(a) = TreeOf(b)
  BY <1>2 DEF CommitOf
<1>4. TreeOf(a) # a.base.tree
  BY <1>2 DEF CommitOf, ChangesNothing
<1>5. Cardinality(Documents(a)) = Cardinality(Documents(b))
  BY <1>2, <1>3, <1>4 DEF CommitOf
<1>6. \/ Documents(a) \subseteq Documents(b)
      \/ Documents(b) \subseteq Documents(a)
  <2>1. i < j \/ j < i \/ i = j
    BY <1>2
  <2> QED
    BY <1>1, <1>3, <2>1 DEF Growth
<1>7. Documents(a) = Documents(b)
  <2>1. \A A, B : IsFiniteSet(B) /\ A \subseteq B
                     /\ Cardinality(A) = Cardinality(B) => A = B
    BY FS_Subset
  <2> QED
    BY <1>5, <1>6, <2>1, DocumentsAre
<1>8. \A d \in Doc : a.files[d] = b.files[d]
  <2>1. ASSUME NEW d \in Documents(a) PROVE a.files[d] = b.files[d]
    <3>1. d \in Doc /\ TreeOf(a)[d] = TreeOf(b)[d]
      BY <1>3, DocumentsAre
    <3> QED
      BY <1>7, <3>1 DEF TreeOf
  <2>2. ASSUME NEW d \in Doc \ Documents(a) PROVE a.files[d] = b.files[d]
    BY <1>7 DEF Documents
  <2> QED
    BY <2>1, <2>2
<1>9. a.files = b.files
  BY <1>2, <1>8 DEF Tree
<1> QED
  BY <1>1, <1>2, <1>9, SameBatch

-----------------------------------------------------------------------------
(* The theorems.                                                           *)

\* Outbox rows, queue, content, memory, branch, pull requests and the running
\* sync keep their types under every interleaving of syncs, deaths, failures
\* and people.
THEOREM TypeCorrect == Spec => []TypeOK
<1>1. IInv => TypeOK
  <2> SUFFICES ASSUME IInv PROVE TypeOK
    OBVIOUS
  <2>1. /\ Types /\ ShownInv /\ outbox \in Seq(Row)
        /\ shown = [v \in DOMAIN shown |-> shown[v]]
    BY DEF IInv, Types, Rows
  <2>2. \A v \in DOMAIN shown : shown[v] \in Manifest
    <3>1. \A v : States(v, outbox) \subseteq Manifest
      BY <2>1, RowType DEF States
    <3> QED
      BY <2>1, <3>1 DEF ShownInv
  <2>3. shown \in [DOMAIN shown -> Manifest]
    BY <2>1, <2>2
  <2>4. stored.number \in 0..Len(pulls)
    <3>1. pulls \in Seq(Pull)
      BY <2>1 DEF Types
    <3> QED
      BY <2>1, <3>1 DEF Types, NoPull
  <2> QED
    BY <2>1, <2>3, <2>4 DEF Types, TypeOK
<1> QED
  BY <1>1, Invariant, PTL

\* transition_publication_authorization and refresh_publication_states: for
\* content shared by any number of manifests, in any order of their advances,
\* merges and cancellations, the state shown is the strongest among them.
THEOREM StrongestShown == Spec => []StrongestAuthorization
<1>1. IInv => StrongestAuthorization
  <2> SUFFICES ASSUME IInv, NEW v \in DOMAIN shown
               PROVE  shown[v] = Strongest(v, outbox)
    BY DEF StrongestAuthorization
  <2>1. outbox \in Seq(Row) /\ ShownInv
    BY DEF IInv, Types, Rows
  <2> DEFINE A == States(v, outbox)
             s == Strongest(v, outbox)
  <2>2. A \subseteq Manifest
    BY <2>1, RowType DEF States
  <2>3. shown[v] \in A /\ \A n \in A : Strength(shown[v]) >= Strength(n)
    BY <2>1 DEF ShownInv
  <2>4. s \in A /\ \A n \in A : Strength(s) >= Strength(n)
    BY <2>1, <2>3, StrongestIs
  <2> HIDE DEF A, s
  <2>5. /\ shown[v] \in Manifest /\ s \in Manifest
        /\ Strength(shown[v]) >= Strength(s) /\ Strength(s) >= Strength(shown[v])
    BY <2>2, <2>3, <2>4
  <2>6. Strength(shown[v]) \in Nat /\ Strength(s) \in Nat
    BY <2>5, StrengthIs
  <2>7. Strength(shown[v]) = Strength(s)
    BY <2>5, <2>6
  <2> QED
    BY <2>5, <2>7, StrengthIs DEF s
<1> QED
  BY <1>1, Invariant, PTL

\* create_candidate and persist_publication_candidate: for any number of
\* batches, revisions and recoveries, a commit that changes something stands
\* for one set of files, authorized or not, so that no batch with changes of
\* its own is refused for another one's sake; where nothing changes, one set
\* is authorized.
THEOREM FilesOfACommit == Spec => []OneCommitOneFileSet
<1>1. IInv /\ Growth => OneCommitOneFileSet
  BY SameFiles DEF IInv, Rows, OneAuthorizedFileSet, OneCommitOneFileSet
<1> QED
  BY <1>1, Invariant, Growing, PTL

\* settle_publication: however often a push was refused, lost or repeated, a
\* row is settled as published only after its commit was the remote tip.
THEOREM SettledAfterDelivery == Spec => []SettledWasDelivered
<1>1. IInv => SettledWasDelivered
  BY DEF IInv, Rows
<1> QED
  BY <1>1, Invariant, PTL

\* schedule_publication: a batch that stands is never queued again, whichever
\* runs and recoveries schedule, settle or reject its rows.
THEOREM BatchQueuedOnce == Spec => []PublishedOnce
<1>1. IInv => PublishedOnce
  BY DEF IInv, Rows
<1> QED
  BY <1>1, Invariant, PTL

\* promote_publication and adopt are the only sources of trusted memory: what
\* it holds, a person adopted or merged, for that document and that text.
THEOREM TrustIsEarned == Spec => []TrustedByPeople
<1>1. IInv => TrustedByPeople
  BY DEF IInv
<1> QED
  BY <1>1, Invariant, PTL

\* adopt writes the trusted memory, and nothing but a merge writes over it: as
\* long as no pull request was merged with a head of fani's, what people
\* adopted stays trusted, whatever syncs, failures and people do (the run
\* adoption_reverted shows what a merge does to it).
THEOREM UnmergedAdoptionStands ==
    Spec => []((\A n \in DOMAIN pulls :
                    pulls[n].state = "merged" => pulls[n].head = Foreign)
                => AdoptionStands)
<1> DEFINE Known == \A d \in Doc, t \in Text :
                       adopted[d][t] # NoText => memory[d][t] # NoText
           Unmerged == \A n \in DOMAIN pulls :
                           pulls[n].state = "merged" => pulls[n].head = Foreign
<1>1. Init => Known
  BY DEF Init
<1>2. IInv /\ Known /\ [Next]_vars => Known'
  <2> SUFFICES ASSUME IInv, Known, [Next]_vars, NEW d \in Doc, NEW t \in Text,
                      adopted'[d][t] # NoText
               PROVE  memory'[d][t] # NoText
    OBVIOUS
  <2>1. /\ memory \in [Doc -> [Text -> File]]
        /\ adopted \in [Doc -> [Text -> File]]
    BY DEF IInv, Types
  <2>2. CASE Adopt
    <3>1. PICK e \in Doc, c \in Content :
            /\ memory' = [memory EXCEPT ![e][source.text[e]] = c]
            /\ adopted' = [adopted EXCEPT ![e][source.text[e]] = c]
      BY <2>2 DEF Adopt
    <3> QED
      BY <2>1, <3>1
  <2>3. CASE UNCHANGED adopted
    <3>1. memory[d][t] # NoText
      BY <2>3
    <3>2. CASE UNCHANGED memory
      BY <3>1, <3>2
    <3>3. ASSUME NEW b, memory' = Promoted(b)
          PROVE  memory'[d][t] # NoText
      BY <2>1, <3>1, <3>3 DEF Promoted
    <3>4. CASE ObserveMerge \/ SettleMerged
      BY <3>2, <3>3, <3>4 DEF ObserveMerge, SettleMerged
    <3> QED
      BY <2>2, <3>2, <3>4, Frames
  <2> QED
    BY <2>2, <2>3, Frames
<1>3. IInv /\ Known => (Unmerged => AdoptionStands)
  BY DEF IInv, TrustedByPeople, AdoptionStands
<1> HIDE DEF Known
<1> QED
  BY <1>1, <1>2, <1>3, Invariant, PTL DEF Spec

\* publish_candidate: a push carries only files whose documents are as the
\* revision of the pushing run has them, even out of a recovered row.
THEOREM OnlyCurrentTexts == Spec => PushesCurrentTexts
<1>1. IInv /\ [Next]_vars =>
          [w.pc = "sending" /\ remote' # remote /\ remote' \in Commit =>
              Fits(row.batch, w.run)]_vars
  BY DEF IInv, RowInv, AtRow
<1> QED
  BY <1>1, Invariant, PTL DEF Spec, PushesCurrentTexts

-----------------------------------------------------------------------------
(* Refinement: the candidate branch as those outside see it.               *)

Intent(r) == [commit |-> CommitOf(r.batch), tip |-> r.tip]

Intended(rows, i) == rows[i].prepared /\ rows[i].state # "done"

LEMMA IntentsAre ==
    Intents = {Intent(outbox[i]) : i \in {j \in Ids : Intended(outbox, j)}}
BY DEF Intents, Intent, Intended

\* Steps that touch neither payloads nor what is settled.
LEMMA QuietIntents ==
    ASSUME DOMAIN outbox' = DOMAIN outbox, \A i \in Ids : Same(i)
    PROVE  UNCHANGED Intents
<1>1. \A i \in Ids : /\ Intent(outbox'[i]) = Intent(outbox[i])
                     /\ Intended(outbox', i) <=> Intended(outbox, i)
  BY DEF Same, Intent, Intended
<1> DEFINE I == {j \in Ids : Intended(outbox, j)}
           J == {j \in DOMAIN outbox' : Intended(outbox', j)}
<1>2. I = J
  BY <1>1 DEF Ids
<1>3. \A i \in I : Intent(outbox'[i]) = Intent(outbox[i])
  BY <1>1
<1>4. /\ Intents = {Intent(outbox[i]) : i \in I}
      /\ Intents' = {Intent(outbox'[i]) : i \in J}
  BY DEF Intents, Intent, Intended, Ids
<1> HIDE DEF I, J
<1> QED
  BY <1>2, <1>3, <1>4

\* One row changes: nothing, its intent becomes live, or it closes.
LEMMA OneRowIntents ==
    ASSUME NEW k \in Ids, DOMAIN outbox' = DOMAIN outbox,
           \A i \in Ids \ {k} : /\ Intent(outbox'[i]) = Intent(outbox[i])
                                /\ Intended(outbox', i) <=> Intended(outbox, i),
           Intended(outbox, k) /\ Intended(outbox', k) =>
               Intent(outbox'[k]) = Intent(outbox[k])
    PROVE  /\ Intended(outbox', k) =>
                  Intents' = Intents \cup {Intent(outbox'[k])}
           /\ ~Intended(outbox', k) =>
                  \/ UNCHANGED Intents
                  \/ Intended(outbox, k) /\ Intents' = Intents \ {Intent(outbox[k])}
<1> DEFINE O == {j \in Ids \ {k} : Intended(outbox, j)}
           R == {Intent(outbox[j]) : j \in O}
<1>1. Intents = R \cup (IF Intended(outbox, k) THEN {Intent(outbox[k])} ELSE {})
  BY IntentsAre
<1>2. Intents' = R \cup (IF Intended(outbox', k) THEN {Intent(outbox'[k])} ELSE {})
  <2> DEFINE P == {j \in DOMAIN outbox' \ {k} : Intended(outbox', j)}
  <2>1. O = P
    BY DEF Ids
  <2>2. \A j \in O : Intent(outbox'[j]) = Intent(outbox[j])
    OBVIOUS
  <2>3. {Intent(outbox'[j]) : j \in P} = R
    <3> HIDE DEF O, P
    <3> QED
      BY <2>1, <2>2
  <2>4. Intents' = {Intent(outbox'[j]) : j \in P} \cup
                     (IF Intended(outbox', k) THEN {Intent(outbox'[k])} ELSE {})
    <3>1. Intents' = {Intent(outbox'[i]) :
                        i \in {j \in DOMAIN outbox' : Intended(outbox', j)}}
      BY DEF Intents, Intent, Intended, Ids
    <3>2. k \in DOMAIN outbox'
      BY DEF Ids
    <3> QED
      BY <3>1, <3>2
  <2> HIDE DEF O, P, R
  <2> QED
    BY <2>3, <2>4
<1> HIDE DEF R, O
<1> QED
  BY <1>1, <1>2

\* What a step may look like from outside.
Outwardly == [Outside!Next]_<<remote, Intents>>

LEMMA PersistOutwardly ==
    ASSUME IInv, PersistCandidate
    PROVE  Outwardly
<1>1. /\ outbox \in Seq(Row) /\ remote \in Tip /\ UNCHANGED remote
      /\ Put(w.id, Recorded)
  BY DEF IInv, Types, PersistCandidate, world
<1>2. w.id \in Ids /\ row.state = "processing" /\ commit \in Commit /\ row \in Row
  BY AtIts DEF IInv, RowInv, AtRow, PersistCandidate
<1> DEFINE r == Recorded
<1>3. /\ r.batch = row.batch /\ r.state = "processing" /\ r.prepared
      /\ r.tip = IF row.prepared THEN row.tip ELSE remote
  BY <1>1, <1>2, RecordedIs
<1>4. outbox' = [outbox EXCEPT ![w.id] = r]
  BY <1>1 DEF Put
<1> HIDE DEF r
<1>5. /\ DOMAIN outbox' = DOMAIN outbox /\ outbox'[w.id] = r
      /\ \A i \in Ids \ {w.id} : outbox'[i] = outbox[i]
  BY <1>2, <1>4 DEF Ids
<1> DEFINE new == Intent(r)
<1>6. Intended(outbox', w.id)
  BY <1>3, <1>5 DEF Intended
<1>7. Intended(outbox, w.id) => new = Intent(outbox[w.id])
  BY <1>3 DEF Intended, Intent, row
<1>8. Intents' = Intents \cup {new}
  <2>1. \A i \in Ids \ {w.id} : /\ Intent(outbox'[i]) = Intent(outbox[i])
                                /\ Intended(outbox', i) <=> Intended(outbox, i)
    BY <1>5 DEF Intended
  <2>2. Intended(outbox, w.id) /\ Intended(outbox', w.id) =>
            Intent(outbox'[w.id]) = Intent(outbox[w.id])
    BY <1>5, <1>7
  <2> QED
    BY <1>2, <1>5, <1>6, <2>1, <2>2, OneRowIntents
<1>9. new \in [commit : Commit, tip : Tip]
  <2>1. CommitOf(r.batch) \in Commit /\ r.tip \in Tip
    BY <1>1, <1>2, <1>3, RowType
  <2> QED
    BY <2>1 DEF Intent
<1> HIDE DEF new
<1>10. CASE new \in Intents
  BY <1>1, <1>8, <1>10 DEF Outwardly
<1>11. CASE new \notin Intents
  <2>1. new \in Intents' \ Intents
    BY <1>8, <1>11
  <2>2. Outside!Intend
    BY <1>1, <1>8, <1>9, <2>1 DEF Outside!Intend, Outside!Intent, Outside!Tip, Tip
  <2> QED
    BY <2>2 DEF Outwardly, Outside!Next
<1> QED
  BY <1>10, <1>11

\* A row is settled or rejected.
LEMMA CloseOutwardly ==
    ASSUME NEW k \in Ids, DOMAIN outbox' = DOMAIN outbox, UNCHANGED remote,
           \A i \in Ids \ {k} : /\ outbox'[i].batch = outbox[i].batch
                                /\ outbox'[i].tip = outbox[i].tip
                                /\ outbox'[i].prepared = outbox[i].prepared
                                /\ outbox'[i].state = outbox[i].state,
           outbox'[k].state = "done"
    PROVE  Outwardly
<1>1. \A i \in Ids \ {k} : /\ Intent(outbox'[i]) = Intent(outbox[i])
                           /\ Intended(outbox', i) <=> Intended(outbox, i)
  BY DEF Intent, Intended
<1>2. ~Intended(outbox', k)
  BY DEF Intended
<1>3. \/ UNCHANGED Intents
      \/ Intended(outbox, k) /\ Intents' = Intents \ {Intent(outbox[k])}
  BY <1>1, <1>2, OneRowIntents
<1>4. CASE UNCHANGED Intents
  BY <1>4 DEF Outwardly
<1>5. CASE Intended(outbox, k) /\ Intents' = Intents \ {Intent(outbox[k])}
  <2>1. Intent(outbox[k]) \in Intents
    BY <1>5, IntentsAre
  <2>2. Outside!Close
    BY <1>5, <2>1 DEF Outside!Close
  <2> QED
    BY <2>2 DEF Outwardly, Outside!Next
<1> QED
  BY <1>3, <1>4, <1>5

LEMMA SettleOutwardly ==
    ASSUME IInv, w.pc \in AtRow, UNCHANGED remote, NEW r \in Row, r.state = "done",
           outbox' = [outbox EXCEPT ![w.id] = r]
    PROVE  Outwardly
<1>1. w.id \in Ids /\ outbox \in Seq(Row)
  BY AtIts DEF IInv, Types
<1>2. /\ DOMAIN outbox' = DOMAIN outbox /\ outbox'[w.id] = r
      /\ \A i \in Ids \ {w.id} : outbox'[i] = outbox[i]
  BY <1>1 DEF Ids
<1> QED
  BY <1>1, <1>2, CloseOutwardly

LEMMA RejectOutwardly ==
    ASSUME IInv, Reject
    PROVE  Outwardly
<1> DEFINE a == IF row.prepared THEN Advance(row.manifest, "superseded")
                                ELSE row.manifest
           r == [row EXCEPT !.state = "done", !.owner = "nobody",
                            !.rejected = TRUE, !.manifest = a]
<1>1. w.pc \in AtRow /\ UNCHANGED remote /\ row \in Row
  BY AtIts DEF Reject, AtRow, world
<1>2. a \in Manifest
  <2>1. row.manifest \in Manifest /\ "superseded" \in Manifest
    BY <1>1, RowType DEF Manifest
  <2> QED
    BY <2>1, AdvanceType
<1>3. outbox' = [outbox EXCEPT ![w.id] = r]
  <2>1. outbox' = [outbox EXCEPT ![w.id] =
                      [row EXCEPT !.state = "done", !.owner = "nobody",
                                  !.rejected = TRUE,
                                  !.manifest = IF row.prepared
                                               THEN Advance(@, "superseded") ELSE @]]
    BY DEF Reject, Put
  <2>2. r = [row EXCEPT !.state = "done", !.owner = "nobody",
                        !.rejected = TRUE,
                        !.manifest = IF row.prepared
                                     THEN Advance(@, "superseded") ELSE @]
    BY <1>1 DEF Row
  <2> QED
    BY <2>1, <2>2
<1> HIDE DEF a
<1>4. r \in Row /\ r.state = "done"
  BY <1>1, <1>2 DEF Row
<1> HIDE DEF r
<1> QED
  BY <1>1, <1>3, <1>4, SettleOutwardly

LEMMA ReceiptOutwardly ==
    ASSUME IInv, SettleOpen \/ SettleClosed \/ SettleMerged
    PROVE  Outwardly
<1>1. /\ w.pc = "settling" /\ UNCHANGED remote
      /\ outbox \in Seq(Row) /\ w.id \in Ids
  BY AtIts DEF SettleOpen, SettleClosed, SettleMerged, world, AtRow, IInv, Types
<1>2. \A s \in {"none", "pr_open", "superseded"} :
          Settled(s) \in Row /\ Settled(s).state = "done"
  BY <1>1, SettledIs DEF Manifest
<1>3. \/ \E s \in {"none", "pr_open", "superseded"} :
            outbox' = [outbox EXCEPT ![w.id] = Settled(s)]
      \/ /\ Snapshot(commit)
         /\ outbox' = [outbox EXCEPT ![w.id] = Settled("none"),
                                      ![ManifestOf(commit)].manifest = "merged"]
  BY DEF SettleOpen, SettleClosed, SettleMerged, Put
<1>4. ASSUME NEW s \in {"none", "pr_open", "superseded"},
             outbox' = [outbox EXCEPT ![w.id] = Settled(s)]
      PROVE  Outwardly
  BY <1>1, <1>2, <1>4, SettleOutwardly DEF AtRow
<1>5. ASSUME Snapshot(commit),
             outbox' = [outbox EXCEPT ![w.id] = Settled("none"),
                                      ![ManifestOf(commit)].manifest = "merged"]
      PROVE  Outwardly
  <2> DEFINE i == ManifestOf(commit)
             s == Settled("none")
  <2>1. i \in Ids
    BY <1>1, <1>5, ManifestOfIs
  <2>2. s \in Row /\ s.state = "done"
    BY <1>2
  <2>3. outbox' = [[outbox EXCEPT ![w.id] = s] EXCEPT ![i].manifest = "merged"]
    BY <1>5
  <2> HIDE DEF s, i
  <2> DEFINE mid == [outbox EXCEPT ![w.id] = s]
             r == [mid[i] EXCEPT !.manifest = "merged"]
  <2>4. /\ mid \in Seq(Row) /\ DOMAIN mid = Ids /\ mid[w.id] = s
        /\ \A j \in Ids \ {w.id} : mid[j] = outbox[j]
    BY <1>1, <2>2 DEF Ids
  <2>5. outbox' = [mid EXCEPT ![i] = r]
    BY <2>1, <2>3, <2>4
  <2> HIDE DEF mid
  <2>6. mid[i] \in Row
    BY <2>1, <2>4
  <2>7. /\ r \in Row /\ r.batch = mid[i].batch /\ r.state = mid[i].state
        /\ r.tip = mid[i].tip /\ r.prepared = mid[i].prepared
    BY <2>6 DEF Row, Manifest
  <2> HIDE DEF r
  <2> DEFINE new == [mid EXCEPT ![i] = r]
  <2>8. DOMAIN new = Ids /\ new[i] = r /\ \A j \in Ids \ {i} : new[j] = mid[j]
    BY <2>1, <2>4, <2>7, WriteRow
  <2>9. outbox' = new
    BY <2>5
  <2> HIDE DEF new
  <2>10. DOMAIN outbox' = DOMAIN outbox
    BY <2>8, <2>9, Zenon DEF Ids
  <2>11. \A j \in Ids : /\ outbox'[j].batch = mid[j].batch
                        /\ outbox'[j].tip = mid[j].tip
                        /\ outbox'[j].prepared = mid[j].prepared
                        /\ outbox'[j].state = mid[j].state
    BY <2>7, <2>8, <2>9, Zenon
  <2>12. outbox'[w.id].state = "done"
    BY <1>1, <2>2, <2>4, <2>11, Zenon
  <2>13. \A j \in Ids \ {w.id} : /\ outbox'[j].batch = outbox[j].batch
                                 /\ outbox'[j].tip = outbox[j].tip
                                 /\ outbox'[j].prepared = outbox[j].prepared
                                 /\ outbox'[j].state = outbox[j].state
    BY <2>4, <2>11, Zenon
  <2> QED
    BY <1>1, <2>10, <2>12, <2>13, CloseOutwardly
<1> QED
  BY <1>3, <1>4, <1>5

LEMMA PushOutwardly ==
    ASSUME IInv, w.pc = "sending", remote = row.tip, Deliver, UNCHANGED Intents
    PROVE  Outwardly
<1>1. /\ w.id \in Ids /\ row.state = "processing" /\ row.prepared /\ local = commit
  BY DEF IInv, RowInv, HostInv, AtRow
<1>2. Intent(row) \in Intents
  BY <1>1, IntentsAre DEF Intended, row
<1>3. remote = Intent(row).tip /\ remote' = Intent(row).commit
  BY <1>1 DEF Intent, Deliver, commit
<1>4. Outside!Push
  BY <1>2, <1>3 DEF Outside!Push
<1> QED
  BY <1>4 DEF Outwardly, Outside!Next

LEMMA ScheduleIntents ==
    ASSUME IInv, Schedule
    PROVE  UNCHANGED Intents
<1>1. /\ outbox \in Seq(Row)
      /\ \/ UNCHANGED outbox
         \/ \E b : outbox' = Append(outbox, Fresh(b))
  BY DEF IInv, Types, Schedule
<1>2. CASE UNCHANGED outbox
  BY <1>2 DEF Intents, Ids
<1>3. ASSUME NEW b, outbox' = Append(outbox, Fresh(b))
      PROVE  UNCHANGED Intents
  <2> DEFINE r == Fresh(b)
             k == Len(outbox) + 1
             I == {j \in Ids : Intended(outbox, j)}
             J == {j \in DOMAIN outbox' : Intended(outbox', j)}
  <2>1. r.prepared = FALSE
    BY DEF Fresh
  <2> HIDE DEF r
  <2>2. /\ DOMAIN outbox' = DOMAIN outbox \cup {k} /\ outbox'[k] = r
        /\ \A i \in Ids : outbox'[i] = outbox[i]
    <3>1. outbox' = Append(outbox, r)
      BY <1>3 DEF r
    <3> QED
      BY <1>1, <3>1 DEF Ids
  <2> HIDE DEF k
  <2>3. I = J
    BY <2>1, <2>2 DEF Ids, Intended
  <2>4. \A i \in I : Intent(outbox'[i]) = Intent(outbox[i])
    BY <2>2
  <2>5. /\ Intents = {Intent(outbox[i]) : i \in I}
        /\ Intents' = {Intent(outbox'[i]) : i \in J}
    BY DEF Intents, Intent, Intended, Ids
  <2> HIDE DEF I, J
  <2> QED
    BY <2>3, <2>4, <2>5
<1> QED
  BY <1>1, <1>2, <1>3

LEMMA OutwardStep ==
    ASSUME IInv, [Next]_vars
    PROVE  Outwardly
<1>1. outbox \in Seq(Row) /\ line \in Seq(Ids) /\ w \in Running
  BY DEF IInv, Types
<1>2. w.pc \in AtRow => w.id \in Ids /\ row.state # "done"
  BY DEF IInv, RowInv
<1>3. UNCHANGED outbox => UNCHANGED Intents
  BY DEF Intents, Ids
<1>4. Quit => UNCHANGED Intents
  <2> SUFFICES ASSUME Quit PROVE UNCHANGED Intents
    OBVIOUS
  <2>1. DOMAIN outbox' = DOMAIN outbox /\ \A i \in Ids : Same(i)
    BY <1>1, QuitRows
  <2> QED
    BY <2>1, QuietIntents
<1>5. w.pc \in AtRow /\ Retry => UNCHANGED Intents
  <2> SUFFICES ASSUME w.pc \in AtRow, Retry PROVE UNCHANGED Intents
    OBVIOUS
  <2>1. DOMAIN outbox' = DOMAIN outbox /\ \A i \in Ids : Same(i)
    BY <1>1, <1>2, RetryRows
  <2> QED
    BY <2>1, QuietIntents
<1>6. CASE UNCHANGED <<remote, Intents>>
  BY <1>6 DEF Outwardly
<1>7. CASE UNCHANGED <<outbox, remote>>
  BY <1>3, <1>6, <1>7
<1>8. CASE StartSync \/ Work
  BY <1>7, <1>8 DEF StartSync, Work, database
<1>9. CASE Observe
  <2>1. CASE ObserveNothingNew
    BY <1>7, <2>1 DEF ObserveNothingNew, database, world
  <2>2. CASE ObserveOtherHead
    BY <1>4, <1>6, <2>2 DEF ObserveOtherHead, world
  <2>3. CASE ObserveMerge \/ ObserveUnfitMerge
    <3> DEFINE i == ManifestOf(stored.head)
    <3>1. /\ UNCHANGED remote /\ Snapshot(stored.head)
          /\ \E m : outbox' = [outbox EXCEPT ![i] = [outbox[i] EXCEPT !.manifest = m]]
      BY <2>3 DEF ObserveMerge, ObserveUnfitMerge, Put, world
    <3>2. PICK m : outbox' = [outbox EXCEPT ![i] = [outbox[i] EXCEPT !.manifest = m]]
      BY <3>1
    <3>3. i \in Ids
      BY <1>1, <3>1, ManifestOfIs
    <3> HIDE DEF i
    <3> DEFINE r == [outbox[i] EXCEPT !.manifest = m]
    <3>4. outbox[i] \in Row
      BY <1>1, <3>3 DEF Ids
    <3>5. /\ r.batch = outbox[i].batch /\ r.tip = outbox[i].tip
          /\ r.prepared = outbox[i].prepared /\ r.state = outbox[i].state
      BY <3>4 DEF Row
    <3>6. outbox' = [outbox EXCEPT ![i] = r]
      BY <3>2
    <3> HIDE DEF r
    <3>7. /\ DOMAIN outbox' = DOMAIN outbox /\ outbox'[i] = r
          /\ \A j \in Ids \ {i} : outbox'[j] = outbox[j]
      BY <3>3, <3>6 DEF Ids
    <3>8. \A j \in Ids : /\ Intent(outbox'[j]) = Intent(outbox[j])
                         /\ Intended(outbox', j) <=> Intended(outbox, j)
      BY <3>5, <3>7 DEF Intent, Intended
    <3> DEFINE I == {j \in Ids : Intended(outbox, j)}
               J == {j \in DOMAIN outbox' : Intended(outbox', j)}
    <3>9. I = J
      BY <3>7, <3>8 DEF Ids
    <3>10. \A j \in I : Intent(outbox'[j]) = Intent(outbox[j])
      BY <3>8
    <3>11. /\ Intents = {Intent(outbox[j]) : j \in I}
           /\ Intents' = {Intent(outbox'[j]) : j \in J}
      BY DEF Intents, Intent, Intended, Ids
    <3> HIDE DEF I, J
    <3>12. UNCHANGED Intents
      BY <3>9, <3>10, <3>11
    <3> QED
      BY <1>6, <3>1, <3>12
  <2> QED
    BY <1>9, <2>1, <2>2, <2>3 DEF Observe
<1>10. CASE Schedule
  <2>1. UNCHANGED remote
    BY <1>10 DEF Schedule, world
  <2> QED
    BY <1>6, <1>10, <2>1, ScheduleIntents
<1>11. CASE Claim
  <2>1. DOMAIN outbox' = DOMAIN outbox /\ \A i \in Ids : Same(i)
    BY <1>1, <1>11, ClaimRows
  <2>2. UNCHANGED remote
    BY <1>11 DEF Claim, world
  <2> QED
    BY <1>6, <2>1, <2>2, QuietIntents
<1>12. CASE Check
  <2>1. CASE Accept
    BY <1>7, <2>1 DEF Accept, world
  <2> QED
    BY <1>12, <2>1, RejectOutwardly DEF Check
<1>13. CASE Publish
  <2>1. CASE PrepareCommit \/ LookAtBranch \/ AlreadyPushed
    BY <1>7, <2>1 DEF PrepareCommit, LookAtBranch, AlreadyPushed, database, world
  <2>2. CASE PersistCandidate
    BY <2>2, PersistOutwardly
  <2>3. CASE PersistConflict \/ BranchChanged
    BY <1>4, <1>6, <2>3 DEF PersistConflict, BranchChanged, world
  <2>4. CASE Push
    <3>1. w.pc = "sending" /\ remote = row.tip /\ Deliver /\ UNCHANGED outbox
      BY <2>4 DEF Push, database
    <3> QED
      BY <1>3, <3>1, PushOutwardly
  <2>5. CASE PushRefused
    BY <1>5, <1>6, <2>5 DEF PushRefused, AtRow, world
  <2>6. CASE PushUnanswered
    <3>1. /\ w.pc = "sending" /\ remote = row.tip /\ Retry
          /\ Deliver \/ UNCHANGED remote
      BY <2>6 DEF PushUnanswered
    <3>2. UNCHANGED Intents
      BY <1>5, <3>1 DEF AtRow
    <3> QED
      BY <1>6, <3>1, <3>2, PushOutwardly
  <2> QED
    BY <1>13, <2>1, <2>2, <2>3, <2>4, <2>5, <2>6 DEF Publish
<1>14. CASE PullRequest
  <2>1. CASE ReusePull \/ CreatePull
    BY <1>7, <2>1 DEF ReusePull, CreatePull, database, world
  <2>2. CASE CreateRefused \/ OpenUnanswered \/ SettleOtherHead
    BY <1>5, <1>6, <2>2 DEF CreateRefused, OpenUnanswered, SettleOtherHead,
       AtRow, world
  <2>3. CASE SettleOpen \/ SettleClosed \/ SettleMerged
    BY <2>3, ReceiptOutwardly
  <2> QED
    BY <1>14, <2>1, <2>2, <2>3 DEF PullRequest, Settle
<1>15. CASE Die
  BY <1>4, <1>6, <1>15 DEF Die, world
<1>16. CASE Time
  <2>1. DOMAIN outbox' = DOMAIN outbox /\ \A i \in Ids : Same(i)
    BY <1>1, <1>16, TimeRows
  <2>2. UNCHANGED remote
    BY <1>16 DEF Time, OwnerGone, RetryDue, world
  <2> QED
    BY <1>6, <2>1, <2>2, QuietIntents
<1>17. CASE People
  <2>1. CASE MoveOn \/ PullDecided \/ Adopt
    BY <1>7, <2>1 DEF MoveOn, PullDecided, Adopt, database
  <2>2. CASE BranchMoved
    <3>1. remote' \in {Foreign, NoCommit} /\ UNCHANGED Intents
      BY <1>3, <2>2 DEF BranchMoved, database
    <3>2. Outside!People
      BY <3>1 DEF Outside!People
    <3> QED
      BY <3>2 DEF Outwardly, Outside!Next
  <2> QED
    BY <1>17, <2>1, <2>2 DEF People
<1>18. CASE UNCHANGED vars
  BY <1>7, <1>18 DEF vars
<1> QED
  BY <1>8, <1>9, <1>10, <1>11, <1>12, <1>13, <1>14, <1>15, <1>16, <1>17, <1>18
     DEF Next, Sync

\* Publication implements CandidateBranch: for any documents, texts, people
\* and failures, fani moves the branch only from the tip that a live durable
\* intent names to the commit it names, and no settled intent moves it.
THEOREM BranchImplemented == Spec => BranchSpec
<1>1. Init => Outside!Init
  BY DEF Init, Outside!Init, Intents, Ids
<1>2. IInv /\ [Next]_vars => [Outside!Next]_<<remote, Intents>>
  BY OutwardStep DEF Outwardly
<1> QED
  BY <1>1, <1>2, Invariant, PTL DEF Spec, BranchSpec, Outside!Spec

-----------------------------------------------------------------------------
(* The way of a sync.                                                      *)

\* The parts of a sync; there is a loop over the rows in two of them.
Part(v) ==
    IF v.pc = "observing" THEN 1
    ELSE IF v.pc = "working" THEN 3
    ELSE IF v.pc = "scheduling" THEN 4
    ELSE IF v.stage = "recovery" THEN 2 ELSE 5

\* The steps of one row, in the order of publish_candidate.
Station(v) ==
    CASE v.pc = "checking"   -> 1
      [] v.pc = "preparing"  -> 2
      [] v.pc = "persisting" -> 3
      [] v.pc = "pushing"    -> 4
      [] v.pc = "sending"    -> 5
      [] v.pc = "opening"    -> 6
      [] v.pc = "settling"   -> 7
      [] OTHER               -> 0

Undone == {i \in Ids : outbox[i].state # "done"}

\* The sync gets to a later part, settles a row, or goes on with its row.
Further ==
    \/ Part(w') > Part(w)
    \/ /\ Part(w') = Part(w)
       /\ \/ Undone' \subseteq Undone /\ Undone' # Undone
          \/ Undone' = Undone /\ Station(w') > Station(w)

LEMMA UndoneStays ==
    ASSUME DOMAIN outbox' = DOMAIN outbox, \A i \in Ids : Same(i)
    PROVE  Undone' = Undone
BY DEF Undone, Ids, Same

\* One row is settled.
LEMMA UndoneShrinks ==
    ASSUME DOMAIN outbox' = DOMAIN outbox, w.id \in Ids, row.state # "done",
           outbox'[w.id].state = "done",
           \A i \in Ids \ {w.id} : outbox'[i].state = outbox[i].state
    PROVE  Undone' \subseteq Undone /\ Undone' # Undone
BY DEF Undone, Ids, row

\* The ways a step can take: those that end the sync or let it be, and those
\* that carry it on.
Stations == Accept \/ PrepareCommit \/ PersistCandidate \/ LookAtBranch
              \/ AlreadyPushed \/ Push \/ ReusePull \/ CreatePull

Receipts == SettleOpen \/ SettleClosed \/ SettleMerged

LEMMA Ways ==
    ASSUME [Next]_vars
    PROVE  \/ w' = Idle
           \/ UNCHANGED vars
           \/ (Time \/ People) /\ UNCHANGED w /\ (UNCHANGED outbox \/ Time)
           \/ StartSync
           \/ w.pc = "observing" /\ ToRecovery
           \/ Work \/ Schedule \/ Claim \/ Reject \/ Stations \/ Receipts
<1>1. CASE StartSync \/ Work \/ Schedule \/ Claim
  BY <1>1
<1>2. CASE Observe
  BY <1>2 DEF Observe, ObserveNothingNew, ObserveOtherHead, ObserveMerge,
     ObserveUnfitMerge, Quit
<1>3. CASE Check
  BY <1>3 DEF Check, Stations
<1>4. CASE Publish
  BY <1>4 DEF Publish, Stations, PersistConflict, BranchChanged, PushRefused,
     PushUnanswered, Quit, Retry
<1>5. CASE PullRequest
  BY <1>5 DEF PullRequest, Stations, Settle, Receipts, CreateRefused,
     OpenUnanswered, SettleOtherHead, Retry
<1>6. CASE Die
  BY <1>6 DEF Die, Quit
<1>7. CASE Time
  <2>1. UNCHANGED w
    BY <1>7 DEF Time, OwnerGone, RetryDue
  <2> QED
    BY <1>7, <2>1
<1>8. CASE People
  <2>1. UNCHANGED <<w, outbox>>
    BY <1>8 DEF People, MoveOn, BranchMoved, PullDecided, Adopt, database
  <2> QED
    BY <1>8, <2>1
<1>9. CASE UNCHANGED vars
  BY <1>9
<1> QED
  BY <1>1, <1>2, <1>3, <1>4, <1>5, <1>6, <1>7, <1>8, <1>9 DEF Next, Sync

LEMMA EndOfStage ==
    ASSUME w \in Running, w.pc \in {"claiming", "checking"}, EndStage
    PROVE  \/ w' = Idle
           \/ w'.pc = "working" /\ Part(w) = 2 /\ Part(w') = 3
<1>1. CASE w.stage = "recovery" /\ ~w.published
  <2>1. w' = [w EXCEPT !.pc = "working", !.id = 0]
    BY <1>1 DEF EndStage
  <2>2. w'.pc = "working"
    BY <2>1 DEF Running
  <2> QED
    BY <1>1, <2>2 DEF Part
<1>2. CASE ~(w.stage = "recovery" /\ ~w.published)
  BY <1>2 DEF EndStage
<1> QED
  BY <1>1, <1>2

\* On its row a sync only goes on, and leaves all rows open that are.
LEMMA StationsAscend ==
    ASSUME IInv, Stations
    PROVE  /\ w'.pc \notin {"scheduling", "idle"} /\ w'.stage = w.stage
           /\ Part(w') = Part(w) /\ Station(w') > Station(w)
           /\ Undone' = Undone
<1>0. w \in Running /\ outbox \in Seq(Row)
  BY DEF IInv, Types
<1>1. CASE PersistCandidate
  <2>1. /\ w.pc = "persisting" /\ Goto("pushing")
        /\ outbox' = [outbox EXCEPT ![w.id] = Recorded] /\ remote \in Tip
    BY <1>1 DEF PersistCandidate, Put, IInv, Types
  <2>2. w.id \in Ids
    BY <2>1 DEF IInv, RowInv, AtRow
  <2> DEFINE r == Recorded
  <2>3. r.state = row.state
    BY <1>0, <2>1, <2>2, RecordedIs
  <2>4. outbox' = [outbox EXCEPT ![w.id] = r]
    BY <2>1
  <2> HIDE DEF r
  <2>5. /\ DOMAIN outbox' = DOMAIN outbox /\ outbox'[w.id].state = row.state
        /\ \A i \in Ids \ {w.id} : outbox'[i] = outbox[i]
    BY <1>0, <2>2, <2>3, <2>4 DEF Ids
  <2>6. Undone' = Undone
    BY <2>5 DEF Undone, Ids, row
  <2> QED
    BY <1>0, <2>1, <2>6 DEF Goto, Running, Part, Station
<1>2. CASE Accept \/ PrepareCommit \/ LookAtBranch \/ AlreadyPushed \/ Push
  <2>1. /\ UNCHANGED outbox
        /\ \/ w.pc = "checking" /\ Goto("persisting")
           \/ w.pc = "checking" /\ Goto("preparing")
           \/ w.pc = "preparing" /\ Goto("persisting")
           \/ w.pc = "pushing" /\ Goto("sending")
           \/ w.pc \in {"pushing", "sending"} /\ Goto("opening")
    BY <1>2 DEF Accept, PrepareCommit, LookAtBranch, AlreadyPushed, Push, database
  <2>2. Undone' = Undone
    BY <2>1 DEF Undone, Ids
  <2> QED
    BY <1>0, <2>1, <2>2 DEF Goto, Running, Part, Station
<1>3. CASE ReusePull \/ CreatePull
  <2>1. /\ UNCHANGED outbox /\ w.pc = "opening"
        /\ \E n : w' = [w EXCEPT !.pc = "settling", !.pull = n]
    BY <1>3 DEF ReusePull, CreatePull, database
  <2>2. Undone' = Undone
    BY <2>1 DEF Undone, Ids
  <2> QED
    BY <1>0, <2>1, <2>2 DEF Running, Part, Station
<1> QED
  BY <1>1, <1>2, <1>3 DEF Stations

\* A receipt settles the row and no other.
LEMMA ReceiptsSettle ==
    ASSUME IInv, Receipts
    PROVE  /\ w'.pc = "claiming" /\ w'.stage = w.stage
           /\ Part(w') = Part(w)
           /\ Undone' \subseteq Undone /\ Undone' # Undone
<1>0. w \in Running /\ outbox \in Seq(Row)
  BY DEF IInv, Types
<1>1. w.pc = "settling" /\ NextEntry
  BY DEF Receipts, SettleOpen, SettleClosed, SettleMerged
<1>2. w.id \in Ids /\ row.state # "done"
  BY <1>1 DEF IInv, RowInv, AtRow
<1>3. w'.pc = "claiming" /\ w'.stage = w.stage /\ Part(w') = Part(w)
  BY <1>0, <1>1 DEF NextEntry, Running, Part
<1>4. \E s \in Manifest : \/ outbox' = [outbox EXCEPT ![w.id] = Settled(s)]
                          \/ /\ Snapshot(commit)
                             /\ outbox' = [outbox EXCEPT ![w.id] = Settled(s),
                                    ![ManifestOf(commit)].manifest = "merged"]
  <2>1. {"pr_open", "superseded", "none"} \subseteq Manifest
    BY DEF Manifest
  <2> QED
    BY <2>1 DEF Receipts, SettleOpen, SettleClosed, SettleMerged, Put
<1>5. PICK s \in Manifest : \/ outbox' = [outbox EXCEPT ![w.id] = Settled(s)]
                            \/ /\ Snapshot(commit)
                               /\ outbox' = [outbox EXCEPT ![w.id] = Settled(s),
                                    ![ManifestOf(commit)].manifest = "merged"]
  BY <1>4
<1>6. PICK r \in Row : r = Settled(s) /\ r.state = "done"
  BY <1>0, <1>2, SettledIs
<1>7. /\ DOMAIN outbox' = DOMAIN outbox /\ outbox'[w.id].state = "done"
      /\ \A i \in Ids \ {w.id} : outbox'[i].state = outbox[i].state
  <2>1. CASE outbox' = [outbox EXCEPT ![w.id] = r]
    BY <1>0, <1>2, <1>6, <2>1 DEF Ids
  <2>2. CASE \E m : outbox' = [outbox EXCEPT ![w.id] = r, ![m].manifest = "merged"]
    <3>1. PICK m : outbox' = [outbox EXCEPT ![w.id] = r, ![m].manifest = "merged"]
      BY <2>2
    <3> DEFINE rows == [outbox EXCEPT ![w.id] = r]
    <3>2. outbox' = [rows EXCEPT ![m].manifest = "merged"]
      BY <3>1
    <3>3. /\ rows \in Seq(Row) /\ DOMAIN rows = Ids /\ rows[w.id].state = "done"
          /\ \A i \in Ids \ {w.id} : rows[i] = outbox[i]
      BY <1>0, <1>2, <1>6 DEF Ids
    <3> HIDE DEF rows
    <3>4. \A i \in Ids : rows[i] \in Row
      BY <3>3
    <3>5. DOMAIN outbox' = Ids /\ \A i \in Ids : outbox'[i].state = rows[i].state
      BY <3>2, <3>3, <3>4 DEF Row
    <3> QED
      BY <1>2, <3>3, <3>5 DEF Ids
  <2> QED
    BY <1>5, <1>6, <2>1, <2>2
<1> QED
  BY <1>2, <1>3, <1>7, UndoneShrinks

\* The stage of the batch of its own, from when there is one.
Publishes == w.pc = "scheduling" => w.stage = "publish"

LEMMA PublishesStep == IInv /\ Publishes /\ [Next]_vars => Publishes'
<1> SUFFICES ASSUME IInv, Publishes, [Next]_vars PROVE Publishes'
  OBVIOUS
<1>0. w \in Running /\ outbox \in Seq(Row) /\ line \in Seq(Ids)
  BY DEF IInv, Types
<1>1. CASE w' = Idle \/ UNCHANGED w
  BY <1>1 DEF Publishes, Idle
<1>9. UNCHANGED vars => UNCHANGED w
  BY DEF vars
<1>2. CASE StartSync \/ ToRecovery
  BY <1>0, <1>2 DEF StartSync, ToRecovery, Publishes, Idle, Running
<1>3. CASE Work
  BY <1>0, <1>3, WorkedOff DEF Publishes
<1>4. CASE Schedule
  BY <1>0, <1>4 DEF Schedule, Publishes, Running
<1>5. CASE Claim
  <2>1. w.pc = "claiming"
    BY <1>5 DEF Claim
  <2>2. EndStage \/ \E i \in Ids : w' = [w EXCEPT !.pc = "checking", !.id = i]
    BY <1>0, <1>5, ClaimRows
  <2> QED
    BY <1>0, <1>1, <2>1, <2>2, EndOfStage DEF Publishes, Running
<1>6. CASE Reject
  BY <1>0, <1>1, <1>6, EndOfStage DEF Reject, Publishes
<1>7. CASE Stations
  BY <1>7, StationsAscend DEF Publishes
<1>8. CASE Receipts
  BY <1>8, ReceiptsSettle DEF Publishes
<1> QED
  BY <1>1, <1>2, <1>3, <1>4, <1>5, <1>6, <1>7, <1>8, <1>9, Ways

\* publish_next takes up a row again only when the row went back to the queue,
\* which ends the sync: whatever the people and the clock do meanwhile, every
\* step of a sync brings it further, through observation, recovery, work and
\* publication, row by row and command by command, or ends it.
THEOREM PublishingComesToAnEnd ==
    Spec => [][w.pc # "idle" =>
                  \/ w' = Idle
                  \/ Further
                  \/ (Time \/ People) /\ UNCHANGED w /\ Undone' = Undone]_vars
<1>1. Init => Publishes
  BY DEF Init, Idle, Publishes
<1>2. IInv /\ Publishes /\ [Next]_vars =>
          [w.pc # "idle" => \/ w' = Idle
                            \/ Further
                            \/ /\ Time \/ People
                               /\ UNCHANGED w /\ Undone' = Undone]_vars
  <2> SUFFICES ASSUME IInv, Publishes, Next, w.pc # "idle", ~UNCHANGED vars
               PROVE  \/ w' = Idle
                      \/ Further
                      \/ (Time \/ People) /\ UNCHANGED w /\ Undone' = Undone
    BY DEF vars
  <2>0. w \in Running /\ outbox \in Seq(Row) /\ line \in Seq(Ids)
    BY DEF IInv, Types
  <2>1. CASE (Time \/ People) /\ UNCHANGED w /\ (UNCHANGED outbox \/ Time)
    <3>1. CASE UNCHANGED outbox
      BY <2>1, <3>1 DEF Undone, Ids
    <3>2. CASE Time
      BY <2>0, <2>1, <3>2, TimeRows, UndoneStays
    <3> QED
      BY <2>1, <3>1, <3>2
  <2>2. CASE w.pc = "observing" /\ ToRecovery
    BY <2>0, <2>2 DEF ToRecovery, Further, Part, Running
  <2>3. CASE Work
    BY <2>0, <2>3, WorkedOff DEF Further, Part
  <2>4. CASE Schedule
    BY <2>0, <2>4 DEF Schedule, Publishes, Further, Part, Running
  <2>5. CASE Claim
    <3>1. w.pc = "claiming"
      BY <2>5 DEF Claim
    <3>2. CASE EndStage
      BY <2>0, <3>1, <3>2, EndOfStage DEF Further
    <3>3. CASE \E i \in Ids : w' = [w EXCEPT !.pc = "checking", !.id = i]
      <4>1. Undone' = Undone
        BY <2>0, <2>5, ClaimRows, UndoneStays
      <4>2. Part(w') = Part(w) /\ Station(w') > Station(w)
        BY <2>0, <3>1, <3>3 DEF Part, Station, Running
      <4> QED
        BY <4>1, <4>2 DEF Further
    <3> QED
      BY <2>0, <2>5, <3>2, <3>3, ClaimRows
  <2>6. CASE Reject
    BY <2>0, <2>6, EndOfStage DEF Reject, Further
  <2>7. CASE Stations
    BY <2>7, StationsAscend DEF Further
  <2>8. CASE Receipts
    BY <2>8, ReceiptsSettle DEF Further
  <2>9. ~StartSync
    BY DEF StartSync
  <2> QED
    BY <2>1, <2>2, <2>3, <2>4, <2>5, <2>6, <2>7, <2>8, <2>9, Ways
<1> QED
  BY <1>1, <1>2, PublishesStep, Invariant, PTL DEF Spec

=============================================================================
