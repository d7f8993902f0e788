-------------------------- MODULE AgentsRefinement --------------------------
(***************************************************************************)
(* Agents implements SerialBatch, and a batch that has come to an end has  *)
(* one result for every task: for any number of tasks, workers, retries    *)
(* and any bounds.                                                         *)
(*                                                                         *)
(* Every task that was handed out is either at one worker or reported, and *)
(* never both (Reports): that is why the worker that gets the mutex begins *)
(* a task nobody has reported.  Steps that touch neither tasks nor results *)
(* are Quiet, and stutter; the others are Fetch, which stutters too, and   *)
(* the moves Begin, Again and Report.                                      *)
(***************************************************************************)
EXTENDS AgentsProofs

Reports ==
    /\ next <= budget.tasks
    /\ \A i \in DOMAIN output : output[i].task \in 1..next
    /\ \A i, j \in DOMAIN output : output[i].task = output[j].task => i = j
    /\ \A w \in Worker :
        /\ Active(w) =>
            /\ at[w][1] \in 1..next
            /\ \A i \in DOMAIN output : output[i].task # at[w][1]
        /\ pc[w] = "lock" => at[w][2] = 1
        /\ pc[w] = "done" /\ w <= budget.tasks => next = budget.tasks
    /\ \A t \in 1..next :
        \/ \E w \in Worker : Active(w) /\ at[w][1] = t
        \/ \E i \in DOMAIN output : output[i].task = t

-----------------------------------------------------------------------------
(* The five ways in which a step deals with tasks and results.             *)

\* Attempts and processes go on; nobody takes, begins or reports a task.
Quiet ==
    /\ UNCHANGED <<next, output, at, lock>>
    /\ budget'.tasks = budget.tasks /\ budget'.retries = budget.retries
    /\ \A w \in Worker :
        /\ (pc'[w] \notin {"fetch", "done"}) <=> Active(w)
        /\ pc'[w] = "lock" => pc[w] = "lock"
        /\ pc'[w] = "done" => pc[w] = "done"

Retry(w) ==
    /\ pc[w] = "failed" /\ More(at[w][2])
    /\ at' = [at EXCEPT ![w] = <<@[1], @[2] + 1>>]
    /\ Goto(w, "start")
    /\ UNCHANGED <<next, output, lock, budget>>

Reporting(w) ==
    /\ pc[w] \in Busy
    /\ \E ok \in BOOLEAN : HandIn(w, ok)
    /\ UNCHANGED <<next, at, budget>>

\* What is left of a bound says nothing about tasks and retries.
LEMMA SpendKeeps ==
    ASSUME Types, NEW what \in {"forks", "kills", "late"}, Spend(what)
    PROVE  budget'.tasks = budget.tasks /\ budget'.retries = budget.retries
BY DEF Spend, Types

\* A worker that stays between the lock and the result.
LEMMA GotoQuiet ==
    ASSUME Types, NEW w \in Worker, NEW l, pc' = [pc EXCEPT ![w] = l],
           pc[w] \notin {"fetch", "done"}, l \notin {"fetch", "done", "lock"}
    PROVE  \A v \in Worker :
               /\ (pc'[v] \notin {"fetch", "done"}) <=> Active(v)
               /\ pc'[v] = "lock" => pc[v] = "lock"
               /\ pc'[v] = "done" => pc[v] = "done"
BY DEF Types, Active

LEMMA WorkFrames ==
    ASSUME IInv, NEW w \in Worker, Work(w) \/ Trouble(w)
    PROVE  Quiet \/ Fetch(w) \/ Lock(w) \/ Retry(w) \/ Reporting(w)
<1> USE DEF given, batch, processes, sweeping
<1>0. Types
  BY DEF IInv
<1>1. CASE Answer(w)
  BY <1>1 DEF Answer, Reporting, Busy
<1>2. CASE AttemptFailed(w)
  BY <1>2 DEF AttemptFailed, Reporting, Retry, Busy
<1>3. CASE PostRefused(w)
  BY <1>3 DEF PostRefused, Reporting, Busy
<1>4. CASE Post(w) \/ Start(w) \/ StartFails(w)
  <2>1. PICK l \in {"answer", "failed", "wait"} : Goto(w, l)
    BY <1>4 DEF Post, Start, StartFails, Goto
  <2>2. pc[w] = "start" /\ UNCHANGED <<next, output, at, lock, budget>>
    BY <1>4 DEF Post, Start, StartFails
  <2>3. QED
    BY <1>0, <2>1, <2>2, GotoQuiet DEF Quiet, Goto
<1>5. CASE Exited(w) \/ Stop(w) \/ Drained(w) \/ Swept(w) \/ ReaderFails(w)
  <2>1. PICK l \in {"drain", "sweep", "failed", "answer"} : Goto(w, l)
    BY <1>5 DEF Exited, Stop, Drained, Swept, ReaderFails
  <2>2. /\ pc[w] \in {"wait", "stop", "drain", "sweep"}
        /\ UNCHANGED <<next, output, at, lock, budget>>
    BY <1>5 DEF Exited, Stop, Drained, Swept, ReaderFails
  <2>3. QED
    BY <1>0, <2>1, <2>2, GotoQuiet DEF Quiet, Goto
<1>6. CASE Timeout(w)
  <2>1. Goto(w, "stop") /\ pc[w] \in {"wait", "drain"} /\ Spend("late")
        /\ UNCHANGED <<next, output, at, lock>>
    BY <1>6 DEF Timeout
  <2>2. QED
    BY <1>0, <2>1, SpendKeeps, GotoQuiet DEF Quiet, Goto
<1> QED
  BY <1>1, <1>2, <1>3, <1>4, <1>5, <1>6 DEF Work, Trouble

LEMMA Frames ==
    ASSUME IInv, [Next]_vars
    PROVE  \/ Quiet
           \/ \E w \in Worker :
                Fetch(w) \/ Lock(w) \/ Retry(w) \/ Reporting(w)
<1> USE DEF given, batch, processes, sweeping, fani
<1> DEFINE Same == UNCHANGED <<next, output, at, lock, pc>>
<1>0. Types
  BY DEF IInv
<1>1. Same /\ budget'.tasks = budget.tasks
           /\ budget'.retries = budget.retries => Quiet
  BY DEF Quiet, Active
<1>2. CASE Workers \/ \E w \in Worker : Trouble(w)
  BY <1>2, WorkFrames DEF Workers
<1>3. CASE Sweeps \/ Reapers
  <2>1. Same /\ UNCHANGED budget
    BY <1>3 DEF Sweeps, Sweep, Discover, Signal, Again, Reapers, Reaper,
       ReapSupervisor, ReapTokens, ReaperEnds
  <2>2. QED
    BY <1>1, <2>1
<1>4. CASE Supervisors \/ Deaths \/ \E p \in Process : Ends(p)
  <2>1. Same /\ UNCHANGED budget
    BY <1>4 DEF Supervisors, Cleanup, SupervisorEnds, Deaths, Dies, Ends
  <2>2. QED
    BY <1>1, <2>1
<1>5. CASE \E a \in Attempt : Forks(a) \/ Killed(a)
  <2>1. Same /\ \E what \in {"forks", "kills"} : Spend(what)
    BY <1>5 DEF Forks, Killed
  <2>2. QED
    BY <1>0, <1>1, <2>1, SpendKeeps
<1>6. CASE UNCHANGED vars
  BY <1>1, <1>6 DEF vars
<1> QED
  BY <1>2, <1>3, <1>4, <1>5, <1>6 DEF Next, Others, Rest

-----------------------------------------------------------------------------
(* Tasks and results belong together.                                      *)

LEMMA BoundsAre ==
    ASSUME IInv
    PROVE  /\ next \in Nat /\ budget.tasks \in Nat /\ budget.retries \in Nat
           /\ budget.tasks \in 1..Tasks
           /\ \A w \in Worker : at[w][1] \in Nat /\ at[w][2] \in Nat
           /\ \A w \in Worker : w \in Nat /\ w # Nobody
<1>1. Types
  BY DEF IInv
<1>2. next \in Nat /\ budget.tasks \in Nat /\ budget.retries \in Nat
  BY <1>1, AgentsAssumption DEF Types
<1>3. \A w \in Worker : at[w][1] \in Nat /\ at[w][2] \in Nat
  BY <1>1, AttemptParts DEF Types
<1>4. \A w \in Worker : w \in Nat /\ w # Nobody
  BY AgentsAssumption DEF Worker, Nobody
<1> QED
  BY <1>1, <1>2, <1>3, <1>4 DEF Types

LEMMA QuietKeeps == IInv /\ Reports /\ Quiet => Reports'
BY DEF Quiet, Reports, Active

LEMMA FetchReports ==
    ASSUME IInv, Reports, NEW w \in Worker, Fetch(w)
    PROVE  Reports'
<1> USE DEF given, batch
<1>0. Types /\ UNCHANGED <<output, budget>> /\ pc[w] = "fetch"
  BY DEF IInv, Fetch
<1>1. CASE next < budget.tasks
  <2>1. /\ next' = next + 1
        /\ at' = [at EXCEPT ![w] = <<next + 1, 1>>]
        /\ pc' = [pc EXCEPT ![w] = "lock"]
    BY <1>1 DEF Fetch, Goto
  <2>2. next' <= budget.tasks /\ 1..next' = (1..next) \cup {next'}
        /\ next' \notin 1..next
    BY <1>1, <2>1, BoundsAre
  <2>3. at'[w] = <<next', 1>> /\ Active(w)'
    BY <1>0, <2>1 DEF Types, Active
  <2>4. \A v \in Worker : v # w => /\ at'[v] = at[v] /\ pc'[v] = pc[v]
                                   /\ Active(v)' = Active(v)
    BY <1>0, <2>1 DEF Types, Active
  <2>5. \A i \in DOMAIN output : output[i].task # next'
    BY <2>2 DEF Reports
  <2>6. \A v \in Worker :
          /\ Active(v)' =>
              /\ at'[v][1] \in 1..next'
              /\ \A i \in DOMAIN output : output[i].task # at'[v][1]
          /\ pc'[v] = "lock" => at'[v][2] = 1
          /\ pc'[v] = "done" /\ v <= budget.tasks => next' = budget.tasks
    <3> SUFFICES ASSUME NEW v \in Worker
                 PROVE  /\ Active(v)' =>
                            /\ at'[v][1] \in 1..next'
                            /\ \A i \in DOMAIN output :
                                   output[i].task # at'[v][1]
                        /\ pc'[v] = "lock" => at'[v][2] = 1
                        /\ pc'[v] = "done" /\ v <= budget.tasks =>
                               next' = budget.tasks
      OBVIOUS
    <3>1. CASE v = w
      BY <2>2, <2>3, <2>5, <2>1, <1>0, <3>1 DEF Types
    <3>2. CASE v # w
      <4>1. pc[v] = "done" /\ v <= budget.tasks => FALSE
        BY <1>1, BoundsAre DEF Reports
      <4>2. QED
        BY <2>2, <2>4, <3>2, <4>1 DEF Reports
    <3>3. QED
      BY <3>1, <3>2
  <2>7. \A t \in 1..next' :
          \/ \E v \in Worker : Active(v)' /\ at'[v][1] = t
          \/ \E i \in DOMAIN output : output[i].task = t
    <3> SUFFICES ASSUME NEW t \in 1..next'
                 PROVE  \/ \E v \in Worker : Active(v)' /\ at'[v][1] = t
                        \/ \E i \in DOMAIN output : output[i].task = t
      OBVIOUS
    <3>1. CASE t = next'
      BY <2>3, <3>1
    <3>2. CASE t \in 1..next
      <4>1. CASE \E v \in Worker : Active(v) /\ at[v][1] = t
        <5>1. PICK v \in Worker : Active(v) /\ at[v][1] = t
          BY <4>1
        <5>2. v # w
          BY <1>0, <5>1 DEF Active
        <5>3. QED
          BY <2>4, <5>1, <5>2
      <4>2. QED
        BY <3>2, <4>1 DEF Reports
    <3>3. QED
      BY <2>2, <3>1, <3>2
  <2>8. \A i \in DOMAIN output : output[i].task \in 1..next'
    BY <2>2 DEF Reports
  <2>9. QED
    BY <1>0, <2>2, <2>6, <2>7, <2>8 DEF Reports
<1>2. CASE ~(next < budget.tasks)
  <2>1. pc' = [pc EXCEPT ![w] = "done"] /\ UNCHANGED <<next, at>>
    BY <1>2 DEF Fetch, Goto
  <2>2. next = budget.tasks
    BY <1>2, BoundsAre DEF Reports
  <2>3. \A v \in Worker : /\ Active(v)' = Active(v)
                          /\ pc'[v] = "lock" => pc[v] = "lock"
    BY <1>0, <2>1 DEF Types, Active
  <2>4. QED
    BY <1>0, <2>1, <2>2, <2>3 DEF Reports
<1> QED
  BY <1>1, <1>2

LEMMA LockReports ==
    ASSUME IInv, Reports, NEW w \in Worker, Lock(w)
    PROVE  Reports'
<1> USE DEF given, batch
<1>1. /\ Types /\ pc[w] = "lock" /\ pc' = [pc EXCEPT ![w] = "start"]
      /\ UNCHANGED <<next, output, at, budget>>
  BY DEF IInv, Lock, Goto
<1>2. \A v \in Worker : /\ Active(v)' = Active(v)
                        /\ pc'[v] = "lock" => pc[v] = "lock"
                        /\ pc'[v] = "done" => pc[v] = "done"
  BY <1>1 DEF Types, Active
<1> QED
  BY <1>1, <1>2 DEF Reports

LEMMA RetryReports ==
    ASSUME IInv, Reports, NEW w \in Worker, Retry(w)
    PROVE  Reports'
<1>1. /\ Types /\ pc[w] = "failed" /\ pc' = [pc EXCEPT ![w] = "start"]
      /\ UNCHANGED <<next, output, budget>>
      /\ at' = [at EXCEPT ![w] = <<at[w][1], at[w][2] + 1>>]
  BY DEF IInv, Retry, Goto
<1>2. \A v \in Worker : /\ Active(v)' = Active(v)
                        /\ at'[v][1] = at[v][1]
                        /\ pc'[v] = "lock" => pc[v] = "lock" /\ v # w
                        /\ pc'[v] = "done" => pc[v] = "done"
  BY <1>1 DEF Types, Active
<1>3. \A v \in Worker : v # w => at'[v] = at[v]
  BY <1>1 DEF Types
<1> QED
  BY <1>1, <1>2, <1>3 DEF Reports

LEMMA ReportingReports ==
    ASSUME IInv, Reports, NEW w \in Worker, Reporting(w)
    PROVE  Reports'
<1>0. PICK ok \in BOOLEAN : HandIn(w, ok)
  BY DEF Reporting
<1> DEFINE r == [task |-> at[w][1], attempts |-> at[w][2], ok |-> ok]
<1>1. /\ Types /\ pc[w] \in Busy /\ pc' = [pc EXCEPT ![w] = "fetch"]
      /\ UNCHANGED <<next, at, budget>>
      /\ output' = Append(output, r)
  BY <1>0 DEF IInv, Reporting, HandIn, Goto
<1>2. Active(w) /\ ~Active(w)'
  BY <1>1 DEF Active, Busy, Types
<1>3. \A v \in Worker : v # w => pc'[v] = pc[v] /\ Active(v)' = Active(v)
  BY <1>1 DEF Active, Types
<1>4. /\ DOMAIN output' = DOMAIN output \cup {Len(output) + 1}
      /\ \A i \in DOMAIN output : output'[i] = output[i]
      /\ output'[Len(output) + 1] = r
      /\ Len(output) + 1 \notin DOMAIN output
  <2>1. output \in Seq(Result) /\ r \in Result
    BY <1>1, ResultOf DEF Types
  <2>2. QED
    BY <1>1, <2>1
<1> HIDE DEF r
<1>5. r.task = at[w][1]
  BY DEF r
<1>6. \A i \in DOMAIN output' : output'[i].task \in 1..next
  BY <1>2, <1>4, <1>5 DEF Reports
<1>7. \A i, j \in DOMAIN output' : output'[i].task = output'[j].task => i = j
  BY <1>2, <1>4, <1>5 DEF Reports
<1>8. \A v \in Worker : Active(v)' =>
          /\ at[v][1] \in 1..next
          /\ \A i \in DOMAIN output' : output'[i].task # at[v][1]
  <2> SUFFICES ASSUME NEW v \in Worker, Active(v)'
               PROVE  /\ at[v][1] \in 1..next
                      /\ \A i \in DOMAIN output' : output'[i].task # at[v][1]
    OBVIOUS
  <2>1. v # w /\ Active(v)
    BY <1>2, <1>3
  <2>2. at[v][1] # at[w][1]
    BY <1>2, <2>1 DEF IInv, Shares
  <2>3. QED
    BY <1>4, <1>5, <2>1, <2>2 DEF Reports
<1>9. \A v \in Worker :
        /\ pc'[v] = "lock" => pc[v] = "lock"
        /\ pc'[v] = "done" => pc[v] = "done"
  BY <1>1 DEF Types
<1>10. \A t \in 1..next :
        \/ \E v \in Worker : Active(v)' /\ at[v][1] = t
        \/ \E i \in DOMAIN output' : output'[i].task = t
  <2> SUFFICES ASSUME NEW t \in 1..next
               PROVE  \/ \E v \in Worker : Active(v)' /\ at[v][1] = t
                      \/ \E i \in DOMAIN output' : output'[i].task = t
    OBVIOUS
  <2>1. CASE at[w][1] = t
    BY <1>4, <1>5, <2>1
  <2>2. CASE at[w][1] # t
    BY <1>3, <1>4, <2>2 DEF Reports
  <2>3. QED
    BY <2>1, <2>2
<1> QED
  BY <1>1, <1>6, <1>7, <1>8, <1>9, <1>10 DEF Reports

LEMMA ReportsInit == Init => Reports
<1> SUFFICES ASSUME Init PROVE Reports
  OBVIOUS
<1>1. budget.tasks \in Nat
  BY AgentsAssumption DEF Init
<1>2. next = 0 /\ output = <<>> /\ 1..next = {}
  BY DEF Init
<1>3. \A w \in Worker : ~Active(w) /\ pc[w] # "lock"
                        /\ (pc[w] = "done" => ~(w <= budget.tasks))
  BY DEF Init, Active
<1> QED
  BY <1>1, <1>2, <1>3 DEF Reports

LEMMA ReportsStep == IInv /\ Reports /\ [Next]_vars => Reports'
BY Frames, QuietKeeps, FetchReports, LockReports, RetryReports,
   ReportingReports

\* Every task that was handed out is at one worker or has been reported once.
THEOREM TasksAccountedFor == Spec => []Reports
<1>1. QED
  BY ReportsInit, ReportsStep, Always, PTL DEF Spec

\* The workers are done.
Over == \A w \in Worker : pc[w] = "done"

\* One result for every task, and none for anything else.
Complete ==
    /\ \A i \in DOMAIN output : output[i].task \in 1..budget.tasks
    /\ \A t \in 1..budget.tasks :
        \E i \in DOMAIN output :
            output[i].task = t
              /\ \A j \in DOMAIN output : output[j].task = t => j = i

\* execute: when the threads of a batch have been joined there is exactly one
\* result for each of its tasks, whatever failed, was killed or timed out.
THEOREM BatchIsComplete == Spec => [](Over => Complete)
<1>1. IInv /\ Reports => (Over => Complete)
  <2> SUFFICES ASSUME IInv, Reports, Over PROVE Complete
    OBVIOUS
  <2>1. 1 \in Worker /\ 1 <= budget.tasks
    BY BoundsAre, AgentsAssumption DEF Worker
  <2>2. next = budget.tasks
    BY <2>1 DEF Over, Reports
  <2>3. \A w \in Worker : ~Active(w)
    BY DEF Over, Active
  <2>4. QED
    BY <2>2, <2>3 DEF Reports, Complete
<1>2. QED
  BY <1>1, Always, TasksAccountedFor, PTL
-----------------------------------------------------------------------------
(* Agents implements SerialBatch.                                          *)

Turn == IF lock = Nobody THEN <<0, 0>> ELSE at[lock]

Seen == <<budget.tasks, budget.retries, Turn, output>>

\* Who holds the mutex has a task.
LEMMA TurnIs ==
    ASSUME IInv, Reports
    PROVE  /\ lock = Nobody => Turn = Outside!None
           /\ \A w \in Worker :
                pc[w] \in Busy => /\ lock = w /\ Turn = at[w]
                                 /\ Turn # Outside!None
<1>1. SUFFICES ASSUME NEW w \in Worker, pc[w] \in Busy
               PROVE  lock = w /\ Turn = at[w] /\ Turn # Outside!None
  BY DEF Turn, Outside!None
<1>2. lock = w /\ lock # Nobody /\ Turn = at[w]
  BY <1>1, BoundsAre DEF IInv, Turns, Turn
<1>3. at[w][1] \in 1..next
  BY <1>1 DEF Reports, Active, Busy
<1>4. at[w][1] # 0
  BY <1>3, BoundsAre
<1> QED
  BY <1>2, <1>4 DEF Outside!None

LEMMA FetchIsUnseen ==
    ASSUME IInv, Reports, NEW w \in Worker, Fetch(w)
    PROVE  UNCHANGED Seen
<1>1. /\ Types /\ Turns /\ pc[w] = "fetch" /\ UNCHANGED <<lock, output, budget>>
      /\ \A v \in Worker : v # w => at'[v] = at[v]
  BY DEF IInv, Fetch, Types, given, batch
<1>2. lock # w /\ lock \in Worker \cup {Nobody}
  BY <1>1 DEF Turns, Busy, Types
<1> QED
  BY <1>1, <1>2 DEF Seen, Turn

LEMMA LockBegins ==
    ASSUME IInv, Reports, NEW w \in Worker, Lock(w)
    PROVE  Outside!Next
<1>1. /\ pc[w] = "lock" /\ lock = Nobody /\ lock' = w
      /\ UNCHANGED <<next, output, at, budget>>
  BY DEF Lock, Free, given
<1>2. Turn = Outside!None /\ Turn' = at[w]
  BY <1>1, BoundsAre DEF Turn, Outside!None
<1>3. /\ at[w][1] \in 1..next /\ at[w][2] = 1
      /\ \A i \in DOMAIN output : output[i].task # at[w][1]
  BY <1>1 DEF Reports, Active
<1>4. at[w][1] \in (1..budget.tasks) \ Outside!Reported
  BY <1>3, BoundsAre DEF Reports, Outside!Reported
<1>5. at[w] = <<at[w][1], 1>>
  BY <1>3, AttemptParts DEF IInv, Types
<1>6. Outside!Begin
  BY <1>1, <1>2, <1>4, <1>5 DEF Outside!Begin, Turn
<1> QED
  BY <1>1, <1>6 DEF Outside!Next

LEMMA RetryIsAgain ==
    ASSUME IInv, Reports, NEW w \in Worker, Retry(w)
    PROVE  Outside!Next
<1>1. /\ Types /\ pc[w] = "failed" /\ UNCHANGED <<output, lock, budget>>
      /\ at' = [at EXCEPT ![w] = <<at[w][1], at[w][2] + 1>>]
      /\ at[w][2] <= budget.retries
  BY DEF IInv, Retry, More
<1>2. lock = w /\ Turn = at[w] /\ Turn # Outside!None
  BY <1>1, TurnIs DEF Busy
<1>3. Turn' = <<at[w][1], at[w][2] + 1>>
  BY <1>1, <1>2, BoundsAre DEF Turn, Types
<1>4. Outside!Again
  BY <1>1, <1>2, <1>3 DEF Outside!Again, Turn
<1> QED
  BY <1>1, <1>4 DEF Outside!Next

LEMMA ReportingIsReport ==
    ASSUME IInv, Reports, NEW w \in Worker, Reporting(w)
    PROVE  Outside!Next
<1>1. PICK ok \in BOOLEAN : HandIn(w, ok)
  BY DEF Reporting
<1>2. pc[w] \in Busy /\ UNCHANGED <<next, at, budget>>
  BY DEF Reporting
<1>3. Turn = at[w] /\ Turn # Outside!None
  BY <1>2, TurnIs
<1>4. output' = Append(output, [task |-> Turn[1], attempts |-> Turn[2],
                               ok |-> ok])
  BY <1>1, <1>3 DEF HandIn
<1>5. Turn' = Outside!None
  BY <1>1 DEF HandIn, Turn, Outside!None
<1>6. Outside!Report
  BY <1>3, <1>4, <1>5 DEF Outside!Report, Turn
<1> QED
  BY <1>2, <1>6 DEF Outside!Next

\* execute: whatever the number of its threads, a batch is a loop that begins
\* a task nobody has reported, tries it again while retries are left, and
\* reports it before the next one is begun.
THEOREM SerialImplemented == Spec => SerialSpec
<1>1. Init => Outside!Init
  <2> SUFFICES ASSUME Init PROVE Outside!Init
    OBVIOUS
  <2>1. budget.tasks \in Nat /\ budget.retries \in Nat
    BY AgentsAssumption DEF Init
  <2>2. lock = Nobody /\ output = <<>>
    BY DEF Init
  <2>3. QED
    BY <2>1, <2>2 DEF Outside!Init, Outside!None
<1>2. IInv /\ Reports /\ [Next]_vars => [Outside!Next]_Seen
  <2> SUFFICES ASSUME IInv, Reports, [Next]_vars
               PROVE  Outside!Next \/ UNCHANGED Seen
    OBVIOUS
  <2>1. CASE Quiet
    BY <2>1 DEF Quiet, Seen, Turn
  <2>2. QED
    BY <2>1, Frames, FetchIsUnseen, LockBegins, RetryIsAgain,
       ReportingIsReport
<1>3. QED
  BY <1>1, <1>2, Always, TasksAccountedFor, PTL
     DEF Spec, SerialSpec, Outside!Spec, Seen, Turn
=============================================================================
