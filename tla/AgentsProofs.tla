---------------------------- MODULE AgentsProofs ----------------------------
(***************************************************************************)
(* Proofs about Agents, for any number of tasks, workers and retries and   *)
(* any bounds.                                                             *)
(*                                                                         *)
(* Two things carry the argument.  The mutex of the results names the one  *)
(* worker that makes attempts (Turns).  And attempts are begun in order    *)
(* and once: what exists of an attempt, a process, a zombie, a sweep's     *)
(* finding, a result, is no later than the attempt its task is at          *)
(* (History), so that an attempt starts with nothing of it there (Fresh).  *)
(* Hence what a sweep finds is never of the attempt under way (Unseen),    *)
(* and a supervisor that has ended stays ended, with all it supervised,    *)
(* until its answer is taken (Whole, Ended).                               *)
(***************************************************************************)
EXTENDS Agents, TLAPS

Label == {"fetch", "lock", "start", "wait", "drain", "stop", "sweep",
          "answer", "failed", "done"}

\* A worker that has a task.
Active(w) == pc[w] \notin {"fetch", "done"}
\* From the first attempt to the result.
Busy == {"start", "wait", "drain", "stop", "sweep", "answer", "failed"}

Types ==
    /\ adapter \in {"command", "native"}
    /\ next \in 0..Tasks
    /\ lock \in Worker \cup {Nobody}
    /\ output \in Seq(Result)
    /\ pc \in [Worker -> Label]
    /\ at \in [Worker -> Attempt]
    /\ alive \subseteq Process
    /\ doomed \subseteq alive
    /\ stopping \subseteq Attempt /\ zombies \subseteq Attempt
    /\ protected \subseteq Attempt /\ good \subseteq Attempt
    /\ reapers \subseteq Attempt
    /\ seen \in [Attempt -> SUBSET Process]
    /\ budget \in [{"tasks", "retries", "forks", "kills", "late"} -> Nat]
    /\ budget.tasks \in 1..Tasks /\ budget.retries \in 0..Retries

Turns == \A w \in Worker : pc[w] \in Busy <=> lock = w

\* No task is at two workers.
Shares ==
    \A v, w \in Worker :
        Active(v) =>
            /\ at[v][1] <= next
            /\ Active(w) /\ v # w => at[v][1] # at[w][1]

\* There is a trace of the attempt.
Used(a) ==
    \/ a \in zombies \cup good \cup reapers
    \/ \E p \in alive : p[1] = a
    \/ \E b \in Attempt : \E p \in seen[b] : p[1] = a
    \/ \E i \in DOMAIN output : <<output[i].task, output[i].attempts>> = a

\* It is not later than the one its task is at.
Begun(a) ==
    /\ a[1] <= next
    /\ \A w \in Worker :
        Active(w) /\ at[w][1] = a[1] =>
            /\ a[2] <= at[w][2]
            /\ pc[w] \in {"lock", "start"} => a[2] < at[w][2]

History == \A a \in Attempt : Used(a) => Begun(a)

\* A supervisor outlives what it supervises, where its answer counts.
Whole ==
    /\ \A a \in good :
        Supervisor(a) \in alive \/ \A p \in alive : p[1] # a
    /\ \A a \in zombies : Supervisor(a) \notin alive

\* Output is read to its end from what has ended.
Ended ==
    \A w \in Worker :
        /\ pc[w] \in {"drain", "sweep", "answer"} /\ adapter = "command" =>
               Supervisor(at[w]) \notin alive
        /\ pc[w] = "answer" /\ adapter = "command" => at[w] \in good
        /\ pc[w] = "stop" => at[w] \notin good

\* An attempt under way is protected, and is no reaper's.
Kept ==
    \A w \in Worker :
        /\ pc[w] = "wait" => at[w] \in protected
        /\ pc[w] \in {"start", "wait", "drain", "stop"} => at[w] \notin reapers

\* No sweep has found anything of it.
Unseen ==
    \A w \in Worker :
        pc[w] = "wait" /\ Supervisor(at[w]) \in alive =>
            \A a \in Attempt : \A p \in seen[a] : p[1] # at[w]

IInv == /\ Types /\ Turns /\ Shares /\ History /\ Whole /\ Ended
        /\ AnswerIsFinal /\ Kept /\ Unseen


-----------------------------------------------------------------------------
(* Attempts and processes.                                                 *)

LEMMA AttemptParts ==
    \A a \in Attempt : a[1] \in Nat /\ a[2] \in Nat /\ a = <<a[1], a[2]>>
BY AgentsAssumption DEF Attempt, Task

LEMMA ProcessParts ==
    /\ \A p \in Process : p[1] \in Attempt /\ p = <<p[1], p[2]>>
    /\ \A a \in Attempt : \A kind \in {"supervisor", "agent", "child", "stray"} :
           <<a, kind>> \in Process /\ <<a, kind>>[1] = a
BY DEF Process

\* An attempt that is about to start has left no trace.
LEMMA Fresh ==
    ASSUME Types, History, NEW w \in Worker, pc[w] \in {"lock", "start"}
    PROVE  ~Used(at[w])
<1>1. at[w] \in Attempt
  BY DEF Types
<1>2. Used(at[w]) => at[w][2] < at[w][2]
  BY <1>1 DEF History, Begun, Active
<1> QED
  BY <1>1, <1>2, AttemptParts

\* What a task is answered with.
LEMMA ResultOf ==
    ASSUME Types, NEW w \in Worker, NEW ok \in BOOLEAN
    PROVE  [task |-> at[w][1], attempts |-> at[w][2], ok |-> ok] \in Result
<1>1. at[w] \in Attempt
  BY DEF Types
<1> QED
  BY <1>1 DEF Attempt, Result


-----------------------------------------------------------------------------
(* One lemma for each action: it keeps the invariant.                      *)

\* A result is handed in: for Answer, AttemptFailed and PostRefused.
LEMMA HandInKeeps ==
    ASSUME IInv, NEW w \in Worker, NEW ok \in BOOLEAN, HandIn(w, ok),
           pc[w] \in Busy,
           ok /\ adapter = "command" => pc[w] = "answer",
           UNCHANGED <<given, next, at, processes, protected, good, sweeping>>
    PROVE  IInv'
<1> DEFINE r == [task |-> at[w][1], attempts |-> at[w][2], ok |-> ok]
<1> USE DEF IInv, given, processes, sweeping
<1>1. r \in Result
  BY ResultOf
<1>2. output' = Append(output, r) /\ pc' = [pc EXCEPT ![w] = "fetch"]
  BY DEF HandIn, Goto
<1>3. \A i \in DOMAIN output' :
        (i \in DOMAIN output /\ output'[i] = output[i]) \/ output'[i] = r
  BY <1>1, <1>2 DEF Types
<1> HIDE DEF r
<1>4. Types'
  <2>1. output' \in Seq(Result)
    BY <1>1, <1>2 DEF Types
  <2>2. pc' \in [Worker -> Label] /\ lock' = Nobody
    BY <1>2 DEF Types, Label, HandIn
  <2> QED
    BY <2>1, <2>2 DEF Types
<1>5. Turns'
  BY <1>2 DEF Turns, Busy, Types, Nobody, Worker, HandIn
<1>6. Shares'
  BY <1>2 DEF Shares, Active, Types
<1>7. History'
  <2> SUFFICES ASSUME NEW c \in Attempt, Used(c)' PROVE Begun(c)'
    BY DEF History
  <2>1. Used(c) \/ c = at[w]
    <3>1. at[w] = <<r.task, r.attempts>>
      BY AttemptParts DEF Types, r
    <3>2. CASE \E i \in DOMAIN output' :
                 <<output'[i].task, output'[i].attempts>> = c
      BY <1>3, <3>1, <3>2 DEF Used
    <3>3. CASE ~\E i \in DOMAIN output' :
                 <<output'[i].task, output'[i].attempts>> = c
      BY <3>3 DEF Used
    <3> QED
      BY <3>2, <3>3
  <2>2. CASE Used(c)
    <3>1. Begun(c)
      BY <2>2 DEF History
    <3> QED
      BY <1>2, <3>1 DEF Begun, Active, Types
  <2>3. CASE c = at[w]
    <3>1. Active(w)
      BY DEF Active, Busy
    <3>2. c[1] <= next
      BY <2>3, <3>1 DEF Shares
    <3>3. \A v \in Worker : Active(v) /\ v # w => at[v][1] # c[1]
      BY <2>3, <3>1 DEF Shares
    <3> QED
      BY <1>2, <2>3, <3>2, <3>3 DEF Begun, Active, Types
  <2> QED
    BY <2>1, <2>2, <2>3
<1>8. Whole'
  BY DEF Whole, Supervisor
<1>9. Ended'
  BY <1>2 DEF Ended, Supervisor, Types
<1>10. AnswerIsFinal'
  <2> SUFFICES ASSUME NEW i \in DOMAIN output', output'[i].ok,
                      adapter = "command", NEW p \in alive
               PROVE  p[1] # <<output'[i].task, output'[i].attempts>>
    BY DEF AnswerIsFinal
  <2>1. CASE i \in DOMAIN output /\ output'[i] = output[i]
    BY <2>1 DEF AnswerIsFinal
  <2>2. CASE output'[i] = r
    <3>1. at[w] \in good /\ Supervisor(at[w]) \notin alive
      BY <2>2 DEF Ended, r
    <3>2. p[1] # at[w]
      BY <3>1 DEF Whole
    <3>3. at[w] = <<r.task, r.attempts>>
      BY AttemptParts DEF Types, r
    <3> QED
      BY <2>2, <3>2, <3>3
  <2> QED
    BY <1>3, <2>1, <2>2
<1>11. Kept'
  BY <1>2 DEF Kept, Types
<1>12. Unseen'
  BY <1>2 DEF Unseen, Supervisor, Types
<1> QED
  BY <1>4, <1>5, <1>6, <1>7, <1>8, <1>9, <1>10, <1>11, <1>12

LEMMA FetchKeeps ==
    ASSUME IInv, NEW w \in Worker, Fetch(w)
    PROVE  IInv'
<1> USE DEF IInv, Fetch, Goto, given, batch, processes, sweeping
<1>1. Types'
  <2>1. next' \in 0..Tasks
    BY AgentsAssumption DEF Types
  <2>2. at' \in [Worker -> Attempt]
    <3>1. next < budget.tasks => next + 1 \in Task
      BY AgentsAssumption DEF Types, Task
    <3>2. 1 \in 1..(Retries + 1)
      BY AgentsAssumption
    <3>3. next < budget.tasks => <<next + 1, 1>> \in Attempt
      BY <3>1, <3>2 DEF Attempt
    <3> QED
      BY <3>3 DEF Types
  <2>3. pc' \in [Worker -> Label]
    BY DEF Types, Label
  <2> QED
    BY <2>1, <2>2, <2>3 DEF Types
<1>2. Turns'
  BY DEF Turns, Busy, Types, Nobody, Worker
<1>3. Shares'
  <2>1. \A v \in Worker : Active(v) => at[v][1] <= next /\ at[v][1] \in Nat
    BY AttemptParts DEF Shares, Types
  <2>2. next \in Nat
    BY DEF Types
  <2>3. CASE next < budget.tasks
    BY <2>1, <2>2, <2>3 DEF Shares, Active, Types
  <2>4. CASE ~(next < budget.tasks)
    BY <2>4 DEF Shares, Active, Types
  <2> QED
    BY <2>3, <2>4
<1>4. History'
  <2> SUFFICES ASSUME NEW c \in Attempt, Used(c)' PROVE Begun(c)'
    BY DEF History
  <2>1. Used(c)
    BY DEF Used
  <2>2. Begun(c) /\ c[1] \in Nat /\ next \in Nat
    BY <2>1, AttemptParts DEF History, Types
  <2>3. CASE next < budget.tasks
    <3>1. \A v \in Worker : v # w => at'[v] = at[v] /\ pc'[v] = pc[v]
      BY <2>3 DEF Types
    <3>2. at'[w][1] # c[1] /\ c[1] <= next'
      BY <2>2, <2>3 DEF Begun, Types
    <3> QED
      BY <2>2, <3>1, <3>2 DEF Begun, Active
  <2>4. CASE ~(next < budget.tasks)
    BY <2>2, <2>4 DEF Begun, Active, Types
  <2> QED
    BY <2>3, <2>4
<1>5. Whole'
  BY DEF Whole, Types
<1>6. Ended'
  BY DEF Ended, Whole, Shares, Active, Types
<1>7. AnswerIsFinal'
  BY DEF AnswerIsFinal, Ended, Whole, History, Used, Begun, Types
<1>8. Kept'
  BY DEF Kept, Shares, Active, Types
<1>9. Unseen'
  <2> SUFFICES ASSUME NEW v \in Worker, pc'[v] = "wait",
                      Supervisor(at'[v]) \in alive',
                      NEW b \in Attempt, NEW q \in seen'[b]
               PROVE  q[1] # at'[v]
    BY DEF Unseen, Supervisor
  <2>1. /\ pc[v] = "wait" /\ at'[v] = at[v]
        /\ Supervisor(at[v]) \in alive
    BY DEF Types, Supervisor
  <2>2. q \in seen[b]
    BY DEF Types
  <2> QED
    BY <2>1, <2>2 DEF Unseen
<1> QED
  BY <1>1, <1>2, <1>3, <1>4, <1>5, <1>6, <1>7, <1>8, <1>9

LEMMA LockKeeps ==
    ASSUME IInv, NEW w \in Worker, Lock(w)
    PROVE  IInv'
<1> USE DEF IInv, Lock, Goto, Free, given, batch, processes, sweeping
<1>1. Types'
  BY DEF Types, Result, Label, Task, Attempt, Process, Worker, Nobody
<1>2. Turns'
  BY DEF Turns, Busy, Types, Nobody, Worker
<1>3. Shares'
  BY DEF Shares, Active, Types
<1>4. History'
  <2> SUFFICES ASSUME NEW c \in Attempt, Used(c)' PROVE Begun(c)'
    BY DEF History
  <2>1. Used(c)
    BY DEF Used, Types, Result
  <2>2. Begun(c)
    BY <2>1 DEF History
  <2> QED
    BY <2>2 DEF Begun, Active, Shares, Types
<1>5. Whole'
  BY DEF Whole, Types
<1>6. Ended'
  BY DEF Ended, Whole, Shares, Active, Types
<1>7. AnswerIsFinal'
  BY DEF AnswerIsFinal, Ended, Whole, History, Used, Begun, Types
<1>8. Kept'
  <2>1. at[w] \notin reapers
    BY Fresh DEF Used
  <2> QED
    BY <2>1 DEF Kept, Types
<1>9. Unseen'
  <2> SUFFICES ASSUME NEW v \in Worker, pc'[v] = "wait",
                      Supervisor(at'[v]) \in alive',
                      NEW b \in Attempt, NEW q \in seen'[b]
               PROVE  q[1] # at'[v]
    BY DEF Unseen, Supervisor
  <2>1. /\ pc[v] = "wait" /\ at'[v] = at[v]
        /\ Supervisor(at[v]) \in alive
    BY DEF Types, Supervisor
  <2>2. q \in seen[b]
    BY DEF Types
  <2> QED
    BY <2>1, <2>2 DEF Unseen
<1> QED
  BY <1>1, <1>2, <1>3, <1>4, <1>5, <1>6, <1>7, <1>8, <1>9

LEMMA AnswerKeeps ==
    ASSUME IInv, NEW w \in Worker, Answer(w)
    PROVE  IInv'
<1> QED
  BY HandInKeeps DEF Answer, Busy

LEMMA AttemptFailedKeeps ==
    ASSUME IInv, NEW w \in Worker, AttemptFailed(w)
    PROVE  IInv'
<1> DEFINE b == <<at[w][1], at[w][2] + 1>>
<1>1. CASE HandIn(w, FALSE) /\ UNCHANGED at
  BY <1>1, HandInKeeps DEF AttemptFailed, Busy
<1>2. CASE /\ More(at[w][2]) /\ Goto(w, "start")
           /\ at' = [at EXCEPT ![w] = b]
           /\ UNCHANGED <<lock, output>>
  <2> USE DEF IInv, given, processes, sweeping
  <2>1. /\ pc[w] = "failed" /\ pc' = [pc EXCEPT ![w] = "start"]
        /\ UNCHANGED <<given, next, processes, protected, good, sweeping,
                       lock, output>>
    BY <1>2 DEF AttemptFailed, Goto
  <2>2. /\ b \in Attempt /\ b[1] = at[w][1] /\ b[2] = at[w][2] + 1
        /\ at[w] \in Attempt
    <3>1. at[w] \in Attempt
      BY DEF Types
    <3>2. at[w][1] \in Task /\ at[w][2] \in 1..(Retries + 1)
      BY <3>1 DEF Attempt
    <3>3. at[w][2] + 1 \in 1..(Retries + 1)
      BY <3>2, <1>2, AgentsAssumption DEF More, Types
    <3> QED
      BY <3>1, <3>2, <3>3 DEF Attempt
  <2>3. at' = [at EXCEPT ![w] = b]
    BY <1>2
  <2> HIDE DEF b
  <2>4. Types'
    BY <2>1, <2>2, <2>3 DEF Types, Label
  <2>5. Turns'
    BY <2>1 DEF Turns, Busy, Types
  <2>6. Shares'
    BY <2>1, <2>2, <2>3 DEF Shares, Active, Types
  <2>7. ~Used(b)
    BY <2>2, <2>1, AttemptParts DEF History, Begun, Active
  <2>8. History'
    <3> SUFFICES ASSUME NEW c \in Attempt, Used(c)' PROVE Begun(c)'
      BY DEF History
    <3>1. Used(c)
      BY <2>1 DEF Used
    <3>2. Begun(c)
      BY <3>1 DEF History
    <3>3. at[w][1] = c[1] => c[2] <= at[w][2]
      BY <2>1, <3>2 DEF Begun, Active
    <3>4. at[w][1] = c[1] => c[2] < b[2]
      BY <3>3, <2>2, AttemptParts
    <3>5. at[w][1] = c[1] => c[2] <= b[2]
      BY <3>4, <2>2, AttemptParts
    <3>6. \A v \in Worker : v # w => at'[v] = at[v] /\ pc'[v] = pc[v]
      BY <2>1, <2>3 DEF Types
    <3>7. at'[w] = b /\ pc'[w] = "start"
      BY <2>1, <2>3 DEF Types
    <3> QED
      BY <2>1, <2>2, <3>2, <3>4, <3>5, <3>6, <3>7 DEF Begun, Active
  <2>9. Whole' /\ AnswerIsFinal'
    BY <2>1 DEF Whole, AnswerIsFinal, Supervisor
  <2>10. Ended'
    BY <2>1, <2>3 DEF Ended, Supervisor, Types
  <2>11. Kept'
    BY <2>1, <2>3, <2>7 DEF Kept, Used, Types
  <2>12. Unseen'
    BY <2>1, <2>3 DEF Unseen, Supervisor, Types
  <2> QED
    BY <2>4, <2>5, <2>6, <2>8, <2>9, <2>10, <2>11, <2>12
<1> QED
  BY <1>1, <1>2 DEF AttemptFailed

LEMMA PostKeeps ==
    ASSUME IInv, NEW w \in Worker, Post(w)
    PROVE  IInv'
<1> USE DEF IInv, Post, given, batch, processes, sweeping
<1>1. Types'
  BY DEF Types, Result, Label, Task, Attempt, Process, Worker, Nobody
<1>2. Turns'
  BY DEF Turns, Busy, Types, Nobody, Worker
<1>3. Shares'
  BY DEF Shares, Active, Types
<1>4. History'
  <2> SUFFICES ASSUME NEW c \in Attempt, Used(c)' PROVE Begun(c)'
    BY DEF History
  <2>1. Used(c)
    BY DEF Used, Types, Result
  <2>2. Begun(c)
    BY <2>1 DEF History
  <2> QED
    BY <2>2 DEF Begun, Active, Shares, Types
<1>5. Whole'
  BY DEF Whole, Types
<1>6. Ended'
  BY DEF Ended, Whole, Shares, Active, Types
<1>7. AnswerIsFinal'
  BY DEF AnswerIsFinal, Ended, Whole, History, Used, Begun, Types
<1>8. Kept'
  BY DEF Kept, Shares, Active, Types
<1>9. Unseen'
  <2> SUFFICES ASSUME NEW v \in Worker, pc'[v] = "wait",
                      Supervisor(at'[v]) \in alive',
                      NEW b \in Attempt, NEW q \in seen'[b]
               PROVE  q[1] # at'[v]
    BY DEF Unseen, Supervisor
  <2>1. /\ pc[v] = "wait" /\ at'[v] = at[v]
        /\ Supervisor(at[v]) \in alive
    BY DEF Types, Supervisor
  <2>2. q \in seen[b]
    BY DEF Types
  <2> QED
    BY <2>1, <2>2 DEF Unseen
<1> QED
  BY <1>1, <1>2, <1>3, <1>4, <1>5, <1>6, <1>7, <1>8, <1>9

LEMMA PostRefusedKeeps ==
    ASSUME IInv, NEW w \in Worker, PostRefused(w)
    PROVE  IInv'
<1>1. adapter # "command" /\ pc[w] \in Busy
  BY DEF PostRefused, Busy
<1> QED
  BY <1>1, HandInKeeps DEF PostRefused

LEMMA StartKeeps ==
    ASSUME IInv, NEW w \in Worker, Start(w)
    PROVE  IInv'
<1> USE DEF IInv, Start, Goto, Supervisor, given, batch, processes, sweeping
<1>1. Types'
  <2>1. at[w] \in Attempt
    BY DEF Types
  <2>2. /\ Supervisor(at[w]) \in Process
        /\ <<at[w], "agent">> \in Process
    BY <2>1, ProcessParts DEF Supervisor
  <2>3. pc' \in [Worker -> Label]
    BY DEF Types, Label
  <2> QED
    BY <2>1, <2>2, <2>3 DEF Types
<1>2. Turns'
  BY DEF Turns, Busy, Types, Nobody, Worker
<1>3. Shares'
  BY DEF Shares, Active, Types
<1>4. History'
  <2> SUFFICES ASSUME NEW c \in Attempt, Used(c)' PROVE Begun(c)'
    BY DEF History
  <2>1. Used(c) \/ c = at[w]
    BY DEF Used, Types
  <2>2. CASE Used(c)
    <3>1. Begun(c)
      BY <2>2 DEF History
    <3> QED
      BY <3>1 DEF Begun, Active, Shares, Types
  <2>3. CASE c = at[w]
    <3>1. c[1] <= next /\ c[2] <= c[2]
      BY <2>3, AttemptParts DEF Shares, Active
    <3>2. \A v \in Worker : Active(v) /\ v # w => at[v][1] # c[1]
      BY <2>3 DEF Shares, Active
    <3> QED
      BY <2>3, <3>1, <3>2 DEF Begun, Active, Types
  <2> QED
    BY <2>1, <2>2, <2>3
<1>5. Whole'
  <2>1. at[w] \notin zombies
    BY Fresh DEF Used
  <2>2. at[w] \notin good
    BY Fresh DEF Used
  <2> QED
    BY <2>1, <2>2 DEF Whole, Types
<1>6. Ended'
  BY DEF Ended, Whole, Shares, Active, Types
<1>7. AnswerIsFinal'
  <2> SUFFICES ASSUME NEW i \in DOMAIN output, NEW p \in alive',
                      output[i].ok, adapter = "command"
               PROVE  p[1] # <<output[i].task, output[i].attempts>>
    BY DEF AnswerIsFinal
  <2>1. CASE p \in alive
    BY <2>1 DEF AnswerIsFinal
  <2>2. CASE p \notin alive
    <3>1. p[1] = at[w]
      BY <2>2
    <3> QED
      BY <3>1, Fresh DEF Used
  <2> QED
    BY <2>1, <2>2
<1>8. Kept'
  BY DEF Kept, Shares, Active, History, Used, Begun, Types
<1>9. Unseen'
  <2> SUFFICES ASSUME NEW v \in Worker, pc'[v] = "wait",
                      Supervisor(at'[v]) \in alive',
                      NEW b \in Attempt, NEW q \in seen'[b]
               PROVE  q[1] # at'[v]
    BY DEF Unseen, Supervisor
  <2>1. CASE v = w
    <3>1. at[w] # q[1]
      BY Fresh DEF Used
    <3> QED
      BY <2>1, <3>1
  <2>2. CASE v # w
    <3>1. /\ pc[v] = "wait" /\ at'[v] = at[v]
          /\ at[v] # at[w]
      BY <2>2 DEF Types, Shares, Active
    <3>2. Supervisor(at[v]) \in alive
      BY <3>1, <2>2 DEF Supervisor
    <3> QED
      BY <3>1, <3>2 DEF Unseen
  <2> QED
    BY <2>1, <2>2
<1> QED
  BY <1>1, <1>2, <1>3, <1>4, <1>5, <1>6, <1>7, <1>8, <1>9

LEMMA StartFailsKeeps ==
    ASSUME IInv, NEW w \in Worker, StartFails(w)
    PROVE  IInv'
<1> USE DEF IInv, StartFails, Goto, given, batch, processes, sweeping
<1>1. Types'
  BY DEF Types, Result, Label, Task, Attempt, Process, Worker, Nobody
<1>2. Turns'
  BY DEF Turns, Busy, Types, Nobody, Worker
<1>3. Shares'
  BY DEF Shares, Active, Types
<1>4. History'
  <2> SUFFICES ASSUME NEW c \in Attempt, Used(c)' PROVE Begun(c)'
    BY DEF History
  <2>1. Used(c)
    BY DEF Used, Types, Result
  <2>2. Begun(c)
    BY <2>1 DEF History
  <2> QED
    BY <2>2 DEF Begun, Active, Shares, Types
<1>5. Whole'
  BY DEF Whole, Types
<1>6. Ended'
  BY DEF Ended, Whole, Shares, Active, Types
<1>7. AnswerIsFinal'
  BY DEF AnswerIsFinal, Ended, Whole, History, Used, Begun, Types
<1>8. Kept'
  BY DEF Kept, Shares, Active, Types
<1>9. Unseen'
  <2> SUFFICES ASSUME NEW v \in Worker, pc'[v] = "wait",
                      Supervisor(at'[v]) \in alive',
                      NEW b \in Attempt, NEW q \in seen'[b]
               PROVE  q[1] # at'[v]
    BY DEF Unseen, Supervisor
  <2>1. /\ pc[v] = "wait" /\ at'[v] = at[v]
        /\ Supervisor(at[v]) \in alive
    BY DEF Types, Supervisor
  <2>2. q \in seen[b]
    BY DEF Types
  <2> QED
    BY <2>1, <2>2 DEF Unseen
<1> QED
  BY <1>1, <1>2, <1>3, <1>4, <1>5, <1>6, <1>7, <1>8, <1>9

LEMMA ExitedKeeps ==
    ASSUME IInv, NEW w \in Worker, Exited(w)
    PROVE  IInv'
<1> USE DEF IInv, Exited, Goto, given, batch, processes, sweeping
<1>1. Types'
  BY DEF Types, Result, Label, Task, Attempt, Process, Worker, Nobody
<1>2. Turns'
  BY DEF Turns, Busy, Types, Nobody, Worker
<1>3. Shares'
  BY DEF Shares, Active, Types
<1>4. History'
  <2> SUFFICES ASSUME NEW c \in Attempt, Used(c)' PROVE Begun(c)'
    BY DEF History
  <2>1. Used(c)
    BY DEF Used, Types, Result
  <2>2. Begun(c)
    BY <2>1 DEF History
  <2> QED
    BY <2>2 DEF Begun, Active, Shares, Types
<1>5. Whole'
  BY DEF Whole, Types
<1>6. Ended'
  BY DEF Ended, Whole, Shares, Active, Types
<1>7. AnswerIsFinal'
  BY DEF AnswerIsFinal, Ended, Whole, History, Used, Begun, Types
<1>8. Kept'
  BY DEF Kept, Shares, Active, Types
<1>9. Unseen'
  <2> SUFFICES ASSUME NEW v \in Worker, pc'[v] = "wait",
                      Supervisor(at'[v]) \in alive',
                      NEW b \in Attempt, NEW q \in seen'[b]
               PROVE  q[1] # at'[v]
    BY DEF Unseen, Supervisor
  <2>1. /\ pc[v] = "wait" /\ at'[v] = at[v]
        /\ Supervisor(at[v]) \in alive
    BY DEF Types, Supervisor
  <2>2. q \in seen[b]
    BY DEF Types
  <2> QED
    BY <2>1, <2>2 DEF Unseen
<1> QED
  BY <1>1, <1>2, <1>3, <1>4, <1>5, <1>6, <1>7, <1>8, <1>9

LEMMA TimeoutKeeps ==
    ASSUME IInv, NEW w \in Worker, Timeout(w)
    PROVE  IInv'
<1> USE DEF IInv, Timeout, Goto, Spend, Supervisor, given, batch, processes,
        sweeping
<1>1. Types'
  <2>1. pc' \in [Worker -> Label] /\ at[w] \in Attempt
    BY DEF Types, Label
  <2>2. budget' \in [{"tasks", "retries", "forks", "kills", "late"} -> Nat]
    BY DEF Types
  <2>3. budget'.tasks = budget.tasks /\ budget'.retries = budget.retries
    BY DEF Types
  <2> QED
    BY <2>1, <2>2, <2>3 DEF Types
<1>2. Turns'
  BY DEF Turns, Busy, Types, Nobody, Worker
<1>3. Shares'
  BY DEF Shares, Active, Types
<1>4. History'
  <2> SUFFICES ASSUME NEW c \in Attempt, Used(c)' PROVE Begun(c)'
    BY DEF History
  <2>1. Used(c)
    BY DEF Used, Types, Result
  <2>2. Begun(c)
    BY <2>1 DEF History
  <2> QED
    BY <2>2 DEF Begun, Active, Shares, Types
<1>5. Whole'
  BY DEF Whole, Types
<1>6. Ended'
  BY DEF Ended, Whole, Shares, Active, Types
<1>7. AnswerIsFinal'
  BY DEF AnswerIsFinal, Ended, Whole, History, Used, Begun, Types
<1>8. Kept'
  BY DEF Kept, Shares, Active, Types
<1>9. Unseen'
  <2> SUFFICES ASSUME NEW v \in Worker, pc'[v] = "wait",
                      Supervisor(at'[v]) \in alive',
                      NEW b \in Attempt, NEW q \in seen'[b]
               PROVE  q[1] # at'[v]
    BY DEF Unseen, Supervisor
  <2>1. /\ pc[v] = "wait" /\ at'[v] = at[v]
        /\ Supervisor(at[v]) \in alive
    BY DEF Types, Supervisor
  <2>2. q \in seen[b]
    BY DEF Types
  <2> QED
    BY <2>1, <2>2 DEF Unseen
<1> QED
  BY <1>1, <1>2, <1>3, <1>4, <1>5, <1>6, <1>7, <1>8, <1>9

LEMMA StopKeeps ==
    ASSUME IInv, NEW w \in Worker, Stop(w)
    PROVE  IInv'
<1> USE DEF IInv, Stop, Goto, Tokens, Kin, Supervisor, Look, Hand, given,
        batch, processes, sweeping
<1>1. Types'
  <2>1. pc' \in [Worker -> Label] /\ at[w] \in Attempt
    BY DEF Types, Label
  <2> QED
    BY <2>1 DEF Types
<1>2. Turns'
  BY DEF Turns, Busy, Types, Nobody, Worker
<1>3. Shares'
  BY DEF Shares, Active, Types
<1>4. History'
  <2> SUFFICES ASSUME NEW c \in Attempt, Used(c)' PROVE Begun(c)'
    BY DEF History
  <2>1. Used(c) \/ c = at[w]
    BY DEF Used, Types
  <2>2. CASE Used(c)
    <3>1. Begun(c)
      BY <2>2 DEF History
    <3> QED
      BY <3>1 DEF Begun, Active, Shares, Types
  <2>3. CASE c = at[w]
    <3>1. c[1] <= next /\ c[2] <= c[2]
      BY <2>3, AttemptParts DEF Shares, Active
    <3>2. \A v \in Worker : Active(v) /\ v # w => at[v][1] # c[1]
      BY <2>3 DEF Shares, Active
    <3> QED
      BY <2>3, <3>1, <3>2 DEF Begun, Active, Types
  <2> QED
    BY <2>1, <2>2, <2>3
<1>5. Whole'
  BY DEF Whole, Types
<1>6. Ended'
  BY DEF Ended, Whole, Shares, Active, Types
<1>7. AnswerIsFinal'
  BY DEF AnswerIsFinal, Ended, Whole, History, Used, Begun, Types
<1>8. Kept'
  BY DEF Kept, Shares, Active, Types
<1>9. Unseen'
  <2> SUFFICES ASSUME NEW v \in Worker, pc'[v] = "wait",
                      Supervisor(at'[v]) \in alive',
                      NEW b \in Attempt, NEW q \in seen'[b]
               PROVE  q[1] # at'[v]
    BY DEF Unseen, Supervisor
  <2>1. /\ pc[v] = "wait" /\ at'[v] = at[v]
        /\ Supervisor(at[v]) \in alive
    BY DEF Types, Supervisor
  <2>2. q \in seen[b]
    BY DEF Types
  <2> QED
    BY <2>1, <2>2 DEF Unseen
<1> QED
  BY <1>1, <1>2, <1>3, <1>4, <1>5, <1>6, <1>7, <1>8, <1>9

LEMMA DrainedKeeps ==
    ASSUME IInv, NEW w \in Worker, Drained(w)
    PROVE  IInv'
<1> USE DEF IInv, Drained, Goto, Tokens, Kin, Pipes, Look, given, batch,
        processes, sweeping
<1>1. Types'
  BY DEF Types, Result, Label, Task, Attempt, Process, Worker, Nobody
<1>2. Turns'
  BY DEF Turns, Busy, Types, Nobody, Worker
<1>3. Shares'
  BY DEF Shares, Active, Types
<1>4. History'
  <2> SUFFICES ASSUME NEW c \in Attempt, Used(c)' PROVE Begun(c)'
    BY DEF History
  <2>1. Used(c)
    BY DEF Used, Types, Result
  <2>2. Begun(c)
    BY <2>1 DEF History
  <2> QED
    BY <2>2 DEF Begun, Active, Shares, Types
<1>5. Whole'
  BY DEF Whole, Types
<1>6. Ended'
  BY DEF Ended, Whole, Shares, Active, Types
<1>7. AnswerIsFinal'
  BY DEF AnswerIsFinal, Ended, Whole, History, Used, Begun, Types
<1>8. Kept'
  BY DEF Kept, Shares, Active, Types
<1>9. Unseen'
  <2> SUFFICES ASSUME NEW v \in Worker, pc'[v] = "wait",
                      Supervisor(at'[v]) \in alive',
                      NEW b \in Attempt, NEW q \in seen'[b]
               PROVE  q[1] # at'[v]
    BY DEF Unseen, Supervisor
  <2>1. /\ pc[v] = "wait" /\ at'[v] = at[v]
        /\ Supervisor(at[v]) \in alive
    BY DEF Types, Supervisor
  <2>2. q \in seen[b]
    BY DEF Types
  <2> QED
    BY <2>1, <2>2 DEF Unseen
<1> QED
  BY <1>1, <1>2, <1>3, <1>4, <1>5, <1>6, <1>7, <1>8, <1>9

LEMMA ReaderFailsKeeps ==
    ASSUME IInv, NEW w \in Worker, ReaderFails(w)
    PROVE  IInv'
<1> USE DEF IInv, ReaderFails, Goto, given, batch, processes, sweeping
<1>1. Types'
  BY DEF Types, Result, Label, Task, Attempt, Process, Worker, Nobody
<1>2. Turns'
  BY DEF Turns, Busy, Types, Nobody, Worker
<1>3. Shares'
  BY DEF Shares, Active, Types
<1>4. History'
  <2> SUFFICES ASSUME NEW c \in Attempt, Used(c)' PROVE Begun(c)'
    BY DEF History
  <2>1. Used(c)
    BY DEF Used, Types, Result
  <2>2. Begun(c)
    BY <2>1 DEF History
  <2> QED
    BY <2>2 DEF Begun, Active, Shares, Types
<1>5. Whole'
  BY DEF Whole, Types
<1>6. Ended'
  BY DEF Ended, Whole, Shares, Active, Types
<1>7. AnswerIsFinal'
  BY DEF AnswerIsFinal, Ended, Whole, History, Used, Begun, Types
<1>8. Kept'
  BY DEF Kept, Shares, Active, Types
<1>9. Unseen'
  <2> SUFFICES ASSUME NEW v \in Worker, pc'[v] = "wait",
                      Supervisor(at'[v]) \in alive',
                      NEW b \in Attempt, NEW q \in seen'[b]
               PROVE  q[1] # at'[v]
    BY DEF Unseen, Supervisor
  <2>1. /\ pc[v] = "wait" /\ at'[v] = at[v]
        /\ Supervisor(at[v]) \in alive
    BY DEF Types, Supervisor
  <2>2. q \in seen[b]
    BY DEF Types
  <2> QED
    BY <2>1, <2>2 DEF Unseen
<1> QED
  BY <1>1, <1>2, <1>3, <1>4, <1>5, <1>6, <1>7, <1>8, <1>9

LEMMA SweptKeeps ==
    ASSUME IInv, NEW w \in Worker, Swept(w)
    PROVE  IInv'
<1> USE DEF IInv, Swept, Goto, Remaining, Left, given, batch, processes,
        sweeping
<1>1. Types'
  <2>1. pc' \in [Worker -> Label] /\ at[w] \in Attempt
    BY DEF Types, Label
  <2>2. seen' \in [Attempt -> SUBSET Process]
    BY <2>1 DEF Types
  <2> QED
    BY <2>1, <2>2 DEF Types
<1>2. Turns'
  BY DEF Turns, Busy, Types, Nobody, Worker
<1>3. Shares'
  BY DEF Shares, Active, Types
<1>4. History'
  <2> SUFFICES ASSUME NEW c \in Attempt, Used(c)' PROVE Begun(c)'
    BY DEF History
  <2>1. Used(c) \/ c = at[w]
    BY DEF Used, Types
  <2>2. CASE Used(c)
    <3>1. Begun(c)
      BY <2>2 DEF History
    <3> QED
      BY <3>1 DEF Begun, Active, Shares, Types
  <2>3. CASE c = at[w]
    <3>1. c[1] <= next /\ c[2] <= c[2]
      BY <2>3, AttemptParts DEF Shares, Active
    <3>2. \A v \in Worker : Active(v) /\ v # w => at[v][1] # c[1]
      BY <2>3 DEF Shares, Active
    <3> QED
      BY <2>3, <3>1, <3>2 DEF Begun, Active, Types
  <2> QED
    BY <2>1, <2>2, <2>3
<1>5. Whole'
  BY DEF Whole, Types
<1>6. Ended'
  BY DEF Ended, Whole, Shares, Active, Types
<1>7. AnswerIsFinal'
  BY DEF AnswerIsFinal, Ended, Whole, History, Used, Begun, Types
<1>8. Kept'
  BY DEF Kept, Shares, Active, Types
<1>9. Unseen'
  <2> SUFFICES ASSUME NEW v \in Worker, pc'[v] = "wait",
                      Supervisor(at'[v]) \in alive',
                      NEW b \in Attempt, NEW q \in seen'[b]
               PROVE  q[1] # at'[v]
    BY DEF Unseen, Supervisor
  <2>1. /\ pc[v] = "wait" /\ at'[v] = at[v]
        /\ Supervisor(at[v]) \in alive
    BY DEF Types, Supervisor
  <2>2. q \in seen[b]
    BY DEF Types
  <2> QED
    BY <2>1, <2>2 DEF Unseen
<1> QED
  BY <1>1, <1>2, <1>3, <1>4, <1>5, <1>6, <1>7, <1>8, <1>9

LEMMA DiscoverKeeps ==
    ASSUME IInv, NEW a \in Attempt, Discover(a)
    PROVE  IInv'
<1> USE DEF IInv, Discover, Orphans, given, batch, processes, sweeping
<1>1. Types'
  BY DEF Types, Result, Label, Task, Attempt, Process, Worker, Nobody
<1>2. Turns'
  BY DEF Turns, Busy, Types, Nobody, Worker
<1>3. Shares'
  BY DEF Shares, Active, Types
<1>4. History'
  <2> SUFFICES ASSUME NEW c \in Attempt, Used(c)' PROVE Begun(c)'
    BY DEF History
  <2>1. Used(c)
    BY DEF Used, Types, Left, Orphans
  <2>2. Begun(c)
    BY <2>1 DEF History
  <2> QED
    BY <2>2 DEF Begun, Active
<1>5. Whole'
  BY DEF Whole, Types
<1>6. Ended'
  BY DEF Ended, Whole, Shares, Active, Types
<1>7. AnswerIsFinal'
  BY DEF AnswerIsFinal, Ended, Whole, History, Used, Begun, Types
<1>8. Kept'
  BY DEF Kept, Shares, Active, Types
<1>9. Unseen'
  <2> SUFFICES ASSUME NEW v \in Worker, pc'[v] = "wait",
                      Supervisor(at'[v]) \in alive',
                      NEW b \in Attempt, NEW q \in seen'[b]
               PROVE  q[1] # at'[v]
    BY DEF Unseen, Supervisor
  <2>1. /\ pc[v] = "wait" /\ at'[v] = at[v]
        /\ Supervisor(at[v]) \in alive
    BY DEF Types, Supervisor
  <2>2. q \in seen[b] \cup Orphans
    BY DEF Types, Left
  <2>3. CASE q \in seen[b]
    BY <2>1, <2>3 DEF Unseen
  <2>4. CASE q \in Orphans
    BY <2>1, <2>4 DEF Orphans, Kept, Types, Process, Supervisor
  <2> QED
    BY <2>2, <2>3, <2>4
<1> QED
  BY <1>1, <1>2, <1>3, <1>4, <1>5, <1>6, <1>7, <1>8, <1>9

LEMMA SignalKeeps ==
    ASSUME IInv, NEW a \in Attempt, Signal(a)
    PROVE  IInv'
<1> USE DEF IInv, Signal, IsProtected, given, batch, processes, sweeping
<1>1. Types'
  BY DEF Types, Result, Label, Task, Attempt, Process, Worker, Nobody
<1>2. Turns'
  BY DEF Turns, Busy, Types, Nobody, Worker
<1>3. Shares'
  BY DEF Shares, Active, Types
<1>4. History'
  <2> SUFFICES ASSUME NEW c \in Attempt, Used(c)' PROVE Begun(c)'
    BY DEF History
  <2>1. Used(c)
    BY DEF Used, Types, Process
  <2>2. Begun(c)
    BY <2>1 DEF History
  <2> QED
    BY <2>2 DEF Begun, Active
<1>5. Whole'
  BY DEF Whole, Types
<1>6. Ended'
  BY DEF Ended, Whole, Shares, Active, Types
<1>7. AnswerIsFinal'
  BY DEF AnswerIsFinal, Ended, Whole, History, Used, Begun, Types
<1>8. Kept'
  BY DEF Kept, Shares, Active, Types
<1>9. Unseen'
  <2> SUFFICES ASSUME NEW v \in Worker, pc'[v] = "wait",
                      Supervisor(at'[v]) \in alive',
                      NEW b \in Attempt, NEW q \in seen'[b]
               PROVE  q[1] # at'[v]
    BY DEF Unseen, Supervisor
  <2>1. /\ pc[v] = "wait" /\ at'[v] = at[v]
        /\ Supervisor(at[v]) \in alive
    BY DEF Types, Supervisor
  <2>2. q \in seen[b]
    BY DEF Types
  <2> QED
    BY <2>1, <2>2 DEF Unseen
<1> QED
  BY <1>1, <1>2, <1>3, <1>4, <1>5, <1>6, <1>7, <1>8, <1>9

LEMMA AgainKeeps ==
    ASSUME IInv, NEW a \in Attempt, Again(a)
    PROVE  IInv'
<1> USE DEF IInv, Again, Left, Orphans, Tokens, Kin, given, batch, processes,
        sweeping
<1>1. Types'
  BY DEF Types, Result, Label, Task, Attempt, Process, Worker, Nobody
<1>2. Turns'
  BY DEF Turns, Busy, Types, Nobody, Worker
<1>3. Shares'
  BY DEF Shares, Active, Types
<1>4. History'
  <2> SUFFICES ASSUME NEW c \in Attempt, Used(c)' PROVE Begun(c)'
    BY DEF History
  <2>1. Used(c)
    BY DEF Used, Types, Left, Orphans
  <2>2. Begun(c)
    BY <2>1 DEF History
  <2> QED
    BY <2>2 DEF Begun, Active
<1>5. Whole'
  BY DEF Whole, Types
<1>6. Ended'
  BY DEF Ended, Whole, Shares, Active, Types
<1>7. AnswerIsFinal'
  BY DEF AnswerIsFinal, Ended, Whole, History, Used, Begun, Types
<1>8. Kept'
  BY DEF Kept, Shares, Active, Types
<1>9. Unseen'
  <2> SUFFICES ASSUME NEW v \in Worker, pc'[v] = "wait",
                      Supervisor(at'[v]) \in alive',
                      NEW b \in Attempt, NEW q \in seen'[b]
               PROVE  q[1] # at'[v]
    BY DEF Unseen, Supervisor
  <2>1. /\ pc[v] = "wait" /\ at'[v] = at[v]
        /\ Supervisor(at[v]) \in alive
    BY DEF Types, Supervisor
  <2>2. q \in seen[b] \cup Orphans
    BY DEF Types, Left
  <2>3. CASE q \in seen[b]
    BY <2>1, <2>3 DEF Unseen
  <2>4. CASE q \in Orphans
    BY <2>1, <2>4 DEF Orphans, Kept, Types, Process, Supervisor
  <2> QED
    BY <2>2, <2>3, <2>4
<1> QED
  BY <1>1, <1>2, <1>3, <1>4, <1>5, <1>6, <1>7, <1>8, <1>9

LEMMA ReapSupervisorKeeps ==
    ASSUME IInv, NEW a \in Attempt, ReapSupervisor(a)
    PROVE  IInv'
<1> USE DEF IInv, ReapSupervisor, Tokens, Kin, Look, given, batch, processes,
        sweeping
<1>1. Types'
  BY DEF Types, Result, Label, Task, Attempt, Process, Worker, Nobody
<1>2. Turns'
  BY DEF Turns, Busy, Types, Nobody, Worker
<1>3. Shares'
  BY DEF Shares, Active, Types
<1>4. History'
  <2> SUFFICES ASSUME NEW c \in Attempt, Used(c)' PROVE Begun(c)'
    BY DEF History
  <2>1. Used(c)
    BY DEF Used, Types, Process
  <2>2. Begun(c)
    BY <2>1 DEF History
  <2> QED
    BY <2>2 DEF Begun, Active
<1>5. Whole'
  BY DEF Whole, Types
<1>6. Ended'
  BY DEF Ended, Whole, Shares, Active, Types
<1>7. AnswerIsFinal'
  BY DEF AnswerIsFinal, Ended, Whole, History, Used, Begun, Types
<1>8. Kept'
  BY DEF Kept, Shares, Active, Types
<1>9. Unseen'
  <2> SUFFICES ASSUME NEW v \in Worker, pc'[v] = "wait",
                      Supervisor(at'[v]) \in alive',
                      NEW b \in Attempt, NEW q \in seen'[b]
               PROVE  q[1] # at'[v]
    BY DEF Unseen, Supervisor
  <2>1. /\ pc[v] = "wait" /\ at'[v] = at[v]
        /\ Supervisor(at[v]) \in alive
    BY DEF Types, Supervisor
  <2>2. q \in seen[b]
    BY DEF Types
  <2> QED
    BY <2>1, <2>2 DEF Unseen
<1> QED
  BY <1>1, <1>2, <1>3, <1>4, <1>5, <1>6, <1>7, <1>8, <1>9

LEMMA ReapTokensKeeps ==
    ASSUME IInv, NEW a \in Attempt, ReapTokens(a)
    PROVE  IInv'
<1> USE DEF IInv, ReapTokens, Tokens, Kin, given, batch, processes, sweeping
<1>1. Types'
  BY DEF Types, Result, Label, Task, Attempt, Process, Worker, Nobody
<1>2. Turns'
  BY DEF Turns, Busy, Types, Nobody, Worker
<1>3. Shares'
  BY DEF Shares, Active, Types
<1>4. History'
  <2> SUFFICES ASSUME NEW c \in Attempt, Used(c)' PROVE Begun(c)'
    BY DEF History
  <2>1. Used(c)
    BY DEF Used, Types, Process
  <2>2. Begun(c)
    BY <2>1 DEF History
  <2> QED
    BY <2>2 DEF Begun, Active
<1>5. Whole'
  BY DEF Whole, Types
<1>6. Ended'
  BY DEF Ended, Whole, Shares, Active, Types
<1>7. AnswerIsFinal'
  BY DEF AnswerIsFinal, Ended, Whole, History, Used, Begun, Types
<1>8. Kept'
  BY DEF Kept, Shares, Active, Types
<1>9. Unseen'
  <2> SUFFICES ASSUME NEW v \in Worker, pc'[v] = "wait",
                      Supervisor(at'[v]) \in alive',
                      NEW b \in Attempt, NEW q \in seen'[b]
               PROVE  q[1] # at'[v]
    BY DEF Unseen, Supervisor
  <2>1. /\ pc[v] = "wait" /\ at'[v] = at[v]
        /\ Supervisor(at[v]) \in alive
    BY DEF Types, Supervisor
  <2>2. q \in seen[b]
    BY DEF Types
  <2> QED
    BY <2>1, <2>2 DEF Unseen
<1> QED
  BY <1>1, <1>2, <1>3, <1>4, <1>5, <1>6, <1>7, <1>8, <1>9

LEMMA ReaperEndsKeeps ==
    ASSUME IInv, NEW a \in Attempt, ReaperEnds(a)
    PROVE  IInv'
<1> USE DEF IInv, ReaperEnds, given, batch, processes, sweeping
<1>1. Types'
  BY DEF Types, Result, Label, Task, Attempt, Process, Worker, Nobody
<1>2. Turns'
  BY DEF Turns, Busy, Types, Nobody, Worker
<1>3. Shares'
  BY DEF Shares, Active, Types
<1>4. History'
  <2> SUFFICES ASSUME NEW c \in Attempt, Used(c)' PROVE Begun(c)'
    BY DEF History
  <2>1. Used(c)
    BY DEF Used, Types, Process
  <2>2. Begun(c)
    BY <2>1 DEF History
  <2> QED
    BY <2>2 DEF Begun, Active
<1>5. Whole'
  BY DEF Whole, Types
<1>6. Ended'
  BY DEF Ended, Whole, Shares, Active, Types
<1>7. AnswerIsFinal'
  BY DEF AnswerIsFinal, Ended, Whole, History, Used, Begun, Types
<1>8. Kept'
  BY DEF Kept, Shares, Active, Types
<1>9. Unseen'
  <2> SUFFICES ASSUME NEW v \in Worker, pc'[v] = "wait",
                      Supervisor(at'[v]) \in alive',
                      NEW b \in Attempt, NEW q \in seen'[b]
               PROVE  q[1] # at'[v]
    BY DEF Unseen, Supervisor
  <2>1. /\ pc[v] = "wait" /\ at'[v] = at[v]
        /\ Supervisor(at[v]) \in alive
    BY DEF Types, Supervisor
  <2>2. q \in seen[b]
    BY DEF Types
  <2> QED
    BY <2>1, <2>2 DEF Unseen
<1> QED
  BY <1>1, <1>2, <1>3, <1>4, <1>5, <1>6, <1>7, <1>8, <1>9

LEMMA CleanupKeeps ==
    ASSUME IInv, NEW a \in Attempt, Cleanup(a)
    PROVE  IInv'
<1> USE DEF IInv, Cleanup, Kin, fani, given, batch, processes, sweeping
<1>1. Types'
  BY DEF Types, Result, Label, Task, Attempt, Process, Worker, Nobody
<1>2. Turns'
  BY DEF Turns, Busy, Types, Nobody, Worker
<1>3. Shares'
  BY DEF Shares, Active, Types
<1>4. History'
  <2> SUFFICES ASSUME NEW c \in Attempt, Used(c)' PROVE Begun(c)'
    BY DEF History
  <2>1. Used(c)
    BY DEF Used, Types, Process
  <2>2. Begun(c)
    BY <2>1 DEF History
  <2> QED
    BY <2>2 DEF Begun, Active
<1>5. Whole'
  <2>1. \A c \in Attempt : Supervisor(c) \in alive => Supervisor(c) \in alive'
    BY DEF Supervisor
  <2> QED
    BY <2>1 DEF Whole, Types
<1>6. Ended'
  BY DEF Ended, Whole, Shares, Active, Types
<1>7. AnswerIsFinal'
  BY DEF AnswerIsFinal, Ended, Whole, History, Used, Begun, Types
<1>8. Kept'
  BY DEF Kept, Shares, Active, Types
<1>9. Unseen'
  <2> SUFFICES ASSUME NEW v \in Worker, pc'[v] = "wait",
                      Supervisor(at'[v]) \in alive',
                      NEW b \in Attempt, NEW q \in seen'[b]
               PROVE  q[1] # at'[v]
    BY DEF Unseen, Supervisor
  <2>1. /\ pc[v] = "wait" /\ at'[v] = at[v]
        /\ Supervisor(at[v]) \in alive
    BY DEF Types, Supervisor
  <2>2. q \in seen[b]
    BY DEF Types
  <2> QED
    BY <2>1, <2>2 DEF Unseen
<1> QED
  BY <1>1, <1>2, <1>3, <1>4, <1>5, <1>6, <1>7, <1>8, <1>9

LEMMA SupervisorEndsKeeps ==
    ASSUME IInv, NEW a \in Attempt, SupervisorEnds(a)
    PROVE  IInv'
<1> USE DEF IInv, SupervisorEnds, fani, AllGone, Kin, Supervisor, given,
        batch, processes, sweeping
<1>1. Types'
  BY DEF Types, Result, Label, Task, Attempt, Process, Worker, Nobody
<1>2. Turns'
  BY DEF Turns, Busy, Types, Nobody, Worker
<1>3. Shares'
  BY DEF Shares, Active, Types
<1>4. History'
  <2> SUFFICES ASSUME NEW c \in Attempt, Used(c)' PROVE Begun(c)'
    BY DEF History
  <2>1. Used(c)
    BY DEF Used, Types, Process
  <2>2. Begun(c)
    BY <2>1 DEF History
  <2> QED
    BY <2>2 DEF Begun, Active
<1>5. Whole'
  BY DEF Whole, Types
<1>6. Ended'
  BY DEF Ended, Whole, Shares, Active, Types
<1>7. AnswerIsFinal'
  BY DEF AnswerIsFinal, Ended, Whole, History, Used, Begun, Types
<1>8. Kept'
  BY DEF Kept, Shares, Active, Types
<1>9. Unseen'
  <2> SUFFICES ASSUME NEW v \in Worker, pc'[v] = "wait",
                      Supervisor(at'[v]) \in alive',
                      NEW b \in Attempt, NEW q \in seen'[b]
               PROVE  q[1] # at'[v]
    BY DEF Unseen, Supervisor
  <2>1. /\ pc[v] = "wait" /\ at'[v] = at[v]
        /\ Supervisor(at[v]) \in alive
    BY DEF Types, Supervisor
  <2>2. q \in seen[b]
    BY DEF Types
  <2> QED
    BY <2>1, <2>2 DEF Unseen
<1> QED
  BY <1>1, <1>2, <1>3, <1>4, <1>5, <1>6, <1>7, <1>8, <1>9

LEMMA DiesKeeps ==
    ASSUME IInv, NEW p \in Process, Dies(p)
    PROVE  IInv'
<1> USE DEF IInv, Dies, fani, Supervisor, given, batch, processes, sweeping
<1>1. Types'
  <2>1. p[1] \in Attempt
    BY ProcessParts
  <2> QED
    BY <2>1 DEF Types
<1>2. Turns'
  BY DEF Turns, Busy, Types, Nobody, Worker
<1>3. Shares'
  BY DEF Shares, Active, Types
<1>4. History'
  <2> SUFFICES ASSUME NEW c \in Attempt, Used(c)' PROVE Begun(c)'
    BY DEF History
  <2>1. Used(c)
    BY DEF Used, Types, Process
  <2>2. Begun(c)
    BY <2>1 DEF History
  <2> QED
    BY <2>2 DEF Begun, Active
<1>5. Whole'
  BY DEF Whole, Types
<1>6. Ended'
  BY DEF Ended, Whole, Shares, Active, Types
<1>7. AnswerIsFinal'
  BY DEF AnswerIsFinal, Ended, Whole, History, Used, Begun, Types
<1>8. Kept'
  BY DEF Kept, Shares, Active, Types
<1>9. Unseen'
  <2> SUFFICES ASSUME NEW v \in Worker, pc'[v] = "wait",
                      Supervisor(at'[v]) \in alive',
                      NEW b \in Attempt, NEW q \in seen'[b]
               PROVE  q[1] # at'[v]
    BY DEF Unseen, Supervisor
  <2>1. /\ pc[v] = "wait" /\ at'[v] = at[v]
        /\ Supervisor(at[v]) \in alive
    BY DEF Types, Supervisor
  <2>2. q \in seen[b]
    BY DEF Types
  <2> QED
    BY <2>1, <2>2 DEF Unseen
<1> QED
  BY <1>1, <1>2, <1>3, <1>4, <1>5, <1>6, <1>7, <1>8, <1>9

LEMMA EndsKeeps ==
    ASSUME IInv, NEW p \in Process, Ends(p)
    PROVE  IInv'
<1> USE DEF IInv, Ends, fani, Supervisor, given, batch, processes, sweeping
<1>1. Types'
  BY DEF Types, Result, Label, Task, Attempt, Process, Worker, Nobody
<1>2. Turns'
  BY DEF Turns, Busy, Types, Nobody, Worker
<1>3. Shares'
  BY DEF Shares, Active, Types
<1>4. History'
  <2> SUFFICES ASSUME NEW c \in Attempt, Used(c)' PROVE Begun(c)'
    BY DEF History
  <2>1. Used(c)
    BY DEF Used, Types, Process
  <2>2. Begun(c)
    BY <2>1 DEF History
  <2> QED
    BY <2>2 DEF Begun, Active
<1>5. Whole'
  BY DEF Whole, Types
<1>6. Ended'
  BY DEF Ended, Whole, Shares, Active, Types
<1>7. AnswerIsFinal'
  BY DEF AnswerIsFinal, Ended, Whole, History, Used, Begun, Types
<1>8. Kept'
  BY DEF Kept, Shares, Active, Types
<1>9. Unseen'
  <2> SUFFICES ASSUME NEW v \in Worker, pc'[v] = "wait",
                      Supervisor(at'[v]) \in alive',
                      NEW b \in Attempt, NEW q \in seen'[b]
               PROVE  q[1] # at'[v]
    BY DEF Unseen, Supervisor
  <2>1. /\ pc[v] = "wait" /\ at'[v] = at[v]
        /\ Supervisor(at[v]) \in alive
    BY DEF Types, Supervisor
  <2>2. q \in seen[b]
    BY DEF Types
  <2> QED
    BY <2>1, <2>2 DEF Unseen
<1> QED
  BY <1>1, <1>2, <1>3, <1>4, <1>5, <1>6, <1>7, <1>8, <1>9

LEMMA ForksKeeps ==
    ASSUME IInv, NEW a \in Attempt, Forks(a)
    PROVE  IInv'
<1> USE DEF IInv, Forks, fani, Spend, Supervisor, given, batch, processes,
        sweeping
<1>1. Types'
  <2>1. budget' \in [{"tasks", "retries", "forks", "kills", "late"} -> Nat]
    BY DEF Types
  <2>2. budget'.tasks = budget.tasks /\ budget'.retries = budget.retries
    BY DEF Types
  <2>3. alive' \subseteq Process /\ doomed' \subseteq alive'
    BY DEF Types, Process
  <2> QED
    BY <2>1, <2>2, <2>3 DEF Types
<1>2. Turns'
  BY DEF Turns, Busy, Types, Nobody, Worker
<1>3. Shares'
  BY DEF Shares, Active, Types
<1>4. History'
  <2> SUFFICES ASSUME NEW c \in Attempt, Used(c)' PROVE Begun(c)'
    BY DEF History
  <2>1. Used(c)
    BY DEF Used, Types, Process
  <2>2. Begun(c)
    BY <2>1 DEF History
  <2> QED
    BY <2>2 DEF Begun, Active
<1>5. Whole'
  BY DEF Whole, Types
<1>6. Ended'
  BY DEF Ended, Whole, Shares, Active, Types
<1>7. AnswerIsFinal'
  <2> SUFFICES ASSUME NEW i \in DOMAIN output, NEW p \in alive',
                      output[i].ok, adapter = "command"
               PROVE  p[1] # <<output[i].task, output[i].attempts>>
    BY DEF AnswerIsFinal
  <2>1. \E q \in alive : p[1] = q[1]
    OBVIOUS
  <2> QED
    BY <2>1 DEF AnswerIsFinal
<1>8. Kept'
  BY DEF Kept, Shares, Active, Types
<1>9. Unseen'
  <2> SUFFICES ASSUME NEW v \in Worker, pc'[v] = "wait",
                      Supervisor(at'[v]) \in alive',
                      NEW b \in Attempt, NEW q \in seen'[b]
               PROVE  q[1] # at'[v]
    BY DEF Unseen, Supervisor
  <2>1. /\ pc[v] = "wait" /\ at'[v] = at[v]
        /\ Supervisor(at[v]) \in alive
    BY DEF Types, Supervisor
  <2>2. q \in seen[b]
    BY DEF Types
  <2> QED
    BY <2>1, <2>2 DEF Unseen
<1> QED
  BY <1>1, <1>2, <1>3, <1>4, <1>5, <1>6, <1>7, <1>8, <1>9

LEMMA KilledKeeps ==
    ASSUME IInv, NEW a \in Attempt, Killed(a)
    PROVE  IInv'
<1> USE DEF IInv, Killed, fani, Spend, Supervisor, given, batch, processes,
        sweeping
<1>1. Types'
  <2>1. budget' \in [{"tasks", "retries", "forks", "kills", "late"} -> Nat]
    BY DEF Types
  <2>2. budget'.tasks = budget.tasks /\ budget'.retries = budget.retries
    BY DEF Types
  <2>3. alive' \subseteq Process /\ doomed' \subseteq alive'
    BY DEF Types, Process
  <2> QED
    BY <2>1, <2>2, <2>3 DEF Types
<1>2. Turns'
  BY DEF Turns, Busy, Types, Nobody, Worker
<1>3. Shares'
  BY DEF Shares, Active, Types
<1>4. History'
  <2> SUFFICES ASSUME NEW c \in Attempt, Used(c)' PROVE Begun(c)'
    BY DEF History
  <2>1. Used(c)
    BY DEF Used, Types, Process
  <2>2. Begun(c)
    BY <2>1 DEF History
  <2> QED
    BY <2>2 DEF Begun, Active
<1>5. Whole'
  BY DEF Whole, Types
<1>6. Ended'
  BY DEF Ended, Whole, Shares, Active, Types
<1>7. AnswerIsFinal'
  BY DEF AnswerIsFinal, Ended, Whole, History, Used, Begun, Types
<1>8. Kept'
  BY DEF Kept, Shares, Active, Types
<1>9. Unseen'
  <2> SUFFICES ASSUME NEW v \in Worker, pc'[v] = "wait",
                      Supervisor(at'[v]) \in alive',
                      NEW b \in Attempt, NEW q \in seen'[b]
               PROVE  q[1] # at'[v]
    BY DEF Unseen, Supervisor
  <2>1. /\ pc[v] = "wait" /\ at'[v] = at[v]
        /\ Supervisor(at[v]) \in alive
    BY DEF Types, Supervisor
  <2>2. q \in seen[b]
    BY DEF Types
  <2> QED
    BY <2>1, <2>2 DEF Unseen
<1> QED
  BY <1>1, <1>2, <1>3, <1>4, <1>5, <1>6, <1>7, <1>8, <1>9

-----------------------------------------------------------------------------
(* The invariant, and what follows from it.                                *)

LEMMA InitHolds == Init => IInv
<1> SUFFICES ASSUME Init PROVE IInv
  OBVIOUS
<1> USE DEF Init
<1>1. Types
  <2>1. <<1, 1>> \in Attempt
    BY AgentsAssumption DEF Attempt, Task
  <2>2. pc \in [Worker -> Label]
    BY DEF Label
  <2>3. budget \in [{"tasks", "retries", "forks", "kills", "late"} -> Nat]
    BY AgentsAssumption
  <2>4. budget.tasks \in 1..Tasks /\ budget.retries \in 0..Retries
    BY AgentsAssumption
  <2> QED
    BY <2>1, <2>2, <2>3, <2>4, AgentsAssumption DEF Types
<1>2. Turns
  BY AgentsAssumption DEF Turns, Busy, Worker, Nobody
<1>3. Shares /\ Ended /\ Kept /\ Unseen
  BY DEF Shares, Active, Ended, Kept, Unseen
<1>4. History
  BY DEF History, Used
<1>5. Whole /\ AnswerIsFinal
  BY DEF Whole, AnswerIsFinal
<1> QED
  BY <1>1, <1>2, <1>3, <1>4, <1>5 DEF IInv

LEMMA Stutter == IInv /\ UNCHANGED vars => IInv'
BY DEF IInv, vars, given, batch, processes, sweeping, Types, Turns, Shares,
       Active, History, Used, Begun, Whole, Ended, AnswerIsFinal, Kept, Unseen,
       Supervisor

LEMMA Inductive == IInv /\ [Next]_vars => IInv'
<1> SUFFICES ASSUME IInv, [Next]_vars PROVE IInv'
  OBVIOUS
<1>1. ASSUME NEW w \in Worker, Work(w) \/ Trouble(w) PROVE IInv'
  BY <1>1, FetchKeeps, LockKeeps, AnswerKeeps, AttemptFailedKeeps, PostKeeps,
     PostRefusedKeeps, StartKeeps, StartFailsKeeps, ExitedKeeps, TimeoutKeeps,
     StopKeeps, DrainedKeeps, ReaderFailsKeeps, SweptKeeps DEF Work, Trouble
<1>2. ASSUME NEW a \in Attempt, Sweep(a) \/ Reaper(a) PROVE IInv'
  BY <1>2, DiscoverKeeps, SignalKeeps, AgainKeeps, ReapSupervisorKeeps,
     ReapTokensKeeps, ReaperEndsKeeps DEF Sweep, Reaper
<1>3. ASSUME NEW a \in Attempt,
             Cleanup(a) \/ SupervisorEnds(a) \/ Forks(a) \/ Killed(a)
      PROVE  IInv'
  BY <1>3, CleanupKeeps, SupervisorEndsKeeps, ForksKeeps, KilledKeeps
<1>4. ASSUME NEW p \in Process, Dies(p) \/ Ends(p) PROVE IInv'
  BY <1>4, DiesKeeps, EndsKeeps
<1>5. CASE UNCHANGED vars
  BY <1>5, Stutter
<1> QED
  BY <1>1, <1>2, <1>3, <1>4, <1>5
     DEF Next, Workers, Sweeps, Reapers, Supervisors, Deaths, Others, Rest

LEMMA Always == Spec => []IInv
BY InitHolds, Inductive, PTL DEF Spec

(* Every reachable state has the declared types: no attempt after the last *)
(* one, no result but one of a task and an attempt, no process killed that *)
(* is not there.                                                           *)
THEOREM TypeCorrect == Spec => []TypeOK
<1>1. IInv => TypeOK
  BY DEF IInv, Types, TypeOK
<1> QED
  BY <1>1, Always, PTL

(* Whatever concurrency is configured, two attempts never run at a time.   *)
THEOREM OneAtATime == Spec => []OneAgentAtATime
<1>1. IInv => OneAgentAtATime
  BY DEF IInv, Turns, Busy, OneAgentAtATime
<1> QED
  BY <1>1, Always, PTL

(* For any number of tasks, workers and attempts, and however processes    *)
(* fork, hang, end and are killed: an answer that was taken has no process *)
(* left behind it.                                                         *)
THEOREM AnswersAreFinal == Spec => []AnswerIsFinal
<1>1. IInv => AnswerIsFinal
  BY DEF IInv
<1> QED
  BY <1>1, Always, PTL

(* No sweep, a worker's or a reaper's, sends SIGKILL into an attempt that  *)
(* is under way.                                                           *)
THEOREM Spared == Spec => OthersAreSpared
<1>1. IInv => \A w \in Worker :
        pc[w] = "wait" /\ Supervisor(at[w]) \in alive =>
            \A a \in Attempt : Signal(a) =>
                \A p \in doomed' \ doomed : p[1] # at[w]
  BY DEF IInv, Unseen, Signal
<1> QED
  BY <1>1, Always, PTL DEF OthersAreSpared
=============================================================================
