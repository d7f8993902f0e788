------------------------------- MODULE Agents -------------------------------
(***************************************************************************)
(* A batch of tasks and the agents that answer them: the worker threads of *)
(* execute, the attempts of a task, and the processes of an attempt from   *)
(* their start to the last one's end.                                      *)
(*                                                                         *)
(* fani starts a command under a supervisor, a process of its own program  *)
(* that is a subreaper: what the command leaves behind becomes its child,  *)
(* and it ends only after all of them.  When a supervisor is killed, its   *)
(* descendants become children of fani, which is a subreaper as well.      *)
(* fani itself sweeps after every attempt: processes that carry the        *)
(* attempt's token in their environment, and children that are not the     *)
(* supervisor of an attempt under way.  Where processes outlive a          *)
(* deadline a background thread, the reaper, goes on with it.              *)
(*                                                                         *)
(* Two kinds of descendants stand for all: "child" keeps the token and     *)
(* closes its pipes, "stray" drops the token and keeps the pipes open.     *)
(* Forks end with the supervisor's life.  Process ids are not used again.  *)
(* Process lists are read, and Unix calls made, in one step.               *)
(*                                                                         *)
(* Sources: adapters/agent.rs and adapters/process.rs, under src/src.      *)
(***************************************************************************)
EXTENDS Naturals, Sequences, FiniteSets

CONSTANTS
    Tasks,       \* most tasks in a batch
    Concurrency, \* concurrency
    Retries,     \* most retries
    Bounds       \* tasks of the batch and retries; and bounds: forks,
                 \* descendants of commands; kills, supervisors that somebody
                 \* kills; late, attempts that time out

ASSUME AgentsAssumption ==
    /\ {Tasks, Concurrency} \subseteq Nat \ {0}
    /\ Retries \in Nat
    /\ Bounds \subseteq
         {b \in [{"tasks", "retries", "forks", "kills", "late"} -> Nat] :
            b.tasks \in 1..Tasks /\ b.retries \in 0..Retries}

Task == 1..Tasks
Worker == 1..(IF Concurrency <= Tasks THEN Concurrency ELSE Tasks)
Nobody == 0
Attempt == Task \X (1..(Retries + 1))
Process == Attempt \X {"supervisor", "agent", "child", "stray"}

VARIABLES
    adapter,    \* commands, or providers that are called over HTTP
    next,       \* tasks handed out
    lock,       \* the worker that holds the mutex of output
    output,     \* results, in the order in which they came
    pc,         \* where each worker is
    at,         \* the attempt of each worker
    alive,      \* processes
    doomed,     \* processes that have been sent SIGKILL
    stopping,   \* attempts whose supervisor has been sent SIGTERM
    zombies,    \* attempts whose supervisor has ended and is not waited for
    protected,  \* ACTIVE_SUPERVISORS, by attempt
    good,       \* attempts whose command left a valid answer in time
    stage,      \* where the thread that sweeps after an attempt is
    seen,       \* the processes that this thread has found
    reapers,    \* attempts that have a background thread
    budget      \* what is left of the bounds; tasks and retries stay

given == <<adapter, budget>>
batch == <<next, lock, output>>
processes == <<alive, doomed, stopping, zombies>>
sweeping == <<stage, seen, reapers>>
vars == <<given, batch, pc, at, processes, protected, good, sweeping>>

-----------------------------------------------------------------------------
(* Processes.                                                              *)

Supervisor(a) == <<a, "supervisor">>
Kin(a) == {p \in alive : p[1] = a /\ p # Supervisor(a)}

\* token_processes: the root is left out.
Tokens(a) == {p \in Kin(a) : p[2] \in {"agent", "child"}}

\* What keeps the pipes of standard output and error open.
Pipes(a) == {p \in Kin(a) : p[2] \in {"agent", "stray"}}

\* Children of fani that are no protected supervisor, and their descendants.
Orphans == {p \in alive : \/ p[1] \notin protected
                          \/ /\ p # Supervisor(p[1])
                             /\ Supervisor(p[1]) \notin alive}

IsProtected(p) == p = Supervisor(p[1]) /\ p[1] \in protected

Init ==
    /\ adapter \in {"command", "native"}
    /\ next = 0
    /\ lock = Nobody
    /\ output = <<>>
    /\ budget \in Bounds
    /\ pc = [w \in Worker |-> IF w <= budget.tasks THEN "fetch" ELSE "done"]
    /\ at = [w \in Worker |-> <<1, 1>>]
    /\ alive = {} /\ doomed = {} /\ stopping = {} /\ zombies = {}
    /\ protected = {}
    /\ good = {}
    /\ stage = [a \in Attempt |-> "none"]
    /\ seen = [a \in Attempt |-> {}]
    /\ reapers = {}

Spend(what) == budget[what] > 0 /\ budget' = [budget EXCEPT ![what] = @ - 1]

Goto(w, l) == pc' = [pc EXCEPT ![w] = l]

-----------------------------------------------------------------------------
(* A worker: take a task, take the lock, make attempts, hand in a result.  *)

Fetch(w) ==
    /\ pc[w] = "fetch"
    /\ IF next < budget.tasks
       THEN next' = next + 1 /\ at' = [at EXCEPT ![w] = <<next + 1, 1>>]
                             /\ Goto(w, "lock")
       ELSE Goto(w, "done") /\ UNCHANGED <<next, at>>
    /\ UNCHANGED <<given, lock, output, processes, protected, good, sweeping>>

\* Mutated form: the lock is taken when the result is there.
FreeAnyway == TRUE

Free == lock = Nobody

\* The argument of push is evaluated under the lock, attempts and all.
Lock(w) ==
    /\ pc[w] = "lock"
    /\ Free
    /\ lock' = w
    /\ Goto(w, "start")
    /\ UNCHANGED <<given, next, output, at, processes, protected, good,
                   sweeping>>

HandIn(w, ok) ==
    /\ output' = Append(output, [task |-> at[w][1], attempts |-> at[w][2],
                                 ok |-> ok])
    /\ lock' = Nobody
    /\ Goto(w, "fetch")

Answer(w) ==
    /\ pc[w] = "answer"
    /\ HandIn(w, TRUE)
    /\ UNCHANGED <<given, next, at, processes, protected, good, sweeping>>

\* Mutated form: one retry too many.
MoreOnceMore(n) == n <= budget.retries + 1

More(n) == n <= budget.retries

\* Mutated form: the lock is let go between the attempts of a task.
AttemptFailedYields(w) ==
    /\ pc[w] = "failed"
    /\ lock' = Nobody
    /\ \/ /\ More(at[w][2])
          /\ at' = [at EXCEPT ![w] = <<@[1], @[2] + 1>>]
          /\ Goto(w, "lock")
          /\ UNCHANGED output
       \/ /\ ~More(at[w][2])
          /\ HandIn(w, FALSE)
          /\ UNCHANGED at
    /\ UNCHANGED <<given, next, processes, protected, good, sweeping>>

AttemptFailed(w) ==
    /\ pc[w] = "failed"
    /\ \/ /\ More(at[w][2])
          /\ at' = [at EXCEPT ![w] = <<@[1], @[2] + 1>>]
          /\ Goto(w, "start")
          /\ UNCHANGED <<lock, output>>
       \/ /\ ~More(at[w][2])
          /\ HandIn(w, FALSE)
          /\ UNCHANGED at
    /\ UNCHANGED <<given, next, processes, protected, good, sweeping>>

-----------------------------------------------------------------------------
(* An attempt over HTTP.                                                   *)

\* The answer, or a failure that may pass: 408, 429, 5xx, transport.
Post(w) ==
    /\ pc[w] = "start" /\ adapter = "native"
    /\ pc' \in {[pc EXCEPT ![w] = l] : l \in {"answer", "failed"}}
    /\ UNCHANGED <<given, batch, at, processes, protected, good, sweeping>>

\* A permanent failure is not tried again.
PostRefused(w) ==
    /\ pc[w] = "start" /\ adapter = "native"
    /\ HandIn(w, FALSE)
    /\ UNCHANGED <<given, next, at, processes, protected, good, sweeping>>

-----------------------------------------------------------------------------
(* An attempt by a command.                                                *)

\* Mutated form: registered by somebody else, some time later.
StartUnregistered(w) ==
    /\ pc[w] = "start" /\ adapter = "command"
    /\ alive' = alive \cup {Supervisor(at[w]), <<at[w], "agent">>}
    /\ Goto(w, "wait")
    /\ UNCHANGED <<given, batch, at, doomed, stopping, zombies, protected,
                   good, sweeping>>

\* spawn_tracked: the supervisor is registered before the spawn lock is let
\* go, which the search for orphans takes as well.
Start(w) ==
    /\ pc[w] = "start" /\ adapter = "command"
    /\ alive' = alive \cup {Supervisor(at[w]), <<at[w], "agent">>}
    /\ protected' = protected \cup {at[w]}
    /\ Goto(w, "wait")
    /\ UNCHANGED <<given, batch, at, doomed, stopping, zombies, good,
                   sweeping>>

\* The request is too long, or there is no sandbox or no process.
StartFails(w) ==
    /\ pc[w] = "start" /\ adapter = "command"
    /\ Goto(w, "failed")
    /\ UNCHANGED <<given, batch, at, processes, protected, good, sweeping>>

\* The supervisor is waited for.
Exited(w) ==
    /\ pc[w] = "wait"
    /\ at[w] \in zombies
    /\ zombies' = zombies \ {at[w]}
    /\ Goto(w, "drain")
    /\ UNCHANGED <<given, batch, at, alive, doomed, stopping, protected, good,
                   sweeping>>

\* Mutated form: the output is read to its end, however long it takes.
TimeoutOfWait(w) ==
    /\ pc[w] = "wait"
    /\ good' = good \ {at[w]}
    /\ stopping' = IF Supervisor(at[w]) \in alive THEN stopping \cup {at[w]}
                                                  ELSE stopping
    /\ Spend("late")
    /\ Goto(w, "stop")
    /\ UNCHANGED <<adapter, batch, at, alive, doomed, zombies, protected,
                   sweeping>>

\* The deadline passes, before the supervisor ends or while the input is
\* written or the output read, or the input cannot be written:
\* terminate_process_group sends SIGTERM.
Timeout(w) ==
    /\ pc[w] \in {"wait", "drain"}
    /\ good' = good \ {at[w]}
    /\ stopping' = IF Supervisor(at[w]) \in alive THEN stopping \cup {at[w]}
                                                  ELSE stopping
    /\ Spend("late")
    /\ Goto(w, "stop")
    /\ UNCHANGED <<adapter, batch, at, alive, doomed, zombies, protected,
                   sweeping>>

Look(a) == stage' = [stage EXCEPT ![a] = "look"]

\* Mutated form: nobody waits for it any more.
HandNobody(w) == reapers

Hand(w) == reapers \cup {at[w]}

\* What carries the token is killed.  When the supervisor has ended fani
\* goes on to the orphans, else a reaper waits for it.
Stop(w) ==
    /\ pc[w] = "stop"
    /\ doomed' = doomed \cup Tokens(at[w])
    /\ \/ /\ Supervisor(at[w]) \notin alive
          /\ zombies' = zombies \ {at[w]}
          /\ protected' = protected \ {at[w]}
          /\ Look(at[w])
          /\ Goto(w, "sweep")
          /\ UNCHANGED reapers
       \/ /\ Supervisor(at[w]) \in alive
          /\ reapers' = Hand(w)
          /\ Goto(w, "failed")
          /\ UNCHANGED <<zombies, protected, stage>>
    /\ UNCHANGED <<given, batch, at, alive, stopping, good, seen>>

\* Both streams have come to their end: finish_process_group.
Drained(w) ==
    /\ pc[w] = "drain"
    /\ Pipes(at[w]) = {}
    /\ doomed' = doomed \cup Tokens(at[w])
    /\ protected' = protected \ {at[w]}
    /\ Look(at[w])
    /\ Goto(w, "sweep")
    /\ UNCHANGED <<given, batch, at, alive, stopping, zombies, good, seen,
                   reapers>>

\* A reader fails: the attempt is given up, and nothing is swept.
ReaderFails(w) ==
    /\ pc[w] = "drain"
    /\ good' = good \ {at[w]}
    /\ Goto(w, "failed")
    /\ UNCHANGED <<given, batch, at, processes, protected, sweeping>>

-----------------------------------------------------------------------------
(* cleanup_supervisor_orphans, by a worker or by a reaper.                 *)

Discover(a) ==
    /\ stage[a] = "look"
    /\ seen' = [seen EXCEPT ![a] = @ \cup Orphans]
    /\ stage' = [stage EXCEPT ![a] = "signal"]
    /\ UNCHANGED <<given, batch, pc, at, processes, protected, good, reapers>>

Signal(a) ==
    /\ stage[a] = "signal"
    /\ doomed' = doomed \cup {p \in seen[a] \cap alive : ~IsProtected(p)}
    /\ stage' = [stage EXCEPT ![a] = "check"]
    /\ UNCHANGED <<given, batch, pc, at, alive, stopping, zombies, protected,
                   good, seen, reapers>>

Left(a) == {p \in seen[a] \cap alive : ~IsProtected(p)}

\* The end of a round; the token's processes are looked for by reapers only.
Remaining(a) == Left(a) # {} \/ (a \in reapers /\ Tokens(a) # {})

Again(a) ==
    /\ stage[a] = "check"
    /\ Remaining(a)
    /\ seen' = [seen EXCEPT ![a] = Left(a) \cup Orphans]
    /\ stage' = [stage EXCEPT ![a] = "signal"]
    /\ doomed' = IF a \in reapers THEN doomed \cup Tokens(a) ELSE doomed
    /\ UNCHANGED <<given, batch, pc, at, alive, stopping, zombies, protected,
                   good, reapers>>

\* Nothing is left, or the deadline has passed and a reaper takes over.
Swept(w) ==
    /\ pc[w] = "sweep"
    /\ stage[at[w]] = "check"
    /\ reapers' = IF Remaining(at[w]) THEN reapers \cup {at[w]} ELSE reapers
    /\ stage' = [stage EXCEPT ![at[w]] = IF at[w] \in reapers' THEN "look"
                                                               ELSE "none"]
    /\ seen' = [seen EXCEPT ![at[w]] = IF at[w] \in reapers' THEN Left(at[w])
                                                             ELSE {}]
    /\ Goto(w, IF at[w] \in good THEN "answer" ELSE "failed")
    /\ UNCHANGED <<given, batch, at, processes, protected, good>>

\* The reaper waits for the supervisor it was given.
ReapSupervisor(a) ==
    /\ a \in reapers \cap zombies
    /\ zombies' = zombies \ {a}
    /\ protected' = protected \ {a}
    /\ doomed' = doomed \cup Tokens(a)
    /\ Look(a)
    /\ UNCHANGED <<given, batch, pc, at, alive, stopping, good, seen,
                   reapers>>

\* Until then it looks for the processes that carry the token.
ReapTokens(a) ==
    /\ a \in reapers /\ stage[a] = "none"
    /\ ~(Tokens(a) \subseteq doomed)
    /\ doomed' = doomed \cup Tokens(a)
    /\ UNCHANGED <<given, batch, pc, at, alive, stopping, zombies, protected,
                   good, sweeping>>

ReaperEnds(a) ==
    /\ a \in reapers
    /\ stage[a] = "check"
    /\ ~Remaining(a)
    /\ reapers' = reapers \ {a}
    /\ stage' = [stage EXCEPT ![a] = "none"]
    /\ seen' = [seen EXCEPT ![a] = {}]
    /\ UNCHANGED <<given, batch, pc, at, processes, protected, good>>

Sweep(a) == Discover(a) \/ Signal(a) \/ Again(a)

Reaper(a) == ReapSupervisor(a) \/ ReapTokens(a) \/ ReaperEnds(a)

Work(w) == Fetch(w) \/ Lock(w) \/ Answer(w) \/ AttemptFailed(w)
             \/ Post(w) \/ PostRefused(w) \/ Start(w)
             \/ Exited(w) \/ Timeout(w) \/ Stop(w) \/ Drained(w) \/ Swept(w)

Trouble(w) == StartFails(w) \/ ReaderFails(w)

-----------------------------------------------------------------------------
(* The other processes.                                                    *)

fani == <<adapter, batch, pc, at, protected, sweeping>>

\* The command has ended, or the supervisor has been told to.
Closing(a) == <<a, "agent">> \notin alive \/ a \in stopping

\* run_process_wrapper: its descendants are killed, and waited for.
Cleanup(a) ==
    /\ Supervisor(a) \in alive
    /\ Closing(a)
    /\ Kin(a) # {}
    /\ alive' = alive \ Kin(a)
    /\ doomed' = doomed \ Kin(a)
    /\ UNCHANGED <<fani, stopping, zombies, good, budget>>

\* Mutated form: it ends with its command.
NoneLeft(a) == <<a, "agent">> \notin alive

AllGone(a) == Kin(a) = {}

SupervisorEnds(a) ==
    /\ Supervisor(a) \in alive
    /\ Closing(a)
    /\ AllGone(a)
    /\ alive' = alive \ {Supervisor(a)}
    /\ doomed' = doomed \ {Supervisor(a)}
    /\ zombies' = zombies \cup {a}
    /\ stopping' = stopping \ {a}
    /\ UNCHANGED <<fani, good, budget>>

\* A process that was sent SIGKILL dies.
Dies(p) ==
    /\ p \in doomed
    /\ alive' = alive \ {p}
    /\ doomed' = doomed \ {p}
    /\ IF p = Supervisor(p[1])
       THEN /\ zombies' = zombies \cup {p[1]}
            /\ stopping' = stopping \ {p[1]}
            /\ good' = good \ {p[1]}
       ELSE UNCHANGED <<zombies, stopping, good>>
    /\ UNCHANGED <<fani, budget>>

\* The command ends, with a valid answer or without, or a descendant does.
Ends(p) ==
    /\ p \in alive \ doomed /\ p # Supervisor(p[1])
    /\ alive' = alive \ {p}
    /\ good' \in {good} \cup {good \cup {a \in {p[1]} :
            /\ p[2] = "agent" /\ Supervisor(a) \in alive \ doomed
            /\ \E w \in Worker : at[w] = a /\ pc[w] = "wait"}}
    /\ UNCHANGED <<fani, doomed, stopping, zombies, budget>>

\* The command starts a descendant, at the latest between fani's look at the
\* list of processes and the kill that follows.
Forks(a) ==
    /\ <<a, "agent">> \in alive
    /\ Supervisor(a) \in alive \ doomed
    /\ \E kind \in {"child", "stray"} :
        /\ <<a, kind>> \notin alive
        /\ alive' = alive \cup {<<a, kind>>}
    /\ Spend("forks")
    /\ UNCHANGED <<fani, doomed, stopping, zombies, good>>

\* Somebody kills the supervisor, or it fails.
Killed(a) ==
    /\ Supervisor(a) \in alive
    /\ alive' = alive \ {Supervisor(a)}
    /\ doomed' = doomed \ {Supervisor(a)}
    /\ zombies' = zombies \cup {a}
    /\ stopping' = stopping \ {a}
    /\ good' = good \ {a}
    /\ Spend("kills")
    /\ UNCHANGED fani

Workers == \E w \in Worker : Work(w)
Sweeps == \E a \in Attempt : Sweep(a)
Reapers == \E a \in Attempt : Reaper(a)
Supervisors == \E a \in Attempt : Cleanup(a) \/ SupervisorEnds(a)
Deaths == \E p \in Process : Dies(p)
Others == \/ \E w \in Worker : Trouble(w)
          \/ \E p \in Process : Ends(p)
          \/ \E a \in Attempt : Forks(a) \/ Killed(a)

\* Nothing more happens when the batch is answered and all have ended.
Rest == /\ \A w \in Worker : pc[w] = "done"
        /\ alive = {} /\ reapers = {}
        /\ UNCHANGED vars

Next == Workers \/ Sweeps \/ Reapers \/ Supervisors \/ Deaths \/ Others \/ Rest

Spec == Init /\ [][Next]_vars

\* An attempt that is none of the late ones ends by itself, and in time.
InTime == budget.late = 0 /\ \E p \in Process : Ends(p)

\* Threads and supervisors run on, and what was sent SIGKILL dies.  Commands
\* may do nothing for ever, except where the bound excludes it.
Fairness ==
    /\ WF_vars(Workers) /\ WF_vars(Sweeps) /\ WF_vars(Reapers)
    /\ WF_vars(Supervisors) /\ WF_vars(Deaths) /\ WF_vars(InTime)

FairSpec == Spec /\ Fairness

-----------------------------------------------------------------------------
(* Properties.                                                             *)

Result == [task : Task, attempts : 1..(Retries + 1), ok : BOOLEAN]

TypeOK ==
    /\ next \in 0..Tasks
    /\ lock \in Worker \cup {Nobody}
    /\ output \in Seq(Result)
    /\ at \in [Worker -> Attempt]
    /\ doomed \subseteq alive /\ alive \subseteq Process
    /\ stopping \cup zombies \cup protected \cup good \cup reapers
         \subseteq Attempt
    /\ seen \in [Attempt -> SUBSET Process]

\* However many workers there are: attempts are made one at a time, because
\* the mutex of the results is held over all attempts of a task.  This is what
\* the code does, not what the documents say of it: see ConcurrencyIsUsed.
OneAgentAtATime ==
    \A v, w \in Worker :
        {pc[v], pc[w]} \subseteq {"start", "wait", "drain", "stop", "sweep"}
            => v = w

\* What concurrency is raised for, after docs/best-practices.md: while an
\* agent works on one task, a worker that has taken another one can begin.
ConcurrencyIsUsed ==
    \A v, w \in Worker :
        pc[v] = "lock" /\ pc[w] \in {"wait", "drain", "stop", "sweep"} => Free

\* An answer is taken only from an attempt of which no process is left that
\* could still act on it, and whose supervisor ended by itself and in time.
AnswerIsFinal ==
    \A i \in DOMAIN output :
        output[i].ok /\ adapter = "command" =>
            \A p \in alive : p[1] # <<output[i].task, output[i].attempts>>

\* While an attempt is under way, no thread that sweeps after another one
\* kills its supervisor or what that supervises.
OthersAreSpared ==
    [][\A w \in Worker :
        pc[w] = "wait" /\ Supervisor(at[w]) \in alive =>
            \A a \in Attempt : Signal(a) =>
                \A p \in doomed' \ doomed : p[1] # at[w]]_vars

\* Seen from outside a batch is a loop over its tasks, however many workers
\* there are: attempts and results are those of the task whose turn it is.
\* Where the documents would have tasks overlap, see ConcurrencyIsUsed.
Outside == INSTANCE SerialBatch WITH
    tasks   <- budget.tasks,
    retries <- budget.retries,
    current <- IF lock = Nobody THEN <<0, 0>> ELSE at[lock]

SerialSpec == Outside!Spec

\* Whatever agents do, and do not do: the batch comes to an end, with one
\* result for every task.
EveryTaskAnswered ==
    <>[](/\ \A w \in Worker : pc[w] = "done"
         /\ Len(output) = budget.tasks
         /\ {output[i].task : i \in DOMAIN output} = 1..budget.tasks)

\* Attempts that were given up without a sweep.
Abandoned ==
    {a \in protected \ reapers :
        ~\E w \in Worker : at[w] = a /\ pc[w] \in {"wait", "drain", "stop"}}

\* In the end no process of an attempt is left, nor a supervisor that is not
\* waited for, unless the attempt was given up by a failed reader.
NothingLeft ==
    <>[](/\ \A p \in alive : p[1] \in Abandoned
         /\ zombies = {} /\ reapers = {})
=============================================================================
