----------------------------- MODULE ThreadPool ------------------------------
(***************************************************************************)
(* network::ThreadPool: a queue of tasks behind one mutex and one          *)
(* condition variable, a fixed number of workers, and stop(), which the    *)
(* owner calls and the destructor calls again.  A step is a critical       *)
(* section of the mutex, or a statement outside it.  A task is an          *)
(* identity; while it runs it may call submit() and stop() itself, and it  *)
(* may throw.                                                              *)
(***************************************************************************)
EXTENDS Naturals, Sequences, FiniteSets

CONSTANTS
  NWorkers,   \* thread_count of the constructor
  Clients,    \* threads outside the pool
  Tasks,      \* every task is submitted at most once: a bound
  NoTask,
  Throwing,   \* the tasks that throw
  Stoppers    \* the threads that call stop()

Workers == 1..NWorkers
Callers == Clients \cup Workers

ASSUME PoolAssumption ==
  /\ NWorkers \in Nat
  /\ Clients \cap Workers = {}
  /\ NoTask \notin Tasks
  /\ Throwing \subseteq Tasks
  /\ Stoppers \subseteq Callers

VARIABLES
  tasks,     \* tasks_
  stop,      \* stop_
  worker,    \* per worker: "check" before the critical section, "wait" in
             \* condition_.wait, "run" in task(), "exited"
  current,   \* per worker: the task it runs
  caller,    \* per caller: where it is in stop(), "idle" outside of it
  at,        \* per caller: the worker its join loop has come to
  joined,    \* workers whose thread is not joinable any more
  up,        \* std::terminate has not been called
  finished,  \* history: tasks that returned
  due        \* history: tasks submitted before stop_ was first set

vars == <<tasks, stop, worker, current, caller, at, joined, up, finished, due>>

Active == {current[w] : w \in Workers} \ {NoTask}
Queued == {tasks[i] : i \in DOMAIN tasks}
Sleeping == {w \in Workers : worker[w] = "wait"}
Checking == {w \in Workers : worker[w] = "check"}

Init ==
  /\ tasks = <<>> /\ stop = FALSE
  /\ worker = [w \in Workers |-> "check"]
  /\ current = [w \in Workers |-> NoTask]
  /\ caller = [x \in Callers |-> "idle"]
  /\ at = [x \in Callers |-> 1]
  /\ joined = {} /\ up = TRUE
  /\ finished = {} /\ due = {}

(* A thread executes code of its own: a client, or a worker inside a task. *)
Free(x) == up /\ caller[x] = "idle" /\ (x \in Workers => worker[x] = "run")

-----------------------------------------------------------------------------
(* Seeded fault: notify_one is forgotten. *)
SubmitSilently(x, k) ==
  /\ Free(x)
  /\ k \notin Queued \cup Active \cup finished
  /\ tasks' = Append(tasks, k)
  /\ UNCHANGED <<stop, worker, current, caller, at, joined, up, finished, due>>

(* submit: push and notify_one, which wakes one waiting worker if there is one.
   There is no test of stop_. *)
Submit(x, k) ==
  /\ Free(x)
  /\ k \notin Queued \cup Active \cup finished
  /\ tasks' = Append(tasks, k)
  /\ IF Sleeping = {}
     THEN UNCHANGED worker
     ELSE \E w \in Sleeping : worker' = [worker EXCEPT ![w] = "check"]
  /\ UNCHANGED <<stop, current, caller, at, joined, up, finished, due>>

(* condition_.wait may return without a notification. *)
SpuriousWake(w) ==
  /\ up /\ worker[w] = "wait"
  /\ worker' = [worker EXCEPT ![w] = "check"]
  /\ UNCHANGED <<tasks, stop, current, caller, at, joined, up, finished, due>>

(* Seeded faults: workers leave without draining the queue; the task is not
   popped. *)
ExitUndrained(w) ==
  /\ up /\ worker[w] = "check" /\ stop
  /\ worker' = [worker EXCEPT ![w] = "exited"]
  /\ UNCHANGED <<tasks, stop, current, caller, at, joined, up, finished, due>>
TakeWithoutPop(w) ==
  /\ up /\ worker[w] = "check" /\ tasks # <<>>
  /\ current' = [current EXCEPT ![w] = Head(tasks)]
  /\ worker' = [worker EXCEPT ![w] = "run"]
  /\ UNCHANGED <<tasks, stop, caller, at, joined, up, finished, due>>

(* The critical section of worker(): wait, leave, or take the front task. *)
Wait(w) ==
  /\ up /\ worker[w] = "check" /\ tasks = <<>> /\ ~stop
  /\ worker' = [worker EXCEPT ![w] = "wait"]
  /\ UNCHANGED <<tasks, stop, current, caller, at, joined, up, finished, due>>

Exit(w) ==
  /\ up /\ worker[w] = "check" /\ tasks = <<>> /\ stop
  /\ worker' = [worker EXCEPT ![w] = "exited"]
  /\ UNCHANGED <<tasks, stop, current, caller, at, joined, up, finished, due>>

Take(w) ==
  /\ up /\ worker[w] = "check" /\ tasks # <<>>
  /\ current' = [current EXCEPT ![w] = Head(tasks)]
  /\ tasks' = Tail(tasks)
  /\ worker' = [worker EXCEPT ![w] = "run"]
  /\ UNCHANGED <<stop, caller, at, joined, up, finished, due>>

(* task() returns, or throws out of worker(). *)
Return(w) ==
  /\ up /\ worker[w] = "run" /\ caller[w] = "idle" /\ current[w] \notin Throwing
  /\ finished' = finished \cup {current[w]}
  /\ current' = [current EXCEPT ![w] = NoTask]
  /\ worker' = [worker EXCEPT ![w] = "check"]
  /\ UNCHANGED <<tasks, stop, caller, at, joined, up, due>>

Terminate ==
  /\ up' = FALSE
  /\ UNCHANGED <<tasks, stop, worker, current, caller, at, joined, finished, due>>

Throw(w) ==
  /\ up /\ worker[w] = "run" /\ caller[w] = "idle" /\ current[w] \in Throwing
  /\ Terminate

-----------------------------------------------------------------------------
(* stop(): the flag under the mutex, then notify_all, then the join loop. *)
Stop(x) ==
  /\ Free(x) /\ x \in Stoppers
  /\ stop' = TRUE
  /\ due' = IF stop THEN due ELSE Queued \cup Active \cup finished
  /\ caller' = [caller EXCEPT ![x] = "notify"]
  /\ UNCHANGED <<tasks, worker, current, at, joined, up, finished>>

(* Seeded fault: notify_one instead of notify_all. *)
NotifyOne(x) ==
  /\ up /\ caller[x] = "notify"
  /\ IF Sleeping = {}
     THEN UNCHANGED worker
     ELSE \E w \in Sleeping : worker' = [worker EXCEPT ![w] = "check"]
  /\ caller' = [caller EXCEPT ![x] = "test"] /\ at' = [at EXCEPT ![x] = 1]
  /\ UNCHANGED <<tasks, stop, current, joined, up, finished, due>>

NotifyAll(x) ==
  /\ up /\ caller[x] = "notify"
  /\ worker' = [w \in Workers |-> IF worker[w] = "wait" THEN "check" ELSE worker[w]]
  /\ caller' = [caller EXCEPT ![x] = "test"] /\ at' = [at EXCEPT ![x] = 1]
  /\ UNCHANGED <<tasks, stop, current, joined, up, finished, due>>

(* joinable() of the next worker. *)
TestJoinable(x) ==
  /\ up /\ caller[x] = "test" /\ at[x] \in Workers
  /\ IF at[x] \in joined
     THEN at' = [at EXCEPT ![x] = @ + 1] /\ UNCHANGED caller
     ELSE caller' = [caller EXCEPT ![x] = "join"] /\ UNCHANGED at
  /\ UNCHANGED <<tasks, stop, worker, current, joined, up, finished, due>>

(* join() returns when the worker has left. *)
Join(x) ==
  /\ up /\ caller[x] = "join" /\ worker[at[x]] = "exited"
  /\ joined' = joined \cup {at[x]}
  /\ at' = [at EXCEPT ![x] = @ + 1]
  /\ caller' = [caller EXCEPT ![x] = "test"]
  /\ UNCHANGED <<tasks, stop, worker, current, up, finished, due>>

(* join() throws: of the calling thread itself, or of a thread that another
   caller of stop() joined after both had found it joinable. *)
JoinFails(x) ==
  /\ up /\ caller[x] = "join"
  /\ at[x] = x \/ at[x] \in joined
  /\ Terminate

StopReturn(x) ==
  /\ up /\ caller[x] = "test" /\ at[x] > NWorkers
  /\ caller' = [caller EXCEPT ![x] = "idle"]
  /\ UNCHANGED <<tasks, stop, worker, current, at, joined, up, finished, due>>

WorkerStep(w) == Wait(w) \/ Exit(w) \/ Take(w) \/ Return(w) \/ Throw(w)
StopStep(x) == NotifyAll(x) \/ TestJoinable(x) \/ Join(x) \/ JoinFails(x) \/ StopReturn(x)

Next ==
  \/ \E w \in Workers : WorkerStep(w) \/ SpuriousWake(w)
  \/ \E x \in Callers : Stop(x) \/ StopStep(x) \/ \E k \in Tasks : Submit(x, k)

Spec == Init /\ [][Next]_vars

(* Every thread that can take a step of the pool's code takes it; tasks return. *)
Fairness ==
  /\ \A w \in Workers : WF_vars(WorkerStep(w))
  /\ \A x \in Callers : WF_vars(StopStep(x))

FairSpec == Spec /\ Fairness

-----------------------------------------------------------------------------
(* Properties. *)

(* Every variable has its type; a worker in task() has one. *)
TypeOK ==
  /\ tasks \in Seq(Tasks) /\ stop \in BOOLEAN
  /\ worker \in [Workers -> {"check", "wait", "run", "exited"}]
  /\ current \in [Workers -> Tasks \cup {NoTask}]
  /\ \A w \in Workers : worker[w] = "run" <=> current[w] # NoTask
  /\ caller \in [Callers -> {"idle", "notify", "test", "join"}]
  /\ at \in [Callers -> 1..(NWorkers + 1)]
  /\ \A x \in Callers : caller[x] = "join" => at[x] \in Workers
  /\ joined \subseteq Workers /\ up \in BOOLEAN
  /\ finished \subseteq Tasks /\ due \subseteq Tasks

(* No wake-up is lost: while some worker sleeps, there is a woken worker for
   each queued task, and once stop_ is set some caller of stop() has still to
   notify (notify_one under the mutex, notify_all after it). *)
NobodySleepsOnWork ==
  up /\ Sleeping # {} =>
    /\ Len(tasks) <= Cardinality(Checking)
    /\ stop => \E x \in Callers : caller[x] = "notify"

(* stop() drains: when the workers have left, every task submitted before
   stop() has returned. *)
StopDrains ==
  NWorkers > 0 /\ (\A w \in Workers : worker[w] = "exited") => due \subseteq finished

(* stop() waits: a caller behind worker i in the join loop finds it gone, so the
   owner may free what the tasks use. *)
JoinedHaveLeft ==
  \A x \in Callers : caller[x] \in {"test", "join"} =>
    \A w \in Workers : w < at[x] => worker[w] = "exited"

(* What the owner of a pool relies on when stop() returns: nothing that was
   submitted before it is left, and no worker runs. *)
StopIsClean == TypeOK /\ StopDrains /\ JoinedHaveLeft

(* The pool implements the queue of WorkQueue. *)
Queue == INSTANCE WorkQueue WITH queue <- tasks, active <- Active
ImplementsQueue == Queue!Spec

(* A task submitted while the pool is not stopped runs to its end, whatever the
   other workers and a later stop() do. *)
EveryTaskRuns ==
  \A k \in Tasks : (k \in Queued /\ ~stop) ~> (k \in finished \/ ~up)

(* stop() returns to a caller outside the pool, a second time too. *)
StopReturns ==
  \A x \in Clients : (caller[x] = "notify") ~> (caller[x] = "idle" \/ ~up)

=============================================================================
