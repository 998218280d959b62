-------------------------- MODULE ThreadPoolProofs ---------------------------
(***************************************************************************)
(* Theorems about ThreadPool for any number of workers, clients and tasks. *)
(***************************************************************************)
EXTENDS ThreadPool, FiniteSetTheorems, TLAPS

(* The tasks of a queue after push and after pop. *)
LEMMA PushPop ==
  ASSUME NEW s \in Seq(Tasks)
  PROVE  /\ \A k \in Tasks : {Append(s, k)[i] : i \in DOMAIN Append(s, k)}
                               = {s[i] : i \in DOMAIN s} \cup {k}
         /\ s # <<>> => /\ Head(s) \in Tasks
                        /\ Tail(s) \in Seq(Tasks)
                        /\ Len(Tail(s)) = Len(s) - 1
                        /\ {s[i] : i \in DOMAIN s}
                             = {Tail(s)[i] : i \in DOMAIN Tail(s)} \cup {Head(s)}
<1>1. ASSUME NEW k \in Tasks
      PROVE  {Append(s, k)[i] : i \in DOMAIN Append(s, k)} = {s[i] : i \in DOMAIN s} \cup {k}
  <2>1. DOMAIN Append(s, k) = 1..(Len(s) + 1) /\ DOMAIN s = 1..Len(s)
    OBVIOUS
  <2>2. /\ Append(s, k)[Len(s) + 1] = k
        /\ \A i \in 1..Len(s) : Append(s, k)[i] = s[i]
    OBVIOUS
  <2>3. 1..(Len(s) + 1) = (1..Len(s)) \cup {Len(s) + 1}
    OBVIOUS
  <2>. QED  BY <2>1, <2>2, <2>3, ZenonT(30)
<1>2. ASSUME s # <<>>
      PROVE  /\ Head(s) \in Tasks
             /\ Tail(s) \in Seq(Tasks)
             /\ Len(Tail(s)) = Len(s) - 1
             /\ {s[i] : i \in DOMAIN s} = {Tail(s)[i] : i \in DOMAIN Tail(s)} \cup {Head(s)}
  <2>1. /\ Len(s) \in Nat \ {0} /\ Head(s) = s[1] /\ Head(s) \in Tasks
        /\ Tail(s) \in Seq(Tasks) /\ Len(Tail(s)) = Len(s) - 1
    BY <1>2
  <2>2. DOMAIN s = 1..Len(s) /\ DOMAIN Tail(s) = 1..(Len(s) - 1)
    BY <2>1
  <2>3. \A i \in 1..(Len(s) - 1) : Tail(s)[i] = s[i + 1]
    BY <2>1
  <2>4. {s[i] : i \in DOMAIN s} \subseteq {Tail(s)[i] : i \in DOMAIN Tail(s)} \cup {Head(s)}
    <3>1. ASSUME NEW i \in 1..Len(s), i # 1
          PROVE  \E j \in 1..(Len(s) - 1) : Tail(s)[j] = s[i]
      <4>1. \A n \in Nat \ {0} : i \in 1..n => i - 1 \in 1..(n - 1) /\ (i - 1) + 1 = i
        BY <3>1
      <4>2. i - 1 \in 1..(Len(s) - 1) /\ (i - 1) + 1 = i
        BY <2>1, <4>1, Zenon
      <4>. QED  BY <4>2, <2>3
    <3>2. \A i \in 1..Len(s) :
            s[i] = Head(s) \/ \E j \in 1..(Len(s) - 1) : Tail(s)[j] = s[i]
      BY <3>1, <2>1
    <3>. QED  BY <3>2, <2>2, Zenon
  <2>5. {Tail(s)[i] : i \in DOMAIN Tail(s)} \cup {Head(s)} \subseteq {s[i] : i \in DOMAIN s}
    <3>1. 1 \in DOMAIN s /\ \A i \in 1..(Len(s) - 1) : i + 1 \in DOMAIN s
      BY <2>1, <2>2
    <3>. QED  BY <3>1, <2>1, <2>2, <2>3
  <2>. QED  BY <2>1, <2>4, <2>5, Zenon
<1>. QED  BY <1>1, <1>2

-----------------------------------------------------------------------------
(* The type invariant. *)

LEMMA TypeStep == TypeOK /\ [Next]_vars => TypeOK'
<1>. SUFFICES ASSUME TypeOK, [Next]_vars PROVE TypeOK'
  OBVIOUS
<1>. USE PoolAssumption DEF TypeOK, Workers, Callers
<1>1. ASSUME NEW x \in Callers, NEW k \in Tasks, Submit(x, k) PROVE TypeOK'
  <2>1. tasks' \in Seq(Tasks)
    BY <1>1 DEF Submit
  <2>2. /\ worker' \in [Workers -> {"check", "wait", "run", "exited"}]
        /\ \A w \in Workers : worker'[w] = "run" <=> current'[w] # NoTask
    BY <1>1 DEF Submit, Sleeping
  <2>. QED  BY <1>1, <2>1, <2>2 DEF Submit
<1>2. ASSUME NEW w \in Workers, SpuriousWake(w) PROVE TypeOK'
  BY <1>2 DEF SpuriousWake
<1>3. ASSUME NEW w \in Workers, Wait(w) PROVE TypeOK'
  BY <1>3 DEF Wait
<1>4. ASSUME NEW w \in Workers, Exit(w) PROVE TypeOK'
  BY <1>4 DEF Exit
<1>5. ASSUME NEW w \in Workers, Take(w) PROVE TypeOK'
  <2>1. Head(tasks) \in Tasks /\ Tail(tasks) \in Seq(Tasks)
    BY <1>5, PushPop DEF Take
  <2>. QED  BY <1>5, <2>1 DEF Take
<1>6. ASSUME NEW w \in Workers, Return(w) PROVE TypeOK'
  BY <1>6 DEF Return
<1>7. ASSUME NEW w \in Workers, Throw(w) PROVE TypeOK'
  BY <1>7 DEF Throw, Terminate
<1>8. ASSUME NEW x \in Callers, Stop(x) PROVE TypeOK'
  <2>1. Queued \subseteq Tasks /\ Active \subseteq Tasks
    BY DEF Queued, Active
  <2>. QED  BY <1>8, <2>1 DEF Stop
<1>9. ASSUME NEW x \in Callers, NotifyAll(x) PROVE TypeOK'
  BY <1>9 DEF NotifyAll
<1>10. ASSUME NEW x \in Callers, TestJoinable(x) PROVE TypeOK'
  <2>1. at[x] \in 1..NWorkers /\ at[x] + 1 \in 1..(NWorkers + 1)
    BY <1>10 DEF TestJoinable
  <2>2. CASE at[x] \in joined
    <3>1. at' \in [Callers -> 1..(NWorkers + 1)]
      <4>1. at' = [at EXCEPT ![x] = at[x] + 1]
        BY <1>10, <2>2 DEF TestJoinable
      <4>. QED  BY <4>1, <2>1
    <3>2. \A y \in Callers : caller[y] = "join" => at'[y] = at[y]
      BY <1>10, <2>2 DEF TestJoinable
    <3>. QED  BY <1>10, <2>2, <3>1, <3>2 DEF TestJoinable
  <2>3. CASE at[x] \notin joined
    BY <1>10, <2>3 DEF TestJoinable
  <2>. QED  BY <2>2, <2>3
<1>11. ASSUME NEW x \in Callers, Join(x) PROVE TypeOK'
  <2>1. at[x] \in 1..NWorkers /\ at[x] + 1 \in 1..(NWorkers + 1)
    BY <1>11 DEF Join
  <2>2. /\ at' \in [Callers -> 1..(NWorkers + 1)]
        /\ \A y \in Callers : caller'[y] = "join" => at'[y] \in Workers
    BY <1>11, <2>1 DEF Join
  <2>3. caller' \in [Callers -> {"idle", "notify", "test", "join"}]
    BY <1>11 DEF Join
  <2>4. joined' \subseteq Workers
    BY <1>11, <2>1 DEF Join
  <2>. QED  BY <1>11, <2>2, <2>3, <2>4 DEF Join
<1>12. ASSUME NEW x \in Callers, JoinFails(x) PROVE TypeOK'
  BY <1>12 DEF JoinFails, Terminate
<1>13. ASSUME NEW x \in Callers, StopReturn(x) PROVE TypeOK'
  BY <1>13 DEF StopReturn
<1>14. CASE UNCHANGED vars
  BY <1>14 DEF vars
<1>. QED
  BY <1>1, <1>2, <1>3, <1>4, <1>5, <1>6, <1>7, <1>8, <1>9, <1>10, <1>11, <1>12, <1>13, <1>14
     DEF Next, WorkerStep, StopStep

(* Every variable keeps its type. *)
THEOREM PoolTypeCorrect == Spec => []TypeOK
<1>1. Init => TypeOK
  <2>. SUFFICES ASSUME Init PROVE TypeOK
    OBVIOUS
  <2>1. 1 \in 1..(NWorkers + 1)
    BY PoolAssumption
  <2>2. at \in [Callers -> 1..(NWorkers + 1)]
    BY <2>1 DEF Init
  <2>3. /\ caller \in [Callers -> {"idle", "notify", "test", "join"}]
        /\ \A x \in Callers : caller[x] # "join"
    BY DEF Init
  <2>4. /\ worker \in [Workers -> {"check", "wait", "run", "exited"}]
        /\ \A w \in Workers : worker[w] # "run" /\ current[w] = NoTask
        /\ current \in [Workers -> Tasks \cup {NoTask}]
    BY DEF Init
  <2>5. tasks \in Seq(Tasks) /\ joined \subseteq Workers /\ finished \subseteq Tasks
        /\ due \subseteq Tasks
    BY DEF Init
  <2>6. stop \in BOOLEAN /\ up \in BOOLEAN
    BY Zenon DEF Init
  <2>. QED  BY <2>2, <2>3, <2>4, <2>5, <2>6 DEF TypeOK
<1>. QED  BY <1>1, TypeStep, PTL DEF Spec

-----------------------------------------------------------------------------
(* A caller of stop() finds behind it only workers that have left: a joined
   worker has left, and none comes back. *)

JoinInv == JoinedHaveLeft /\ \A w \in joined : worker[w] = "exited"

LEMMA ExitedForGood ==
  ASSUME TypeOK, [Next]_vars, NEW w \in Workers, worker[w] = "exited"
  PROVE  worker'[w] = "exited"
<1>. USE DEF TypeOK
<1>1. ASSUME NEW x \in Callers, NEW k \in Tasks, Submit(x, k) PROVE worker'[w] = "exited"
  BY <1>1 DEF Submit, Sleeping
<1>2. ASSUME NEW v \in Workers, WorkerStep(v) \/ SpuriousWake(v) PROVE worker'[w] = "exited"
  BY <1>2 DEF WorkerStep, SpuriousWake, Wait, Exit, Take, Return, Throw, Terminate
<1>3. ASSUME NEW x \in Callers, Stop(x) \/ StopStep(x) PROVE worker'[w] = "exited"
  BY <1>3 DEF Stop, StopStep, NotifyAll, TestJoinable, Join, JoinFails, Terminate, StopReturn
<1>. QED  BY <1>1, <1>2, <1>3 DEF Next, vars

LEMMA JoinStep == TypeOK /\ JoinInv /\ [Next]_vars => JoinInv'
<1>. SUFFICES ASSUME TypeOK, JoinInv, [Next]_vars PROVE JoinInv'
  OBVIOUS
<1>. USE PoolAssumption DEF TypeOK, JoinInv, JoinedHaveLeft, Callers, Workers
<1>1. \A w \in Workers : worker[w] = "exited" => worker'[w] = "exited"
  BY ExitedForGood
<1>2. ASSUME NEW x \in Callers, NEW k \in Tasks, Submit(x, k) PROVE JoinInv'
  BY <1>1, <1>2 DEF Submit
<1>3. ASSUME NEW v \in Workers, WorkerStep(v) \/ SpuriousWake(v) PROVE JoinInv'
  BY <1>1, <1>3 DEF WorkerStep, SpuriousWake, Wait, Exit, Take, Return, Throw, Terminate
<1>4. ASSUME NEW x \in Callers, Stop(x) PROVE JoinInv'
  BY <1>1, <1>4 DEF Stop
<1>5. ASSUME NEW x \in Callers, NotifyAll(x) PROVE JoinInv'
  BY <1>1, <1>5 DEF NotifyAll
<1>6. ASSUME NEW x \in Callers, TestJoinable(x) PROVE JoinInv'
  <2>. SUFFICES ASSUME NEW y \in Callers, caller'[y] \in {"test", "join"},
                       NEW w \in Workers, w < at'[y]
                PROVE  worker[w] = "exited"
    BY <1>1, <1>6 DEF TestJoinable
  <2>1. CASE y = x /\ at[x] \in joined
    <3>1. w < at[x] \/ w = at[x]
      BY <1>6, <2>1 DEF TestJoinable
    <3>. QED  BY <3>1, <2>1, <1>6 DEF TestJoinable
  <2>2. CASE ~(y = x /\ at[x] \in joined)
    <3>1. at'[y] = at[y] /\ caller[y] \in {"test", "join"}
      BY <1>6, <2>2 DEF TestJoinable
    <3>. QED  BY <3>1
  <2>. QED  BY <2>1, <2>2
<1>7. ASSUME NEW x \in Callers, Join(x) PROVE JoinInv'
  BY <1>1, <1>7 DEF Join
<1>8. ASSUME NEW x \in Callers, JoinFails(x) \/ StopReturn(x) PROVE JoinInv'
  BY <1>1, <1>8 DEF JoinFails, Terminate, StopReturn
<1>9. CASE UNCHANGED vars
  BY <1>9 DEF vars
<1>. QED  BY <1>2, <1>3, <1>4, <1>5, <1>6, <1>7, <1>8, <1>9 DEF Next, StopStep

(* stop() waits: the workers a caller has passed in the join loop are gone. *)
THEOREM JoinedHaveLeftHolds == Spec => []JoinedHaveLeft
<1>1. Init => JoinInv
  BY DEF Init, JoinInv, JoinedHaveLeft
<1>2. JoinInv => JoinedHaveLeft
  BY DEF JoinInv
<1>. QED  BY <1>1, <1>2, JoinStep, PoolTypeCorrect, PTL DEF Spec

-----------------------------------------------------------------------------
(* No lost wake-up. *)

LEMMA WorkerSets ==
  ASSUME PoolAssumption, NEW S \in SUBSET Workers
  PROVE  /\ IsFiniteSet(S) /\ Cardinality(S) \in Nat
         /\ \A w \in Workers \ S : Cardinality(S \cup {w}) = Cardinality(S) + 1
         /\ \A w \in S : Cardinality(S \ {w}) = Cardinality(S) - 1
         /\ \A T \in SUBSET Workers : S \subseteq T => Cardinality(S) <= Cardinality(T)
<1>1. IsFiniteSet(Workers)
  BY FS_Interval DEF Workers, PoolAssumption
<1>2. \A T \in SUBSET Workers : IsFiniteSet(T) /\ Cardinality(T) \in Nat
  BY <1>1, FS_Subset, FS_CardinalityType
<1>. QED  BY <1>2, FS_AddElement, FS_RemoveElement, FS_Subset

LEMMA SleepStep == TypeOK /\ NobodySleepsOnWork /\ [Next]_vars => NobodySleepsOnWork'
<1>. SUFFICES ASSUME TypeOK, NobodySleepsOnWork, [Next]_vars,
                     up', Sleeping' # {}
              PROVE  /\ Len(tasks') <= Cardinality(Checking')
                     /\ stop' => \E x \in Callers : caller'[x] = "notify"
  BY DEF NobodySleepsOnWork
<1>. DEFINE Woken == Len(tasks') <= Cardinality(Checking')
            Notified == stop' => \E x \in Callers : caller'[x] = "notify"
<1>0. /\ Checking \in SUBSET Workers /\ Checking' \in SUBSET Workers
      /\ Len(tasks) \in Nat
  BY DEF Checking, TypeOK
<1>1. Checking \subseteq Checking' => Cardinality(Checking) <= Cardinality(Checking')
  BY <1>0, WorkerSets, PoolAssumption
<1>2. Cardinality(Checking) \in Nat /\ Cardinality(Checking') \in Nat
  BY <1>0, WorkerSets, PoolAssumption
<1>3. up /\ Sleeping # {} => /\ Len(tasks) <= Cardinality(Checking)
                             /\ stop => \E x \in Callers : caller[x] = "notify"
  BY DEF NobodySleepsOnWork
<1>4. ASSUME NEW x \in Callers, NEW k \in Tasks, Submit(x, k) PROVE Woken /\ Notified
  <2>1. Sleeping # {}
    BY <1>4 DEF Submit, Sleeping
  <2>2. PICK w \in Sleeping : worker' = [worker EXCEPT ![w] = "check"]
    BY <1>4, <2>1 DEF Submit
  <2>3. w \in Workers \ Checking /\ Checking' = Checking \cup {w}
    BY <2>2 DEF Sleeping, Checking, TypeOK
  <2>4. Cardinality(Checking') = Cardinality(Checking) + 1
    BY <1>0, <2>3, WorkerSets, PoolAssumption
  <2>5. Len(tasks') = Len(tasks) + 1
    BY <1>4 DEF Submit, TypeOK
  <2>6. up /\ caller' = caller /\ stop' = stop
    BY <1>4 DEF Submit, Free
  <2>. QED  BY <1>0, <1>2, <1>3, <2>1, <2>4, <2>5, <2>6
<1>5. ASSUME NEW w \in Workers, SpuriousWake(w) PROVE Woken /\ Notified
  <2>1. Sleeping # {} /\ Checking \subseteq Checking'
    BY <1>5 DEF SpuriousWake, Sleeping, Checking, TypeOK
  <2>2. up /\ tasks' = tasks /\ stop' = stop /\ caller' = caller
    BY <1>5 DEF SpuriousWake
  <2>. QED  BY <1>0, <1>1, <1>2, <1>3, <2>1, <2>2
<1>6. ASSUME NEW w \in Workers, Wait(w) PROVE Woken /\ Notified
  <2>1. Len(tasks') = 0 /\ ~stop'
    BY <1>6 DEF Wait
  <2>. QED  BY <1>2, <2>1
<1>7. ASSUME NEW w \in Workers, Exit(w) PROVE Woken /\ Notified
  <2>1. Len(tasks') = 0 /\ up /\ stop' = stop /\ caller' = caller
    BY <1>7 DEF Exit
  <2>2. Sleeping # {}
    BY <1>7 DEF Exit, Sleeping, TypeOK
  <2>. QED  BY <1>2, <1>3, <2>1, <2>2
<1>8. ASSUME NEW w \in Workers, Take(w) PROVE Woken /\ Notified
  <2>1. Sleeping # {} /\ up /\ stop' = stop /\ caller' = caller
    BY <1>8 DEF Take, Sleeping, TypeOK
  <2>2. w \in Checking /\ Checking' = Checking \ {w}
    BY <1>8 DEF Take, Checking, TypeOK
  <2>3. Cardinality(Checking') = Cardinality(Checking) - 1
    BY <1>0, <2>2, WorkerSets, PoolAssumption
  <2>4. Len(tasks') = Len(tasks) - 1
    BY <1>8, PushPop DEF Take, TypeOK
  <2>. QED  BY <1>0, <1>2, <1>3, <2>1, <2>3, <2>4
<1>9. ASSUME NEW w \in Workers, Return(w) PROVE Woken /\ Notified
  <2>1. Sleeping # {} /\ Checking \subseteq Checking'
    BY <1>9 DEF Return, Sleeping, Checking, TypeOK
  <2>2. up /\ tasks' = tasks /\ stop' = stop /\ caller' = caller
    BY <1>9 DEF Return
  <2>. QED  BY <1>0, <1>1, <1>2, <1>3, <2>1, <2>2
<1>10. ASSUME NEW x \in Callers, Stop(x) PROVE Woken /\ Notified
  <2>1. Sleeping # {} /\ Checking' = Checking /\ up /\ tasks' = tasks
    BY <1>10 DEF Stop, Free, Sleeping, Checking
  <2>2. caller'[x] = "notify"
    BY <1>10 DEF Stop, TypeOK
  <2>. QED  BY <1>0, <1>1, <1>2, <1>3, <2>1, <2>2
<1>11. ASSUME NEW x \in Callers, NotifyAll(x) PROVE Woken /\ Notified
  BY <1>11 DEF NotifyAll, Sleeping, TypeOK
<1>12. ASSUME NEW x \in Callers, TestJoinable(x) \/ Join(x) \/ StopReturn(x) PROVE Woken /\ Notified
  <2>1. Sleeping # {} /\ Checking' = Checking /\ up /\ tasks' = tasks /\ stop' = stop
    BY <1>12 DEF TestJoinable, Join, StopReturn, Sleeping, Checking
  <2>2. \A y \in Callers : caller[y] = "notify" => caller'[y] = "notify"
    BY <1>12 DEF TestJoinable, Join, StopReturn, TypeOK
  <2>. QED  BY <1>0, <1>1, <1>2, <1>3, <2>1, <2>2
<1>13. ASSUME NEW x \in Callers \cup Workers, Throw(x) \/ JoinFails(x) PROVE FALSE
  BY <1>13 DEF Throw, JoinFails, Terminate
<1>14. CASE UNCHANGED vars
  <2>1. Sleeping # {} /\ Checking' = Checking /\ up /\ tasks' = tasks /\ stop' = stop
        /\ caller' = caller
    BY <1>14 DEF vars, Sleeping, Checking
  <2>. QED  BY <1>0, <1>1, <1>2, <1>3, <2>1
<1>. QED
  BY <1>4, <1>5, <1>6, <1>7, <1>8, <1>9, <1>10, <1>11, <1>12, <1>13, <1>14
     DEF Next, WorkerStep, StopStep

(* A worker sleeps only while enough others are awake for the queued tasks, and
   with stop_ set only until the pending notify_all. *)
THEOREM NobodySleepsOnWorkHolds == Spec => []NobodySleepsOnWork
<1>1. Init => NobodySleepsOnWork
  BY DEF Init, NobodySleepsOnWork, Sleeping
<1>. QED  BY <1>1, SleepStep, PoolTypeCorrect, PTL DEF Spec

-----------------------------------------------------------------------------
(* stop() drains: a worker leaves only when none of the tasks due is queued,
   and a task submitted later is not due. *)

DueInv ==
  /\ due \subseteq Queued \cup Active \cup finished
  /\ ~stop => due = {}
  /\ \A w \in Workers : worker[w] = "exited" => stop /\ due \cap Queued = {}

LEMMA DueStep == TypeOK /\ DueInv /\ [Next]_vars => DueInv'
<1>. SUFFICES ASSUME TypeOK, DueInv, [Next]_vars PROVE DueInv'
  OBVIOUS
<1>. USE DEF TypeOK
<1>1. ASSUME NEW x \in Callers, NEW k \in Tasks, Submit(x, k) PROVE DueInv'
  <2>1. Queued' = Queued \cup {k}
    <3>1. tasks' = Append(tasks, k) /\ tasks \in Seq(Tasks)
      BY <1>1 DEF Submit
    <3>2. {Append(tasks, k)[i] : i \in DOMAIN Append(tasks, k)}
            = {tasks[i] : i \in DOMAIN tasks} \cup {k}
      BY <3>1, PushPop
    <3>. QED  BY <3>1, <3>2, Zenon DEF Queued
  <2>2. Active' = Active
    BY <1>1 DEF Submit, Active
  <2>3. k \notin due
    BY <1>1 DEF Submit, DueInv
  <2>4. \A w \in Workers : worker'[w] = "exited" => worker[w] = "exited"
    BY <1>1 DEF Submit, Sleeping
  <2>5. due' = due /\ stop' = stop /\ finished' = finished
    BY <1>1 DEF Submit
  <2>. QED  BY <2>1, <2>2, <2>3, <2>4, <2>5 DEF DueInv
<1>2. ASSUME NEW w \in Workers, Take(w) PROVE DueInv'
  <2>1. Queued = Queued' \cup {Head(tasks)} /\ Head(tasks) \in Tasks
    <3>1. tasks' = Tail(tasks) /\ tasks # <<>> /\ tasks \in Seq(Tasks)
      BY <1>2 DEF Take
    <3>2. /\ Head(tasks) \in Tasks
          /\ {tasks[i] : i \in DOMAIN tasks}
               = {Tail(tasks)[i] : i \in DOMAIN Tail(tasks)} \cup {Head(tasks)}
      BY <3>1, PushPop
    <3>. QED  BY <3>1, <3>2, Zenon DEF Queued
  <2>2. Active' = Active \cup {Head(tasks)}
    BY <1>2, <2>1, PoolAssumption DEF Take, Active
  <2>3. \A v \in Workers : worker'[v] = "exited" => worker[v] = "exited"
    BY <1>2 DEF Take
  <2>4. due' = due /\ stop' = stop /\ finished' = finished
    BY <1>2 DEF Take
  <2>. QED  BY <2>1, <2>2, <2>3, <2>4 DEF DueInv
<1>3. ASSUME NEW w \in Workers, Exit(w) PROVE DueInv'
  <2>1. Queued' = {} /\ Queued = {}
    BY <1>3 DEF Exit, Queued
  <2>. QED  BY <1>3, <2>1 DEF Exit, DueInv, Active
<1>4. ASSUME NEW w \in Workers, Return(w) PROVE DueInv'
  <2>1. Queued' = Queued /\ due' = due /\ stop' = stop
    BY <1>4 DEF Return, Queued
  <2>2. Active \subseteq Active' \cup {current[w]} /\ finished' = finished \cup {current[w]}
    BY <1>4 DEF Return, Active
  <2>3. \A v \in Workers : worker'[v] = "exited" => worker[v] = "exited"
    BY <1>4 DEF Return
  <2>. QED  BY <2>1, <2>2, <2>3 DEF DueInv
<1>5. ASSUME NEW x \in Callers, Stop(x) PROVE DueInv'
  BY <1>5 DEF Stop, DueInv, Queued, Active
<1>6. ASSUME NEW w \in Workers, Wait(w) \/ SpuriousWake(w) PROVE DueInv'
  BY <1>6 DEF Wait, SpuriousWake, DueInv, Queued, Active
<1>7. ASSUME NEW x \in Callers, NotifyAll(x) PROVE DueInv'
  BY <1>7 DEF NotifyAll, DueInv, Queued, Active
<1>8. ASSUME NEW x \in Callers, TestJoinable(x) \/ Join(x) \/ StopReturn(x) PROVE DueInv'
  BY <1>8 DEF TestJoinable, Join, StopReturn, DueInv, Queued, Active
<1>9. ASSUME NEW x \in Callers \cup Workers, Throw(x) \/ JoinFails(x) PROVE DueInv'
  BY <1>9 DEF Throw, JoinFails, Terminate, DueInv, Queued, Active
<1>10. CASE UNCHANGED vars
  BY <1>10 DEF vars, DueInv, Queued, Active
<1>. QED
  BY <1>1, <1>2, <1>3, <1>4, <1>5, <1>6, <1>7, <1>8, <1>9, <1>10 DEF Next, WorkerStep, StopStep

(* When the workers have left, what was submitted before stop() has returned. *)
THEOREM StopDrainsHolds == Spec => []StopDrains
<1>1. Init => DueInv
  BY DEF Init, DueInv
<1>2. TypeOK /\ DueInv => StopDrains
  <2>. SUFFICES ASSUME TypeOK, DueInv, NWorkers > 0, \A w \in Workers : worker[w] = "exited"
                PROVE  due \subseteq finished
    BY DEF StopDrains
  <2>1. 1 \in Workers
    BY PoolAssumption DEF Workers, PoolAssumption
  <2>2. due \cap Queued = {}
    BY <2>1 DEF DueInv
  <2>3. Active = {}
    BY DEF Active, TypeOK
  <2>. QED  BY <2>2, <2>3 DEF DueInv
<1>. QED  BY <1>1, <1>2, DueStep, PoolTypeCorrect, PTL DEF Spec

-----------------------------------------------------------------------------
(* The pool implements the queue: no task is in two places. *)

OnePlace ==
  /\ \A v, w \in Workers : v # w /\ current[v] = current[w] => current[v] = NoTask
  /\ \A i \in DOMAIN tasks, w \in Workers : tasks[i] # current[w]
  /\ \A i, j \in DOMAIN tasks : i # j => tasks[i] # tasks[j]

LEMMA OnePlaceStep == TypeOK /\ OnePlace /\ [Next]_vars => OnePlace'
<1>. SUFFICES ASSUME TypeOK, OnePlace, [Next]_vars PROVE OnePlace'
  OBVIOUS
<1>. USE PoolAssumption DEF TypeOK
<1>1. ASSUME NEW x \in Callers, NEW k \in Tasks, Submit(x, k) PROVE OnePlace'
  <2>1. /\ tasks' = Append(tasks, k) /\ current' = current
        /\ k \notin Queued \cup Active
    BY <1>1 DEF Submit
  <2>2. /\ DOMAIN tasks = 1..Len(tasks) /\ DOMAIN tasks' = 1..(Len(tasks) + 1)
        /\ Len(tasks) \in Nat /\ tasks'[Len(tasks) + 1] = k
        /\ \A i \in DOMAIN tasks : tasks'[i] = tasks[i]
    BY <2>1
  <2>3. \A i \in DOMAIN tasks' : i \in DOMAIN tasks \/ i = Len(tasks) + 1
    BY <2>2
  <2>4. (\A i \in DOMAIN tasks : tasks[i] # k) /\ \A w \in Workers : current[w] # k
    BY <2>1 DEF Queued, Active
  <2>. QED  BY <2>1, <2>2, <2>3, <2>4 DEF OnePlace
<1>2. ASSUME NEW w \in Workers, Take(w) PROVE OnePlace'
  <2>1. /\ tasks # <<>> /\ tasks' = Tail(tasks)
        /\ current' = [current EXCEPT ![w] = tasks[1]]
    BY <1>2 DEF Take
  <2>2. /\ DOMAIN tasks = 1..Len(tasks) /\ DOMAIN tasks' = 1..(Len(tasks) - 1)
        /\ Len(tasks) \in Nat \ {0}
        /\ \A i \in DOMAIN tasks' : tasks'[i] = tasks[i + 1]
    BY <2>1
  <2>3. 1 \in DOMAIN tasks /\ \A i \in DOMAIN tasks' : i + 1 \in DOMAIN tasks /\ i + 1 # 1
    BY <2>2
  <2>4. \A i, j \in DOMAIN tasks' : i # j => tasks'[i] # tasks'[j]
    <3>1. \A i, j \in DOMAIN tasks' : i # j => i + 1 # j + 1
      BY <2>2
    <3>. QED  BY <3>1, <2>2, <2>3 DEF OnePlace
  <2>5. \A i \in DOMAIN tasks' : tasks'[i] # tasks[1] /\ \A v \in Workers : tasks'[i] # current[v]
    BY <2>2, <2>3 DEF OnePlace
  <2>6. current'[w] = tasks[1] /\ \A v \in Workers \ {w} : current'[v] = current[v]
    BY <2>1
  <2>7. \A v \in Workers : current[v] # tasks[1]
    BY <2>3 DEF OnePlace
  <2>. QED  BY <2>4, <2>5, <2>6, <2>7 DEF OnePlace
<1>3. ASSUME NEW w \in Workers, Return(w) PROVE OnePlace'
  <2>1. \A i \in DOMAIN tasks : tasks[i] # NoTask
    OBVIOUS
  <2>. QED  BY <1>3, <2>1 DEF Return, OnePlace
<1>4. ASSUME NEW w \in Workers, Wait(w) \/ Exit(w) \/ SpuriousWake(w) PROVE OnePlace'
  BY <1>4 DEF Wait, Exit, SpuriousWake, OnePlace
<1>5. ASSUME NEW x \in Callers, Stop(x) \/ NotifyAll(x) PROVE OnePlace'
  BY <1>5 DEF Stop, NotifyAll, OnePlace
<1>6. ASSUME NEW x \in Callers, TestJoinable(x) \/ Join(x) \/ StopReturn(x) PROVE OnePlace'
  BY <1>6 DEF TestJoinable, Join, StopReturn, OnePlace
<1>7. ASSUME NEW x \in Callers \cup Workers, Throw(x) \/ JoinFails(x) PROVE OnePlace'
  BY <1>7 DEF Throw, JoinFails, Terminate, OnePlace
<1>8. CASE UNCHANGED vars
  BY <1>8 DEF vars, OnePlace
<1>. QED
  BY <1>1, <1>2, <1>3, <1>4, <1>5, <1>6, <1>7, <1>8 DEF Next, WorkerStep, StopStep

LEMMA QueueStep ==
  TypeOK /\ OnePlace /\ [Next]_vars => [Queue!Next]_(Queue!queueVars)
<1>. SUFFICES ASSUME TypeOK, OnePlace, [Next]_vars
              PROVE  Queue!Next \/ UNCHANGED <<tasks, Active, finished>>
  BY DEF Queue!queueVars
<1>. USE PoolAssumption DEF TypeOK
<1>1. ASSUME NEW x \in Callers, NEW k \in Tasks, Submit(x, k) PROVE Queue!Next
  <2>1. Queue!Fresh(k)
    BY <1>1 DEF Submit, Queue!Fresh, Queued
  <2>2. Active' = Active
    BY <1>1 DEF Submit, Active
  <2>. QED  BY <1>1, <2>1, <2>2 DEF Submit, Queue!Next, Queue!Enqueue
<1>2. ASSUME NEW w \in Workers, Take(w) PROVE Queue!Next
  <2>1. Head(tasks) \in Tasks
    BY <1>2, PushPop DEF Take
  <2>2. Active' = Active \cup {Head(tasks)}
    BY <1>2, <2>1 DEF Take, Active
  <2>. QED  BY <1>2, <2>2 DEF Take, Queue!Next, Queue!Begin
<1>3. ASSUME NEW w \in Workers, Return(w) PROVE Queue!Next
  <2>1. current[w] \in Tasks /\ current[w] \in Active
    BY <1>3 DEF Return, Active
  <2>2. Active' = Active \ {current[w]}
    BY <1>3, <2>1 DEF Return, Active, OnePlace
  <2>. QED  BY <1>3, <2>1, <2>2 DEF Return, Queue!Next, Queue!Finish
<1>4. ASSUME NEW w \in Workers, Wait(w) \/ Exit(w) \/ SpuriousWake(w)
      PROVE  UNCHANGED <<tasks, Active, finished>>
  BY <1>4 DEF Wait, Exit, SpuriousWake, Active
<1>5. ASSUME NEW x \in Callers, Stop(x) \/ NotifyAll(x)
      PROVE  UNCHANGED <<tasks, Active, finished>>
  BY <1>5 DEF Stop, NotifyAll, Active
<1>6. ASSUME NEW x \in Callers, TestJoinable(x) \/ Join(x) \/ StopReturn(x)
      PROVE  UNCHANGED <<tasks, Active, finished>>
  BY <1>6 DEF TestJoinable, Join, StopReturn, Active
<1>7. ASSUME NEW x \in Callers \cup Workers, Throw(x) \/ JoinFails(x)
      PROVE  UNCHANGED <<tasks, Active, finished>>
  BY <1>7 DEF Throw, JoinFails, Terminate, Active
<1>8. CASE UNCHANGED vars
  BY <1>8 DEF vars, Active
<1>. QED
  BY <1>1, <1>2, <1>3, <1>4, <1>5, <1>6, <1>7, <1>8 DEF Next, WorkerStep, StopStep

(* Tasks are begun in the order of submission, each once. *)
THEOREM PoolImplementsQueue == Spec => ImplementsQueue
<1>1. Init => OnePlace
  BY DEF Init, OnePlace
<1>2. Init => Queue!Init
  BY DEF Init, Queue!Init, Active
<1>. QED
  BY <1>1, <1>2, OnePlaceStep, QueueStep, PoolTypeCorrect, PTL DEF Spec, ImplementsQueue, Queue!Spec

(* stop() drains the queue and waits for the workers. *)
THEOREM StopIsCleanHolds == Spec => []StopIsClean
BY PoolTypeCorrect, StopDrainsHolds, JoinedHaveLeftHolds, PTL DEF StopIsClean

=============================================================================
