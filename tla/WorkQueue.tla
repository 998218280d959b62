------------------------------ MODULE WorkQueue ------------------------------
(***************************************************************************)
(* What a thread pool promises: tasks are begun in the order they were     *)
(* submitted, each of them once, and a begun task is finished once.        *)
(***************************************************************************)
EXTENDS Sequences

CONSTANT Tasks

VARIABLES
  queue,    \* submitted and not begun, in order
  active,   \* begun and not finished
  finished

queueVars == <<queue, active, finished>>

Init == queue = <<>> /\ active = {} /\ finished = {}

Fresh(k) == k \notin active \cup finished /\ \A i \in DOMAIN queue : queue[i] # k

Enqueue(k) ==
  /\ Fresh(k)
  /\ queue' = Append(queue, k)
  /\ UNCHANGED <<active, finished>>

Begin ==
  /\ queue # <<>>
  /\ queue' = Tail(queue)
  /\ active' = active \cup {Head(queue)}
  /\ UNCHANGED finished

Finish(k) ==
  /\ k \in active
  /\ active' = active \ {k}
  /\ finished' = finished \cup {k}
  /\ UNCHANGED queue

Next == Begin \/ \E k \in Tasks : Enqueue(k) \/ Finish(k)

Spec == Init /\ [][Next]_queueVars

=============================================================================
