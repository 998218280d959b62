---------------------------- MODULE MCNetworkLive ----------------------------
(***************************************************************************)
(* The thread pool, and the server where liveness is at stake, in one run. *)
(* They share nothing: the first state chooses which of the two is driven. *)
(***************************************************************************)
EXTENDS ThreadPool

CONSTANTS Conns, None, Msgs, Heartbeat, Empty, Garbage, Calls, MaxCalls, MaxSends,
          MaxFrames, Faults

VARIABLES
  part,   \* "pool" or "server"
  listener, loop, handle, map, fresh, wire, peer, out, cb, left, state,
  sent, got, accepted, received

Net == INSTANCE Server
netVars == <<listener, loop, handle, map, fresh, wire, peer, out, cb, left, state,
             sent, got, accepted, received>>

MCInit == part \in {"pool", "server"} /\ Init /\ Net!Init
MCNext ==
  /\ \/ part = "pool" /\ Next /\ UNCHANGED netVars
     \/ part = "server" /\ Net!Next /\ UNCHANGED vars
  /\ UNCHANGED part

(* The fairness of ThreadPool and of Server, of the part that is driven. *)
MCFairness ==
  /\ \A w \in Workers : WF_vars(part = "pool" /\ WorkerStep(w))
  /\ \A x \in Callers : WF_vars(part = "pool" /\ StopStep(x))
  /\ WF_netVars(part = "server" /\ Net!CallbackReturns)
  /\ SF_netVars(part = "server" /\ Net!ListenerClosed)
  /\ SF_netVars(part = "server" /\ Net!LoopEnds)
  /\ \A c \in Conns :
       /\ SF_netVars(part = "server" /\ Net!Served(c))
       /\ SF_netVars(part = "server" /\ Net!OnClose(c))

MCSpec == MCInit /\ [][MCNext]_<<vars, netVars, part>> /\ MCFairness

(* The connections of peers that have gone are closed and freed. *)
GoneIsFreed == Net!GoneIsFreed
(* stop() ends uv_run, whatever the connections are doing. *)
StopEndsLoop == Net!StopEndsLoop
=============================================================================
