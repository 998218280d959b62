------------------------------- MODULE Server --------------------------------
(***************************************************************************)
(* network::Server on its libuv loop: one thread, callbacks of handles,    *)
(* and an application that calls send(), close() and stop() from its own   *)
(* callbacks.  Handles live until their close callback; uv_close of a      *)
(* handle that is closing trips an assertion of libuv.                     *)
(*                                                                         *)
(* A frame on the wire is two units, its head (the length prefix) and its  *)
(* tail; a read returns any run of units, so a frame comes in one piece or *)
(* in two.  Bytes of messages are left out.                                *)
(***************************************************************************)
EXTENDS Naturals, Sequences, SequencesExt

CONSTANTS
  Conns,      \* addresses of uv_tcp_t objects; an address is used again
  None,
  Msgs,       \* message bodies of the application
  Heartbeat,  \* "__heartbeat__"
  Empty,      \* the empty body
  Garbage,    \* a body cut out of the wrong bytes
  Calls,      \* what the application calls: "send", "close", "stop", "destroy"
  MaxCalls,   \* calls in one callback
  MaxSends,   \* the application sends until so many writes were accepted
  MaxFrames,  \* frames a peer sends on one connection
  Faults      \* "split", "backpressure", "reject", "reset"

Frames == Msgs \cup {Heartbeat, Empty}
Units == Frames \X {"head", "tail"}

ASSUME ServerAssumption ==
  /\ None \notin Conns
  /\ Heartbeat \notin Msgs /\ Empty \notin Msgs /\ Garbage \notin Frames
  /\ Heartbeat # Empty
  /\ MaxCalls \in Nat /\ MaxSends \in Nat /\ MaxFrames \in Nat

VARIABLES
  listener,   \* the handle server_: "init", "listening", "closing", "closed"
  loop,       \* uv_run: "off", "running", "done"
  handle,     \* per address: "free", "open", "closing", "leaked"
  map,        \* keys of connections_
  fresh,      \* per connection: a heartbeat in the last 30 s (checkHeartbeat)
  wire,       \* per connection: units sent by the peer and not yet read
  peer,       \* per connection: "there", "gone" (end of its stream), "reset"
  out,        \* per connection: messages of writes libuv has queued
  cb,         \* connection whose application callback runs, or None
  left,       \* calls this callback may still make
  state,      \* "up", "aborted" by the assertion, "ended" with main
  sent, got,  \* history: frames of the peer, bodies given to the application
  accepted,   \* history: messages send() accepted
  received    \* history: what the socket took for the peer, with its bytes or not

appVars == <<cb, left>>
history == <<sent, got, accepted, received>>
vars == <<listener, loop, handle, map, fresh, wire, peer, out, appVars, state, history>>

Init ==
  /\ listener = "init" /\ loop = "off"
  /\ handle = [c \in Conns |-> "free"] /\ map = {}
  /\ fresh = [c \in Conns |-> FALSE]
  /\ wire = [c \in Conns |-> <<>>] /\ peer = [c \in Conns |-> "there"]
  /\ out = [c \in Conns |-> <<>>]
  /\ cb = None /\ left = 0 /\ state = "up"
  /\ sent = [c \in Conns |-> <<>>] /\ got = [c \in Conns |-> <<>>]
  /\ accepted = [c \in Conns |-> <<>>] /\ received = [c \in Conns |-> <<>>]

(* libuv serves the next ready handle. *)
Turn == state = "up" /\ loop = "running" /\ cb = None
Stopped == listener \in {"closing", "closed"}

(* uv_close of a set of connections with &Server::onClose. *)
Abort == /\ state' = "aborted"
         /\ UNCHANGED <<listener, loop, handle, map, fresh, wire, peer, out, appVars, history>>
Closing(C) == [c \in Conns |-> IF c \in C THEN "closing" ELSE handle[c]]

-----------------------------------------------------------------------------
(* Seeded fault: a handle that is closing takes a write. *)
CanSendMapped(c) == c \in map

(* send: refused for a pointer that is not in the map; uv_write on a closing
   handle fails (and its request is never freed).  What the socket does not
   take at once stays queued, while the encoded string dies with send(). *)
CanSend(c) == c \in map /\ handle[c] = "open"

Takes(c, m, intact) ==
  received' = [received EXCEPT ![c] = Append(@, [body |-> m, intact |-> intact])]
Queues(c, m) == out' = [out EXCEPT ![c] = Append(@, m)]

(* Seeded fault: a write does not wait for the ones that are queued. *)
WrittenOutOfTurn(c, m) ==
  \/ peer[c] # "reset" /\ Takes(c, m, TRUE) /\ UNCHANGED out
  \/ peer[c] = "reset" /\ UNCHANGED <<out, received>>
  \/ "backpressure" \in Faults /\ Queues(c, m) /\ UNCHANGED received

(* uv_write: the socket takes the message at once, or it fails there (which only
   onWrite learns, so send() has accepted it), or it waits behind others. *)
Written(c, m) ==
  \/ out[c] = <<>> /\ peer[c] # "reset" /\ Takes(c, m, TRUE) /\ UNCHANGED out
  \/ out[c] = <<>> /\ peer[c] = "reset" /\ UNCHANGED <<out, received>>
  \/ /\ out[c] # <<>> \/ "backpressure" \in Faults
     /\ Queues(c, m) /\ UNCHANGED received

Push(c, m) ==
  IF CanSend(c)
  THEN Written(c, m) /\ accepted' = [accepted EXCEPT ![c] = Append(@, m)]
  ELSE UNCHANGED <<out, received, accepted>>

(* The queue drains; libuv reads the bytes of a string that is gone, which may
   or may not still be there.  A write to a connection that was reset fails:
   onWrite logs it, frees the request, and the message is lost. *)
OnWrite(c) ==
  /\ Turn /\ handle[c] = "open" /\ out[c] # <<>>
  /\ IF peer[c] = "reset" THEN UNCHANGED received
     ELSE \E intact \in BOOLEAN : Takes(c, Head(out[c]), intact)
  /\ out' = [out EXCEPT ![c] = Tail(@)]
  /\ UNCHANGED <<listener, loop, handle, map, fresh, wire, peer, appVars, state, sent, got,
                 accepted>>

-----------------------------------------------------------------------------
(* start: bind and listen, either of which may fail; then main calls uv_run or,
   as in the examples that stop and destroy the server, waits for a key. *)
Start ==
  /\ state = "up" /\ loop = "off" /\ listener = "init"
  /\ listener' \in {"init", "listening"}
  /\ loop' \in (IF listener' = "listening" THEN {"running"} ELSE {"off"})
              \cup IF "destroy" \in Calls THEN {"off"} ELSE {}
  /\ state' = IF listener' = "listening" \/ "destroy" \in Calls THEN "up" ELSE "ended"
  /\ UNCHANGED <<handle, map, fresh, wire, peer, out, appVars, history>>

(* onNewConnection: a fresh handle, the map entry, and the connection callback;
   a rejected handle is closed without a close callback, so never deleted. *)
OnNewConnection(c) ==
  /\ Turn /\ listener = "listening" /\ handle[c] = "free"
  /\ \/ /\ handle' = [handle EXCEPT ![c] = "open"]
        /\ map' = map \cup {c}
        /\ fresh' = [fresh EXCEPT ![c] = TRUE]
        /\ wire' = [wire EXCEPT ![c] = <<>>] /\ peer' = [peer EXCEPT ![c] = "there"]
        /\ out' = [out EXCEPT ![c] = <<>>]
        /\ sent' = [sent EXCEPT ![c] = <<>>] /\ got' = [got EXCEPT ![c] = <<>>]
        /\ accepted' = [accepted EXCEPT ![c] = <<>>]
        /\ received' = [received EXCEPT ![c] = <<>>]
        /\ cb' = c /\ left' = MaxCalls
     \/ /\ "reject" \in Faults
        /\ handle' = [handle EXCEPT ![c] = "leaked"]
        /\ UNCHANGED <<map, fresh, wire, peer, out, appVars, history>>
  /\ UNCHANGED <<listener, loop, state>>

(* Message::decode: the body of the first frame of the data, "" when the data is
   shorter than a frame; bytes that do not begin with a length are read as one,
   and may even read as a heartbeat. *)
Decode(data) ==
  IF data[1][2] = "tail" THEN {Empty, Heartbeat, Garbage}
  ELSE IF Len(data) < 2 THEN {Empty} ELSE {data[1][1]}

(* How much a read returns: whole frames, or any run of bytes. *)
Readable(c) == {n \in 1..Len(wire[c]) : "split" \in Faults \/ wire[c][n][2] = "tail"}

(* Seeded fault: the buffer of the last read is parsed again. *)
OnReadAgain(c) ==
  /\ Turn /\ handle[c] = "open" /\ wire[c] # <<>>
  /\ \E n \in Readable(c) : \E m \in Decode(SubSeq(wire[c], 1, n)) :
       IF m \in {Empty, Heartbeat} THEN UNCHANGED <<appVars, got>>
       ELSE got' = [got EXCEPT ![c] = Append(@, m)] /\ cb' = c /\ left' = MaxCalls
  /\ UNCHANGED <<listener, loop, handle, map, fresh, wire, peer, out, state, sent,
                 accepted, received>>

(* onRead with data: one frame is decoded and what follows it is dropped; a
   heartbeat is answered here, anything else goes to the message callback. *)
OnRead(c) ==
  /\ Turn /\ handle[c] = "open" /\ wire[c] # <<>>
  /\ \E n \in Readable(c) :
       /\ wire' = [wire EXCEPT ![c] = SubSeq(@, n + 1, Len(@))]
       /\ \E m \in Decode(SubSeq(wire[c], 1, n)) :
            CASE m = Empty ->
                   UNCHANGED <<appVars, fresh, out, got, accepted, received>>
              [] m = Heartbeat ->
                   /\ Push(c, Heartbeat)
                   /\ fresh' = [fresh EXCEPT ![c] = c \in map \/ @]
                   /\ UNCHANGED <<appVars, got>>
              [] OTHER ->
                   /\ got' = [got EXCEPT ![c] = Append(@, m)]
                   /\ cb' = c /\ left' = MaxCalls
                   /\ UNCHANGED <<fresh, out, accepted, received>>
  /\ UNCHANGED <<listener, loop, handle, map, peer, state, sent>>

(* Seeded fault: the end of the stream is only logged. *)
OnReadErrorLogged(c) ==
  /\ Turn /\ handle[c] = "open" /\ peer[c] # "there" /\ wire[c] = <<>>
  /\ UNCHANGED vars

(* onRead with an error or the end of the stream. *)
OnReadError(c) ==
  /\ Turn /\ handle[c] = "open" /\ peer[c] # "there" /\ wire[c] = <<>>
  /\ handle' = Closing({c})
  /\ UNCHANGED <<listener, loop, map, fresh, wire, peer, out, appVars, state, history>>

(* Seeded fault: the entry is not erased. *)
OnCloseKeepingEntry(c) ==
  /\ Turn /\ handle[c] = "closing"
  /\ handle' = [handle EXCEPT ![c] = "free"] /\ out' = [out EXCEPT ![c] = <<>>]
  /\ UNCHANGED <<listener, loop, map, fresh, wire, peer, appVars, state, history>>

(* The end of an iteration: queued writes are cancelled, onClose erases the
   entry and frees the handle. *)
OnClose(c) ==
  /\ Turn /\ handle[c] = "closing"
  /\ handle' = [handle EXCEPT ![c] = "free"]
  /\ out' = [out EXCEPT ![c] = <<>>]
  /\ map' = map \ {c}
  /\ UNCHANGED <<listener, loop, fresh, wire, peer, appVars, state, history>>

ListenerClosed ==
  /\ Turn /\ listener = "closing" /\ listener' = "closed"
  /\ UNCHANGED <<loop, handle, map, fresh, wire, peer, out, appVars, state, history>>

(* uv_run returns when no handle is left. *)
LoopEnds ==
  /\ Turn /\ listener = "closed" /\ \A c \in Conns : handle[c] \in {"free", "leaked"}
  /\ loop' = "done"
  /\ state' = IF "destroy" \in Calls THEN "up" ELSE "ended"
  /\ UNCHANGED <<listener, handle, map, fresh, wire, peer, out, appVars, history>>

-----------------------------------------------------------------------------
(* The application, inside a callback of one connection. *)
AppSend(m) ==
  /\ state = "up" /\ cb # None /\ left > 0 /\ "send" \in Calls
  /\ Len(accepted[cb]) < MaxSends /\ Push(cb, m)
  /\ left' = left - 1
  /\ UNCHANGED <<listener, loop, handle, map, fresh, wire, peer, cb, state, sent, got>>

(* close(): the application does not close a connection twice. *)
AppClose ==
  /\ state = "up" /\ cb # None /\ left > 0 /\ "close" \in Calls /\ handle[cb] = "open"
  /\ handle' = Closing({cb})
  /\ left' = left - 1
  /\ UNCHANGED <<listener, loop, map, fresh, wire, peer, out, cb, state, history>>

(* Seeded fault: only the listener is closed. *)
CloseListenerOnly ==
  IF Stopped THEN Abort
  ELSE /\ listener' = "closing"
       /\ map' = {}
       /\ UNCHANGED <<handle, loop, fresh, wire, peer, out, appVars, state, history>>

(* stop(): uv_close of the listener and of every connection in the map, closing
   ones included; the map is emptied. *)
CloseAll ==
  IF Stopped \/ \E c \in map : handle[c] = "closing" THEN Abort
  ELSE /\ listener' = "closing"
       /\ handle' = Closing(map)
       /\ map' = {}
       /\ UNCHANGED <<loop, fresh, wire, peer, out, appVars, state, history>>

(* Called once: in a callback, by another handle of the loop (a signal, a timer
   of the application), or by a main that does not run the loop. *)
AppStop ==
  /\ state = "up" /\ "stop" \in Calls /\ listener = "listening"
  /\ CloseAll

CallbackReturns ==
  /\ state = "up" /\ cb # None
  /\ cb' = None /\ left' = 0
  /\ UNCHANGED <<listener, loop, handle, map, fresh, wire, peer, out, state, history>>

(* The destructor of Server at the end of main, after uv_run: stop() again. *)
Destroy ==
  /\ state = "up" /\ loop # "running" /\ "destroy" \in Calls
  /\ IF Stopped THEN Abort
     ELSE /\ state' = "ended"
          /\ UNCHANGED <<listener, loop, handle, map, fresh, wire, peer, out, appVars, history>>

-----------------------------------------------------------------------------
(* The peer, and the clock of the heartbeat. *)
PeerSends(c, f) ==
  /\ state = "up" /\ handle[c] = "open" /\ peer[c] = "there" /\ Len(sent[c]) < MaxFrames
  /\ sent' = [sent EXCEPT ![c] = Append(@, f)]
  /\ wire' = [wire EXCEPT ![c] = @ \o << <<f, "head">>, <<f, "tail">> >>]
  /\ UNCHANGED <<listener, loop, handle, map, fresh, peer, out, appVars, state, got,
                 accepted, received>>

(* The peer ends its stream and still reads. *)
PeerCloses(c) ==
  /\ state = "up" /\ handle[c] = "open" /\ peer[c] = "there"
  /\ peer' = [peer EXCEPT ![c] = "gone"]
  /\ UNCHANGED <<listener, loop, handle, map, fresh, wire, out, appVars, state, history>>

(* The connection is reset (the peer crashed, or closed and was written to): what
   the two sockets hold for each other may be lost. *)
PeerResets(c) ==
  /\ state = "up" /\ handle[c] = "open" /\ "reset" \in Faults /\ peer[c] # "reset"
  /\ peer' = [peer EXCEPT ![c] = "reset"]
  /\ wire' \in {wire, [wire EXCEPT ![c] = <<>>]}
  /\ \E n \in 0..Len(received[c]) : received' = [received EXCEPT ![c] = SubSeq(@, 1, n)]
  /\ UNCHANGED <<listener, loop, handle, map, fresh, out, appVars, state, sent, got,
                 accepted>>

(* 30 seconds without a heartbeat. *)
Silence(c) ==
  /\ state = "up" /\ handle[c] = "open" /\ fresh[c]
  /\ fresh' = [fresh EXCEPT ![c] = FALSE]
  /\ UNCHANGED <<listener, loop, handle, map, wire, peer, out, appVars, state, history>>

App == (\E m \in Msgs : AppSend(m)) \/ AppClose \/ AppStop \/ Destroy
Peer == \E c \in Conns : PeerCloses(c) \/ PeerResets(c) \/ Silence(c) \/ \E f \in Frames : PeerSends(c, f)
Served(c) == OnRead(c) \/ OnReadError(c) \/ OnWrite(c)

Next ==
  \/ Start \/ ListenerClosed \/ LoopEnds \/ CallbackReturns
  \/ \E c \in Conns : OnNewConnection(c) \/ Served(c) \/ OnClose(c)
  \/ App
  \/ Peer

Spec == Init /\ [][Next]_vars

(* Every iteration of uv_run serves each ready handle and closes each closing
   one, so no handle is passed over for ever; callbacks return. *)
Fairness ==
  /\ WF_vars(CallbackReturns) /\ SF_vars(ListenerClosed) /\ SF_vars(LoopEnds)
  /\ \A c \in Conns : SF_vars(Served(c)) /\ SF_vars(OnClose(c))

FairSpec == Spec /\ Fairness

-----------------------------------------------------------------------------
(* Properties. *)

Bodies == Frames \cup {Garbage}
Letters == [body : Frames, intact : BOOLEAN]

(* Every variable has its type. *)
TypeOK ==
  /\ listener \in {"init", "listening", "closing", "closed"}
  /\ loop \in {"off", "running", "done"}
  /\ handle \in [Conns -> {"free", "open", "closing", "leaked"}]
  /\ map \subseteq Conns
  /\ fresh \in [Conns -> BOOLEAN] /\ peer \in [Conns -> {"there", "gone", "reset"}]
  /\ wire \in [Conns -> Seq(Units)] /\ out \in [Conns -> Seq(Frames)]
  /\ cb \in Conns \cup {None} /\ left \in 0..MaxCalls
  /\ state \in {"up", "aborted", "ended"}
  /\ sent \in [Conns -> Seq(Frames)] /\ got \in [Conns -> Seq(Bodies)]
  /\ accepted \in [Conns -> Seq(Frames)] /\ received \in [Conns -> Seq(Letters)]

(* connections_ is exact: until stop() it holds the handles that are open or
   closing and no freed one, so find() is a sound test of a pointer; stop()
   leaves no connection open behind. *)
MapIsExact ==
  /\ ~Stopped => map = {c \in Conns : handle[c] \in {"open", "closing"}}
  /\ Stopped => map = {} /\ \A c \in Conns : handle[c] # "open"

(* A callback runs for a connection whose handle is not freed under it. *)
CallbackHandleLives == cb # None => handle[cb] \in {"open", "closing"}

(* The life of handles: no pointer that the server looks up or calls back with
   is to freed memory. *)
HandlesAreSound == TypeOK /\ MapIsExact /\ CallbackHandleLives

(* However reads cut the stream, the application gets what the peer sent, in
   order, none twice (but not all of it, and between it what was never sent,
   Garbage: see EveryFrameArrives). *)
DeliveredOnce ==
  \A c \in Conns : handle[c] = "open" =>
    LET whole == {i \in DOMAIN got[c] : got[c][i] # Garbage}
    IN \E place \in [whole -> DOMAIN sent[c]] :
         \A i, j \in whole :
           got[c][i] = sent[c][place[i]] /\ (i < j => place[i] < place[j])

(* Messages of one connection leave in the order of send(), each once: those the
   socket took come first among the accepted ones, and unless the connection was
   reset the others are queued behind them, in order.  (Their bytes are another
   matter: see PeerGetsWhatWasSent.) *)
WritesKeepOrder ==
  \A c \in Conns : handle[c] = "open" =>
    LET n == Len(received[c]) IN
    /\ n <= Len(accepted[c]) /\ \A i \in 1..n : received[c][i].body = accepted[c][i]
    /\ peer[c] # "reset" => /\ Len(accepted[c]) = n + Len(out[c])
                            /\ \A i \in 1..Len(out[c]) : out[c][i] = accepted[c][n + i]

(* The server implements the mailbox of Mailbox: what comes on a connection are
   the frames whose tail is on the wire, and send() posts what it accepts. *)
Opened == {c \in Conns : handle[c] = "open"}
Coming ==
  [c \in Conns |-> [i \in 1..((Len(wire[c]) + 1) \div 2) |->
                     wire[c][2 * i - (Len(wire[c]) % 2)][1]]]
Box == INSTANCE Mailbox
         WITH open <- Opened, coming <- Coming, posted <- accepted,
              Splits <- "split" \in Faults
ImplementsMailbox == Box!Spec

(* The wire format's purpose, "sticky and split packets: ... length prefix" in
   the design notes: once everything is read, every body was delivered. *)
EveryFrameArrives ==
  \A c \in Conns : handle[c] = "open" /\ wire[c] = <<>> =>
    got[c] = SelectSeq(sent[c], LAMBDA f : f \in Msgs)

(* send(conn, message) sends the message: its bytes are what the socket takes. *)
PeerGetsWhatWasSent ==
  \A c \in Conns : handle[c] = "open" =>
    \A i \in DOMAIN received[c] : received[c][i].intact

(* The program ends without tripping libuv's assertion. *)
NoAbort == state # "aborted"

(* ... and in particular when main returns after a stop(). *)
ExitIsClean == state = "aborted" => loop = "running"

(* Connections of peers that have gone are closed and freed. *)
GoneIsFreed ==
  \A c \in Conns : peer[c] # "there" /\ handle[c] = "open" ~> (handle[c] = "free" \/ state # "up")

(* stop() ends uv_run: every handle is closed in the end. *)
StopEndsLoop == Stopped ~> (loop # "running" \/ state # "up")

(* "30 s without a heartbeat: the connection is abnormal, close it". *)
SilentIsClosed ==
  \A c \in Conns : (handle[c] = "open" /\ ~fresh[c]) ~> (handle[c] # "open" \/ fresh[c] \/ state # "up")

=============================================================================
