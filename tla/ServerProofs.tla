---------------------------- MODULE ServerProofs -----------------------------
(***************************************************************************)
(* Theorems about Server for any set of connections and any application.   *)
(***************************************************************************)
EXTENDS Server, SequenceTheorems, TLAPS

LEMMA Prefix ==
  ASSUME NEW S, NEW r \in Seq(S), NEW n \in 0..Len(r)
  PROVE  /\ SubSeq(r, 1, n) \in Seq(S) /\ Len(SubSeq(r, 1, n)) = n
         /\ \A i \in 1..n : SubSeq(r, 1, n)[i] = r[i]
<1>1. Len(r) \in Nat /\ \A i \in 1..Len(r) : r[i] \in S
  BY LenProperties, ElementOfSeq
<1>2. 1 \in Int /\ n \in Int /\ \A i \in 1..n : r[i] \in S
  BY <1>1
<1>. DEFINE t == SubSeq(r, 1, n)
<1>3. /\ t \in Seq(S) /\ Len(t) = IF 1 <= n THEN n - 1 + 1 ELSE 0
      /\ \A i \in 1..n - 1 + 1 : t[i] = r[1 + i - 1]
  BY <1>2, SubSeqProperties
<1>. HIDE DEF t
<1>4. t \in Seq(S) /\ Len(t) = n /\ \A i \in 1..n : t[i] = r[i]
  BY <1>1, <1>3
<1>. QED  BY <1>4 DEF t

(* What the data of a read decodes to, and what is left of it. *)
LEMMA ReadFacts ==
  ASSUME ServerAssumption, NEW w \in Seq(Units), NEW n \in 1..Len(w)
  PROVE  /\ SubSeq(w, n + 1, Len(w)) \in Seq(Units)
         /\ Decode(SubSeq(w, 1, n)) \subseteq Bodies
<1>1. SubSeq(w, n + 1, Len(w)) \in Seq(Units)
  BY SubSeqProperties
<1>2. SubSeq(w, 1, n) \in Seq(Units) /\ Len(SubSeq(w, 1, n)) = n
  BY SubSeqProperties
<1>3. SubSeq(w, 1, n)[1] \in Units
  BY <1>2, ElementOfSeq
<1>4. SubSeq(w, 1, n)[1][1] \in Frames
  BY <1>3 DEF Units
<1>5. Empty \in Bodies /\ Heartbeat \in Bodies /\ Garbage \in Bodies
  BY DEF Bodies, Frames
<1>. QED  BY <1>1, <1>4, <1>5 DEF Decode, Bodies

LEMMA PushFacts ==
  ASSUME TypeOK, NEW c \in Conns, NEW m \in Frames, Push(c, m)
  PROVE  /\ out' \in [Conns -> Seq(Frames)]
         /\ received' \in [Conns -> Seq(Letters)]
         /\ accepted' \in [Conns -> Seq(Frames)]
<1>. USE DEF TypeOK
<1>. DEFINE letter == [body |-> m, intact |-> TRUE]
<1>1. CASE CanSend(c)
  <2>1. accepted' = [accepted EXCEPT ![c] = Append(accepted[c], m)]
    BY <1>1 DEF Push
  <2>2. \/ out' = out /\ received' = [received EXCEPT ![c] = Append(received[c], letter)]
        \/ out' = out /\ received' = received
        \/ out' = [out EXCEPT ![c] = Append(out[c], m)] /\ received' = received
    BY <1>1 DEF Push, Written, Takes, Queues
  <2>3. accepted' \in [Conns -> Seq(Frames)]
    BY <2>1, AppendProperties
  <2>4. CASE out' = out /\ received' = [received EXCEPT ![c] = Append(received[c], letter)]
    <3>1. letter \in Letters
      BY DEF Letters
    <3>. HIDE DEF letter
    <3>2. received' \in [Conns -> Seq(Letters)]
      BY <2>4, <3>1, AppendProperties
    <3>. QED  BY <2>3, <2>4, <3>2
  <2>5. CASE out' = [out EXCEPT ![c] = Append(out[c], m)] /\ received' = received
    <3>1. out' \in [Conns -> Seq(Frames)]
      BY <2>5, AppendProperties
    <3>. QED  BY <2>3, <2>5, <3>1
  <2>6. CASE out' = out /\ received' = received
    BY <2>3, <2>6
  <2>. HIDE DEF letter
  <2>. QED  BY <2>2, <2>4, <2>5, <2>6
<1>2. CASE ~CanSend(c)
  BY <1>2 DEF Push
<1>. HIDE DEF letter
<1>. QED  BY <1>1, <1>2

-----------------------------------------------------------------------------
(* The type invariant. *)

LEMMA TypeStep == TypeOK /\ [Next]_vars => TypeOK'
<1>. SUFFICES ASSUME TypeOK, [Next]_vars PROVE TypeOK'
  OBVIOUS
<1>. USE ServerAssumption DEF TypeOK, appVars, history
<1>1. CASE Start
  BY <1>1 DEF Start
<1>2. CASE ListenerClosed
  BY <1>2 DEF ListenerClosed
<1>3. CASE LoopEnds
  BY <1>3 DEF LoopEnds
<1>4. CASE CallbackReturns
  <2>1. 0 \in 0..MaxCalls
    BY DEF ServerAssumption
  <2>. QED  BY <1>4, <2>1 DEF CallbackReturns
<1>5. ASSUME NEW c \in Conns, OnNewConnection(c) PROVE TypeOK'
  <2>1. MaxCalls \in 0..MaxCalls
    BY DEF ServerAssumption
  <2>2. CASE /\ handle' = [handle EXCEPT ![c] = "leaked"]
             /\ UNCHANGED <<map, fresh, wire, peer, out, appVars, history>>
    BY <1>5, <2>2 DEF OnNewConnection
  <2>3. CASE /\ handle' = [handle EXCEPT ![c] = "open"]
             /\ map' = map \cup {c}
             /\ fresh' = [fresh EXCEPT ![c] = TRUE]
             /\ wire' = [wire EXCEPT ![c] = <<>>] /\ peer' = [peer EXCEPT ![c] = "there"]
             /\ out' = [out EXCEPT ![c] = <<>>]
             /\ sent' = [sent EXCEPT ![c] = <<>>] /\ got' = [got EXCEPT ![c] = <<>>]
             /\ accepted' = [accepted EXCEPT ![c] = <<>>]
             /\ received' = [received EXCEPT ![c] = <<>>]
             /\ cb' = c /\ left' = MaxCalls
    <3>1. wire' \in [Conns -> Seq(Units)] /\ sent' \in [Conns -> Seq(Frames)]
      BY <2>3
    <3>2. /\ out' \in [Conns -> Seq(Frames)] /\ got' \in [Conns -> Seq(Bodies)]
          /\ accepted' \in [Conns -> Seq(Frames)] /\ received' \in [Conns -> Seq(Letters)]
      BY <2>3
    <3>3. fresh' \in [Conns -> BOOLEAN] /\ peer' \in [Conns -> {"there", "gone", "reset"}]
      BY <2>3
    <3>4. /\ handle' \in [Conns -> {"free", "open", "closing", "leaked"}]
          /\ map' \subseteq Conns /\ cb' \in Conns \cup {None}
      BY <2>3
    <3>5. UNCHANGED <<listener, loop, state>>
      BY <1>5 DEF OnNewConnection
    <3>. QED  BY <2>1, <2>3, <3>1, <3>2, <3>3, <3>4, <3>5
  <2>. QED  BY <1>5, <2>2, <2>3 DEF OnNewConnection
<1>6. ASSUME NEW c \in Conns, OnRead(c) PROVE TypeOK'
  <2>1. PICK n \in Readable(c) :
          /\ wire' = [wire EXCEPT ![c] = SubSeq(@, n + 1, Len(@))]
          /\ \E m \in Decode(SubSeq(wire[c], 1, n)) :
               CASE m = Empty ->
                      UNCHANGED <<appVars, fresh, out, got, accepted, received>>
                 [] m = Heartbeat ->
                      /\ Push(c, Heartbeat)
                      /\ fresh' = [fresh EXCEPT ![c] = c \in map \/ @]
                      /\ UNCHANGED <<appVars, got>>
                 [] OTHER ->
                      /\ got' = [got EXCEPT ![c] = Append(@, m)]
                      /\ cb' = c /\ left' = MaxCalls
                      /\ UNCHANGED <<fresh, out, accepted, received>>
    BY <1>6 DEF OnRead
  <2>2. n \in 1..Len(wire[c]) /\ wire[c] \in Seq(Units)
    BY DEF Readable
  <2>3. wire' \in [Conns -> Seq(Units)]
    BY <2>1, <2>2, ReadFacts
  <2>4. PICK m \in Decode(SubSeq(wire[c], 1, n)) :
          CASE m = Empty ->
                 UNCHANGED <<appVars, fresh, out, got, accepted, received>>
            [] m = Heartbeat ->
                 /\ Push(c, Heartbeat)
                 /\ fresh' = [fresh EXCEPT ![c] = c \in map \/ @]
                 /\ UNCHANGED <<appVars, got>>
            [] OTHER ->
                 /\ got' = [got EXCEPT ![c] = Append(@, m)]
                 /\ cb' = c /\ left' = MaxCalls
                 /\ UNCHANGED <<fresh, out, accepted, received>>
    BY <2>1
  <2>5. m \in Bodies
    BY <2>2, ReadFacts
  <2>. DEFINE Rest == /\ fresh' \in [Conns -> BOOLEAN]
                      /\ out' \in [Conns -> Seq(Frames)] /\ got' \in [Conns -> Seq(Bodies)]
                      /\ accepted' \in [Conns -> Seq(Frames)]
                      /\ received' \in [Conns -> Seq(Letters)]
                      /\ cb' \in Conns \cup {None} /\ left' \in 0..MaxCalls
  <2>6. ASSUME m = Empty PROVE Rest
    BY <2>4, <2>6
  <2>7. ASSUME m = Heartbeat PROVE Rest
    <3>1. m # Empty
      BY <2>7 DEF ServerAssumption
    <3>2. /\ Push(c, Heartbeat) /\ fresh' = [fresh EXCEPT ![c] = c \in map \/ fresh[c]]
          /\ UNCHANGED <<appVars, got>>
      BY <2>4, <2>7, <3>1
    <3>3. Heartbeat \in Frames
      BY DEF Frames
    <3>4. fresh' \in [Conns -> BOOLEAN]
      <4>. DEFINE b == c \in map \/ fresh[c]
      <4>1. b \in BOOLEAN /\ fresh \in [Conns -> BOOLEAN]
        OBVIOUS
      <4>2. fresh' = [fresh EXCEPT ![c] = b]
        BY <3>2
      <4>. HIDE DEF b
      <4>. QED  BY <4>1, <4>2
    <3>5. /\ out' \in [Conns -> Seq(Frames)] /\ accepted' \in [Conns -> Seq(Frames)]
          /\ received' \in [Conns -> Seq(Letters)]
      BY <3>2, <3>3, PushFacts
    <3>6. got' = got /\ cb' = cb /\ left' = left
      BY <3>2
    <3>7. got' \in [Conns -> Seq(Bodies)] /\ cb' \in Conns \cup {None} /\ left' \in 0..MaxCalls
      BY <3>6
    <3>. QED  BY <3>4, <3>5, <3>7
  <2>8. ASSUME m # Empty /\ m # Heartbeat PROVE Rest
    <3>1. /\ got' = [got EXCEPT ![c] = Append(got[c], m)]
          /\ cb' = c /\ left' = MaxCalls
          /\ UNCHANGED <<fresh, out, accepted, received>>
      BY <2>4, <2>8
    <3>2. got' \in [Conns -> Seq(Bodies)]
      BY <2>5, <3>1, AppendProperties
    <3>3. left' \in 0..MaxCalls
      BY <3>1 DEF ServerAssumption
    <3>4. cb' \in Conns \cup {None}
      BY <3>1
    <3>5. /\ out' \in [Conns -> Seq(Frames)] /\ accepted' \in [Conns -> Seq(Frames)]
          /\ received' \in [Conns -> Seq(Letters)] /\ fresh' \in [Conns -> BOOLEAN]
      BY <3>1
    <3>. QED  BY <3>2, <3>3, <3>4, <3>5
  <2>9. Rest
    BY <2>6, <2>7, <2>8
  <2>10. UNCHANGED <<listener, loop, handle, map, peer, state, sent>>
    BY <1>6 DEF OnRead
  <2>. QED  BY <2>3, <2>9, <2>10
<1>7. ASSUME NEW c \in Conns, OnReadError(c) PROVE TypeOK'
  BY <1>7 DEF OnReadError, Closing
<1>8. ASSUME NEW c \in Conns, OnWrite(c) PROVE TypeOK'
  <2>1. Head(out[c]) \in Frames /\ Tail(out[c]) \in Seq(Frames)
    BY <1>8, HeadTailProperties DEF OnWrite
  <2>2. received' \in [Conns -> Seq(Letters)]
    <3>1. CASE received' = received
      BY <3>1
    <3>2. ASSUME NEW intact \in BOOLEAN, Takes(c, Head(out[c]), intact)
          PROVE  received' \in [Conns -> Seq(Letters)]
      <4>. DEFINE letter == [body |-> Head(out[c]), intact |-> intact]
      <4>1. letter \in Letters
        BY <2>1 DEF Letters
      <4>2. received' = [received EXCEPT ![c] = Append(received[c], letter)]
        BY <3>2 DEF Takes
      <4>. HIDE DEF letter
      <4>. QED  BY <4>1, <4>2, AppendProperties
    <3>. QED  BY <1>8, <3>1, <3>2 DEF OnWrite
  <2>3. out' \in [Conns -> Seq(Frames)]
    BY <1>8, <2>1 DEF OnWrite
  <2>. QED  BY <1>8, <2>2, <2>3 DEF OnWrite
<1>9. ASSUME NEW c \in Conns, OnClose(c) PROVE TypeOK'
  BY <1>9 DEF OnClose
<1>10. ASSUME NEW m \in Msgs, AppSend(m) PROVE TypeOK'
  <2>1. m \in Frames /\ cb \in Conns
    BY <1>10 DEF AppSend, Frames
  <2>2. left' \in 0..MaxCalls
    BY <1>10 DEF AppSend, ServerAssumption
  <2>3. Push(cb, m)
    BY <1>10 DEF AppSend
  <2>. QED  BY <1>10, <2>1, <2>2, <2>3, PushFacts DEF AppSend
<1>11. CASE AppClose
  <2>1. left' \in 0..MaxCalls
    BY <1>11 DEF AppClose, ServerAssumption
  <2>2. handle' \in [Conns -> {"free", "open", "closing", "leaked"}]
    BY <1>11 DEF AppClose, Closing
  <2>. QED  BY <1>11, <2>1, <2>2 DEF AppClose
<1>12. CASE AppStop
  BY <1>12 DEF AppStop, CloseAll, Abort, Closing
<1>13. CASE Destroy
  BY <1>13 DEF Destroy, Abort
<1>14. ASSUME NEW c \in Conns, PeerCloses(c) \/ PeerResets(c) PROVE TypeOK'
  <2>1. CASE PeerCloses(c)
    BY <2>1 DEF PeerCloses
  <2>2. CASE PeerResets(c)
    <3>1. <<>> \in Seq(Units)
      OBVIOUS
    <3>2. wire' \in [Conns -> Seq(Units)]
      BY <2>2, <3>1 DEF PeerResets
    <3>3. received' \in [Conns -> Seq(Letters)]
      <4>1. PICK n \in 0..Len(received[c]) :
              received' = [received EXCEPT ![c] = SubSeq(received[c], 1, n)]
        BY <2>2 DEF PeerResets
      <4>2. SubSeq(received[c], 1, n) \in Seq(Letters)
        BY Prefix
      <4>. QED  BY <4>1, <4>2
    <3>4. peer' \in [Conns -> {"there", "gone", "reset"}]
      BY <2>2 DEF PeerResets
    <3>. QED  BY <2>2, <3>2, <3>3, <3>4 DEF PeerResets
  <2>. QED  BY <1>14, <2>1, <2>2
<1>15. ASSUME NEW c \in Conns, Silence(c) PROVE TypeOK'
  BY <1>15 DEF Silence
<1>16. ASSUME NEW c \in Conns, NEW f \in Frames, PeerSends(c, f) PROVE TypeOK'
  <2>1. << <<f, "head">>, <<f, "tail">> >> \in Seq(Units)
    BY DEF Units
  <2>2. wire' = [wire EXCEPT ![c] = wire[c] \o << <<f, "head">>, <<f, "tail">> >>]
    BY <1>16 DEF PeerSends
  <2>3. wire' \in [Conns -> Seq(Units)]
    BY <2>1, <2>2, ConcatProperties
  <2>4. sent' \in [Conns -> Seq(Frames)]
    <3>1. sent' = [sent EXCEPT ![c] = Append(sent[c], f)]
      BY <1>16 DEF PeerSends
    <3>. QED  BY <3>1, AppendProperties
  <2>. QED  BY <1>16, <2>3, <2>4 DEF PeerSends
<1>17. CASE UNCHANGED vars
  BY <1>17 DEF vars
<1>. QED
  BY <1>1, <1>2, <1>3, <1>4, <1>5, <1>6, <1>7, <1>8, <1>9, <1>10, <1>11, <1>12, <1>13,
     <1>14, <1>15, <1>16, <1>17 DEF Next, App, Peer, Served

(* Every variable keeps its type. *)
THEOREM ServerTypeCorrect == Spec => []TypeOK
<1>1. Init => TypeOK
  <2>. SUFFICES ASSUME Init PROVE TypeOK
    OBVIOUS
  <2>1. 0 \in 0..MaxCalls
    BY ServerAssumption DEF ServerAssumption
  <2>2. <<>> \in Seq(Units) /\ <<>> \in Seq(Bodies) /\ <<>> \in Seq(Frames) /\ <<>> \in Seq(Letters)
    OBVIOUS
  <2>. QED  BY <2>1, <2>2 DEF Init, TypeOK
<1>. QED  BY <1>1, TypeStep, PTL DEF Spec

-----------------------------------------------------------------------------
(* The map of connections and the life of the handle under a callback. *)

LifeInv == MapIsExact /\ CallbackHandleLives

LEMMA LifeStep == TypeOK /\ LifeInv /\ [Next]_vars => LifeInv'
<1>. SUFFICES ASSUME TypeOK, LifeInv, [Next]_vars PROVE LifeInv'
  OBVIOUS
<1>. USE ServerAssumption DEF LifeInv, MapIsExact, CallbackHandleLives, Stopped, TypeOK,
         appVars, history
<1>1. CASE Start
  BY <1>1 DEF Start
<1>2. CASE ListenerClosed \/ LoopEnds
  BY <1>2 DEF ListenerClosed, LoopEnds
<1>3. CASE CallbackReturns
  BY <1>3 DEF CallbackReturns
<1>4. ASSUME NEW c \in Conns, OnNewConnection(c) PROVE LifeInv'
  <2>1. listener' = listener /\ ~Stopped /\ cb = None /\ handle[c] = "free"
    BY <1>4 DEF OnNewConnection, Turn
  <2>2. CASE /\ handle' = [handle EXCEPT ![c] = "open"]
             /\ map' = map \cup {c} /\ cb' = c
    BY <2>1, <2>2
  <2>3. CASE /\ handle' = [handle EXCEPT ![c] = "leaked"]
             /\ map' = map /\ cb' = cb
    BY <2>1, <2>3
  <2>. QED  BY <1>4, <2>2, <2>3 DEF OnNewConnection
<1>5. ASSUME NEW c \in Conns, Served(c) PROVE LifeInv'
  <2>1. CASE OnRead(c)
    <3>1. handle[c] = "open" /\ UNCHANGED <<listener, handle, map>>
      BY <2>1 DEF OnRead
    <3>2. cb' = cb \/ cb' = c
      BY <2>1 DEF OnRead
    <3>. QED  BY <3>1, <3>2
  <2>2. CASE OnReadError(c)
    BY <2>2 DEF OnReadError, Closing
  <2>3. CASE OnWrite(c)
    BY <2>3 DEF OnWrite
  <2>. QED  BY <1>5, <2>1, <2>2, <2>3 DEF Served
<1>6. ASSUME NEW c \in Conns, OnClose(c) PROVE LifeInv'
  BY <1>6 DEF OnClose, Turn
<1>7. CASE \E m \in Msgs : AppSend(m)
  BY <1>7 DEF AppSend
<1>8. CASE AppClose
  BY <1>8 DEF AppClose, Closing
<1>9. CASE AppStop
  BY <1>9 DEF AppStop, CloseAll, Abort, Closing
<1>10. CASE Destroy
  BY <1>10 DEF Destroy, Abort
<1>11. CASE Peer
  BY <1>11 DEF Peer, PeerCloses, PeerResets, Silence, PeerSends
<1>12. CASE UNCHANGED vars
  BY <1>12 DEF vars
<1>. QED
  BY <1>1, <1>2, <1>3, <1>4, <1>5, <1>6, <1>7, <1>8, <1>9, <1>10, <1>11, <1>12
     DEF Next, App

LEMMA LifeHolds == Spec => []LifeInv
<1>1. Init => LifeInv
  BY DEF Init, LifeInv, MapIsExact, CallbackHandleLives, Stopped
<1>. QED  BY <1>1, LifeStep, ServerTypeCorrect, PTL DEF Spec

(* The map never holds a freed handle and misses no open one; stop() leaves none. *)
THEOREM MapIsExactHolds == Spec => []MapIsExact
<1>1. LifeInv => MapIsExact
  BY DEF LifeInv
<1>. QED  BY <1>1, LifeHolds, PTL

(* No handle is freed under the callback that runs for it. *)
THEOREM CallbackHandleLivesHolds == Spec => []CallbackHandleLives
<1>1. LifeInv => CallbackHandleLives
  BY DEF LifeInv
<1>. QED  BY <1>1, LifeHolds, PTL

(* Lookups and callbacks of the server meet live handles only. *)
THEOREM HandlesAreSoundHolds == Spec => []HandlesAreSound
BY ServerTypeCorrect, MapIsExactHolds, CallbackHandleLivesHolds, PTL DEF HandlesAreSound

-----------------------------------------------------------------------------
(* The order of writes. *)

(* What WritesKeepOrder says of one connection: what the socket took, *)
Took(r, a) == Len(r) <= Len(a) /\ \A i \in 1..Len(r) : r[i].body = a[i]

(* ... and what waits behind it. *)
Waits(r, o, a) ==
  /\ Len(a) = Len(r) + Len(o)
  /\ \A i \in 1..Len(o) : o[i] = a[Len(r) + i]

InOrder(r, o, a, p) == Took(r, a) /\ (p # "reset" => Waits(r, o, a))

(* A new connection has no write. *)
LEMMA NothingInOrder ==
  ASSUME NEW p
  PROVE  InOrder(<<>>, <<>>, <<>>, p)
<1>1. <<>> \in Seq(Frames) /\ Len(<<>>) = 0
  OBVIOUS
<1>. QED  BY <1>1 DEF InOrder, Took, Waits

(* What was taken stays in order when one more message is accepted. *)
LEMMA TookStays ==
  ASSUME NEW r \in Seq(Letters), NEW a \in Seq(Frames), NEW m \in Frames, Took(r, a)
  PROVE  Took(r, Append(a, m))
<1>1. /\ Len(r) \in Nat /\ Len(a) \in Nat /\ Len(Append(a, m)) = Len(a) + 1
      /\ \A i \in 1..Len(a) : Append(a, m)[i] = a[i]
  BY LenProperties, AppendProperties
<1>2. \A i \in 1..Len(r) : i \in 1..Len(a)
  BY <1>1 DEF Took
<1>. QED  BY <1>1, <1>2 DEF Took

(* send() on an empty queue: the socket takes the message at once. *)
LEMMA TakenAtOnce ==
  ASSUME NEW r \in Seq(Letters), NEW a \in Seq(Frames), NEW m \in Frames, NEW p,
         p # "reset", InOrder(r, <<>>, a, p),
         NEW x \in Letters, x.body = m
  PROVE  InOrder(Append(r, x), <<>>, Append(a, m), p)
<1>1. Len(<<>>) = 0
  OBVIOUS
<1>2. Len(r) \in Nat /\ Len(a) = Len(r) /\ \A i \in 1..Len(r) : r[i].body = a[i]
  BY <1>1, LenProperties DEF InOrder, Took, Waits
<1>3. /\ Len(Append(r, x)) = Len(r) + 1 /\ Append(r, x)[Len(r) + 1] = x
      /\ \A i \in 1..Len(r) : Append(r, x)[i] = r[i]
  BY AppendProperties
<1>4. /\ Len(Append(a, m)) = Len(a) + 1 /\ Append(a, m)[Len(a) + 1] = m
      /\ \A i \in 1..Len(a) : Append(a, m)[i] = a[i]
  BY AppendProperties
<1>. DEFINE rr == Append(r, x)  aa == Append(a, m)
<1>. HIDE DEF rr, aa
<1>5. ASSUME NEW i \in 1..Len(r) + 1 PROVE rr[i].body = aa[i]
  <2>1. CASE i = Len(r) + 1
    BY <1>2, <1>3, <1>4, <2>1 DEF rr, aa
  <2>2. CASE i \in 1..Len(r)
    BY <1>2, <1>3, <1>4, <2>2 DEF rr, aa
  <2>. QED  BY <1>2, <2>1, <2>2
<1>6. Len(rr) = Len(r) + 1 /\ Len(aa) = Len(r) + 1
  BY <1>2, <1>3, <1>4 DEF rr, aa
<1>7. Took(rr, aa)
  BY <1>2, <1>5, <1>6 DEF Took
<1>8. Waits(rr, <<>>, aa)
  BY <1>1, <1>2, <1>6 DEF Waits
<1>. QED  BY <1>7, <1>8 DEF InOrder, rr, aa

(* ... behind a queue: the message waits at its end. *)
LEMMA QueuedBehind ==
  ASSUME NEW r \in Seq(Letters), NEW o \in Seq(Frames), NEW a \in Seq(Frames),
         NEW m \in Frames, NEW p, InOrder(r, o, a, p)
  PROVE  InOrder(r, Append(o, m), Append(a, m), p)
<1>1. Took(r, Append(a, m))
  BY TookStays DEF InOrder
<1>2. ASSUME Waits(r, o, a) PROVE Waits(r, Append(o, m), Append(a, m))
  <2>1. /\ Len(a) = Len(r) + Len(o) /\ Len(r) \in Nat /\ Len(o) \in Nat
        /\ \A i \in 1..Len(o) : o[i] = a[Len(r) + i]
    BY <1>2, LenProperties DEF Waits
  <2>2. /\ Len(Append(o, m)) = Len(o) + 1 /\ Append(o, m)[Len(o) + 1] = m
        /\ \A i \in 1..Len(o) : Append(o, m)[i] = o[i]
    BY AppendProperties
  <2>3. /\ Len(Append(a, m)) = Len(a) + 1 /\ Append(a, m)[Len(a) + 1] = m
        /\ \A i \in 1..Len(a) : Append(a, m)[i] = a[i]
    BY AppendProperties
  <2>. DEFINE oo == Append(o, m)  aa == Append(a, m)
  <2>. HIDE DEF oo, aa
  <2>4. ASSUME NEW i \in 1..Len(o) + 1 PROVE oo[i] = aa[Len(r) + i]
    <3>1. CASE i = Len(o) + 1
      <4>1. Len(r) + i = Len(a) + 1
        BY <2>1, <3>1
      <4>. QED  BY <2>2, <2>3, <3>1, <4>1 DEF oo, aa
    <3>2. CASE i \in 1..Len(o)
      <4>1. Len(r) + i \in 1..Len(a)
        BY <2>1, <3>2
      <4>. QED  BY <2>1, <2>2, <2>3, <3>2, <4>1 DEF oo, aa
    <3>. QED  BY <2>1, <3>1, <3>2
  <2>5. Len(oo) = Len(o) + 1 /\ Len(aa) = Len(r) + Len(oo)
    BY <2>1, <2>2, <2>3 DEF oo, aa
  <2>6. Waits(r, oo, aa)
    BY <2>4, <2>5 DEF Waits
  <2>. QED  BY <2>6 DEF oo, aa
<1>. QED  BY <1>1, <1>2 DEF InOrder

(* The head of the queue leaves. *)
LEMMA DrainedInOrder ==
  ASSUME NEW r \in Seq(Letters), NEW o \in Seq(Frames), NEW a \in Seq(Frames), NEW p,
         p # "reset", o # <<>>, InOrder(r, o, a, p), NEW x \in Letters, x.body = Head(o)
  PROVE  InOrder(Append(r, x), Tail(o), a, p)
<1>1. /\ Len(a) = Len(r) + Len(o) /\ Len(r) \in Nat /\ Len(o) \in Nat
      /\ \A i \in 1..Len(r) : r[i].body = a[i]
      /\ \A i \in 1..Len(o) : o[i] = a[Len(r) + i]
  BY LenProperties DEF InOrder, Took, Waits
<1>2. /\ Head(o) = o[1] /\ Len(o) >= 1 /\ Len(Tail(o)) = Len(o) - 1
      /\ \A i \in 1..Len(o) - 1 : Tail(o)[i] = o[i + 1]
  BY <1>1, HeadTailProperties, EmptySeq
<1>3. /\ Len(Append(r, x)) = Len(r) + 1 /\ Append(r, x)[Len(r) + 1] = x
      /\ \A i \in 1..Len(r) : Append(r, x)[i] = r[i]
  BY AppendProperties
<1>. DEFINE rr == Append(r, x)  oo == Tail(o)
<1>. HIDE DEF rr, oo
<1>4. x.body = a[Len(r) + 1]
  <2>1. 1 \in 1..Len(o)
    BY <1>1, <1>2
  <2>. QED  BY <1>1, <1>2, <2>1
<1>5. ASSUME NEW i \in 1..Len(r) + 1 PROVE rr[i].body = a[i]
  <2>1. CASE i = Len(r) + 1
    BY <1>3, <1>4, <2>1 DEF rr
  <2>2. CASE i \in 1..Len(r)
    BY <1>1, <1>3, <2>2 DEF rr
  <2>. QED  BY <1>1, <2>1, <2>2
<1>6. ASSUME NEW i \in 1..Len(o) - 1 PROVE oo[i] = a[(Len(r) + 1) + i]
  <2>1. i + 1 \in 1..Len(o) /\ Len(r) + (i + 1) = (Len(r) + 1) + i
    BY <1>1
  <2>2. o[i + 1] = a[Len(r) + (i + 1)]
    BY <1>1, <2>1
  <2>. QED  BY <1>2, <2>1, <2>2 DEF oo
<1>7. Len(rr) = Len(r) + 1 /\ Len(oo) = Len(o) - 1
  BY <1>2, <1>3 DEF rr, oo
<1>8. Took(rr, a)
  BY <1>1, <1>2, <1>5, <1>7 DEF Took
<1>9. Waits(rr, oo, a)
  BY <1>1, <1>6, <1>7 DEF Waits
<1>. QED  BY <1>8, <1>9 DEF InOrder, rr, oo

(* A reset may lose the last of what was taken. *)
LEMMA ResetInOrder ==
  ASSUME NEW r \in Seq(Letters), NEW o, NEW a \in Seq(Frames), NEW p,
         InOrder(r, o, a, p), NEW n \in 0..Len(r), NEW q
  PROVE  InOrder(SubSeq(r, 1, n), q, a, "reset")
<1>1. Len(r) \in Nat /\ Len(a) \in Nat
  BY LenProperties
<1>. DEFINE t == SubSeq(r, 1, n)
<1>2. Len(t) = n /\ \A i \in 1..n : t[i] = r[i]
  BY Prefix
<1>. HIDE DEF t
<1>3. Took(t, a)
  BY <1>1, <1>2 DEF InOrder, Took
<1>. QED  BY <1>3 DEF InOrder, t

(* The same for every open connection: an invariant under another name. *)
OpenInOrder ==
  \A c \in Conns : handle[c] = "open" => InOrder(received[c], out[c], accepted[c], peer[c])

LEMMA PushInOrder ==
  ASSUME TypeOK, OpenInOrder, NEW c \in Conns, NEW m \in Frames, Push(c, m),
         NEW d \in Conns, handle[d] = "open"
  PROVE  InOrder(received'[d], out'[d], accepted'[d], peer[d])
<1>. USE DEF TypeOK
<1>1. InOrder(received[d], out[d], accepted[d], peer[d])
  BY DEF OpenInOrder
<1>2. CASE ~CanSend(c)
  BY <1>1, <1>2 DEF Push
<1>3. CASE CanSend(c)
  <2>1. Written(c, m) /\ accepted' = [accepted EXCEPT ![c] = Append(accepted[c], m)]
    BY <1>3 DEF Push
  <2>2. ASSUME out[c] = <<>>, peer[c] # "reset", Takes(c, m, TRUE), out' = out
        PROVE  InOrder(received'[d], out'[d], accepted'[d], peer[d])
    <3>. DEFINE letter == [body |-> m, intact |-> TRUE]
    <3>1. letter \in Letters /\ letter.body = m
      BY DEF Letters
    <3>2. received' = [received EXCEPT ![c] = Append(received[c], letter)]
      BY <2>2 DEF Takes
    <3>. HIDE DEF letter
    <3>3. CASE d = c
      <4>1. InOrder(Append(received[c], letter), <<>>, Append(accepted[c], m), peer[c])
        BY <1>1, <2>2, <3>1, <3>3, TakenAtOnce
      <4>. QED  BY <2>1, <2>2, <3>2, <3>3, <4>1
    <3>4. CASE d # c
      BY <1>1, <2>1, <2>2, <3>2, <3>4
    <3>. QED  BY <3>3, <3>4
  <2>3. CASE Queues(c, m) /\ received' = received
    <3>1. CASE d = c
      <4>1. InOrder(received[c], Append(out[c], m), Append(accepted[c], m), peer[c])
        BY <1>1, <3>1, QueuedBehind
      <4>. QED  BY <2>1, <2>3, <3>1, <4>1 DEF Queues
    <3>2. CASE d # c
      BY <1>1, <2>1, <2>3, <3>2 DEF Queues
    <3>. QED  BY <3>1, <3>2
  <2>4. ASSUME peer[c] = "reset", out' = out, received' = received
        PROVE  InOrder(received'[d], out'[d], accepted'[d], peer[d])
    <3>1. CASE d = c
      <4>1. Took(received[c], Append(accepted[c], m))
        BY <1>1, <3>1, TookStays DEF InOrder
      <4>. QED  BY <2>1, <2>4, <3>1, <4>1 DEF InOrder
    <3>2. CASE d # c
      BY <1>1, <2>1, <2>4, <3>2
    <3>. QED  BY <3>1, <3>2
  <2>. QED  BY <2>1, <2>2, <2>3, <2>4 DEF Written
<1>. QED  BY <1>2, <1>3

LEMMA OrderStep == TypeOK /\ OpenInOrder /\ [Next]_vars => OpenInOrder'
<1>. SUFFICES ASSUME TypeOK, OpenInOrder, [Next]_vars,
                     NEW d \in Conns, handle'[d] = "open"
              PROVE  InOrder(received'[d], out'[d], accepted'[d], peer'[d])
  BY DEF OpenInOrder
<1>. USE ServerAssumption DEF TypeOK, appVars, history
<1>. DEFINE Goal == InOrder(received'[d], out'[d], accepted'[d], peer'[d])
(* Steps that touch no write of a connection that is open afterwards. *)
<1>1. ASSUME handle[d] = "open", received' = received, out' = out, accepted' = accepted,
             peer' = peer
      PROVE  Goal
  BY <1>1 DEF OpenInOrder
<1>2. CASE Start \/ ListenerClosed \/ LoopEnds \/ CallbackReturns
  BY <1>1, <1>2 DEF Start, ListenerClosed, LoopEnds, CallbackReturns
<1>3. ASSUME NEW c \in Conns, OnNewConnection(c) PROVE Goal
  <2>1. CASE d = c
    <3>1. received'[d] = <<>> /\ out'[d] = <<>> /\ accepted'[d] = <<>>
      BY <1>3, <2>1 DEF OnNewConnection
    <3>. QED  BY <3>1, NothingInOrder
  <2>2. CASE d # c
    <3>1. /\ handle[d] = "open" /\ received'[d] = received[d] /\ out'[d] = out[d]
          /\ accepted'[d] = accepted[d] /\ peer'[d] = peer[d]
      BY <1>3, <2>2 DEF OnNewConnection
    <3>. QED  BY <3>1 DEF OpenInOrder
  <2>. QED  BY <2>1, <2>2
<1>4. ASSUME NEW c \in Conns, OnRead(c) PROVE Goal
  <2>1. handle' = handle /\ peer' = peer
    BY <1>4 DEF OnRead
  <2>2. UNCHANGED <<out, accepted, received>> \/ Push(c, Heartbeat)
    BY <1>4 DEF OnRead
  <2>3. Heartbeat \in Frames
    BY DEF Frames
  <2>. QED  BY <1>1, <2>1, <2>2, <2>3, PushInOrder
<1>5. ASSUME NEW c \in Conns, OnReadError(c) PROVE Goal
  BY <1>1, <1>5 DEF OnReadError, Closing
<1>6. ASSUME NEW c \in Conns, OnWrite(c) PROVE Goal
  <2>1. /\ out[c] # <<>> /\ out' = [out EXCEPT ![c] = Tail(out[c])]
        /\ handle' = handle /\ accepted' = accepted /\ peer' = peer
    BY <1>6 DEF OnWrite
  <2>2. InOrder(received[d], out[d], accepted[d], peer[d])
    BY <2>1 DEF OpenInOrder
  <2>3. ASSUME peer[c] = "reset", received' = received PROVE Goal
    <3>1. CASE d = c
      BY <2>1, <2>2, <2>3, <3>1 DEF InOrder
    <3>2. CASE d # c
      BY <2>1, <2>2, <2>3, <3>2
    <3>. QED  BY <3>1, <3>2
  <2>4. ASSUME peer[c] # "reset", NEW intact \in BOOLEAN, Takes(c, Head(out[c]), intact)
        PROVE  Goal
    <3>. DEFINE letter == [body |-> Head(out[c]), intact |-> intact]
    <3>1. Head(out[c]) \in Frames
      BY <2>1, HeadTailProperties
    <3>2. letter \in Letters /\ letter.body = Head(out[c])
      BY <3>1 DEF Letters
    <3>3. received' = [received EXCEPT ![c] = Append(received[c], letter)]
      BY <2>4 DEF Takes
    <3>. HIDE DEF letter
    <3>4. CASE d = c
      <4>1. InOrder(Append(received[c], letter), Tail(out[c]), accepted[c], peer[c])
        BY <2>1, <2>2, <2>4, <3>2, <3>4, DrainedInOrder
      <4>. QED  BY <2>1, <3>3, <3>4, <4>1
    <3>5. CASE d # c
      BY <2>1, <2>2, <3>3, <3>5
    <3>. QED  BY <3>4, <3>5
  <2>. QED  BY <1>6, <2>3, <2>4 DEF OnWrite
<1>7. ASSUME NEW c \in Conns, OnClose(c) PROVE Goal
  <2>1. /\ handle' = [handle EXCEPT ![c] = "free"] /\ out' = [out EXCEPT ![c] = <<>>]
        /\ received' = received /\ accepted' = accepted /\ peer' = peer
    BY <1>7 DEF OnClose
  <2>2. d # c /\ handle[d] = "open" /\ out'[d] = out[d]
    BY <2>1
  <2>. QED  BY <2>1, <2>2 DEF OpenInOrder
<1>8. ASSUME NEW m \in Msgs, AppSend(m) PROVE Goal
  <2>1. cb \in Conns /\ m \in Frames /\ Push(cb, m) /\ handle' = handle /\ peer' = peer
    BY <1>8 DEF AppSend, Frames
  <2>. QED  BY <2>1, PushInOrder
<1>9. CASE AppClose
  BY <1>1, <1>9 DEF AppClose, Closing
<1>10. CASE AppStop
  BY <1>1, <1>10 DEF AppStop, CloseAll, Abort, Closing
<1>11. CASE Destroy
  BY <1>1, <1>11 DEF Destroy, Abort
<1>12. ASSUME NEW c \in Conns, PeerCloses(c) PROVE Goal
  <2>1. /\ handle' = handle /\ received' = received /\ out' = out /\ accepted' = accepted
        /\ peer' = [peer EXCEPT ![c] = "gone"] /\ peer[c] = "there"
    BY <1>12 DEF PeerCloses
  <2>2. InOrder(received[d], out[d], accepted[d], peer[d])
    BY <2>1 DEF OpenInOrder
  <2>3. peer[d] # "reset" <=> peer'[d] # "reset"
    BY <2>1
  <2>. QED  BY <2>1, <2>2, <2>3 DEF InOrder
<1>13. ASSUME NEW c \in Conns, PeerResets(c) PROVE Goal
  <2>1. /\ handle' = handle /\ out' = out /\ accepted' = accepted
        /\ peer' = [peer EXCEPT ![c] = "reset"]
    BY <1>13 DEF PeerResets
  <2>2. PICK n \in 0..Len(received[c]) :
          received' = [received EXCEPT ![c] = SubSeq(received[c], 1, n)]
    BY <1>13 DEF PeerResets
  <2>3. InOrder(received[d], out[d], accepted[d], peer[d])
    BY <2>1 DEF OpenInOrder
  <2>4. CASE d = c
    <3>1. InOrder(SubSeq(received[c], 1, n), out[c], accepted[c], "reset")
      BY <2>3, <2>4, ResetInOrder
    <3>2. /\ received'[c] = SubSeq(received[c], 1, n) /\ peer'[c] = "reset"
          /\ out'[c] = out[c] /\ accepted'[c] = accepted[c]
      BY <2>1, <2>2
    <3>. QED  BY <2>4, <3>1, <3>2
  <2>5. CASE d # c
    BY <2>1, <2>2, <2>3, <2>5
  <2>. QED  BY <2>4, <2>5
<1>14. ASSUME NEW c \in Conns, Silence(c) PROVE Goal
  BY <1>1, <1>14 DEF Silence
<1>15. ASSUME NEW c \in Conns, NEW f \in Frames, PeerSends(c, f) PROVE Goal
  BY <1>1, <1>15 DEF PeerSends
<1>16. CASE UNCHANGED vars
  BY <1>1, <1>16 DEF vars
<1>. HIDE DEF Goal
<1>. QED
  BY <1>2, <1>3, <1>4, <1>5, <1>6, <1>7, <1>8, <1>9, <1>10, <1>11, <1>12, <1>13, <1>14,
     <1>15, <1>16 DEF Next, App, Peer, Served, Goal

(* What send() accepts leaves in the order of the calls, each message once,
   whatever the network and the application do: on a connection that breaks, the
   peer gets a first part of it. *)
THEOREM WritesKeepOrderHolds == Spec => []WritesKeepOrder
<1>1. Init => OpenInOrder
  BY DEF Init, OpenInOrder
<1>2. OpenInOrder => WritesKeepOrder
  BY DEF OpenInOrder, InOrder, Took, Waits, WritesKeepOrder
<1>. QED  BY <1>1, <1>2, OrderStep, ServerTypeCorrect, PTL DEF Spec

-----------------------------------------------------------------------------
(* What is delivered. *)

(* The unit at a place of the stream of the frames s. *)
UnitAt(s, j) == <<s[(j + 1) \div 2], IF j % 2 = 1 THEN "head" ELSE "tail">>

(* The wire w holds the last units of the stream of s. *)
Stream(w, s) ==
  /\ Len(w) <= 2 * Len(s)
  /\ \A i \in 1..Len(w) : w[i] = UnitAt(s, 2 * Len(s) - Len(w) + i)

(* The places of g that hold what was sent. *)
Whole(g) == {i \in DOMAIN g : g[i] # Garbage}

(* They are frames among the first p of s, in their order. *)
Delivered(g, s, p) ==
  \E place \in [Whole(g) -> 1..p] :
    \A i, j \in Whole(g) : g[i] = s[place[i]] /\ (i < j => place[i] < place[j])

(* The frames of s of which no unit is on the wire w. *)
Gone(w, s) == (2 * Len(s) - Len(w)) \div 2

(* What was not read yet is on the wire; the rest was delivered or dropped. *)
Mail(w, s, g) ==
  /\ Stream(w, s)
  /\ Delivered(g, s, Gone(w, s))
  /\ "split" \in Faults \/ Len(w) % 2 = 0

(* The inductive invariant behind DeliveredOnce. *)
MailInv == \A c \in Conns : handle[c] = "open" => Mail(wire[c], sent[c], got[c])

LEMMA DeliveredLater ==
  ASSUME NEW g, NEW s, NEW p \in Nat, NEW q \in Nat, p <= q, Delivered(g, s, p)
  PROVE  Delivered(g, s, q)
<1>1. PICK place \in [Whole(g) -> 1..p] :
        \A i, j \in Whole(g) : g[i] = s[place[i]] /\ (i < j => place[i] < place[j])
  BY DEF Delivered
<1>2. 1..p \subseteq 1..q
  OBVIOUS
<1>3. place \in [Whole(g) -> 1..q]
  BY <1>2
<1>. QED  BY <1>1, <1>3 DEF Delivered

LEMMA DeliveredNext ==
  ASSUME ServerAssumption, NEW g \in Seq(Bodies), NEW s \in Seq(Frames), NEW p \in Nat,
         p < Len(s), Delivered(g, s, p)
  PROVE  Delivered(Append(g, s[p + 1]), s, p + 1)
<1>1. PICK place \in [Whole(g) -> 1..p] :
        \A i, j \in Whole(g) : g[i] = s[place[i]] /\ (i < j => place[i] < place[j])
  BY DEF Delivered
<1>2. Len(g) \in Nat /\ DOMAIN g = 1..Len(g) /\ Len(s) \in Nat
  BY LenProperties
<1>. DEFINE m == s[p + 1]
            h == Append(g, m)
            last == Len(g) + 1
            next == [i \in Whole(h) |-> IF i = last THEN p + 1 ELSE place[i]]
<1>3. m \in Bodies /\ m # Garbage
  <2>1. p + 1 \in 1..Len(s)
    BY <1>2
  <2>. QED  BY <2>1, ElementOfSeq DEF Bodies, ServerAssumption
<1>4. /\ DOMAIN h = 1..last /\ h[last] = m
      /\ \A i \in 1..Len(g) : h[i] = g[i]
  <2>1. /\ h \in Seq(Bodies) /\ Len(h) = Len(g) + 1 /\ h[Len(g) + 1] = m
        /\ \A i \in 1..Len(g) : h[i] = g[i]
    BY <1>3, AppendProperties
  <2>. HIDE DEF h
  <2>. QED  BY <2>1, LenProperties
<1>. HIDE DEF h, m
<1>5. Whole(h) = Whole(g) \cup {last} /\ Whole(g) \subseteq 1..Len(g)
  BY <1>2, <1>3, <1>4 DEF Whole
<1>6. \A i \in Whole(g) : i # last /\ i < last /\ i \in 1..Len(g) /\ place[i] \in 1..p
  BY <1>1, <1>2, <1>5
<1>7. next[last] = p + 1 /\ \A i \in Whole(g) : next[i] = place[i]
  BY <1>5, <1>6
<1>8. next \in [Whole(h) -> 1..p + 1]
  BY <1>5, <1>6
<1>. HIDE DEF next
<1>9. ASSUME NEW i \in Whole(h) PROVE h[i] = s[next[i]]
  <2>1. CASE i = last
    BY <1>4, <1>7, <2>1 DEF m
  <2>2. CASE i \in Whole(g)
    BY <1>1, <1>4, <1>6, <1>7, <2>2
  <2>. QED  BY <1>5, <2>1, <2>2
<1>10. ASSUME NEW i \in Whole(h), NEW j \in Whole(h), i < j PROVE next[i] < next[j]
  <2>1. i \in Whole(g)
    <3>1. ASSUME i = last, j \in Whole(g) PROVE FALSE
      BY <1>2, <1>6, <1>10, <3>1
    <3>2. ASSUME i = last, j = last PROVE FALSE
      BY <1>2, <1>10, <3>2
    <3>. QED  BY <1>5, <3>1, <3>2
  <2>2. CASE j = last
    BY <1>6, <1>7, <2>1, <2>2
  <2>3. CASE j \in Whole(g)
    BY <1>1, <1>7, <1>10, <2>1, <2>3
  <2>. QED  BY <1>5, <2>2, <2>3
<1>11. Delivered(h, s, p + 1)
  BY <1>8, <1>9, <1>10 DEF Delivered
<1>. QED  BY <1>11 DEF h, m

LEMMA GarbageIsNotMail ==
  ASSUME NEW g \in Seq(Bodies), NEW s, NEW p \in Nat, Delivered(g, s, p)
  PROVE  Delivered(Append(g, Garbage), s, p)
<1>. DEFINE h == Append(g, Garbage)
<1>1. Len(g) \in Nat /\ DOMAIN g = 1..Len(g) /\ Garbage \in Bodies
  BY LenProperties DEF Bodies
<1>2. /\ DOMAIN h = 1..Len(g) + 1 /\ h[Len(g) + 1] = Garbage
      /\ \A i \in 1..Len(g) : h[i] = g[i]
  <2>1. /\ h \in Seq(Bodies) /\ Len(h) = Len(g) + 1 /\ h[Len(g) + 1] = Garbage
        /\ \A i \in 1..Len(g) : h[i] = g[i]
    BY <1>1, AppendProperties
  <2>. HIDE DEF h
  <2>. QED  BY <2>1, LenProperties
<1>. HIDE DEF h
<1>3. Whole(h) = Whole(g) /\ \A i \in Whole(g) : h[i] = g[i]
  BY <1>1, <1>2 DEF Whole
<1>4. Delivered(h, s, p)
  BY <1>3 DEF Delivered
<1>. QED  BY <1>4 DEF h

(* A new connection. *)
LEMMA NoMail == Mail(<<>>, <<>>, <<>>)
<1>1. Len(<<>>) = 0 /\ DOMAIN <<>> = {} /\ (2 * 0 - 0) \div 2 = 0 /\ 0 % 2 = 0
  OBVIOUS
<1>2. Stream(<<>>, <<>>)
  BY <1>1 DEF Stream
<1>3. Delivered(<<>>, <<>>, 0)
  <2>1. Whole(<<>>) = {}
    BY <1>1 DEF Whole
  <2>2. <<>> \in [{} -> 1..0]
    OBVIOUS
  <2>. QED  BY <2>1, <2>2 DEF Delivered
<1>4. Gone(<<>>, <<>>) = 0
  BY <1>1 DEF Gone
<1>. QED  BY <1>1, <1>2, <1>3, <1>4 DEF Mail

(* The peer sends a frame. *)
LEMMA MailSent ==
  ASSUME NEW w \in Seq(Units), NEW s \in Seq(Frames), NEW g \in Seq(Bodies),
         NEW f \in Frames, Mail(w, s, g)
  PROVE  Mail(w \o << <<f, "head">>, <<f, "tail">> >>, Append(s, f), g)
<1>. DEFINE pair == << <<f, "head">>, <<f, "tail">> >>
            v == w \o pair
            t == Append(s, f)
            b == 2 * Len(s) - Len(w)
<1>1. /\ Len(s) \in Nat /\ Len(w) \in Nat /\ Len(w) <= 2 * Len(s)
      /\ \A i \in 1..Len(w) : w[i] = UnitAt(s, b + i)
  BY LenProperties DEF Mail, Stream
<1>2. /\ Len(t) = Len(s) + 1 /\ t[Len(s) + 1] = f
      /\ \A i \in 1..Len(s) : t[i] = s[i]
  BY AppendProperties
<1>3. /\ pair \in Seq(Units) /\ Len(pair) = 2
      /\ pair[1] = <<f, "head">> /\ pair[2] = <<f, "tail">>
  BY DEF Units
<1>. HIDE DEF pair, t
<1>4. /\ Len(v) = Len(w) + 2
      /\ \A i \in 1..Len(w) + 2 : v[i] = IF i <= Len(w) THEN w[i] ELSE pair[i - Len(w)]
  <2>1. Len(v) = Len(w) + Len(pair)
    BY <1>3, ConcatProperties
  <2>2. \A i \in 1..Len(w) + Len(pair) :
          v[i] = IF i <= Len(w) THEN w[i] ELSE pair[i - Len(w)]
    BY <1>3, ConcatProperties
  <2>. HIDE DEF v
  <2>. QED  BY <1>3, <2>1, <2>2
<1>. HIDE DEF v
<1>5. 2 * Len(t) - Len(v) = b /\ Len(v) <= 2 * Len(t)
  BY <1>1, <1>2, <1>4
<1>6. ASSUME NEW i \in 1..Len(w) + 2 PROVE v[i] = UnitAt(t, b + i)
  <2>1. CASE i \in 1..Len(w)
    <3>1. (b + i + 1) \div 2 \in 1..Len(s)
      BY <1>1, <2>1
    <3>2. UnitAt(t, b + i) = UnitAt(s, b + i)
      BY <1>2, <3>1 DEF UnitAt
    <3>. QED  BY <1>1, <1>4, <2>1, <3>2
  <2>2. CASE i = Len(w) + 1
    <3>1. b + i = 2 * Len(s) + 1 /\ ~(i <= Len(w)) /\ i - Len(w) = 1
      BY <1>1, <2>2
    <3>2. (2 * Len(s) + 1 + 1) \div 2 = Len(s) + 1 /\ (2 * Len(s) + 1) % 2 = 1
      BY <1>1
    <3>. HIDE DEF b
    <3>3. UnitAt(t, b + i) = <<f, "head">>
      BY <1>2, <3>1, <3>2 DEF UnitAt
    <3>. QED  BY <1>3, <1>4, <3>1, <3>3
  <2>3. CASE i = Len(w) + 2
    <3>1. b + i = 2 * Len(s) + 2 /\ ~(i <= Len(w)) /\ i - Len(w) = 2
      BY <1>1, <2>3
    <3>2. (2 * Len(s) + 2 + 1) \div 2 = Len(s) + 1 /\ (2 * Len(s) + 2) % 2 = 0
      <4>1. ASSUME NEW x \in Nat PROVE (2 * x + 2 + 1) \div 2 = x + 1
        OBVIOUS
      <4>2. ASSUME NEW x \in Nat PROVE (2 * x + 2) % 2 = 0
        OBVIOUS
      <4>. QED  BY <1>1, <4>1, <4>2
    <3>. HIDE DEF b
    <3>3. UnitAt(t, b + i) = <<f, "tail">>
      BY <1>2, <3>1, <3>2 DEF UnitAt
    <3>. QED  BY <1>3, <1>4, <3>1, <3>3
  <2>4. i \in 1..Len(w) \/ i = Len(w) + 1 \/ i = Len(w) + 2
    <3>1. ASSUME NEW x \in Nat, NEW k \in 1..x + 2
          PROVE  k \in 1..x \/ k = x + 1 \/ k = x + 2
      OBVIOUS
    <3>. QED  BY <1>1, <3>1
  <2>. HIDE DEF b
  <2>. QED  BY <2>1, <2>2, <2>3, <2>4
<1>7. Stream(v, t)
  BY <1>4, <1>5, <1>6 DEF Stream
<1>8. Gone(v, t) = b \div 2 /\ Gone(w, s) = b \div 2 /\ b \div 2 \in 0..Len(s)
  BY <1>1, <1>5 DEF Gone
<1>9. Delivered(g, t, b \div 2)
  <2>. DEFINE k == b \div 2
  <2>1. k \in 0..Len(s) /\ Delivered(g, s, k)
    BY <1>8 DEF Mail
  <2>. HIDE DEF k
  <2>2. PICK place \in [Whole(g) -> 1..k] :
          \A i, j \in Whole(g) : g[i] = s[place[i]] /\ (i < j => place[i] < place[j])
    BY <2>1 DEF Delivered
  <2>3. \A i \in Whole(g) : place[i] \in 1..Len(s)
    BY <1>1, <2>1, <2>2
  <2>4. \A i, j \in Whole(g) : g[i] = t[place[i]] /\ (i < j => place[i] < place[j])
    BY <1>2, <2>2, <2>3
  <2>5. Delivered(g, t, k)
    BY <2>2, <2>4 DEF Delivered
  <2>. QED  BY <2>5 DEF k
<1>10. "split" \in Faults \/ Len(v) % 2 = 0
  BY <1>1, <1>4 DEF Mail
<1>11. Mail(v, t, g)
  BY <1>7, <1>8, <1>9, <1>10 DEF Mail
<1>. QED  BY <1>11 DEF v, t, pair

(* What a read takes and what it leaves. *)
LEMMA Cut ==
  ASSUME NEW w \in Seq(Units), NEW n \in 1..Len(w)
  PROVE  /\ Len(SubSeq(w, 1, n)) = n /\ SubSeq(w, 1, n)[1] = w[1]
         /\ SubSeq(w, n + 1, Len(w)) \in Seq(Units)
         /\ Len(SubSeq(w, n + 1, Len(w))) = Len(w) - n
         /\ \A i \in 1..Len(w) - n : SubSeq(w, n + 1, Len(w))[i] = w[n + i]
<1>. DEFINE v == SubSeq(w, n + 1, Len(w))
<1>1. Len(w) \in Nat /\ \A i \in 1..Len(w) : w[i] \in Units
  BY LenProperties, ElementOfSeq
<1>2. Len(SubSeq(w, 1, n)) = n /\ SubSeq(w, 1, n)[1] = w[1]
  <2>1. n \in 0..Len(w) /\ 1 \in 1..n
    BY <1>1
  <2>. QED  BY <2>1, Prefix
<1>3. n + 1 \in Int /\ Len(w) \in Int /\ \A i \in n + 1..Len(w) : w[i] \in Units
  BY <1>1
<1>4. /\ v \in Seq(Units) /\ Len(v) = IF n + 1 <= Len(w) THEN Len(w) - (n + 1) + 1 ELSE 0
      /\ \A i \in 1..Len(w) - (n + 1) + 1 : v[i] = w[(n + 1) + i - 1]
  BY <1>3, SubSeqProperties
<1>. HIDE DEF v
<1>5. Len(v) = Len(w) - n /\ \A i \in 1..Len(w) - n : v[i] = w[n + i]
  <2>1. Len(w) - (n + 1) + 1 = Len(w) - n /\ (n + 1 <= Len(w) \/ Len(w) - n = 0)
    BY <1>1
  <2>2. \A i \in 1..Len(w) - n : (n + 1) + i - 1 = n + i
    BY <1>1
  <2>. QED  BY <1>4, <2>1, <2>2
<1>. QED  BY <1>2, <1>4, <1>5 DEF v

(* A read: what begins with a head is its frame when the tail is there too; what
   begins with a tail is nothing, or what was never sent. *)
LEMMA MailRead ==
  ASSUME ServerAssumption, NEW w \in Seq(Units), NEW s \in Seq(Frames),
         NEW g \in Seq(Bodies), NEW n \in 1..Len(w),
         "split" \in Faults \/ w[n][2] = "tail", Mail(w, s, g),
         NEW m \in Decode(SubSeq(w, 1, n))
  PROVE  /\ Mail(SubSeq(w, n + 1, Len(w)), s, g)
         /\ m \notin {Empty, Heartbeat} => Mail(SubSeq(w, n + 1, Len(w)), s, Append(g, m))
<1>. DEFINE v == SubSeq(w, n + 1, Len(w))
            b == 2 * Len(s) - Len(w)
<1>1. /\ Len(s) \in Nat /\ Len(w) \in Nat /\ Len(w) <= 2 * Len(s)
      /\ \A i \in 1..Len(w) : w[i] = UnitAt(s, b + i)
  BY LenProperties DEF Mail, Stream
<1>2. Len(v) = Len(w) - n /\ \A i \in 1..Len(w) - n : v[i] = w[n + i]
  BY Cut
<1>. HIDE DEF v
<1>3. 2 * Len(s) - Len(v) = b + n /\ b \in Nat
  BY <1>1, <1>2
<1>4. Stream(v, s)
  <2>1. \A i \in 1..Len(w) - n : n + i \in 1..Len(w) /\ b + (n + i) = (b + n) + i
    BY <1>1, <1>3
  <2>2. \A i \in 1..Len(v) : v[i] = UnitAt(s, (b + n) + i)
    BY <1>1, <1>2, <2>1
  <2>3. Len(v) <= 2 * Len(s)
    BY <1>1, <1>2
  <2>. QED  BY <1>3, <2>2, <2>3 DEF Stream
<1>5. Gone(w, s) = b \div 2 /\ Gone(v, s) = (b + n) \div 2
  BY <1>3 DEF Gone
<1>6. b \div 2 \in Nat /\ (b + n) \div 2 \in Nat /\ b \div 2 <= (b + n) \div 2
  BY <1>1, <1>3
<1>7. Delivered(g, s, b \div 2)
  BY <1>5 DEF Mail
<1>8. "split" \in Faults \/ Len(v) % 2 = 0
  <2>. SUFFICES ASSUME w[n][2] = "tail" PROVE Len(v) % 2 = 0
    OBVIOUS
  <2>1. (b + n) % 2 # 1
    BY <1>1 DEF UnitAt
  <2>. QED  BY <1>1, <1>2, <1>3, <2>1
<1>9. Mail(v, s, g)
  <2>1. Delivered(g, s, (b + n) \div 2)
    BY <1>6, <1>7, DeliveredLater
  <2>. QED  BY <1>4, <1>5, <1>8, <2>1 DEF Mail
<1>10. ASSUME m \notin {Empty, Heartbeat} PROVE Mail(v, s, Append(g, m))
  <2>1. Delivered(Append(g, m), s, (b + n) \div 2)
    <3>1. CASE w[1][2] = "tail"
      <4>1. m = Garbage
        BY <1>10, <3>1, Cut DEF Decode
      <4>2. Delivered(Append(g, m), s, b \div 2)
        BY <1>6, <1>7, <4>1, GarbageIsNotMail
      <4>. QED  BY <1>6, <4>2, DeliveredLater
    <3>2. CASE w[1][2] # "tail"
      <4>1. n >= 2 /\ m = w[1][1]
        BY <1>1, <1>10, <3>2, Cut DEF Decode
      <4>2. w[1] = UnitAt(s, b + 1)
        BY <1>1
      <4>3. (b + 1) % 2 = 1
        BY <3>2, <4>2 DEF UnitAt
      <4>4. /\ (b + 1 + 1) \div 2 = b \div 2 + 1 /\ b \div 2 < Len(s)
            /\ b \div 2 + 1 <= (b + n) \div 2 /\ b \div 2 + 1 \in Nat
        BY <1>1, <1>3, <4>1, <4>3
      <4>5. m = s[b \div 2 + 1]
        BY <4>1, <4>2, <4>4 DEF UnitAt
      <4>6. Delivered(Append(g, m), s, b \div 2 + 1)
        BY <1>6, <1>7, <4>4, <4>5, DeliveredNext
      <4>. QED  BY <1>6, <4>4, <4>6, DeliveredLater
    <3>. QED  BY <3>1, <3>2
  <2>. QED  BY <1>4, <1>5, <1>8, <2>1 DEF Mail
<1>. QED  BY <1>9, <1>10 DEF v

(* A reset drops what is on the wire. *)
LEMMA MailReset ==
  ASSUME NEW w \in Seq(Units), NEW s \in Seq(Frames), NEW g, Mail(w, s, g)
  PROVE  Mail(<<>>, s, g)
<1>1. Len(s) \in Nat /\ Len(w) \in Nat /\ Len(w) <= 2 * Len(s) /\ Len(<<>>) = 0
  BY LenProperties DEF Mail, Stream
<1>2. Gone(w, s) \in Nat /\ Gone(<<>>, s) \in Nat /\ Gone(w, s) <= Gone(<<>>, s)
  BY <1>1 DEF Gone
<1>3. Delivered(g, s, Gone(<<>>, s))
  BY <1>2, DeliveredLater DEF Mail
<1>4. Stream(<<>>, s)
  BY <1>1 DEF Stream
<1>5. 0 % 2 = 0
  OBVIOUS
<1>. QED  BY <1>1, <1>3, <1>4, <1>5 DEF Mail

LEMMA MailStep == TypeOK /\ MailInv /\ [Next]_vars => MailInv'
<1>. SUFFICES ASSUME TypeOK, MailInv, [Next]_vars,
                     NEW d \in Conns, handle'[d] = "open"
              PROVE  Mail(wire'[d], sent'[d], got'[d])
  BY DEF MailInv
<1>. USE ServerAssumption DEF TypeOK, appVars, history
(* Steps that touch neither the wire nor what is delivered. *)
<1>1. ASSUME handle[d] = "open", wire'[d] = wire[d], sent'[d] = sent[d], got'[d] = got[d]
      PROVE  Mail(wire'[d], sent'[d], got'[d])
  BY <1>1 DEF MailInv
<1>2. CASE Start \/ ListenerClosed \/ LoopEnds \/ CallbackReturns
  BY <1>1, <1>2 DEF Start, ListenerClosed, LoopEnds, CallbackReturns
<1>3. ASSUME NEW c \in Conns, OnNewConnection(c)
      PROVE  Mail(wire'[d], sent'[d], got'[d])
  <2>1. CASE d = c
    <3>1. wire'[d] = <<>> /\ sent'[d] = <<>> /\ got'[d] = <<>>
      BY <1>3, <2>1 DEF OnNewConnection
    <3>. QED  BY <3>1, NoMail
  <2>2. CASE d # c
    <3>1. /\ handle[d] = "open" /\ wire'[d] = wire[d] /\ sent'[d] = sent[d]
          /\ got'[d] = got[d]
      BY <1>3, <2>2 DEF OnNewConnection
    <3>. QED  BY <1>1, <3>1
  <2>. QED  BY <2>1, <2>2
<1>4. ASSUME NEW c \in Conns, OnRead(c)
      PROVE  Mail(wire'[d], sent'[d], got'[d])
  <2>1. handle' = handle /\ sent' = sent
    BY <1>4 DEF OnRead
  <2>2. PICK n \in Readable(c) :
          /\ wire' = [wire EXCEPT ![c] = SubSeq(wire[c], n + 1, Len(wire[c]))]
          /\ \E m \in Decode(SubSeq(wire[c], 1, n)) :
               \/ got' = got
               \/ m \notin {Empty, Heartbeat} /\ got' = [got EXCEPT ![c] = Append(got[c], m)]
    BY <1>4 DEF OnRead
  <2>3. CASE d # c
    BY <1>1, <2>1, <2>2, <2>3
  <2>4. CASE d = c
    <3>1. n \in 1..Len(wire[c]) /\ ("split" \in Faults \/ wire[c][n][2] = "tail")
      BY DEF Readable
    <3>2. Mail(wire[c], sent[c], got[c])
      BY <2>1, <2>4 DEF MailInv
    <3>. DEFINE v == SubSeq(wire[c], n + 1, Len(wire[c]))
    <3>3. PICK m \in Decode(SubSeq(wire[c], 1, n)) :
            \/ got' = got
            \/ m \notin {Empty, Heartbeat} /\ got' = [got EXCEPT ![c] = Append(got[c], m)]
      BY <2>2
    <3>4. /\ Mail(v, sent[c], got[c])
          /\ m \notin {Empty, Heartbeat} => Mail(v, sent[c], Append(got[c], m))
      BY <3>1, <3>2, MailRead
    <3>5. wire'[c] = v /\ sent'[c] = sent[c]
      BY <2>1, <2>2
    <3>. HIDE DEF v
    <3>6. \/ got'[c] = got[c]
          \/ m \notin {Empty, Heartbeat} /\ got'[c] = Append(got[c], m)
      <4>1. CASE got' = got
        <5>1. got'[c] = got[c]
          BY <4>1
        <5>. QED  BY <5>1
      <4>2. CASE m \notin {Empty, Heartbeat} /\ got' = [got EXCEPT ![c] = Append(got[c], m)]
        <5>1. got'[c] = Append(got[c], m)
          BY <4>2
        <5>. QED  BY <4>2, <5>1
      <4>. QED  BY <3>3, <4>1, <4>2
    <3>. QED  BY <2>4, <3>4, <3>5, <3>6
  <2>. QED  BY <2>3, <2>4
<1>5. ASSUME NEW c \in Conns, OnReadError(c) \/ OnWrite(c) \/ OnClose(c)
      PROVE  Mail(wire'[d], sent'[d], got'[d])
  <2>1. handle[d] = "open" /\ UNCHANGED <<wire, sent, got>>
    BY <1>5 DEF OnReadError, OnWrite, OnClose, Closing
  <2>. QED  BY <1>1, <2>1
<1>6. ASSUME NEW m \in Msgs, AppSend(m)
      PROVE  Mail(wire'[d], sent'[d], got'[d])
  BY <1>1, <1>6 DEF AppSend
<1>7. CASE AppClose \/ AppStop \/ Destroy
  <2>1. handle[d] = "open" /\ UNCHANGED <<wire, sent, got>>
    BY <1>7 DEF AppClose, AppStop, Destroy, CloseAll, Abort, Closing
  <2>. QED  BY <1>1, <2>1
<1>8. ASSUME NEW c \in Conns, PeerResets(c)
      PROVE  Mail(wire'[d], sent'[d], got'[d])
  <2>1. handle[d] = "open" /\ UNCHANGED <<sent, got>>
    BY <1>8 DEF PeerResets
  <2>2. wire' = wire \/ wire' = [wire EXCEPT ![c] = <<>>]
    BY <1>8 DEF PeerResets
  <2>3. CASE wire'[d] = wire[d]
    BY <1>1, <2>1, <2>3
  <2>4. CASE wire'[d] = <<>>
    <3>1. /\ Mail(wire[d], sent[d], got[d]) /\ sent[d] \in Seq(Frames)
          /\ wire[d] \in Seq(Units)
      BY <2>1 DEF MailInv
    <3>. QED  BY <2>1, <2>4, <3>1, MailReset
  <2>. QED  BY <2>2, <2>3, <2>4
<1>9. ASSUME NEW c \in Conns, Silence(c) \/ PeerCloses(c)
      PROVE  Mail(wire'[d], sent'[d], got'[d])
  BY <1>1, <1>9 DEF Silence, PeerCloses
<1>10. ASSUME NEW c \in Conns, NEW f \in Frames, PeerSends(c, f)
       PROVE  Mail(wire'[d], sent'[d], got'[d])
  <2>1. handle[d] = "open" /\ got' = got
    BY <1>10 DEF PeerSends
  <2>2. /\ sent' = [sent EXCEPT ![c] = Append(sent[c], f)]
        /\ wire' = [wire EXCEPT ![c] = wire[c] \o << <<f, "head">>, <<f, "tail">> >>]
    BY <1>10 DEF PeerSends
  <2>3. CASE d # c
    BY <1>1, <2>1, <2>2, <2>3
  <2>4. CASE d = c
    <3>1. Mail(wire[c], sent[c], got[c])
      BY <2>1, <2>4 DEF MailInv
    <3>2. Mail(wire[c] \o << <<f, "head">>, <<f, "tail">> >>, Append(sent[c], f), got[c])
      BY <3>1, MailSent
    <3>. QED  BY <2>1, <2>2, <2>4, <3>2
  <2>. QED  BY <2>3, <2>4
<1>11. CASE UNCHANGED vars
  BY <1>1, <1>11 DEF vars
<1>. QED
  BY <1>2, <1>3, <1>4, <1>5, <1>6, <1>7, <1>8, <1>9, <1>10, <1>11
     DEF Next, App, Peer, Served

LEMMA MailDelivers == TypeOK /\ MailInv => DeliveredOnce
<1>. SUFFICES ASSUME TypeOK, MailInv, NEW c \in Conns, handle[c] = "open"
              PROVE  \E place \in [Whole(got[c]) -> DOMAIN sent[c]] :
                       \A i, j \in Whole(got[c]) :
                         got[c][i] = sent[c][place[i]] /\ (i < j => place[i] < place[j])
  BY DEF DeliveredOnce, Whole
<1>1. sent[c] \in Seq(Frames) /\ wire[c] \in Seq(Units)
  BY DEF TypeOK
<1>2. /\ Len(sent[c]) \in Nat /\ DOMAIN sent[c] = 1..Len(sent[c]) /\ Len(wire[c]) \in Nat
  BY <1>1, LenProperties
<1>3. Len(wire[c]) <= 2 * Len(sent[c]) /\ Delivered(got[c], sent[c], Gone(wire[c], sent[c]))
  BY DEF MailInv, Mail, Stream
<1>4. Delivered(got[c], sent[c], Len(sent[c]))
  <2>1. Gone(wire[c], sent[c]) \in Nat /\ Gone(wire[c], sent[c]) <= Len(sent[c])
    <3>1. ASSUME NEW x \in Nat, NEW y \in Nat, y <= 2 * x
          PROVE  (2 * x - y) \div 2 \in Nat /\ (2 * x - y) \div 2 <= x
      <4>. DEFINE z == 2 * x - y
      <4>1. z \in Nat /\ z <= 2 * x
        BY <3>1
      <4>. HIDE DEF z
      <4>2. z \div 2 \in Nat /\ z \div 2 <= x
        BY <4>1
      <4>. QED  BY <4>2 DEF z
    <3>. QED  BY <1>2, <1>3, <3>1 DEF Gone
  <2>. QED  BY <1>2, <1>3, <2>1, DeliveredLater
<1>. QED  BY <1>2, <1>4 DEF Delivered

(* However the stream is cut into reads, the application gets bodies that the
   peer sent, in order and none twice, and what was never sent at most besides. *)
THEOREM DeliveredOnceHolds == Spec => []DeliveredOnce
<1>1. Init => MailInv
  BY DEF Init, MailInv
<1>2. TypeOK /\ MailInv /\ [Next]_vars => MailInv'
  BY MailStep
<1>. QED  BY <1>1, <1>2, MailDelivers, ServerTypeCorrect, PTL DEF Spec

-----------------------------------------------------------------------------
(* The mailbox that the server implements. *)

(* The frames whose tail is among the units w, as Coming counts them. *)
FramesOf(w) == [i \in 1..((Len(w) + 1) \div 2) |-> w[2 * i - (Len(w) % 2)][1]]

LEMMA FramesOfUnits ==
  ASSUME NEW w \in Seq(Units)
  PROVE  /\ FramesOf(w) \in Seq(Frames) /\ Len(FramesOf(w)) = (Len(w) + 1) \div 2
         /\ \A i \in 1..((Len(w) + 1) \div 2) :
              /\ 2 * i - (Len(w) % 2) \in 1..Len(w)
              /\ FramesOf(w)[i] = w[2 * i - (Len(w) % 2)][1]
<1>1. Len(w) \in Nat /\ (Len(w) + 1) \div 2 \in Nat
  BY LenProperties
<1>2. \A i \in 1..((Len(w) + 1) \div 2) : 2 * i - (Len(w) % 2) \in 1..Len(w)
  <2>. SUFFICES ASSUME NEW x \in Nat, NEW i \in 1..((x + 1) \div 2)
                PROVE  2 * i - (x % 2) \in 1..x
    BY <1>1
  <2>. QED  OBVIOUS
<1>3. \A i \in 1..((Len(w) + 1) \div 2) : w[2 * i - (Len(w) % 2)][1] \in Frames
  <2>1. \A i \in 1..Len(w) : w[i] \in Units
    BY ElementOfSeq
  <2>. QED  BY <1>2, <2>1 DEF Units
<1>. DEFINE k == (Len(w) + 1) \div 2
<1>4. FramesOf(w) = [i \in 1..k |-> w[2 * i - (Len(w) % 2)][1]]
  BY DEF FramesOf
<1>. HIDE DEF k
<1>5. k \in Nat /\ \A i \in 1..k : w[2 * i - (Len(w) % 2)][1] \in Frames
  BY <1>1, <1>3 DEF k
<1>6. /\ FramesOf(w) \in Seq(Frames) /\ Len(FramesOf(w)) = k
      /\ \A i \in 1..k : FramesOf(w)[i] = w[2 * i - (Len(w) % 2)][1]
  BY <1>4, <1>5
<1>. QED  BY <1>2, <1>6 DEF k

LEMMA NoFrames == FramesOf(<<>>) = <<>>
<1>1. (Len(<<>>) + 1) \div 2 = 0 /\ <<>> \in Seq(Units)
  OBVIOUS
<1>2. FramesOf(<<>>) \in Seq(Frames) /\ Len(FramesOf(<<>>)) = 0
  BY <1>1, FramesOfUnits
<1>. QED  BY <1>2, EmptySeq

LEMMA Rounded ==
  ASSUME NEW x \in Nat
  PROVE  /\ (x + 1) \div 2 \in Nat /\ x % 2 \in Nat
         /\ 2 * ((x + 1) \div 2) = x + (x % 2)
OBVIOUS

(* A frame that is sent is the last of those that come. *)
LEMMA FramesSent ==
  ASSUME NEW w \in Seq(Units), NEW f \in Frames
  PROVE  FramesOf(w \o << <<f, "head">>, <<f, "tail">> >>) = Append(FramesOf(w), f)
<1>. DEFINE pair == << <<f, "head">>, <<f, "tail">> >>
            v == w \o pair
            a == FramesOf(w)  b == FramesOf(v)  t == Append(a, f)
<1>1. /\ pair \in Seq(Units) /\ Len(pair) = 2 /\ pair[2] = <<f, "tail">>
  BY DEF Units
<1>. HIDE DEF pair
<1>2. /\ Len(v) = Len(w) + 2 /\ v \in Seq(Units) /\ Len(w) \in Nat
      /\ \A i \in 1..Len(w) + 2 : v[i] = IF i <= Len(w) THEN w[i] ELSE pair[i - Len(w)]
  <2>1. Len(v) = Len(w) + Len(pair) /\ v \in Seq(Units) /\ Len(w) \in Nat
    BY <1>1, ConcatProperties, LenProperties
  <2>2. \A i \in 1..Len(w) + Len(pair) :
          v[i] = IF i <= Len(w) THEN w[i] ELSE pair[i - Len(w)]
    BY <1>1, ConcatProperties
  <2>. HIDE DEF v
  <2>. QED  BY <1>1, <2>1, <2>2
<1>. HIDE DEF v
<1>. DEFINE k == (Len(w) + 1) \div 2
            o == Len(w) % 2
<1>3. /\ k \in Nat /\ o \in Nat /\ (Len(v) + 1) \div 2 = k + 1 /\ Len(v) % 2 = o
      /\ 2 * (k + 1) - o = Len(w) + 2
  <2>1. ASSUME NEW x \in Nat
        PROVE  /\ (x + 1) \div 2 \in Nat /\ x % 2 \in Nat
               /\ (x + 2 + 1) \div 2 = (x + 1) \div 2 + 1
               /\ (x + 2) % 2 = x % 2
               /\ 2 * ((x + 1) \div 2 + 1) - (x % 2) = x + 2
    OBVIOUS
  <2>. QED  BY <1>2, <2>1
<1>4. /\ a \in Seq(Frames) /\ Len(a) = k
      /\ \A i \in 1..k : 2 * i - o \in 1..Len(w) /\ a[i] = w[2 * i - o][1]
  BY FramesOfUnits
<1>5. /\ b \in Seq(Frames) /\ Len(b) = k + 1
      /\ \A i \in 1..k + 1 : b[i] = v[2 * i - o][1]
  <2>. DEFINE kk == (Len(v) + 1) \div 2
              oo == Len(v) % 2
  <2>1. /\ b \in Seq(Frames) /\ Len(b) = kk
        /\ \A i \in 1..kk : b[i] = v[2 * i - oo][1]
    BY <1>2, FramesOfUnits
  <2>2. kk = k + 1 /\ oo = o
    BY <1>3
  <2>. HIDE DEF kk, oo, k, o, b
  <2>. QED  BY <2>1, <2>2
<1>. HIDE DEF a, b, k, o
<1>6. /\ t \in Seq(Frames) /\ Len(t) = k + 1 /\ t[k + 1] = f
      /\ \A i \in 1..k : t[i] = a[i]
  BY <1>4, AppendProperties
<1>. HIDE DEF t
<1>7. ASSUME NEW i \in 1..k + 1 PROVE b[i] = t[i]
  <2>1. CASE i \in 1..k
    <3>1. 2 * i - o \in 1..Len(w) /\ a[i] = w[2 * i - o][1] /\ t[i] = a[i]
      BY <1>4, <1>6, <2>1
    <3>2. v[2 * i - o] = w[2 * i - o]
      BY <1>2, <3>1
    <3>. QED  BY <1>5, <3>1, <3>2
  <2>2. CASE i = k + 1
    <3>1. 2 * i - o = Len(w) + 2
      BY <1>3, <2>2
    <3>2. v[Len(w) + 2] = pair[2]
      <4>1. Len(w) + 2 \in 1..Len(w) + 2 /\ ~(Len(w) + 2 <= Len(w)) /\ Len(w) + 2 - Len(w) = 2
        BY <1>2
      <4>. QED  BY <1>2, <4>1
    <3>. QED  BY <1>1, <1>5, <1>6, <2>2, <3>1, <3>2
  <2>. QED  BY <1>3, <2>1, <2>2
<1>8. b = t
  BY <1>5, <1>6, <1>7, SeqEqual
<1>. QED  BY <1>8 DEF a, b, t, v, pair

(* A read takes the first of the frames that come, as many as lose their tail. *)
LEMMA FramesRead ==
  ASSUME NEW w \in Seq(Units), NEW n \in 1..Len(w)
  PROVE  LET j == (Len(w) + 1) \div 2 - (Len(w) - n + 1) \div 2
         IN /\ j \in 0..Len(FramesOf(w))
            /\ FramesOf(SubSeq(w, n + 1, Len(w))) = SubSeq(FramesOf(w), j + 1, Len(FramesOf(w)))
<1>. DEFINE v == SubSeq(w, n + 1, Len(w))
            a == FramesOf(w)
            b == FramesOf(v)
            k == (Len(w) + 1) \div 2
            h == (Len(w) - n + 1) \div 2
            j == k - h
            t == SubSeq(a, j + 1, Len(a))
            o == Len(w) % 2
            q == (Len(w) - n) % 2
<1>1. Len(w) \in Nat /\ n \in Nat /\ n <= Len(w)
  BY LenProperties
<1>2. /\ v \in Seq(Units) /\ Len(v) = Len(w) - n
      /\ \A i \in 1..Len(w) - n : v[i] = w[n + i]
  BY Cut
<1>. HIDE DEF v
<1>3. /\ k \in Nat /\ h \in Nat /\ h <= k /\ o \in Nat /\ q \in Nat
      /\ n - q = 2 * j - o
  <2>1. ASSUME NEW x \in Nat, NEW y \in Nat, y <= x
        PROVE  /\ (x + 1) \div 2 \in Nat /\ (x - y + 1) \div 2 \in Nat
               /\ (x - y + 1) \div 2 <= (x + 1) \div 2
               /\ x % 2 \in Nat /\ (x - y) % 2 \in Nat
               /\ y - ((x - y) % 2) = 2 * ((x + 1) \div 2 - (x - y + 1) \div 2) - (x % 2)
    <3>. DEFINE z == x - y
    <3>1. z \in Nat /\ y = x - z
      BY <2>1
    <3>. HIDE DEF z
    <3>2. /\ (x + 1) \div 2 \in Nat /\ x % 2 \in Nat
          /\ 2 * ((x + 1) \div 2) = x + (x % 2)
      BY Rounded
    <3>3. /\ (z + 1) \div 2 \in Nat /\ z % 2 \in Nat
          /\ 2 * ((z + 1) \div 2) = z + (z % 2)
      BY <3>1, Rounded
    <3>4. (z + 1) \div 2 <= (x + 1) \div 2
      BY <2>1, <3>1
    <3>5. y - (z % 2) = 2 * ((x + 1) \div 2 - (z + 1) \div 2) - (x % 2)
      <4>. DEFINE A == (x + 1) \div 2
                  B == (z + 1) \div 2
                  C == x % 2
                  D == z % 2
      <4>1. A \in Nat /\ B \in Nat /\ C \in Nat /\ D \in Nat /\ 2 * A = x + C /\ 2 * B = z + D
        BY <3>2, <3>3
      <4>. HIDE DEF A, B, C, D
      <4>2. y - D = 2 * (A - B) - C
        BY <3>1, <4>1
      <4>. QED  BY <4>2 DEF A, B, C, D
    <3>. QED  BY <3>2, <3>3, <3>4, <3>5 DEF z
  <2>. QED  BY <1>1, <2>1
<1>4. /\ a \in Seq(Frames) /\ Len(a) = k
      /\ \A i \in 1..k : a[i] = w[2 * i - o][1]
  BY FramesOfUnits
<1>5. /\ b \in Seq(Frames) /\ Len(b) = h
      /\ \A i \in 1..h : 2 * i - q \in 1..Len(w) - n /\ b[i] = v[2 * i - q][1]
  <2>. DEFINE hh == (Len(v) + 1) \div 2
              qq == Len(v) % 2
  <2>1. /\ b \in Seq(Frames) /\ Len(b) = hh
        /\ \A i \in 1..hh : 2 * i - qq \in 1..Len(v) /\ b[i] = v[2 * i - qq][1]
    BY <1>2, FramesOfUnits
  <2>2. hh = h /\ qq = q /\ Len(v) = Len(w) - n
    BY <1>2
  <2>. HIDE DEF hh, qq, h, q, b
  <2>. QED  BY <2>1, <2>2
<1>. HIDE DEF a, b, k, h, o, q
<1>6. /\ t \in Seq(Frames) /\ Len(t) = h
      /\ \A i \in 1..h : t[i] = a[j + i]
  <2>1. j \in Nat /\ j + 1 \in Int /\ Len(a) \in Int
    BY <1>3, <1>4
  <2>2. \A i \in j + 1..Len(a) : a[i] \in Frames
    BY <1>4, <2>1, ElementOfSeq
  <2>3. /\ t \in Seq(Frames)
        /\ Len(t) = IF j + 1 <= Len(a) THEN Len(a) - (j + 1) + 1 ELSE 0
        /\ \A i \in 1..Len(a) - (j + 1) + 1 : t[i] = a[(j + 1) + i - 1]
    BY <2>1, <2>2, SubSeqProperties
  <2>4. /\ Len(a) - (j + 1) + 1 = h /\ (j + 1 <= Len(a) \/ h = 0)
        /\ \A i \in 1..h : (j + 1) + i - 1 = j + i
    BY <1>3, <1>4
  <2>. HIDE DEF t, j
  <2>. QED  BY <2>3, <2>4
<1>. HIDE DEF t
<1>7. ASSUME NEW i \in 1..h PROVE b[i] = t[i]
  <2>1. b[i] = v[2 * i - q][1] /\ 2 * i - q \in 1..Len(w) - n
    BY <1>5
  <2>2. v[2 * i - q] = w[n + (2 * i - q)]
    BY <1>2, <2>1
  <2>3. n + (2 * i - q) = 2 * (j + i) - o /\ j + i \in 1..k
    BY <1>1, <1>3
  <2>4. a[j + i] = w[2 * (j + i) - o][1]
    BY <1>4, <2>3
  <2>. QED  BY <1>6, <2>1, <2>2, <2>3, <2>4
<1>8. b = t
  BY <1>5, <1>6, <1>7, SeqEqual
<1>9. j \in 0..Len(a)
  BY <1>3, <1>4
<1>. QED  BY <1>8, <1>9 DEF t, a, b, v, k, h

LEMMA Parity ==
  ASSUME NEW x \in Nat, NEW y \in Nat, x <= 2 * y
  PROVE  /\ (2 * y - x + 1) % 2 = 1 => x % 2 = 0
         /\ (2 * y - x + 1) % 2 # 1 => x % 2 = 1
OBVIOUS

(* What a read hands over is the first frame that comes, or what reads make of
   frames that they split; a head alone is nothing, and its frame still comes. *)
LEMMA ReadHands ==
  ASSUME ServerAssumption, NEW w \in Seq(Units), NEW s \in Seq(Frames), NEW g,
         Mail(w, s, g), NEW n \in 1..Len(w), "split" \in Faults \/ w[n][2] = "tail",
         NEW m \in Decode(SubSeq(w, 1, n))
  PROVE  LET j == (Len(w) + 1) \div 2 - (Len(w) - n + 1) \div 2
         IN \/ j = 0 /\ m = Empty
            \/ /\ j \in 1..Len(FramesOf(w))
               /\ \/ m = Head(FramesOf(w))
                  \/ "split" \in Faults /\ m \in {Empty, Heartbeat, Garbage}
<1>. DEFINE j == (Len(w) + 1) \div 2 - (Len(w) - n + 1) \div 2
            b == 2 * Len(s) - Len(w)
<1>1. /\ Len(s) \in Nat /\ Len(w) \in Nat /\ Len(w) <= 2 * Len(s)
      /\ \A i \in 1..Len(w) : w[i] = UnitAt(s, b + i)
  BY LenProperties DEF Mail, Stream
<1>2. j \in 0..Len(FramesOf(w))
  BY FramesRead
<1>3. w[1] = UnitAt(s, b + 1)
  BY <1>1
<1>4. CASE w[1][2] = "tail"
  <2>1. m \in {Empty, Heartbeat, Garbage}
    BY <1>4, Cut DEF Decode
  <2>2. (b + 1) % 2 # 1
    BY <1>3, <1>4 DEF UnitAt
  <2>3. Len(w) % 2 = 1
    BY <1>1, <2>2, Parity
  <2>4. "split" \in Faults
    BY <2>3 DEF Mail
  <2>5. j >= 1
    <3>1. ASSUME NEW x \in Nat, NEW y \in 1..x, x % 2 = 1
          PROVE  (x + 1) \div 2 - (x - y + 1) \div 2 >= 1
      <4>. DEFINE z == x - y
                  A == (x + 1) \div 2
                  B == (z + 1) \div 2
      <4>1. z \in Nat /\ z + 1 <= x
        OBVIOUS
      <4>. HIDE DEF z
      <4>2. A \in Nat /\ 2 * A = x + 1
        BY <3>1, Rounded
      <4>3. B \in Nat /\ 2 * B = z + (z % 2) /\ z % 2 \in 0..1
        BY <4>1, Rounded
      <4>. HIDE DEF A, B
      <4>4. A - B >= 1
        BY <4>1, <4>2, <4>3
      <4>. QED  BY <4>4 DEF A, B, z
    <3>. QED  BY <1>1, <2>3, <3>1
  <2>. QED  BY <1>2, <2>1, <2>4, <2>5
<1>5. CASE w[1][2] # "tail"
  <2>1. (b + 1) % 2 = 1
    BY <1>3, <1>5 DEF UnitAt
  <2>2. Len(w) % 2 = 0
    BY <1>1, <2>1, Parity
  <2>3. CASE n < 2
    <3>1. m = Empty
      BY <1>5, <2>3, Cut DEF Decode
    <3>2. j = 0
      BY <1>1, <2>2, <2>3
    <3>. QED  BY <3>1, <3>2
  <2>4. CASE n >= 2
    <3>1. m = w[1][1]
      BY <1>1, <1>5, <2>4, Cut DEF Decode
    <3>2. j >= 1 /\ 2 \in 1..Len(w) /\ (Len(w) + 1) \div 2 >= 1
      BY <1>1, <2>2, <2>4
    <3>3. w[2] = UnitAt(s, b + 2)
      BY <1>1, <3>2
    <3>4. (b + 2 + 1) \div 2 = (b + 1 + 1) \div 2
      <4>1. ASSUME NEW x \in Nat, (x + 1) % 2 = 1
            PROVE  (x + 2 + 1) \div 2 = (x + 1 + 1) \div 2
        <5>1. x % 2 = 0
          BY <4>1
        <5>2. PICK k \in Nat : x = 2 * k
          <6>1. x \div 2 \in Nat /\ x = 2 * (x \div 2)
            BY <5>1
          <6>. QED  BY <6>1
        <5>3. (2 * k + 2 + 1) \div 2 = k + 1 /\ (2 * k + 1 + 1) \div 2 = k + 1
          OBVIOUS
        <5>. QED  BY <5>2, <5>3
      <4>2. b \in Nat
        BY <1>1
      <4>. HIDE DEF b
      <4>. QED  BY <2>1, <4>1, <4>2
    <3>5. m = w[2][1]
      BY <1>3, <3>1, <3>3, <3>4 DEF UnitAt
    <3>. DEFINE a == FramesOf(w)
    <3>6. a \in Seq(Frames) /\ a # <<>> /\ a[1] = w[2][1]
      <4>1. 1 \in 1..((Len(w) + 1) \div 2) /\ 2 * 1 - (Len(w) % 2) = 2
        BY <1>1, <2>2, <3>2
      <4>2. a \in Seq(Frames) /\ Len(a) >= 1 /\ a[1] = w[2 * 1 - (Len(w) % 2)][1]
        BY <3>2, <4>1, FramesOfUnits
      <4>. HIDE DEF a
      <4>. QED  BY <4>1, <4>2
    <3>. HIDE DEF a
    <3>7. Head(a) = a[1]
      BY <3>6
    <3>8. m = Head(FramesOf(w))
      BY <3>5, <3>6, <3>7 DEF a
    <3>. QED  BY <1>2, <3>2, <3>8
  <2>. QED  BY <1>1, <2>3, <2>4
<1>. QED  BY <1>4, <1>5

LEMMA ComingSet ==
  ASSUME TypeOK, NEW c \in Conns, NEW w, wire' = [wire EXCEPT ![c] = w]
  PROVE  Coming' = [Coming EXCEPT ![c] = FramesOf(w)]
<1>1. Coming = [d \in Conns |-> FramesOf(wire[d])]
  BY DEF Coming, FramesOf
<1>2. Coming' = [d \in Conns |-> FramesOf(wire'[d])]
  BY DEF Coming, FramesOf
<1>3. \A d \in Conns : wire'[d] = IF d = c THEN w ELSE wire[d]
  BY DEF TypeOK
<1>. QED  BY <1>1, <1>2, <1>3

(* What is sent on an open connection is refused by the map alone. *)
LEMMA OpenIsMapped ==
  ASSUME TypeOK, LifeInv, NEW c \in Conns, handle[c] = "open"
  PROVE  CanSend(c)
BY DEF TypeOK, LifeInv, MapIsExact, CanSend

LEMMA PushPosts ==
  ASSUME TypeOK, NEW c \in Conns, NEW m, Push(c, m)
  PROVE  \/ CanSend(c) /\ accepted' = [accepted EXCEPT ![c] = Append(accepted[c], m)]
         \/ ~CanSend(c) /\ accepted' = accepted
BY DEF Push

LEMMA ReadIsRead ==
  ASSUME ServerAssumption, TypeOK, LifeInv, MailInv, NEW c \in Conns, OnRead(c)
  PROVE  \/ \E j \in 1..Len(Coming[c]) : \E f \in Box!Handed(c) : Box!Read(c, j, f)
         \/ UNCHANGED <<Opened, Coming, got, accepted>>
<1>. USE ServerAssumption DEF TypeOK, appVars, history
<1>1. handle[c] = "open" /\ c \in Opened /\ Opened' = Opened
  BY DEF OnRead, Opened
<1>2. PICK n \in Readable(c) :
        /\ wire' = [wire EXCEPT ![c] = SubSeq(wire[c], n + 1, Len(wire[c]))]
        /\ \E m \in Decode(SubSeq(wire[c], 1, n)) :
             CASE m = Empty ->
                    UNCHANGED <<appVars, fresh, out, got, accepted, received>>
               [] m = Heartbeat ->
                    /\ Push(c, Heartbeat)
                    /\ fresh' = [fresh EXCEPT ![c] = c \in map \/ fresh[c]]
                    /\ UNCHANGED <<appVars, got>>
               [] OTHER ->
                    /\ got' = [got EXCEPT ![c] = Append(got[c], m)]
                    /\ cb' = c /\ left' = MaxCalls
                    /\ UNCHANGED <<fresh, out, accepted, received>>
  BY DEF OnRead
<1>3. /\ n \in 1..Len(wire[c]) /\ ("split" \in Faults \/ wire[c][n][2] = "tail")
      /\ wire[c] \in Seq(Units) /\ sent[c] \in Seq(Frames)
  BY DEF Readable
<1>4. Mail(wire[c], sent[c], got[c])
  BY <1>1 DEF MailInv
<1>5. Coming[c] = FramesOf(wire[c]) /\ Coming[c] \in Seq(Frames)
  <2>1. Coming[c] = FramesOf(wire[c])
    BY DEF Coming, FramesOf
  <2>. QED  BY <1>3, <2>1, FramesOfUnits
<1>6. PICK m \in Decode(SubSeq(wire[c], 1, n)) :
        CASE m = Empty ->
               UNCHANGED <<appVars, fresh, out, got, accepted, received>>
          [] m = Heartbeat ->
               /\ Push(c, Heartbeat)
               /\ fresh' = [fresh EXCEPT ![c] = c \in map \/ fresh[c]]
               /\ UNCHANGED <<appVars, got>>
          [] OTHER ->
               /\ got' = [got EXCEPT ![c] = Append(got[c], m)]
               /\ cb' = c /\ left' = MaxCalls
               /\ UNCHANGED <<fresh, out, accepted, received>>
  BY <1>2
<1>7. m \in Bodies
  BY <1>3, ReadFacts
<1>. DEFINE j == (Len(wire[c]) + 1) \div 2 - (Len(wire[c]) - n + 1) \div 2
<1>8. \/ j = 0 /\ m = Empty
      \/ j \in 1..Len(Coming[c]) /\ m \in Box!Handed(c)
  BY <1>3, <1>4, <1>5, ReadHands DEF Box!Handed
<1>9. Coming' = [Coming EXCEPT ![c] = SubSeq(Coming[c], j + 1, Len(Coming[c]))]
  <2>. DEFINE v == SubSeq(wire[c], n + 1, Len(wire[c]))
  <2>1. wire' = [wire EXCEPT ![c] = v]
    BY <1>2
  <2>2. FramesOf(v) = SubSeq(Coming[c], j + 1, Len(Coming[c]))
    BY <1>3, <1>5, FramesRead
  <2>. HIDE DEF v
  <2>3. Coming' = [Coming EXCEPT ![c] = FramesOf(v)]
    BY <2>1, ComingSet
  <2>. QED  BY <2>2, <2>3
<1>. HIDE DEF j
<1>10. /\ m = Empty => UNCHANGED <<got, accepted>>
       /\ m = Heartbeat => Push(c, Heartbeat) /\ UNCHANGED got
       /\ m \notin {Empty, Heartbeat} =>
            got' = [got EXCEPT ![c] = Append(got[c], m)] /\ UNCHANGED accepted
  BY <1>6 DEF ServerAssumption
<1>11. /\ got' = IF m \in Msgs \cup {Garbage} THEN [got EXCEPT ![c] = Append(got[c], m)] ELSE got
       /\ accepted' = IF m = Heartbeat THEN [accepted EXCEPT ![c] = Append(accepted[c], m)]
                      ELSE accepted
  <2>. USE DEF ServerAssumption
  <2>1. Garbage # Empty /\ Garbage # Heartbeat /\ Garbage \notin Msgs
    BY DEF Frames
  <2>2. CASE m = Empty
    BY <1>10, <2>1, <2>2
  <2>3. CASE m = Heartbeat
    <3>1. Push(c, Heartbeat) /\ UNCHANGED got
      BY <1>10, <2>3
    <3>2. accepted' = [accepted EXCEPT ![c] = Append(accepted[c], Heartbeat)]
      BY <1>1, <3>1, OpenIsMapped, PushPosts
    <3>. QED  BY <2>1, <2>3, <3>1, <3>2
  <2>4. CASE m \in Msgs \cup {Garbage}
    BY <1>10, <2>1, <2>4
  <2>. QED  BY <1>7, <2>2, <2>3, <2>4 DEF Bodies, Frames
<1>12. CASE j = 0 /\ m = Empty
  <2>1. Len(Coming[c]) \in Nat
    BY <1>5, LenProperties
  <2>2. SubSeq(Coming[c], 0 + 1, Len(Coming[c])) = Coming[c]
    <3>. DEFINE a == Coming[c]
                t == SubSeq(a, 1, Len(a))
    <3>1. a \in Seq(Frames) /\ Len(a) \in 0..Len(a)
      BY <1>5, <2>1
    <3>. HIDE DEF a
    <3>2. t \in Seq(Frames) /\ Len(t) = Len(a) /\ \A i \in 1..Len(a) : t[i] = a[i]
      BY <3>1, Prefix
    <3>. HIDE DEF t
    <3>3. t = a
      BY <3>1, <3>2, SeqEqual
    <3>. QED  BY <3>3 DEF t, a
  <2>3. Coming' = Coming
    <3>1. Coming' = [Coming EXCEPT ![c] = Coming[c]]
      BY <1>9, <1>12, <2>2
    <3>. QED  BY <3>1 DEF Coming
  <2>. QED  BY <1>1, <1>10, <1>12, <2>3
<1>13. CASE j \in 1..Len(Coming[c]) /\ m \in Box!Handed(c)
  <2>1. Box!Read(c, j, m)
    BY <1>1, <1>9, <1>11, <1>13 DEF Box!Read
  <2>. QED  BY <1>13, <2>1
<1>. QED  BY <1>8, <1>12, <1>13

LEMMA BoxStep ==
  ASSUME TypeOK, LifeInv, MailInv, [Next]_vars
  PROVE  [Box!Next]_(Box!mailVars)
<1>. SUFFICES Box!Next \/ UNCHANGED <<Opened, Coming, got, accepted>>
  BY DEF Box!mailVars
<1>. USE ServerAssumption DEF TypeOK, appVars, history
<1>. DEFINE Goal == Box!Next \/ UNCHANGED <<Opened, Coming, got, accepted>>
<1>1. ASSUME UNCHANGED <<handle, wire, got, accepted>> PROVE Goal
  BY <1>1 DEF Opened, Coming
(* Connections that close, together or one by one. *)
<1>2. ASSUME NEW C \in SUBSET Opened, handle' = Closing(C), UNCHANGED <<wire, got, accepted>>
      PROVE  Goal
  <2>1. Opened' = Opened \ C /\ Coming' = Coming
    BY <1>2 DEF Opened, Closing, Coming
  <2>2. Box!Close(C) /\ C \in SUBSET Conns
    BY <1>2, <2>1 DEF Box!Close, Opened
  <2>. QED  BY <2>2 DEF Box!Next
<1>3. CASE Start \/ ListenerClosed \/ LoopEnds \/ CallbackReturns
  BY <1>1, <1>3 DEF Start, ListenerClosed, LoopEnds, CallbackReturns
<1>4. ASSUME NEW c \in Conns, OnNewConnection(c) PROVE Goal
  <2>1. handle[c] = "free" /\ c \notin Opened
    BY <1>4 DEF OnNewConnection, Opened
  <2>2. CASE /\ handle' = [handle EXCEPT ![c] = "leaked"]
             /\ UNCHANGED <<map, fresh, wire, peer, out, appVars, history>>
    BY <2>1, <2>2 DEF Opened, Coming
  <2>3. CASE /\ handle' = [handle EXCEPT ![c] = "open"]
             /\ wire' = [wire EXCEPT ![c] = <<>>]
             /\ got' = [got EXCEPT ![c] = <<>>]
             /\ accepted' = [accepted EXCEPT ![c] = <<>>]
    <3>1. Opened' = Opened \cup {c}
      BY <2>3 DEF Opened
    <3>2. Coming' = [Coming EXCEPT ![c] = <<>>]
      BY <2>3, ComingSet, NoFrames
    <3>3. Box!Accept(c)
      BY <2>1, <2>3, <3>1, <3>2 DEF Box!Accept
    <3>. QED  BY <3>3 DEF Box!Next
  <2>. QED  BY <1>4, <2>2, <2>3 DEF OnNewConnection
<1>5. ASSUME NEW c \in Conns, OnRead(c) PROVE Goal
  BY <1>5, ReadIsRead DEF Box!Next
<1>6. ASSUME NEW c \in Conns, OnReadError(c) PROVE Goal
  BY <1>2, <1>6 DEF OnReadError, Opened
<1>7. ASSUME NEW c \in Conns, OnWrite(c) PROVE Goal
  BY <1>1, <1>7 DEF OnWrite
<1>8. ASSUME NEW c \in Conns, OnClose(c) PROVE Goal
  <2>1. Opened' = Opened /\ Coming' = Coming
    BY <1>8 DEF OnClose, Opened, Coming
  <2>. QED  BY <1>8, <2>1 DEF OnClose
<1>9. ASSUME NEW m \in Msgs, AppSend(m) PROVE Goal
  <2>1. cb \in Conns /\ Push(cb, m) /\ UNCHANGED <<handle, wire, got>>
    BY <1>9 DEF AppSend
  <2>2. Opened' = Opened /\ Coming' = Coming
    BY <2>1 DEF Opened, Coming
  <2>3. CASE accepted' = accepted
    BY <2>1, <2>2, <2>3
  <2>4. CASE CanSend(cb) /\ accepted' = [accepted EXCEPT ![cb] = Append(accepted[cb], m)]
    <3>1. cb \in Opened
      BY <2>1, <2>4 DEF CanSend, Opened
    <3>2. Box!Post(cb, m)
      BY <2>1, <2>2, <2>4, <3>1 DEF Box!Post
    <3>. QED  BY <2>1, <3>2 DEF Box!Next
  <2>. QED  BY <2>1, <2>3, <2>4, PushPosts
<1>10. CASE AppClose
  <2>1. cb \in Conns /\ cb \in Opened /\ handle' = Closing({cb})
    BY <1>10 DEF AppClose, Opened
  <2>. QED  BY <1>2, <1>10, <2>1 DEF AppClose
<1>11. CASE AppStop
  <2>1. CASE Abort
    BY <1>1, <2>1 DEF Abort
  <2>2. CASE /\ ~Stopped /\ \A c \in map : handle[c] # "closing"
             /\ handle' = Closing(map) /\ UNCHANGED <<wire, got, accepted>>
    <3>1. map \in SUBSET Opened
      BY <2>2 DEF LifeInv, MapIsExact, Opened
    <3>. QED  BY <1>2, <2>2, <3>1
  <2>. QED  BY <1>11, <2>1, <2>2 DEF AppStop, CloseAll
<1>12. CASE Destroy
  BY <1>1, <1>12 DEF Destroy, Abort
<1>13. ASSUME NEW c \in Conns, PeerResets(c) PROVE Goal
  <2>1. /\ c \in Opened /\ UNCHANGED <<handle, got, accepted>>
        /\ wire' = wire \/ wire' = [wire EXCEPT ![c] = <<>>]
    BY <1>13 DEF PeerResets, Opened
  <2>2. CASE wire' = wire
    BY <1>1, <2>1, <2>2
  <2>3. CASE wire' = [wire EXCEPT ![c] = <<>>]
    <3>1. Opened' = Opened /\ Coming' = [Coming EXCEPT ![c] = <<>>]
      BY <2>1, <2>3, ComingSet, NoFrames DEF Opened
    <3>2. Box!Break(c)
      BY <2>1, <3>1 DEF Box!Break
    <3>. QED  BY <3>2 DEF Box!Next
  <2>. QED  BY <2>1, <2>2, <2>3
<1>14. ASSUME NEW c \in Conns, Silence(c) \/ PeerCloses(c) PROVE Goal
  BY <1>1, <1>14 DEF Silence, PeerCloses
<1>15. ASSUME NEW c \in Conns, NEW f \in Frames, PeerSends(c, f) PROVE Goal
  <2>1. /\ handle[c] = "open" /\ UNCHANGED <<handle, got, accepted>>
        /\ wire' = [wire EXCEPT ![c] = wire[c] \o << <<f, "head">>, <<f, "tail">> >>]
    BY <1>15 DEF PeerSends
  <2>3. FramesOf(wire[c] \o << <<f, "head">>, <<f, "tail">> >>)
          = Append(FramesOf(wire[c]), f)
    BY FramesSent
  <2>4. Coming[c] = FramesOf(wire[c])
    BY DEF Coming, FramesOf
  <2>5. Coming' = [Coming EXCEPT ![c] = Append(Coming[c], f)]
    BY <2>1, <2>3, <2>4, ComingSet
  <2>6. c \in Opened /\ Opened' = Opened
    BY <2>1 DEF Opened
  <2>7. Box!Send(c, f)
    BY <2>1, <2>5, <2>6 DEF Box!Send
  <2>. QED  BY <2>7 DEF Box!Next, Box!Frames, Frames
<1>16. CASE UNCHANGED vars
  BY <1>1, <1>16 DEF vars
<1>. QED
  BY <1>3, <1>4, <1>5, <1>6, <1>7, <1>8, <1>9, <1>10, <1>11, <1>12, <1>13, <1>14, <1>15,
     <1>16 DEF Next, App, Peer, Served

(* The server is a mailbox: it reads the frames of an open connection in the
   order in which they were sent, answers a heartbeat, gives a message to the
   application once, and accepts what is sent on open connections only.  Where
   no read splits a frame, what it hands over is exactly the first that came. *)
THEOREM ServerImplementsMailbox == Spec => ImplementsMailbox
<1>1. Init => MailInv /\ Box!Init
  BY NoFrames DEF Init, MailInv, Box!Init, Box!Nothing, Opened, Coming, FramesOf
<1>2. TypeOK /\ MailInv /\ [Next]_vars => MailInv'
  BY MailStep
<1>3. TypeOK /\ LifeInv /\ MailInv /\ [Next]_vars => [Box!Next]_(Box!mailVars)
  BY BoxStep
<1>. QED
  BY <1>1, <1>2, <1>3, LifeHolds, ServerTypeCorrect, PTL
     DEF Spec, ImplementsMailbox, Box!Spec

=============================================================================
