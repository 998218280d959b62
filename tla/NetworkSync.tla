----------------------------- MODULE NetworkSync -----------------------------
(***************************************************************************)
(* NetworkSyncComponent of one player: what the program marks is gathered  *)
(* by the next update that may send, and data from elsewhere is written    *)
(* past the methods of the other components.  Time is counted in updates.  *)
(* The program may change the priority and switch prediction and rollback  *)
(* at any time, and the clock may be set: what they are is chosen anew     *)
(* wherever they are read.  update() goes on where Component::update, which *)
(* reads whether the component is enabled and not paused, has returned.    *)
(***************************************************************************)
EXTENDS Character, FiniteSetsExt

CONSTANTS
  Interval,        \* sync_interval_ / delta_time
  Cap,             \* length of prediction_history_
  Stamps,          \* what the clock may show
  SyncAt,          \* place of the component among the three in the hash order
  Sources,         \* ids that data may carry: "me" or another
  Peers,           \* what is in data from elsewhere, without id and stamp
  Blows, Aims,     \* damage dealt to me, places I am sent to
  CallbackMarks,   \* what the sync callback may mark
  LateInitialize   \* initialize() is called on what is marked

Fields == {"position", "state", "attributes"}
Seen == [pos : Int, state : States, health : 0..MaxHealth, mana : Int]
Data == [seen : Seen, stamp : Stamps]
Entry == [pos : Int, stamp : Stamps]   \* what is read of a history entry

ASSUME SyncAssumption ==
  /\ {Interval, Cap} \subseteq Nat \ {0} /\ Stamps \subseteq Nat
  /\ SyncAt \in 1..3
  /\ Peers \subseteq Seen /\ Blows \subseteq Nat \ {0} /\ Aims \subseteq Int
  /\ CallbackMarks \subseteq Fields
  /\ LateInitialize \in BOOLEAN

VARIABLES
  me,       \* the owner
  dirty,    \* is_dirty_
  marks,    \* position_dirty_, state_dirty_, attributes_dirty_
  timer,    \* sync_timer_, up to Interval
  history,  \* prediction_history_
  owed,     \* history: marked and not gathered since
  latest,   \* history: the last data sent with prediction on, <<>> before it
  forged    \* history: data said that I am dead

syncVars == <<me, dirty, marks, timer, history, owed, latest, forged>>

SyncInit ==
  /\ me = NewCharacter(FALSE)
  /\ dirty = FALSE /\ marks = {} /\ timer = 0
  /\ history = <<>>
  /\ owed = {} /\ latest = <<>> /\ forged = FALSE

-----------------------------------------------------------------------------
(* NetworkSyncComponent::initialize. *)
Initialize ==
  /\ LateInitialize \/ owed = {}
  /\ dirty' = FALSE /\ timer' = 0
  /\ UNCHANGED <<me, marks, history, owed, latest, forged>>

(* Seeded fault: a mark starts the interval again. *)
MarkRestartingTimer(f) ==
  /\ marks' = marks \cup {f} /\ dirty' = TRUE /\ owed' = owed \cup {f} /\ timer' = 0
  /\ UNCHANGED <<me, history, latest, forged>>
(* markPositionDirty, markStateDirty, markAttributesDirty. *)
Mark(f) ==
  /\ marks' = marks \cup {f} /\ dirty' = TRUE /\ owed' = owed \cup {f}
  /\ UNCHANGED <<me, timer, history, latest, forged>>

(* setDirty; FALSE takes back what was asked for. *)
SetDirty(d) ==
  /\ dirty' = d /\ owed' = IF d THEN owed ELSE {}
  /\ UNCHANGED <<me, marks, timer, history, latest, forged>>

-----------------------------------------------------------------------------
SyncData(r, stamp) ==
  [seen |-> [pos |-> r.pos, state |-> r.state, health |-> r.health, mana |-> r.mana],
   stamp |-> stamp]
EntryOf(data) == [pos |-> data.seen.pos, stamp |-> data.stamp]

(* Seeded fault: the newest entry is dropped. *)
RememberOldest(data) == SubSeq(Append(history, EntryOf(data)), 1, AtMost(Len(history) + 1, Cap))
Remember(data) ==
  LET all == Append(history, EntryOf(data)) IN IF Len(all) > Cap THEN Tail(all) ELSE all

(* performSync, on the owner as the components before this one left it. *)
PerformSync(r) ==
  /\ marks' = {} /\ dirty' = FALSE /\ timer' = 0
  /\ owed' \in SUBSET CallbackMarks
  /\ \/ \E stamp \in Stamps :
          LET data == SyncData(r, stamp) IN history' = Remember(data) /\ latest' = <<data>>
     \/ UNCHANGED <<history, latest>>

ShouldSync(elapsed, critical) == dirty /\ (critical \/ elapsed = Interval)

(* The n-th of the other two components is updated. *)
UpdateOther(r, n) == IF CombatFirst = (n = 1) THEN CombatUpdate(r) ELSE MovementUpdate(r)
Before(r) == CASE SyncAt = 1 -> r
               [] SyncAt = 2 -> UpdateOther(r, 1)
               [] SyncAt = 3 -> UpdateOther(UpdateOther(r, 1), 2)
After(r) == CASE SyncAt = 1 -> UpdateOther(UpdateOther(r, 1), 2)
              [] SyncAt = 2 -> UpdateOther(r, 2)
              [] SyncAt = 3 -> r

(* Character::update, with NetworkSyncComponent::update in its place. *)
SyncUpdate ==
  /\ me.alive
  /\ me' = After(Before(me))
  /\ LET elapsed == AtMost(timer + 1, Interval) IN
     \E critical \in BOOLEAN :
       IF ShouldSync(elapsed, critical) THEN PerformSync(Before(me))
       ELSE timer' = elapsed /\ UNCHANGED <<dirty, marks, history, owed, latest>>
  /\ UNCHANGED forged

-----------------------------------------------------------------------------
(* The entries that rollback goes through: from the newest back to the first
   that is older than the data. *)
RolledBack(stamp) ==
  {k \in DOMAIN history : \A j \in k..Len(history) : history[j].stamp >= stamp}

(* What applySyncData makes of the owner. *)
Applied(r, d, rollback) ==
  LET back == RolledBack(d.stamp)
      behind == IF rollback /\ back # {} /\ "position" \in marks
                THEN [r EXCEPT !.pos = history[Min(back)].pos] ELSE r
      there == IF "position" \in marks THEN [behind EXCEPT !.pos = d.seen.pos] ELSE behind
      stated == IF "state" \in marks THEN SetState(there, d.seen.state) ELSE there
      whole == IF "attributes" \in marks
               THEN [stated EXCEPT !.health = d.seen.health, !.mana = d.seen.mana] ELSE stated
  IN IF rollback /\ \E k \in DOMAIN history : history[k].stamp = d.stamp THEN r ELSE whole

(* Seeded fault: what was applied is not marked any more. *)
ApplyClearingMarks(id, d, rollback) ==
  /\ id = "me"
  /\ me' = Applied(me, d, rollback) /\ marks' = {}
  /\ forged' = (forged \/ d.seen.health = 0 \/ d.seen.state = "DEAD")
  /\ UNCHANGED <<dirty, timer, history, owed, latest>>
(* applySyncData.  rollback: rollback and prediction are both on. *)
ApplySyncData(id, d, rollback) ==
  /\ id = "me"
  /\ me' = Applied(me, d, rollback)
  /\ forged' = (forged \/ d.seen.health = 0 \/ d.seen.state = "DEAD")
  /\ UNCHANGED <<dirty, marks, timer, history, owed, latest>>

(* Data of mine comes back, or somebody else's comes, in any order. *)
Arrives ==
  \E rollback \in BOOLEAN :
    \/ \E k \in DOMAIN latest : ApplySyncData("me", latest[k], rollback)
    \/ \E id \in Sources, seen \in Peers, stamp \in Stamps :
         ApplySyncData(id, [seen |-> seen, stamp |-> stamp], rollback)

(* handleRPC "moveTo", and moveTo by the program; no other method does anything. *)
HandleRPC(goal) ==
  /\ me' = MoveTo(me, goal)
  /\ UNCHANGED <<dirty, marks, timer, history, owed, latest, forged>>

(* takeDamage. *)
IsHit(d) ==
  /\ me' = TakeDamage(me, d)
  /\ UNCHANGED <<dirty, marks, timer, history, owed, latest, forged>>

SyncNext ==
  \/ Initialize
  \/ \E f \in Fields : Mark(f)
  \/ \E d \in BOOLEAN : SetDirty(d)
  \/ SyncUpdate \/ Arrives
  \/ \E goal \in Aims : HandleRPC(goal)
  \/ \E d \in Blows : IsHit(d)

SyncFairness == WF_syncVars(SyncUpdate)
SyncSpec == SyncInit /\ [][SyncNext]_syncVars /\ SyncFairness

-----------------------------------------------------------------------------
(* Properties. *)

SyncTypeOK ==
  /\ me \in CharacterRecord
  /\ dirty \in BOOLEAN /\ marks \subseteq Fields /\ timer \in 0..Interval
  /\ history \in Seq(Entry) /\ Len(history) <= Cap
  /\ latest \in Seq(Data) /\ Len(latest) <= 1
  /\ owed \subseteq Fields /\ forged \in BOOLEAN

(* What the program has marked stays marked, and the component dirty, until an
   update gathers it: no data that arrives loses it.
   And as long as no data said that I am dead, I am alive only with health. *)
SyncIsSound ==
  /\ SyncTypeOK
  /\ owed # {} => dirty /\ owed \subseteq marks
  /\ ~forged /\ me.alive => me.health > 0 /\ me.state # "DEAD"

(* With prediction and rollback, my own latest data that comes back, however
   late or often, does not move me back, whatever I have marked since. *)
EchoIsHarmless == \A k \in DOMAIN latest : Applied(me, latest[k], TRUE) = me

(* What is marked is gathered by an update, however much is marked meanwhile and
   whatever arrives, unless I die first. *)
MarkedIsSent == \A f \in Fields : f \in owed ~> f \notin owed \/ ~me.alive

(* The death of a player is sent like anything else that is marked. *)
DeathIsSent == \A f \in Fields : f \in owed ~> f \notin owed
=============================================================================
