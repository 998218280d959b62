-------------------------------- MODULE Chat ---------------------------------
(***************************************************************************)
(* The parts of the chat service that keep state a program can change: the *)
(* ContentFilter, one find or replace at a time, and the members of a      *)
(* NearbyChannel and a PrivateChannel.  ChatServer itself never gets a     *)
(* session, so handleMessage returns before it filters or routes.          *)
(***************************************************************************)
EXTENDS Integers, FiniteSets, Sequences

CONSTANTS
  Letters,
  Star,      \* '*'
  Words,     \* words that may be declared sensitive
  Loaded,    \* those that loadSensitiveWords declares
  Texts,     \* contents of messages
  NoWord,    \* the loop over the words is between two of them
  Users,
  MaxLeaving \* bound: calls of removeMember about one user at a time

ASSUME ChatAssumption ==
  /\ Star \notin Letters
  /\ Words \subseteq Seq(Letters) /\ Loaded \subseteq Words /\ NoWord \notin Words
  /\ Texts \subseteq Seq(Letters \cup {Star})
  /\ MaxLeaving \in Nat

VARIABLES
  words,      \* sensitive_words_
  pc,         \* "idle", "filtering", or "returned" until something else is called
  given,      \* the content that filterContent was called with
  text,       \* what it has made of it
  todo,       \* words the loop has still to visit, in the order of the hash set
  word, from, \* the word it is at, where it looks for the next occurrence
  filtered,
  nearby,     \* members_ of the NearbyChannel
  positions,  \* users with an entry in its member_positions_
  leaving,    \* calls of removeMember about a user between their critical sections
  late,       \* history: users whose position, when they were neither members nor
              \* leaving, was reported, and has not been erased since
  private     \* members_ of the PrivateChannel

filterVars == <<words, pc, given, text, todo, word, from, filtered>>
channelVars == <<nearby, positions, leaving, late, private>>

FilterInit ==
  /\ words = Loaded /\ pc = "idle" /\ given = <<>> /\ text = <<>>
  /\ todo = {} /\ word = NoWord /\ from = 1 /\ filtered = FALSE

-----------------------------------------------------------------------------
(* ContentFilter.  find: w occurs in s at p. *)
Occurs(w, s, p) ==
  /\ p \in 1..(Len(s) - Len(w) + 1)
  /\ \A k \in 1..Len(w) : s[p + k - 1] = w[k]

IsSensitive(s) == \E w \in words : \E p \in 1..(Len(s) + 1) : Occurs(w, s, p)

(* addSensitiveWord, removeSensitiveWord. *)
ChangeWords ==
  /\ pc # "filtering" /\ pc' = "idle"
  /\ \E w \in Words : words' \in {words \cup {w}, words \ {w}}
  /\ UNCHANGED <<given, text, todo, word, from, filtered>>

(* filterContent begins. *)
Begin ==
  /\ pc # "filtering" /\ pc' = "filtering"
  /\ given' \in Texts /\ text' = given'
  /\ todo' = words /\ filtered' = FALSE
  /\ UNCHANGED <<words, word, from>>

NextWord ==
  /\ pc = "filtering" /\ word = NoWord
  /\ \E w \in todo : word' = w /\ todo' = todo \ {w}
  /\ from' = 1
  /\ UNCHANGED <<words, pc, given, text, filtered>>

FirstFrom(p) ==
  /\ pc = "filtering" /\ word # NoWord
  /\ Occurs(word, text, p)
  /\ \A q \in from..(p - 1) : ~Occurs(word, text, q)
Masked(places) == [k \in 1..Len(text) |-> IF k \in places THEN Star ELSE text[k]]

(* Seeded fault: the search goes on one letter too far. *)
ReplaceAndSkip ==
  /\ \E p \in from..(Len(text) + 1) :
       /\ FirstFrom(p)
       /\ text' = Masked(p..(p + Len(word) - 1)) /\ from' = p + Len(word) + 1
  /\ filtered' = TRUE /\ UNCHANGED <<words, pc, given, todo, word>>
(* Seeded fault: the first letter is left, and the search goes on from it. *)
ReplaceTheRest ==
  /\ \E p \in from..(Len(text) + 1) :
       /\ FirstFrom(p)
       /\ text' = Masked((p + 1)..(p + Len(word) - 1)) /\ from' = p
  /\ filtered' = TRUE /\ UNCHANGED <<words, pc, given, todo, word>>
(* The next occurrence of the word is replaced. *)
Replace ==
  /\ \E p \in from..(Len(text) + 1) :
       /\ FirstFrom(p)
       /\ text' = Masked(p..(p + Len(word) - 1)) /\ from' = p + Len(word)
  /\ filtered' = TRUE /\ UNCHANGED <<words, pc, given, todo, word>>

(* npos. *)
WordDone ==
  /\ pc = "filtering" /\ word # NoWord
  /\ \A p \in from..(Len(text) + 1) : ~Occurs(word, text, p)
  /\ word' = NoWord
  /\ UNCHANGED <<words, pc, given, text, todo, from, filtered>>

Return ==
  /\ pc = "filtering" /\ word = NoWord /\ todo = {}
  /\ pc' = "returned"
  /\ UNCHANGED <<words, given, text, todo, word, from, filtered>>

FilterContent == NextWord \/ Replace \/ WordDone \/ Return
FilterNext == ChangeWords \/ Begin \/ FilterContent
FilterSpec ==
  FilterInit /\ [][FilterNext]_filterVars /\ WF_filterVars(FilterContent)

-----------------------------------------------------------------------------
(* Channels.  PrivateChannel begins with two users, who may be the same. *)
ChannelInit ==
  /\ nearby = {} /\ positions = {} /\ leaving = [u \in Users |-> 0] /\ late = {}
  /\ \E a, b \in Users : private = {a, b}

AddMember(u) ==
  /\ nearby' = nearby \cup {u} /\ late' = late \ {u}
  /\ UNCHANGED <<positions, leaving, private>>

(* Seeded fault: removeMember of the base class alone. *)
RemoveMemberOnly(u) ==
  /\ nearby' = nearby \ {u}
  /\ UNCHANGED <<positions, leaving, late, private>>
(* NearbyChannel::removeMember: first members_, *)
RemoveMember(u) ==
  /\ leaving[u] < MaxLeaving
  /\ nearby' = nearby \ {u} /\ leaving' = [leaving EXCEPT ![u] = @ + 1]
  /\ UNCHANGED <<positions, late, private>>
(* then, under the other mutex, member_positions_. *)
ErasePosition(u) ==
  /\ leaving[u] > 0
  /\ positions' = positions \ {u} /\ leaving' = [leaving EXCEPT ![u] = @ - 1]
  /\ late' = late \ {u}
  /\ UNCHANGED <<nearby, private>>

(* Nothing asks whether the user is a member. *)
UpdateMemberPosition(u) ==
  /\ positions' = positions \cup {u}
  /\ late' = IF u \in nearby \/ leaving[u] > 0 THEN late ELSE late \cup {u}
  /\ UNCHANGED <<nearby, leaving, private>>

(* addMember and removeMember of the PrivateChannel. *)
PrivateMember(u) ==
  /\ \/ Cardinality(private) < 2 /\ private' = private \cup {u}
     \/ private' = private \ {u}
  /\ UNCHANGED <<nearby, positions, leaving, late>>

ChannelNext ==
  \E u \in Users : \/ AddMember(u) \/ RemoveMember(u) \/ ErasePosition(u)
                   \/ UpdateMemberPosition(u) \/ PrivateMember(u)
ChannelSpec == ChannelInit /\ [][ChannelNext]_channelVars

-----------------------------------------------------------------------------
(* Properties. *)

FilterTypeOK ==
  /\ words \subseteq Words /\ todo \subseteq words
  /\ pc \in {"idle", "filtering", "returned"}
  /\ given \in Seq(Letters \cup {Star}) /\ text \in Seq(Letters \cup {Star})
  /\ word \in words \cup {NoWord} /\ from \in Nat \ {0} /\ filtered \in BOOLEAN

ChannelTypeOK ==
  /\ nearby \subseteq Users /\ positions \subseteq Users /\ late \subseteq Users
  /\ leaving \in [Users -> Nat] /\ private \subseteq Users

(* Whatever the order of the words, filterContent says what isSensitive says,
   leaves nothing sensitive, and masks no letter that is not in a sensitive
   word of the content it was given. *)
FilterIsSound ==
  /\ FilterTypeOK
  /\ pc = "returned" =>
       /\ filtered <=> IsSensitive(given)
       /\ ~IsSensitive(text)
       /\ Len(text) = Len(given)
       /\ \A k \in DOMAIN text : text[k] # given[k] =>
            /\ text[k] = Star
            /\ \E w \in words, p \in DOMAIN text :
                 Occurs(w, given, p) /\ k \in p..(p + Len(w) - 1)

(* filterContent returns, unless the empty word is declared, which find finds
   where it stands for ever. *)
FilterReturns ==
  /\ pc = "filtering" /\ <<>> \notin words ~> pc = "returned"
  /\ [](pc = "filtering" /\ <<>> \in words => [](pc = "filtering"))

(* Though the two containers have two mutexes, and whatever calls come in between,
   nobody's position stays behind when he leaves: one is kept of members, of those
   about to leave, and of users of whom it was reported when they were neither.
   A private channel stays one of two users. *)
ChannelsAreSound ==
  /\ ChannelTypeOK
  /\ positions \subseteq nearby \cup late \cup {u \in Users : leaving[u] > 0}
  /\ Cardinality(private) <= 2
=============================================================================
