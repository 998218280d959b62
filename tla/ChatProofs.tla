----------------------------- MODULE ChatProofs ------------------------------
(***************************************************************************)
(* The content filter is sound for any alphabet, any words without a '*'   *)
(* and any text, and the channels for any users and any calls about them.  *)
(***************************************************************************)
EXTENDS Chat, FiniteSetTheorems, TLAPS

(* What is masked is masked for a word of the content. *)
Faithful ==
  /\ Len(text) = Len(given)
  /\ \A k \in 1..Len(text) : text[k] # given[k] =>
       /\ text[k] = Star
       /\ \E w \in words, p \in 1..Len(text) :
            Occurs(w, given, p) /\ k \in p..(p + Len(w) - 1)

(* What filterContent is going to return is so already. *)
Told == IF filtered THEN IsSensitive(given) ELSE text = given

(* The words that the loop has been at occur no more, the word it is at does not
   occur before the place where the search goes on. *)
Cleared ==
  /\ \A w \in words \ (todo \cup {word}) : \A p \in Nat : ~Occurs(w, text, p)
  /\ word # NoWord => \A p \in Nat : p < from => ~Occurs(word, text, p)

FilterInv ==
  /\ FilterTypeOK
  /\ pc # "filtering" => word = NoWord /\ todo = {}
  /\ pc # "idle" => Faithful /\ Told /\ Cleared
-----------------------------------------------------------------------------
(* What the helpers do. *)
LEMMA Lengths ==
  ASSUME NEW S, NEW s \in Seq(S)
  PROVE  /\ Len(s) \in Nat /\ DOMAIN s = 1..Len(s)
         /\ \A i \in 1..Len(s) : s[i] \in S
OBVIOUS

(* A mask keeps the length, and makes no word occur that did not. *)
LEMMA MaskHides ==
  ASSUME text \in Seq(Letters \cup {Star}), NEW places
  PROVE  /\ Masked(places) \in Seq(Letters \cup {Star})
         /\ Len(Masked(places)) = Len(text)
         /\ \A i \in 1..Len(text) :
              Masked(places)[i] = IF i \in places THEN Star ELSE text[i]
         /\ \A w \in Words, p \in Nat : Occurs(w, Masked(places), p) =>
              /\ Occurs(w, text, p)
              /\ \A k \in 1..Len(w) : p + k - 1 \notin places
<1>. DEFINE m == Masked(places)
<1>1. Len(text) \in Nat /\ \A i \in 1..Len(text) : text[i] \in Letters \cup {Star}
  BY Lengths
<1>2. /\ m \in Seq(Letters \cup {Star}) /\ Len(m) = Len(text)
      /\ \A i \in 1..Len(text) : m[i] = IF i \in places THEN Star ELSE text[i]
  BY <1>1 DEF Masked
<1>3. ASSUME NEW w \in Words, NEW p \in Nat, Occurs(w, m, p)
      PROVE  /\ Occurs(w, text, p)
             /\ \A k \in 1..Len(w) : p + k - 1 \notin places
  <2>1. /\ w \in Seq(Letters) /\ Star \notin Letters
        /\ Len(w) \in Nat /\ \A k \in 1..Len(w) : w[k] \in Letters
    BY ChatAssumption, Lengths
  <2>2. /\ p \in 1..(Len(text) - Len(w) + 1)
        /\ \A k \in 1..Len(w) : m[p + k - 1] = w[k]
    BY <1>2, <1>3 DEF Occurs
  <2>3. ASSUME NEW k \in 1..Len(w)
        PROVE  p + k - 1 \notin places /\ text[p + k - 1] = w[k]
    <3>1. p + k - 1 \in 1..Len(text)
      BY <1>1, <2>1, <2>2
    <3>2. m[p + k - 1] # Star
      BY <2>1, <2>2
    <3>. QED  BY <1>2, <2>2, <3>1, <3>2
  <2>. QED  BY <2>2, <2>3 DEF Occurs
<1>. QED  BY <1>2, <1>3

(* A word that occurs in what is left of the content occurs in the content. *)
LEMMA OccursInGiven ==
  ASSUME FilterTypeOK, Faithful, NEW w \in Words, NEW p \in Nat, Occurs(w, text, p)
  PROVE  Occurs(w, given, p)
<1>1. /\ w \in Seq(Letters) /\ Star \notin Letters /\ Len(text) \in Nat
      /\ Len(w) \in Nat /\ \A k \in 1..Len(w) : w[k] \in Letters
  BY ChatAssumption, Lengths DEF FilterTypeOK
<1>2. /\ p \in 1..(Len(text) - Len(w) + 1) /\ Len(text) = Len(given)
      /\ \A k \in 1..Len(w) : text[p + k - 1] = w[k]
  BY DEF Occurs, Faithful
<1>3. ASSUME NEW k \in 1..Len(w)
      PROVE  given[p + k - 1] = w[k]
  <2>1. p + k - 1 \in 1..Len(text) /\ text[p + k - 1] # Star
    BY <1>1, <1>2
  <2>. QED  BY <1>2, <2>1 DEF Faithful
<1>. QED  BY <1>2, <1>3 DEF Occurs

-----------------------------------------------------------------------------
LEMMA FilterInitHolds == FilterInit => FilterInv
<1>1. <<>> \in Seq(Letters \cup {Star})
  OBVIOUS
<1>. SUFFICES ASSUME FilterInit PROVE FilterInv
  OBVIOUS
<1>2. from \in Nat \ {0} /\ words \subseteq Words /\ todo \subseteq words
  BY ChatAssumption DEF FilterInit
<1>3. FilterTypeOK
  BY <1>1, <1>2 DEF FilterInit, FilterTypeOK
<1>. QED  BY <1>3 DEF FilterInit, FilterInv

LEMMA ChangeWordsHolds ==
  ASSUME FilterInv, ChangeWords
  PROVE  FilterInv'
<1>1. /\ pc' = "idle" /\ words' \subseteq Words /\ todo = {} /\ word = NoWord
      /\ UNCHANGED <<given, text, todo, word, from, filtered>>
  BY DEF FilterInv, FilterTypeOK, ChangeWords
<1>. QED  BY <1>1 DEF FilterInv, FilterTypeOK

LEMMA BeginHolds ==
  ASSUME FilterInv, Begin
  PROVE  FilterInv'
<1>. USE DEF Begin
<1>1. FilterTypeOK'
  BY ChatAssumption DEF FilterInv, FilterTypeOK
<1>2. Faithful' /\ Told'
  BY DEF Faithful, Told
<1>3. Cleared'
  BY DEF Cleared, FilterInv
<1>. QED  BY <1>1, <1>2, <1>3 DEF FilterInv

LEMMA NextWordHolds ==
  ASSUME FilterInv, NextWord
  PROVE  FilterInv'
<1>. USE DEF NextWord
<1>1. FilterTypeOK'
  BY DEF FilterInv, FilterTypeOK
<1>2. Faithful' /\ Told'
  BY DEF FilterInv, Faithful, Told, Occurs, IsSensitive
<1>3. Cleared'
  <2>1. words' = words /\ text' = text /\ from' = 1 /\ Cleared /\ word = NoWord
    BY DEF FilterInv
  <2>2. NoWord \notin words /\ words' \ (todo' \cup {word'}) \subseteq words \ (todo \cup {word})
    BY <2>1, ChatAssumption DEF FilterInv, FilterTypeOK
  <2>3. \A p \in Nat : p < 1 => ~Occurs(word', text', p)
    BY DEF Occurs
  <2>. QED  BY <2>1, <2>2, <2>3 DEF Cleared, Occurs
<1>. QED  BY <1>1, <1>2, <1>3 DEF FilterInv

LEMMA ReplaceHolds ==
  ASSUME FilterInv, Replace
  PROVE  FilterInv'
<1>1. PICK p \in from..(Len(text) + 1) :
        /\ FirstFrom(p)
        /\ text' = Masked(p..(p + Len(word) - 1)) /\ from' = p + Len(word)
  BY DEF Replace
<1>. DEFINE places == p..(p + Len(word) - 1)
<1>2. /\ pc = "filtering" /\ word # NoWord /\ Occurs(word, text, p)
      /\ \A q \in from..(p - 1) : ~Occurs(word, text, q)
      /\ filtered' = TRUE /\ UNCHANGED <<words, pc, given, todo, word>>
  BY <1>1 DEF Replace, FirstFrom
<1>3. /\ FilterTypeOK /\ Faithful /\ Told /\ Cleared
      /\ word \in words /\ word \in Words /\ words \subseteq Words
  BY <1>2 DEF FilterInv, FilterTypeOK
<1>4. /\ Len(text) \in Nat /\ Len(word) \in Nat /\ from \in Nat \ {0}
      /\ text \in Seq(Letters \cup {Star})
  BY <1>3, Lengths, ChatAssumption DEF FilterTypeOK
<1>5. p \in Nat /\ p \in 1..(Len(text) - Len(word) + 1)
  BY <1>2, <1>4 DEF Occurs
<1>6. /\ text' \in Seq(Letters \cup {Star}) /\ Len(text') = Len(text)
      /\ \A i \in 1..Len(text) : text'[i] = IF i \in places THEN Star ELSE text[i]
  BY <1>1, <1>4, MaskHides
<1>7. \A w \in Words, q \in Nat : Occurs(w, text', q) =>
        /\ Occurs(w, text, q)
        /\ \A k \in 1..Len(w) : q + k - 1 \notin places
  BY <1>1, <1>4, MaskHides
<1>8. Occurs(word, given, p)
  BY <1>2, <1>3, <1>5, OccursInGiven
<1>9. FilterTypeOK'
  <2>1. from' \in Nat \ {0}
    BY <1>1, <1>4, <1>5
  <2>. QED  BY <1>2, <1>3, <1>6, <2>1 DEF FilterTypeOK
<1>10. Faithful'
  <2>1. Len(text') = Len(given)
    BY <1>3, <1>6 DEF Faithful
  <2>2. ASSUME NEW k \in 1..Len(text), text'[k] # given[k]
        PROVE  /\ text'[k] = Star
               /\ \E w \in words, q \in 1..Len(text) :
                    Occurs(w, given, q) /\ k \in q..(q + Len(w) - 1)
    <3>1. CASE k \in places
      <4>1. p \in 1..Len(text) /\ text'[k] = Star
        BY <1>4, <1>5, <1>6, <3>1
      <4>. QED  BY <1>3, <1>8, <3>1, <4>1
    <3>2. CASE k \notin places
      <4>1. text'[k] = text[k]
        BY <1>6, <3>2
      <4>. QED  BY <1>3, <2>2, <4>1 DEF Faithful
    <3>. QED  BY <3>1, <3>2
  <2>. QED  BY <1>2, <1>6, <2>1, <2>2 DEF Faithful, Occurs
<1>11. Told'
  <2>1. p \in 1..(Len(given) + 1)
    BY <1>3, <1>4, <1>5 DEF Faithful
  <2>. QED  BY <1>2, <1>3, <1>8, <2>1 DEF Told, IsSensitive, Occurs
<1>12. Cleared'
  <2>1. \A w \in words \ (todo \cup {word}) : \A q \in Nat : ~Occurs(w, text', q)
    BY <1>3, <1>7 DEF Cleared
  <2>2. ASSUME NEW q \in Nat, q < p + Len(word), Occurs(word, text', q)
        PROVE  FALSE
    <3>1. Occurs(word, text, q)
      BY <1>3, <1>7, <2>2
    <3>2. ~(q < from)
      BY <1>2, <1>3, <3>1 DEF Cleared
    <3>3. ~(q < p)
      BY <1>2, <1>4, <1>5, <3>1, <3>2
    <3>4. 1 \in 1..Len(word) /\ q + 1 - 1 \in places
      BY <1>4, <1>5, <2>2, <3>3
    <3>. QED  BY <1>3, <1>7, <2>2, <3>4
  <2>. QED  BY <1>1, <1>2, <2>1, <2>2 DEF Cleared, Occurs
<1>. QED  BY <1>2, <1>9, <1>10, <1>11, <1>12 DEF FilterInv

LEMMA WordDoneHolds ==
  ASSUME FilterInv, WordDone
  PROVE  FilterInv'
<1>1. /\ pc = "filtering" /\ word # NoWord /\ word' = NoWord
      /\ \A p \in from..(Len(text) + 1) : ~Occurs(word, text, p)
      /\ UNCHANGED <<words, pc, given, text, todo, from, filtered>>
  BY DEF WordDone
<1>2. /\ FilterTypeOK /\ Faithful /\ Told /\ Cleared /\ word \in words
      /\ Len(text) \in Nat /\ from \in Nat
  BY <1>1, Lengths DEF FilterInv, FilterTypeOK
<1>3. FilterTypeOK'
  BY <1>1, <1>2 DEF FilterTypeOK
<1>4. Faithful' /\ Told'
  BY <1>1, <1>2 DEF Faithful, Told, Occurs, IsSensitive
<1>5. \A p \in Nat : ~Occurs(word, text, p)
  <2>1. SUFFICES ASSUME NEW p \in Nat, Occurs(word, text, p) PROVE FALSE
    OBVIOUS
  <2>2. Len(word) \in Nat
    BY <1>2, Lengths, ChatAssumption DEF FilterTypeOK
  <2>3. p \in 1..(Len(text) + 1)
    BY <1>2, <2>1, <2>2 DEF Occurs
  <2>4. ~(p < from)
    BY <1>1, <1>2, <2>1 DEF Cleared
  <2>. QED  BY <1>1, <1>2, <2>1, <2>3, <2>4
<1>6. Cleared'
  <2>1. \A w \in words \ todo : \A p \in Nat : ~Occurs(w, text, p)
    BY <1>2, <1>5 DEF Cleared
  <2>2. \A w \in words' \ (todo' \cup {word'}) : w \in words \ todo
    BY <1>1
  <2>3. text' = text /\ word' = NoWord
    BY <1>1
  <2>. QED  BY <2>1, <2>2, <2>3 DEF Cleared, Occurs
<1>. QED  BY <1>1, <1>3, <1>4, <1>6 DEF FilterInv

LEMMA ReturnHolds ==
  ASSUME FilterInv, Return
  PROVE  FilterInv'
<1>. USE DEF Return
<1>1. FilterTypeOK' /\ Faithful' /\ Told'
  BY DEF FilterInv, FilterTypeOK, Faithful, Told, Occurs, IsSensitive
<1>2. Cleared'
  BY DEF FilterInv, Cleared, Occurs
<1>. QED  BY <1>1, <1>2 DEF FilterInv

LEMMA FilterNextHolds ==
  ASSUME FilterInv, [FilterNext]_filterVars
  PROVE  FilterInv'
<1>1. CASE ChangeWords
  BY <1>1, ChangeWordsHolds
<1>2. CASE Begin
  BY <1>2, BeginHolds
<1>3. CASE NextWord
  BY <1>3, NextWordHolds
<1>4. CASE Replace
  BY <1>4, ReplaceHolds
<1>5. CASE WordDone
  BY <1>5, WordDoneHolds
<1>6. CASE Return
  BY <1>6, ReturnHolds
<1>7. CASE UNCHANGED filterVars
  <2>. USE <1>7 DEF filterVars
  <2>1. FilterTypeOK' /\ Faithful' = Faithful /\ Told' = Told
    BY DEF FilterInv, FilterTypeOK, Faithful, Told, Occurs, IsSensitive
  <2>2. Cleared' = Cleared
    BY DEF Cleared, Occurs
  <2>. QED  BY <2>1, <2>2 DEF FilterInv
<1>. QED
  BY <1>1, <1>2, <1>3, <1>4, <1>5, <1>6, <1>7 DEF FilterNext, FilterContent

LEMMA FilterInvIsEnough == FilterInv => FilterIsSound
<1>1. SUFFICES ASSUME FilterInv, pc = "returned"
               PROVE  FilterIsSound
  BY DEF FilterInv, FilterIsSound
<1>2. /\ FilterTypeOK /\ Faithful /\ Told /\ Cleared /\ word = NoWord /\ todo = {}
      /\ DOMAIN text = 1..Len(text) /\ Len(text) \in Nat
  BY <1>1, Lengths DEF FilterInv, FilterTypeOK
<1>3. ~IsSensitive(text)
  <2>1. words \ (todo \cup {word}) = words
    BY <1>2, ChatAssumption DEF FilterTypeOK
  <2>2. \A p \in 1..(Len(text) + 1) : p \in Nat
    BY <1>2
  <2>. QED  BY <1>2, <2>1, <2>2 DEF IsSensitive, Cleared
<1>4. filtered <=> IsSensitive(given)
  BY <1>2, <1>3 DEF Told, FilterTypeOK
<1>. QED  BY <1>2, <1>3, <1>4 DEF FilterIsSound, Faithful

(* filterContent says what isSensitive says, leaves nothing sensitive, and masks
   only letters of sensitive words: whatever words are declared, one inside the
   other or overlapping themselves, and in whatever order the hash set has them. *)
THEOREM FilterIsSoundHolds == FilterSpec => []FilterIsSound
<1>1. FilterInit => FilterInv
  BY FilterInitHolds
<1>2. FilterInv /\ [FilterNext]_filterVars => FilterInv'
  BY FilterNextHolds
<1>3. FilterInv => FilterIsSound
  BY FilterInvIsEnough
<1>. QED  BY <1>1, <1>2, <1>3, PTL DEF FilterSpec

-----------------------------------------------------------------------------
(* What FilterReturns rests on: every step of the loops takes a word that is left
   to visit, or leaves the word it is at, or moves the search on within a content
   that stays as long as it is.  No behaviour of the filter does so for ever. *)
Progress ==
  pc = "filtering" /\ <<>> \notin words /\ pc' = "filtering" =>
    \/ todo' \subseteq todo /\ todo' # todo
    \/ todo' = todo /\ word # NoWord /\ word' = NoWord
    \/ /\ todo' = todo /\ word' = word /\ Len(text') = Len(text)
       /\ from < from' /\ from' <= Len(text') + 1

LEMMA EveryStepProgresses ==
  ASSUME FilterInv, FilterNext
  PROVE  Progress
<1>1. CASE ChangeWords \/ Begin \/ Return
  BY <1>1 DEF ChangeWords, Begin, Return, Progress
<1>2. CASE NextWord
  BY <1>2 DEF NextWord, Progress
<1>3. CASE WordDone
  BY <1>3 DEF WordDone, Progress
<1>4. CASE Replace /\ <<>> \notin words
  <2>1. PICK p \in from..(Len(text) + 1) :
          /\ pc = "filtering" /\ word # NoWord /\ Occurs(word, text, p)
          /\ text' = Masked(p..(p + Len(word) - 1)) /\ from' = p + Len(word)
    BY <1>4 DEF Replace, FirstFrom
  <2>2. /\ text \in Seq(Letters \cup {Star}) /\ from \in Nat
        /\ word \in Seq(Letters) /\ word # <<>> /\ Len(text) \in Nat
    BY <1>4, <2>1, ChatAssumption DEF FilterInv, FilterTypeOK
  <2>3. Len(word) \in Nat \ {0}
    BY <2>2
  <2>4. Len(text') = Len(text)
    BY <2>1, <2>2, MaskHides
  <2>5. p <= Len(text) - Len(word) + 1
    BY <2>1 DEF Occurs
  <2>6. from < from' /\ from' <= Len(text') + 1
    BY <2>1, <2>2, <2>3, <2>4, <2>5
  <2>. QED  BY <1>4, <2>4, <2>6 DEF Replace, Progress
<1>5. CASE <<>> \in words
  BY <1>5 DEF Progress
<1>. QED  BY <1>1, <1>2, <1>3, <1>4, <1>5 DEF FilterNext, FilterContent

(* Unless the empty word is declared, every step of filterContent gets it nearer
   to its end: the loop over the occurrences never looks at one place twice. *)
THEOREM FilterProgresses == FilterSpec => [][Progress]_filterVars
<1>1. FilterInit => FilterInv
  BY FilterInitHolds
<1>2. FilterInv /\ [FilterNext]_filterVars => FilterInv'
  BY FilterNextHolds
<1>3. FilterInv /\ [FilterNext]_filterVars => [Progress]_filterVars
  BY EveryStepProgresses
<1>. QED  BY <1>1, <1>2, <1>3, PTL DEF FilterSpec

-----------------------------------------------------------------------------
(* The channels: the containers of a private channel have at most two members. *)
LEMMA Pair ==
  ASSUME NEW a, NEW b
  PROVE  IsFiniteSet({a, b}) /\ Cardinality({a, b}) <= 2
<1>. DEFINE S == {a}
<1>1. IsFiniteSet(S) /\ Cardinality(S) = 1
  BY FS_Singleton
<1>2. {a, b} = S \cup {b}
  OBVIOUS
<1>. HIDE DEF S
<1>3. /\ IsFiniteSet(S \cup {b})
      /\ Cardinality(S \cup {b}) = IF b \in S THEN Cardinality(S) ELSE Cardinality(S) + 1
  BY <1>1, FS_AddElement
<1>. QED  BY <1>1, <1>2, <1>3

ChannelInv == ChannelsAreSound /\ IsFiniteSet(private)

LEMMA ChannelInitHolds == ChannelInit => ChannelInv
BY Pair DEF ChannelInit, ChannelInv, ChannelsAreSound, ChannelTypeOK

LEMMA PrivateMemberHolds ==
  ASSUME ChannelInv, NEW u \in Users, PrivateMember(u)
  PROVE  ChannelInv'
<1>1. Cardinality(private) \in Nat /\ Cardinality(private) <= 2 /\ IsFiniteSet(private)
  BY FS_CardinalityType DEF ChannelInv, ChannelsAreSound
<1>2. IsFiniteSet(private') /\ Cardinality(private') <= 2
  <2>1. CASE Cardinality(private) < 2 /\ private' = private \cup {u}
    BY <1>1, <2>1, FS_AddElement
  <2>2. CASE private' = private \ {u}
    <3>1. /\ IsFiniteSet(private \ {u})
          /\ Cardinality(private \ {u})
               = IF u \in private THEN Cardinality(private) - 1 ELSE Cardinality(private)
      BY <1>1, FS_RemoveElement
    <3>. QED  BY <1>1, <2>2, <3>1
  <2>. QED  BY <2>1, <2>2 DEF PrivateMember
<1>3. private' \subseteq Users
  BY DEF PrivateMember, ChannelInv, ChannelsAreSound, ChannelTypeOK
<1>. QED
  BY <1>2, <1>3 DEF PrivateMember, ChannelInv, ChannelsAreSound, ChannelTypeOK

LEMMA ChannelNextHolds ==
  ASSUME ChannelInv, [ChannelNext]_channelVars
  PROVE  ChannelInv'
<1>. USE DEF ChannelInv, ChannelsAreSound, ChannelTypeOK
<1>1. ASSUME NEW u \in Users, AddMember(u)
      PROVE  ChannelInv'
  BY <1>1 DEF AddMember
(* A member who leaves is counted among those about to leave. *)
<1>2. ASSUME NEW u \in Users, RemoveMember(u)
      PROVE  ChannelInv'
  BY <1>2 DEF RemoveMember
(* Another call may go on about the same user, who may be a member again. *)
<1>3. ASSUME NEW u \in Users, ErasePosition(u)
      PROVE  ChannelInv'
  BY <1>3 DEF ErasePosition
<1>4. ASSUME NEW u \in Users, UpdateMemberPosition(u)
      PROVE  ChannelInv'
  BY <1>4 DEF UpdateMemberPosition
<1>5. CASE UNCHANGED channelVars
  BY <1>5 DEF channelVars
<1>. QED
  BY <1>1, <1>2, <1>3, <1>4, <1>5, PrivateMemberHolds DEF ChannelNext

(* Whatever calls come between the two critical sections of removeMember, nobody's
   position stays behind when he leaves, unless it is reported after that; and a
   private channel stays one of two. *)
THEOREM ChannelsAreSoundHolds == ChannelSpec => []ChannelsAreSound
<1>1. ChannelInit => ChannelInv
  BY ChannelInitHolds
<1>2. ChannelInv /\ [ChannelNext]_channelVars => ChannelInv'
  BY ChannelNextHolds
<1>3. ChannelInv => ChannelsAreSound
  BY DEF ChannelInv
<1>. QED  BY <1>1, <1>2, <1>3, PTL DEF ChannelSpec
=============================================================================
