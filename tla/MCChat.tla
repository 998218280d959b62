------------------------------- MODULE MCChat --------------------------------
(***************************************************************************)
(* The content filter, or the channels, chosen in the first state.         *)
(***************************************************************************)
EXTENDS Chat

VARIABLE scene

(* The empty word, words that overlap each other and themselves; every text of
   up to four. *)
MCWords == {<<>>, <<"a", "a">>, <<"b">>, <<"b", "a", "a">>}
MCLoaded == {<<"b">>}
MCTexts == UNION {[1..n -> Letters \cup {Star}] : n \in 0..4}

MCInit == scene \in {"filter", "channels"} /\ FilterInit /\ ChannelInit
MCNext ==
  /\ \/ scene = "filter" /\ FilterNext /\ UNCHANGED channelVars
     \/ scene = "channels" /\ ChannelNext /\ UNCHANGED filterVars
  /\ UNCHANGED scene
MCSpec ==
  /\ MCInit /\ [][MCNext]_<<scene, filterVars, channelVars>>
  /\ WF_filterVars(scene = "filter" /\ FilterContent)
=============================================================================
