-------------------------- MODULE MCManagerAndSync ---------------------------
(***************************************************************************)
(* The character manager and the network sync component of one player in   *)
(* one run.  The first state chooses the scene; the other one stays put.   *)
(***************************************************************************)
EXTENDS CharacterManager, NetworkSync

VARIABLE scene

(* Everybody may remove the first id; the second has one thread to itself. *)
MCMayRemove == (Threads \X {1}) \cup {<<CHOOSE t \in Stoppers : TRUE, 2>>}

(* A peer that thinks that I am dead. *)
MCPeers == {[pos |-> 0, state |-> "DEAD", health |-> 1, mana |-> 0]}

MCInit == scene \in {"manager", "sync"} /\ ManagerInit /\ SyncInit
MCNext ==
  /\ \/ /\ scene = "manager" /\ ManagerNext
        /\ UNCHANGED <<me, dirty, marks, timer, history, owed, latest, forged>>
     \/ /\ scene = "sync" /\ SyncNext
        /\ UNCHANGED <<owner, object, charactersMap, characters, players, npcs,
                       pc, at, todo, kept, known>>
  /\ UNCHANGED scene

(* The fairness of NetworkSync, in its scene. *)
MCSpec ==
  /\ MCInit /\ [][MCNext]_<<scene, managerVars, syncVars>>
  /\ WF_syncVars(scene = "sync" /\ SyncUpdate)
=============================================================================
