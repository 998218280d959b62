------------------------- MODULE CacheManagerProofs -------------------------
(* Proofs about CacheManager, for any players, threads, records and faults.  *)
EXTENDS CacheManager, TLAPS

(* What the steps need of the constants. *)
LEMMA ThreadFacts ==
  /\ Timer \in Threads /\ Poller \in Threads /\ Clients \subseteq Threads
  /\ Timer \notin Clients /\ Poller \notin Clients /\ Timer # Poller
  /\ NoThread \notin Threads
  BY CacheAssumption DEF CacheAssumption, Threads

LEMMA DataFacts ==
  /\ EmptyData \in Data /\ Absent \notin Data /\ MaybeData = Data \cup {Absent}
  /\ Unreadable \notin MaybeData /\ MaybeRow = MaybeData \cup {Unreadable}
  /\ NoRecords \in [Players -> MaybeData] /\ NoRecords \in [Players -> MaybeRow]
  BY CacheAssumption DEF CacheAssumption, EmptyData, Data, NoRecords, MaybeData, MaybeRow

(* What the statements and GET make of a record. *)
LEMMA EncodingFacts ==
  /\ \A d \in Data : Stored[d] # Broken => Stored[d] \in Data \cup {Unreadable}
  /\ \A d \in Data : Cut[d] \in Data \cup {Unreadable}
  BY CacheAssumption DEF CacheAssumption

(* A row that loadPlayerDataFromDB accepts is a record, and so is a hit in Redis. *)
LEMMA RowFacts ==
  ASSUME TypeOK, NEW p \in Players
  PROVE  /\ Row(p) \in MaybeRow
         /\ Loadable(p) => dbUp /\ Select(p) = Row(p) /\ Select(p) \in Data
         /\ RedisGet(p) \in Data \cup {Unreadable}
         /\ RedisHit(p) => RedisGet(p) \in Data
<1>1. Row(p) \in MaybeRow
  BY DataFacts DEF TypeOK, Row
<1>2. Loadable(p) => dbUp /\ Select(p) = Row(p) /\ Select(p) \in Data
  BY <1>1, DataFacts DEF Loadable, Select
<1>3. RedisGet(p) \in Data \cup {Unreadable}
  <2>1. redis[p] \in MaybeData
    BY DEF TypeOK
  <2>. QED  BY <2>1, DataFacts, EncodingFacts DEF RedisGet
<1>. QED  BY <1>1, <1>2, <1>3 DEF RedisHit

(* The row of a statement that succeeds. *)
LEMMA StoreFacts ==
  ASSUME TypeOK, NEW p \in Players, StorePlayer(p)
  PROVE  /\ rows' \in [Players -> MaybeRow] /\ pending' \in [Players -> MaybeRow]
         /\ dirtyFlags' \in [Players -> {"none", "clean", "dirty"}]
<1>1. CASE CanStore(p)
  <2>1. cacheData[p] \in Data
    BY <1>1, DataFacts DEF CanStore, Cached, TypeOK
  <2>2. Stored[cacheData[p]] \in MaybeRow
    BY <2>1, <1>1, EncodingFacts, DataFacts DEF CanStore
  <2>. QED  BY <2>2, <1>1 DEF StorePlayer, SendRow, TypeOK
<1>2. CASE ~CanStore(p)
  BY <1>2 DEF StorePlayer, SendRow, TypeOK
<1>. QED  BY <1>1, <1>2

LEMMA NothingType == Nothing \in [player : Players \cup {Absent}, data : MaybeData]
  BY DEF Nothing, MaybeData

LEMMA FreshFacts ==
  /\ FreshThreads \in [Threads -> Labels]
  /\ NoFlags \in [Players -> {"none", "clean", "dirty"}]
  /\ NoArg \in [Threads -> [player : Players \cup {Absent}, data : MaybeData]]
  /\ NoReturn \in [Threads -> {"return", "loop", "stop", "handler", "destroy"}]
  BY NothingType DEF FreshThreads, Labels, NoFlags, NoArg, NoReturn

LEMMA SwitchFacts ==
  EnableRedis \in BOOLEAN /\ EnableDatabase \in BOOLEAN /\ MaxFaults \in Nat
  BY CacheAssumption DEF CacheAssumption, EnableRedis, EnableDatabase

LEMMA RedisFacts ==
  ASSUME TypeOK, NEW p \in Players, NEW d \in MaybeData, RedisSet(p, d)
  PROVE  redis' \in [Players -> MaybeData] /\ unsent' \subseteq Players
BY DEF TypeOK, RedisSet

LEMMA LookupFacts ==
  ASSUME TypeOK, NEW p \in Players, Lookup(p)
  PROVE  /\ cacheData' \in [Players -> MaybeData]
         /\ dirtyFlags' \in [Players -> {"none", "clean", "dirty"}]
         /\ redis' \in [Players -> MaybeData] /\ unsent' \subseteq Players
<1>1. CASE ColdLoad(p)
  <2>1. Select(p) \in MaybeData
    BY <1>1, RowFacts, DataFacts DEF ColdLoad
  <2>2. Install(p, Select(p)) /\ RedisSet(p, Select(p))
    BY <1>1 DEF Lookup
  <2>3. redis' \in [Players -> MaybeData] /\ unsent' \subseteq Players
    BY <2>1, <2>2, RedisFacts
  <2>. QED  BY <2>1, <2>2, <2>3 DEF Install, TypeOK
<1>2. CASE ~ColdLoad(p) /\ ~Cached(p) /\ RedisHit(p)
  <2>1. RedisGet(p) \in MaybeData
    BY <1>2, RowFacts, DataFacts
  <2>. QED  BY <2>1, <1>2 DEF Lookup, Install, TypeOK
<1>3. CASE ~ColdLoad(p) /\ ~(~Cached(p) /\ RedisHit(p))
  BY <1>3 DEF Lookup, TypeOK, cacheVars
<1>. QED  BY <1>1, <1>2, <1>3

LEMMA FetchedFacts ==
  ASSUME TypeOK, NEW p \in Players
  PROVE  Fetched(p) \subseteq Data
<1>1. CASE Cached(p)
  <2>1. Fetched(p) = {cacheData[p]}
    BY <1>1 DEF Fetched
  <2>. QED  BY <2>1, <1>1, DataFacts DEF Cached, TypeOK
<1>2. CASE ~Cached(p) /\ RedisGet(p) = Unreadable
  BY <1>2 DEF Fetched
<1>3. CASE ~Cached(p) /\ RedisGet(p) # Unreadable
  <2>1. Fetched(p) = {RedisGet(p)}
    BY <1>3 DEF Fetched
  <2>. QED  BY <2>1, <1>3, RowFacts
<1>. QED  BY <1>1, <1>2, <1>3

LEMMA AbortTypes ==
  ASSUME TypeOK, Abort
  PROVE  TypeOK'
BY DataFacts DEF Abort, EndProcess, ConnectionLost, TypeOK,
  cacheVars, threadVars, mutexVars, serverVars

(* Every step keeps the types; the bound of the mutex depth needs MutexOwners. *)
LEMMA TypeStep ==
  ASSUME TypeOK, MutexOwners, TransactionInsideMutex, HeldRecords, [Next]_vars
  PROVE  TypeOK'
<1> USE DEF cacheVars, mutexVars, threadVars, modeVars, redisLink, redisVars, dbVars, serverVars, Goto
<1>1. ASSUME NEW t \in Clients, NEW p \in Players, GetPlayerData(t, p)
      PROVE  TypeOK'
  BY <1>1, TypeOK, LookupFacts DEF GetPlayerData, TypeOK
<1>2. ASSUME NEW t \in Clients, NEW p \in Players, GetHangs(t, p)
      PROVE  TypeOK'
  BY <1>2, TypeOK, ThreadFacts DEF GetHangs, TypeOK, Labels
<1>3. ASSUME NEW t \in Clients, NEW p \in Players, LoadSelect(t, p)
      PROVE  TypeOK'
  <2>1. [player |-> p, data |-> Select(p)] \in [player : Players \cup {Absent}, data : MaybeData]
    BY <1>3, RowFacts, DataFacts DEF LoadSelect
  <2>. QED  BY <2>1, <1>3, TypeOK DEF LoadSelect, TypeOK, Labels
<1>4. ASSUME NEW t \in Clients, NEW p \in Players, SetDirty(t, p)
      PROVE  TypeOK'
  BY <1>4, TypeOK DEF SetDirty, SetFlags, TypeOK
<1>5. ASSUME NEW t \in Clients, NEW p \in Players, ClearDirty(t, p)
      PROVE  TypeOK'
  BY <1>5, TypeOK DEF ClearDirty, SetFlags, TypeOK
<1>6. ASSUME NEW t \in Clients, NEW p \in Players, SavePlayerDataToDB(t, p)
      PROVE  TypeOK'
  <2>1. /\ rows' \in [Players -> MaybeRow] /\ pending' \in [Players -> MaybeRow]
        /\ dirtyFlags' \in [Players -> {"none", "clean", "dirty"}]
    BY <1>6, TypeOK, StoreFacts DEF SavePlayerDataToDB
  <2> QED
    BY <2>1, <1>6, TypeOK DEF TypeOK, SavePlayerDataToDB
<1>7. ASSUME NEW t \in Clients, NEW p \in Players, NEW d \in Data, SetPlayerData(t, p, d)
      PROVE  TypeOK'
  BY <1>7, TypeOK, DataFacts DEF SetPlayerData, Put, RedisSet, TypeOK
<1>8. ASSUME NEW t \in Clients, NEW p \in Players, NEW s \in Sections, NEW v \in Vals, SetSection(t, p, s, v)
      PROVE  TypeOK'
  <2>1. PICK d \in Fetched(p) :
          arg' = [arg EXCEPT ![t] = [player |-> p, data |-> [d EXCEPT ![s] = v]]]
    BY <1>8 DEF SetSection
  <2>2. [player |-> p, data |-> [d EXCEPT ![s] = v]]
          \in [player : Players \cup {Absent}, data : MaybeData]
    BY <2>1, FetchedFacts, DataFacts DEF Data
  <2>3. Lookup(p)
    BY <1>8 DEF SetSection
  <2>. QED  BY <2>1, <2>2, <2>3, <1>8, TypeOK, LookupFacts DEF TypeOK, SetSection, Labels
<1>9. ASSUME NEW t \in Clients, LoadBreaksConnection(t)
      PROVE  TypeOK'
  BY <1>9, TypeOK, DataFacts DEF LoadBreaksConnection, ConnectionLost, TypeOK
<1>10. ASSUME NEW t \in Clients, MarkAllDirty(t)
      PROVE  TypeOK'
  BY <1>10, TypeOK DEF MarkAllDirty, SetFlags, TypeOK
<1>11. ASSUME NEW t \in Clients, EnableDBOnlyMode(t)
      PROVE  TypeOK'
  BY <1>11, TypeOK DEF EnableDBOnlyMode, TypeOK
<1>12. ASSUME NEW t \in Clients, SaveAll(t)
      PROVE  TypeOK'
  BY <1>12, TypeOK, ThreadFacts DEF SaveAll, TypeOK, Labels
<1>13. ASSUME NEW t \in Clients, Initialize(t)
      PROVE  TypeOK'
  <2>1. redisUp' \in BOOLEAN /\ dbUp' \in BOOLEAN
    BY <1>13, SwitchFacts DEF Initialize
  <2>. QED  BY <1>13, <2>1, TypeOK, DataFacts DEF Initialize, TypeOK
<1>14. ASSUME NEW t \in Clients, Start(t)
      PROVE  TypeOK'
  <2>1. CASE Joinable(Timer) \/ Joinable(Poller)
    BY <2>1, <1>14, TypeOK, DataFacts DEF Start, Abort, EndProcess, ConnectionLost, TypeOK
  <2>2. CASE ~(Joinable(Timer) \/ Joinable(Poller))
    <3>1. /\ pc' \in [Threads -> Labels]
          /\ after' \in [Threads -> {"return", "loop", "stop", "handler", "destroy"}]
      BY <2>2, <1>14, TypeOK, ThreadFacts DEF Start, TypeOK, Labels
    <3> QED
      BY <2>2, <3>1, <1>14, TypeOK DEF Start, TypeOK
  <2> QED
    BY <2>1, <2>2
<1>15. ASSUME NEW t \in Clients, Stop(t, "stop")
      PROVE  TypeOK'
  BY <1>15, TypeOK, ThreadFacts DEF Stop, TypeOK, Labels
<1>16. ASSUME NEW t \in Clients, Stop(t, "destroy")
      PROVE  TypeOK'
  BY <1>16, TypeOK, ThreadFacts DEF Stop, TypeOK, Labels
<1>17. ASSUME NEW t \in Threads, SetSectionPut(t)
      PROVE  TypeOK'
  <2>1. arg[t].player \in Players /\ arg[t].data \in MaybeData
    BY <1>17, HeldRecords, DataFacts DEF SetSectionPut, HeldRecords
  <2>2. redis' \in [Players -> MaybeData] /\ unsent' \subseteq Players
    BY <2>1, <1>17, RedisFacts DEF SetSectionPut, Put
  <2>. QED
    BY <2>1, <2>2, <1>17, TypeOK, NothingType, DataFacts DEF SetSectionPut, Put, TypeOK, Labels
<1>18. ASSUME NEW t \in Threads, LoadInstall(t)
      PROVE  TypeOK'
  <2>1. arg[t].player \in Players /\ arg[t].data \in MaybeData
    BY <1>18, HeldRecords, DataFacts DEF LoadInstall, HeldRecords
  <2>2. redis' \in [Players -> MaybeData] /\ unsent' \subseteq Players
    BY <2>1, <1>18, RedisFacts DEF LoadInstall
  <2>. QED
    BY <2>1, <2>2, <1>18, TypeOK, NothingType DEF LoadInstall, Install, TypeOK, Labels
<1>19. ASSUME NEW t \in Threads, SaveNothing(t)
      PROVE  TypeOK'
  BY <1>19, TypeOK DEF SaveNothing, SaveReturn, TypeOK, Labels
<1>20. ASSUME NEW t \in Threads, SaveBegin(t)
      PROVE  TypeOK'
  <2>1. depth' \in 0..2
    BY <1>20, TypeOK, MutexOwners DEF TypeOK, SaveBegin, MutexOwners
  <2>2. rows' \in [Players -> MaybeRow]
    BY <1>20, TypeOK, RowFacts DEF SaveBegin, Committed
  <2> QED
    BY <2>1, <2>2, <1>20, TypeOK, DataFacts DEF TypeOK, SaveBegin, Labels
<1>21. ASSUME NEW t \in Threads, SaveCommit(t)
      PROVE  TypeOK'
  <2>1. depth' \in 0..2 /\ owner' \in Threads \cup {NoThread}
    BY <1>21, TypeOK, MutexOwners, TransactionInsideMutex, ThreadFacts
    DEF TypeOK, SaveCommit, MutexOwners, TransactionInsideMutex
  <2>2. rows' \in [Players -> MaybeRow]
    BY <1>21, TypeOK, RowFacts DEF SaveCommit, Committed
  <2>3. pc' \in [Threads -> Labels]
    BY <1>21, TypeOK DEF TypeOK, SaveCommit, SaveReturn, Labels
  <2> QED
    BY <2>1, <2>2, <2>3, <1>21, TypeOK, DataFacts DEF TypeOK, SaveCommit
<1>22. ASSUME NEW t \in Threads, SaveHangs(t)
      PROVE  TypeOK'
  BY <1>22, TypeOK, ThreadFacts DEF SaveHangs, TypeOK, Labels
<1>23. ASSUME NEW t \in Threads, NEW p \in Players, SyncPlayer(t, p)
      PROVE  TypeOK'
  <2>1. /\ rows' \in [Players -> MaybeRow] /\ pending' \in [Players -> MaybeRow]
        /\ dirtyFlags' \in [Players -> {"none", "clean", "dirty"}]
    BY <1>23, TypeOK, StoreFacts DEF SyncPlayer
  <2> QED
    BY <2>1, <1>23, TypeOK DEF TypeOK, SyncPlayer
<1>24. ASSUME NEW t \in Threads, Join(t, Timer, "joinTimer", "waitTimer", "joinPoller")
      PROVE  TypeOK'
  <2>1. CASE t = Timer
    BY <2>1, <1>24, AbortTypes DEF Join
  <2>2. CASE t # Timer
    <3>1. pc' \in [Threads -> Labels]
      BY <1>24, <2>2, TypeOK DEF Join, TypeOK, Labels
    <3>2. UNCHANGED <<cacheVars, mutexVars, after, arg, todo, failed, modeVars, redisVars,
                      dbVars, written>>
      BY <1>24, <2>2 DEF Join
    <3>. QED  BY <3>1, <3>2, TypeOK DEF TypeOK
  <2>. QED  BY <2>1, <2>2
<1>25. ASSUME NEW t \in Threads, Joined(t, Timer, "waitTimer", "joinPoller")
      PROVE  TypeOK'
  <2>1. CASE Abort
    BY <2>1, AbortTypes
  <2>2. CASE ~Abort
    <3>1. pc' \in [Threads -> Labels]
      BY <1>25, <2>2, TypeOK DEF Joined, TypeOK, Labels
    <3>2. UNCHANGED <<cacheVars, mutexVars, after, arg, todo, failed, modeVars, redisVars,
                      dbVars, written>>
      BY <1>25, <2>2 DEF Joined
    <3>. QED  BY <3>1, <3>2, TypeOK DEF TypeOK
  <2>. QED  BY <2>1, <2>2
<1>26. ASSUME NEW t \in Threads, Join(t, Poller, "joinPoller", "waitPoller", "disconnect")
      PROVE  TypeOK'
  <2>1. CASE t = Poller
    BY <2>1, <1>26, AbortTypes DEF Join
  <2>2. CASE t # Poller
    <3>1. pc' \in [Threads -> Labels]
      BY <1>26, <2>2, TypeOK DEF Join, TypeOK, Labels
    <3>2. UNCHANGED <<cacheVars, mutexVars, after, arg, todo, failed, modeVars, redisVars,
                      dbVars, written>>
      BY <1>26, <2>2 DEF Join
    <3>. QED  BY <3>1, <3>2, TypeOK DEF TypeOK
  <2>. QED  BY <2>1, <2>2
<1>27. ASSUME NEW t \in Threads, Joined(t, Poller, "waitPoller", "disconnect")
      PROVE  TypeOK'
  <2>1. CASE Abort
    BY <2>1, AbortTypes
  <2>2. CASE ~Abort
    <3>1. pc' \in [Threads -> Labels]
      BY <1>27, <2>2, TypeOK DEF Joined, TypeOK, Labels
    <3>2. UNCHANGED <<cacheVars, mutexVars, after, arg, todo, failed, modeVars, redisVars,
                      dbVars, written>>
      BY <1>27, <2>2 DEF Joined
    <3>. QED  BY <3>1, <3>2, TypeOK DEF TypeOK
  <2>. QED  BY <2>1, <2>2
<1>28. ASSUME NEW t \in Threads, Disconnect(t)
      PROVE  TypeOK'
  BY <1>28, TypeOK, DataFacts DEF Disconnect, ConnectionLost, TypeOK, Labels
<1>29. ASSUME TimerWake
      PROVE  TypeOK'
  BY <1>29, TypeOK, ThreadFacts DEF TimerWake, TypeOK, Labels
<1>30. ASSUME PollerInstall
      PROVE  TypeOK'
  BY <1>30, TypeOK, ThreadFacts DEF PollerInstall, TypeOK, Labels
<1>31. ASSUME PollerDone
      PROVE  TypeOK'
  BY <1>31, TypeOK, ThreadFacts DEF PollerDone, TypeOK, Labels
<1>32. ASSUME DbDrop
      PROVE  TypeOK'
  <2>1. faults' \in 0..MaxFaults
    BY <1>32, TypeOK, SwitchFacts DEF TypeOK, DbDrop, Fault
  <2> QED
    BY <2>1, <1>32, TypeOK, DataFacts DEF TypeOK, DbDrop, Fault, ConnectionLost
<1>33. ASSUME RedisDrop
      PROVE  TypeOK'
  <2>1. faults' \in 0..MaxFaults
    BY <1>33, TypeOK, SwitchFacts DEF TypeOK, RedisDrop, Fault
  <2> QED
    BY <2>1, <1>33, TypeOK, DataFacts DEF TypeOK, RedisDrop, Fault
<1>34. ASSUME Crash
      PROVE  TypeOK'
  <2>1. faults' \in 0..MaxFaults
    BY <1>34, TypeOK, SwitchFacts DEF TypeOK, Crash, Fault
  <2> QED
    BY <2>1, <1>34, TypeOK, DataFacts DEF TypeOK, Crash, Fault, EndProcess, ConnectionLost
<1>35. ASSUME Restart
      PROVE  TypeOK'
  <2>1. /\ cacheData' \in [Players -> MaybeData] /\ pending' \in [Players -> MaybeRow]
        /\ redis' \in [Players -> MaybeData] /\ rows' \in [Players -> MaybeRow]
        /\ written' \in [Players -> MaybeRow]
        /\ dirtyFlags' \in [Players -> {"none", "clean", "dirty"}]
    BY <1>35, TypeOK, DataFacts, FreshFacts DEF TypeOK, Restart
  <2>2. /\ pc' \in [Threads -> Labels]
        /\ arg' \in [Threads -> [player : Players \cup {Absent}, data : MaybeData]]
        /\ after' \in [Threads -> {"return", "loop", "stop", "handler", "destroy"}]
    BY <1>35, FreshFacts DEF Restart
  <2>3. depth' \in 0..2
    BY <1>35, TypeOK, SwitchFacts DEF TypeOK, Restart
  <2>6. redisUp' \in {FALSE, EnableRedis} /\ dbUp' = EnableDatabase
    BY <1>35 DEF Restart
  <2>7. redisUp' \in BOOLEAN /\ dbUp' \in BOOLEAN
    BY <2>6, SwitchFacts
  <2>4. build' \in Builds /\ faults' \in 0..MaxFaults
    BY <1>35, TypeOK DEF TypeOK, Restart
  <2>5. redis' \in [Players -> MaybeData] /\ rows' \in [Players -> MaybeRow]
    BY <1>35, TypeOK DEF TypeOK, Restart
  <2> QED
    BY <2>1, <2>2, <2>3, <2>4, <2>5, <2>7, <1>35 DEF TypeOK, Restart
<1>36. ASSUME NEW t \in Threads, Signal(t)
      PROVE  TypeOK'
  <2>1. faults' \in 0..MaxFaults
    BY <1>36, TypeOK, SwitchFacts DEF TypeOK, Signal
  <2>2. depth' \in 0..2 /\ owner' \in Threads \cup {NoThread}
    BY <1>36, TypeOK DEF TypeOK, Signal
  <2> QED
    BY <2>1, <2>2, <1>36, TypeOK, NothingType DEF TypeOK, Signal, Labels
<1>37. ASSUME NEW t \in Clients, InitializeCrashes(t)
      PROVE  TypeOK'
  BY <1>37, TypeOK, DataFacts DEF TypeOK, InitializeCrashes, FreeUnderSave, EndProcess, ConnectionLost, Call
<1>38. ASSUME NEW t \in Threads, DisconnectCrashes(t)
      PROVE  TypeOK'
  BY <1>38, TypeOK, DataFacts DEF TypeOK, DisconnectCrashes, FreeUnderSave, EndProcess, ConnectionLost
<1>39. ASSUME DbRefuses
      PROVE  TypeOK'
  <2>1. faults' \in 0..MaxFaults
    BY <1>39, TypeOK, SwitchFacts DEF TypeOK, DbRefuses, Fault
  <2> QED
    BY <2>1, <1>39, TypeOK, DataFacts DEF TypeOK, DbRefuses, Fault
<1>40. ASSUME RedisRefuses
      PROVE  TypeOK'
  <2>1. faults' \in 0..MaxFaults
    BY <1>40, TypeOK, SwitchFacts DEF TypeOK, RedisRefuses, Fault
  <2> QED
    BY <2>1, <1>40, TypeOK, DataFacts DEF TypeOK, RedisRefuses, Fault
<1>41. ASSUME ServersRecover
      PROVE  TypeOK'
  BY <1>41, TypeOK, DataFacts DEF TypeOK, ServersRecover
<1>42. CASE UNCHANGED vars
  BY <1>42 DEF vars, TypeOK
<1>43. QED
  BY <1>1, <1>2, <1>3, <1>4, <1>5, <1>6, <1>7, <1>8, <1>9, <1>10, <1>11, <1>12, <1>13, <1>14,
       <1>15, <1>16, <1>17, <1>18, <1>19, <1>20, <1>21, <1>22, <1>23, <1>24, <1>25, <1>26,
       <1>27, <1>28, <1>29, <1>30, <1>31, <1>32, <1>33, <1>34, <1>35, <1>36, <1>37, <1>38, <1>39,
       <1>40, <1>41, <1>42
  DEF Next, ClientCall, ThreadStep, Background, Environment

(* The mutex changes hands as MutexOwners says. *)
LEMMA MutexOwnersStep ==
  ASSUME TypeOK, MutexOwners, TransactionInsideMutex, [Next]_vars
  PROVE  MutexOwners'
<1> USE DEF cacheVars, mutexVars, threadVars, modeVars, redisLink, redisVars, dbVars, serverVars, Goto
<1>1. ASSUME NEW t \in Clients, NEW p \in Players, GetPlayerData(t, p)
      PROVE  MutexOwners'
  BY <1>1, TypeOK, MutexOwners, ThreadFacts
  DEF GetPlayerData, Lookup, Install, RedisSet, MutexOwners, InHandler, StopLabels, TypeOK,
       MutexFree, Call
<1>2. ASSUME NEW t \in Clients, NEW p \in Players, GetHangs(t, p)
      PROVE  MutexOwners'
  BY <1>2, TypeOK, MutexOwners, ThreadFacts
  DEF GetHangs, MutexOwners, InHandler, StopLabels, TypeOK, MutexFree, Call
<1>3. ASSUME NEW t \in Clients, NEW p \in Players, LoadSelect(t, p)
      PROVE  MutexOwners'
  BY <1>3, TypeOK, MutexOwners, ThreadFacts
  DEF LoadSelect, MutexOwners, InHandler, StopLabels, TypeOK, MutexFree, Call
<1>4. ASSUME NEW t \in Clients, NEW p \in Players, SetDirty(t, p)
      PROVE  MutexOwners'
  BY <1>4, TypeOK, MutexOwners, ThreadFacts
  DEF SetDirty, SetFlags, MutexOwners, InHandler, StopLabels, TypeOK, MutexFree, Call
<1>5. ASSUME NEW t \in Clients, NEW p \in Players, ClearDirty(t, p)
      PROVE  MutexOwners'
  BY <1>5, TypeOK, MutexOwners, ThreadFacts
  DEF ClearDirty, SetFlags, MutexOwners, InHandler, StopLabels, TypeOK, MutexFree, Call
<1>6. ASSUME NEW t \in Clients, NEW p \in Players, SavePlayerDataToDB(t, p)
      PROVE  MutexOwners'
  BY <1>6, TypeOK, MutexOwners, ThreadFacts
  DEF SavePlayerDataToDB, StorePlayer, SendRow, MutexOwners, InHandler, StopLabels, TypeOK, MutexFree,
       Call
<1>7. ASSUME NEW t \in Clients, NEW p \in Players, NEW d \in Data, SetPlayerData(t, p, d)
      PROVE  MutexOwners'
  BY <1>7, TypeOK, MutexOwners, ThreadFacts
  DEF SetPlayerData, Put, RedisSet, MutexOwners, InHandler, StopLabels, TypeOK, MutexFree, Call
<1>8. ASSUME NEW t \in Clients, NEW p \in Players, NEW s \in Sections, NEW v \in Vals, SetSection(t, p, s, v)
      PROVE  MutexOwners'
  BY <1>8, TypeOK, MutexOwners, ThreadFacts
  DEF SetSection, Lookup, Install, RedisSet, MutexOwners, InHandler, StopLabels, TypeOK,
       MutexFree, Call
<1>9. ASSUME NEW t \in Clients, LoadBreaksConnection(t)
      PROVE  MutexOwners'
  BY <1>9, TypeOK, MutexOwners, ThreadFacts
  DEF LoadBreaksConnection, ConnectionLost, MutexOwners, InHandler, StopLabels, TypeOK,
       MutexFree, Call
<1>10. ASSUME NEW t \in Clients, MarkAllDirty(t)
      PROVE  MutexOwners'
  BY <1>10, TypeOK, MutexOwners, ThreadFacts
  DEF MarkAllDirty, SetFlags, MutexOwners, InHandler, StopLabels, TypeOK, MutexFree, Call
<1>11. ASSUME NEW t \in Clients, EnableDBOnlyMode(t)
      PROVE  MutexOwners'
  BY <1>11, TypeOK, MutexOwners, ThreadFacts
  DEF EnableDBOnlyMode, MutexOwners, InHandler, StopLabels, TypeOK, MutexFree, Call
<1>12. ASSUME NEW t \in Clients, SaveAll(t)
      PROVE  MutexOwners'
  BY <1>12, TypeOK, MutexOwners, ThreadFacts
  DEF SaveAll, MutexOwners, InHandler, StopLabels, TypeOK, MutexFree, Call
<1>13. ASSUME NEW t \in Clients, Initialize(t)
      PROVE  MutexOwners'
  BY <1>13, TypeOK, MutexOwners, ThreadFacts
  DEF Initialize, MutexOwners, InHandler, StopLabels, TypeOK, MutexFree, Call
<1>14. ASSUME NEW t \in Clients, Start(t)
      PROVE  MutexOwners'
  <2>1. CASE Joinable(Timer) \/ Joinable(Poller)
    BY <2>1, <1>14, TypeOK, MutexOwners
    DEF Start, Abort, EndProcess, ConnectionLost, MutexOwners, InHandler, StopLabels
  <2>2. CASE ~(Joinable(Timer) \/ Joinable(Poller))
    BY <2>2, <1>14, TypeOK, MutexOwners, ThreadFacts
    DEF Start, Joinable, Call, TypeOK, MutexOwners, InHandler, StopLabels
  <2> QED
    BY <2>1, <2>2
<1>15. ASSUME NEW t \in Clients, Stop(t, "stop")
      PROVE  MutexOwners'
  BY <1>15, TypeOK, MutexOwners, ThreadFacts
  DEF Stop, MutexOwners, InHandler, StopLabels, TypeOK, MutexFree, Call
<1>16. ASSUME NEW t \in Clients, Stop(t, "destroy")
      PROVE  MutexOwners'
  BY <1>16, TypeOK, MutexOwners, ThreadFacts
  DEF Stop, MutexOwners, InHandler, StopLabels, TypeOK, MutexFree, Call
<1>17. ASSUME NEW t \in Threads, SetSectionPut(t)
      PROVE  MutexOwners'
  BY <1>17, TypeOK, MutexOwners, ThreadFacts
  DEF SetSectionPut, Put, RedisSet, MutexOwners, InHandler, StopLabels, TypeOK, MutexFree
<1>18. ASSUME NEW t \in Threads, LoadInstall(t)
      PROVE  MutexOwners'
  BY <1>18, TypeOK, MutexOwners, ThreadFacts
  DEF LoadInstall, Install, RedisSet, MutexOwners, InHandler, StopLabels, TypeOK, MutexFree
<1>19. ASSUME NEW t \in Threads, SaveNothing(t)
      PROVE  MutexOwners'
  BY <1>19, TypeOK, MutexOwners, ThreadFacts
  DEF SaveNothing, SaveReturn, MutexOwners, InHandler, StopLabels, TypeOK, MutexFree
<1>20. ASSUME NEW t \in Threads, SaveBegin(t)
      PROVE  MutexOwners'
  BY <1>20, TypeOK, MutexOwners, ThreadFacts
  DEF SaveBegin, MutexOwners, InHandler, StopLabels, TypeOK, MutexFree
<1>21. ASSUME NEW t \in Threads, SaveCommit(t)
      PROVE  MutexOwners'
  BY <1>21, TypeOK, MutexOwners, ThreadFacts, TransactionInsideMutex
  DEF SaveCommit, SaveReturn, MutexOwners, InHandler, StopLabels, TypeOK, MutexFree,
       TransactionInsideMutex
<1>22. ASSUME NEW t \in Threads, SaveHangs(t)
      PROVE  MutexOwners'
  <2>1. pc' = [pc EXCEPT ![t] = "hung"] /\ UNCHANGED <<owner, depth, proc, after>> /\ owner = t
    BY <1>22 DEF SaveHangs, Goto, mutexVars, modeVars
  <2> QED
    BY <2>1, TypeOK, MutexOwners, ThreadFacts
    DEF MutexOwners, InHandler, StopLabels, TypeOK
<1>23. ASSUME NEW t \in Threads, NEW p \in Players, SyncPlayer(t, p)
      PROVE  MutexOwners'
  BY <1>23, TypeOK, MutexOwners, ThreadFacts, TransactionInsideMutex
  DEF SyncPlayer, StorePlayer, SendRow, MutexOwners, InHandler, StopLabels, TypeOK, MutexFree,
       TransactionInsideMutex
<1>24. ASSUME NEW t \in Threads, Join(t, Timer, "joinTimer", "waitTimer", "joinPoller")
      PROVE  MutexOwners'
  BY <1>24, TypeOK, MutexOwners, ThreadFacts
  DEF Join, Abort, EndProcess, ConnectionLost, MutexOwners, InHandler, StopLabels, TypeOK,
       MutexFree
<1>25. ASSUME NEW t \in Threads, Joined(t, Timer, "waitTimer", "joinPoller")
      PROVE  MutexOwners'
  BY <1>25, TypeOK, MutexOwners, ThreadFacts
  DEF Joined, Abort, EndProcess, ConnectionLost, MutexOwners, InHandler, StopLabels, TypeOK,
       MutexFree
<1>26. ASSUME NEW t \in Threads, Join(t, Poller, "joinPoller", "waitPoller", "disconnect")
      PROVE  MutexOwners'
  BY <1>26, TypeOK, MutexOwners, ThreadFacts
  DEF Join, Abort, EndProcess, ConnectionLost, MutexOwners, InHandler, StopLabels, TypeOK,
       MutexFree
<1>27. ASSUME NEW t \in Threads, Joined(t, Poller, "waitPoller", "disconnect")
      PROVE  MutexOwners'
  BY <1>27, TypeOK, MutexOwners, ThreadFacts
  DEF Joined, Abort, EndProcess, ConnectionLost, MutexOwners, InHandler, StopLabels, TypeOK,
       MutexFree
<1>28. ASSUME NEW t \in Threads, Disconnect(t)
      PROVE  MutexOwners'
  BY <1>28, TypeOK, MutexOwners, ThreadFacts
  DEF Disconnect, ConnectionLost, MutexOwners, InHandler, StopLabels, TypeOK, MutexFree
<1>29. ASSUME TimerWake
      PROVE  MutexOwners'
  BY <1>29, TypeOK, MutexOwners, ThreadFacts
  DEF TimerWake, MutexOwners, InHandler, StopLabels, TypeOK, MutexFree
<1>30. ASSUME PollerInstall
      PROVE  MutexOwners'
  BY <1>30, TypeOK, MutexOwners, ThreadFacts
  DEF PollerInstall, MutexOwners, InHandler, StopLabels, TypeOK, MutexFree
<1>31. ASSUME PollerDone
      PROVE  MutexOwners'
  BY <1>31, TypeOK, MutexOwners, ThreadFacts
  DEF PollerDone, MutexOwners, InHandler, StopLabels, TypeOK, MutexFree
<1>32. ASSUME DbDrop
      PROVE  MutexOwners'
  BY <1>32, TypeOK, MutexOwners, ThreadFacts
  DEF DbDrop, Fault, ConnectionLost, MutexOwners, InHandler, StopLabels, TypeOK, MutexFree
<1>33. ASSUME RedisDrop
      PROVE  MutexOwners'
  BY <1>33, TypeOK, MutexOwners, ThreadFacts
  DEF RedisDrop, Fault, MutexOwners, InHandler, StopLabels, TypeOK, MutexFree
<1>34. ASSUME Crash
      PROVE  MutexOwners'
  BY <1>34, TypeOK, MutexOwners, ThreadFacts
  DEF Crash, Fault, EndProcess, ConnectionLost, MutexOwners, InHandler, StopLabels, TypeOK,
       MutexFree
<1>35. ASSUME Restart
      PROVE  MutexOwners'
  BY <1>35, TypeOK, MutexOwners, ThreadFacts
  DEF Restart, MutexOwners, InHandler, StopLabels, TypeOK, MutexFree, FreshThreads
<1>36. ASSUME NEW t \in Threads, Signal(t)
      PROVE  MutexOwners'
  BY <1>36, TypeOK, MutexOwners, ThreadFacts
  DEF Signal, MutexOwners, InHandler, StopLabels, TypeOK, MutexFree
<1>37. ASSUME NEW t \in Clients, InitializeCrashes(t)
      PROVE  MutexOwners'
  BY <1>37, TypeOK, MutexOwners, ThreadFacts
  DEF InitializeCrashes, FreeUnderSave, EndProcess, ConnectionLost, Call, MutexOwners, InHandler, StopLabels, TypeOK, MutexFree
<1>38. ASSUME NEW t \in Threads, DisconnectCrashes(t)
      PROVE  MutexOwners'
  BY <1>38, TypeOK, MutexOwners, ThreadFacts
  DEF DisconnectCrashes, FreeUnderSave, EndProcess, ConnectionLost, MutexOwners, InHandler, StopLabels, TypeOK, MutexFree
<1>39. ASSUME DbRefuses
      PROVE  MutexOwners'
  BY <1>39, TypeOK, MutexOwners, ThreadFacts
  DEF DbRefuses, Fault, MutexOwners, InHandler, StopLabels, TypeOK, MutexFree
<1>40. ASSUME RedisRefuses
      PROVE  MutexOwners'
  BY <1>40, TypeOK, MutexOwners, ThreadFacts
  DEF RedisRefuses, Fault, MutexOwners, InHandler, StopLabels, TypeOK, MutexFree
<1>41. ASSUME ServersRecover
      PROVE  MutexOwners'
  BY <1>41, TypeOK, MutexOwners, ThreadFacts
  DEF ServersRecover, MutexOwners, InHandler, StopLabels, TypeOK, MutexFree
<1>42. CASE UNCHANGED vars
  BY <1>42 DEF vars, MutexOwners, InHandler, StopLabels, TypeOK, MutexFree
<1>43. QED
  BY <1>1, <1>2, <1>3, <1>4, <1>5, <1>6, <1>7, <1>8, <1>9, <1>10, <1>11, <1>12, <1>13, <1>14,
       <1>15, <1>16, <1>17, <1>18, <1>19, <1>20, <1>21, <1>22, <1>23, <1>24, <1>25, <1>26,
       <1>27, <1>28, <1>29, <1>30, <1>31, <1>32, <1>33, <1>34, <1>35, <1>36, <1>37, <1>38, <1>39,
       <1>40, <1>41, <1>42
  DEF Next, ClientCall, ThreadStep, Background, Environment

(* The transaction stays inside the mutex. *)
LEMMA TransactionStep ==
  ASSUME TypeOK, MutexOwners, TransactionInsideMutex, [Next]_vars
  PROVE  TransactionInsideMutex'
<1> USE DEF cacheVars, mutexVars, threadVars, modeVars, redisLink, redisVars, dbVars, serverVars, Goto
<1>1. ASSUME NEW t \in Clients, NEW p \in Players, GetPlayerData(t, p)
      PROVE  TransactionInsideMutex'
  BY <1>1, TypeOK, MutexOwners, TransactionInsideMutex, ThreadFacts
  DEF GetPlayerData, Lookup, Install, RedisSet, TransactionInsideMutex, MutexOwners, InHandler,
       StopLabels, TypeOK, MutexFree, Call
<1>2. ASSUME NEW t \in Clients, NEW p \in Players, GetHangs(t, p)
      PROVE  TransactionInsideMutex'
  BY <1>2, TypeOK, MutexOwners, TransactionInsideMutex, ThreadFacts
  DEF GetHangs, TransactionInsideMutex, MutexOwners, InHandler, StopLabels, TypeOK, MutexFree,
       Call
<1>3. ASSUME NEW t \in Clients, NEW p \in Players, LoadSelect(t, p)
      PROVE  TransactionInsideMutex'
  BY <1>3, TypeOK, MutexOwners, TransactionInsideMutex, ThreadFacts
  DEF LoadSelect, TransactionInsideMutex, MutexOwners, InHandler, StopLabels, TypeOK, MutexFree,
       Call
<1>4. ASSUME NEW t \in Clients, NEW p \in Players, SetDirty(t, p)
      PROVE  TransactionInsideMutex'
  BY <1>4, TypeOK, MutexOwners, TransactionInsideMutex, ThreadFacts
  DEF SetDirty, SetFlags, TransactionInsideMutex, MutexOwners, InHandler, StopLabels, TypeOK,
       MutexFree, Call
<1>5. ASSUME NEW t \in Clients, NEW p \in Players, ClearDirty(t, p)
      PROVE  TransactionInsideMutex'
  BY <1>5, TypeOK, MutexOwners, TransactionInsideMutex, ThreadFacts
  DEF ClearDirty, SetFlags, TransactionInsideMutex, MutexOwners, InHandler, StopLabels, TypeOK,
       MutexFree, Call
<1>6. ASSUME NEW t \in Clients, NEW p \in Players, SavePlayerDataToDB(t, p)
      PROVE  TransactionInsideMutex'
  BY <1>6, TypeOK, MutexOwners, TransactionInsideMutex, ThreadFacts
  DEF SavePlayerDataToDB, StorePlayer, SendRow, TransactionInsideMutex, MutexOwners, InHandler,
       StopLabels, TypeOK, MutexFree, Call
<1>7. ASSUME NEW t \in Clients, NEW p \in Players, NEW d \in Data, SetPlayerData(t, p, d)
      PROVE  TransactionInsideMutex'
  BY <1>7, TypeOK, MutexOwners, TransactionInsideMutex, ThreadFacts
  DEF SetPlayerData, Put, RedisSet, TransactionInsideMutex, MutexOwners, InHandler, StopLabels,
       TypeOK, MutexFree, Call
<1>8. ASSUME NEW t \in Clients, NEW p \in Players, NEW s \in Sections, NEW v \in Vals, SetSection(t, p, s, v)
      PROVE  TransactionInsideMutex'
  BY <1>8, TypeOK, MutexOwners, TransactionInsideMutex, ThreadFacts
  DEF SetSection, Lookup, Install, RedisSet, TransactionInsideMutex, MutexOwners, InHandler,
       StopLabels, TypeOK, MutexFree, Call
<1>9. ASSUME NEW t \in Clients, LoadBreaksConnection(t)
      PROVE  TransactionInsideMutex'
  BY <1>9, TypeOK, MutexOwners, TransactionInsideMutex, ThreadFacts
  DEF LoadBreaksConnection, ConnectionLost, TransactionInsideMutex, MutexOwners, InHandler,
       StopLabels, TypeOK, MutexFree, Call
<1>10. ASSUME NEW t \in Clients, MarkAllDirty(t)
      PROVE  TransactionInsideMutex'
  BY <1>10, TypeOK, MutexOwners, TransactionInsideMutex, ThreadFacts
  DEF MarkAllDirty, SetFlags, TransactionInsideMutex, MutexOwners, InHandler, StopLabels,
       TypeOK, MutexFree, Call
<1>11. ASSUME NEW t \in Clients, EnableDBOnlyMode(t)
      PROVE  TransactionInsideMutex'
  BY <1>11, TypeOK, MutexOwners, TransactionInsideMutex, ThreadFacts
  DEF EnableDBOnlyMode, TransactionInsideMutex, MutexOwners, InHandler, StopLabels, TypeOK,
       MutexFree, Call
<1>12. ASSUME NEW t \in Clients, SaveAll(t)
      PROVE  TransactionInsideMutex'
  BY <1>12, TypeOK, MutexOwners, TransactionInsideMutex, ThreadFacts
  DEF SaveAll, TransactionInsideMutex, MutexOwners, InHandler, StopLabels, TypeOK, MutexFree,
       Call
<1>13. ASSUME NEW t \in Clients, Initialize(t)
      PROVE  TransactionInsideMutex'
  BY <1>13, TypeOK, MutexOwners, TransactionInsideMutex, ThreadFacts
  DEF Initialize, TransactionInsideMutex, MutexOwners, InHandler, StopLabels, TypeOK, MutexFree,
       Call
<1>14. ASSUME NEW t \in Clients, Start(t)
      PROVE  TransactionInsideMutex'
  <2>1. CASE Joinable(Timer) \/ Joinable(Poller)
    BY <2>1, <1>14, TypeOK, MutexOwners, TransactionInsideMutex
    DEF Start, Abort, EndProcess, ConnectionLost, TransactionInsideMutex
  <2>2. CASE ~(Joinable(Timer) \/ Joinable(Poller))
    BY <2>2, <1>14, TypeOK, MutexOwners, TransactionInsideMutex, ThreadFacts
    DEF Start, Joinable, Call, TypeOK, TransactionInsideMutex
  <2> QED
    BY <2>1, <2>2
<1>15. ASSUME NEW t \in Clients, Stop(t, "stop")
      PROVE  TransactionInsideMutex'
  BY <1>15, TypeOK, MutexOwners, TransactionInsideMutex, ThreadFacts
  DEF Stop, TransactionInsideMutex, MutexOwners, InHandler, StopLabels, TypeOK, MutexFree, Call
<1>16. ASSUME NEW t \in Clients, Stop(t, "destroy")
      PROVE  TransactionInsideMutex'
  BY <1>16, TypeOK, MutexOwners, TransactionInsideMutex, ThreadFacts
  DEF Stop, TransactionInsideMutex, MutexOwners, InHandler, StopLabels, TypeOK, MutexFree, Call
<1>17. ASSUME NEW t \in Threads, SetSectionPut(t)
      PROVE  TransactionInsideMutex'
  BY <1>17, TypeOK, MutexOwners, TransactionInsideMutex, ThreadFacts
  DEF SetSectionPut, Put, RedisSet, TransactionInsideMutex, MutexOwners, InHandler, StopLabels,
       TypeOK, MutexFree
<1>18. ASSUME NEW t \in Threads, LoadInstall(t)
      PROVE  TransactionInsideMutex'
  BY <1>18, TypeOK, MutexOwners, TransactionInsideMutex, ThreadFacts
  DEF LoadInstall, Install, RedisSet, TransactionInsideMutex, MutexOwners, InHandler,
       StopLabels, TypeOK, MutexFree
<1>19. ASSUME NEW t \in Threads, SaveNothing(t)
      PROVE  TransactionInsideMutex'
  BY <1>19, TypeOK, MutexOwners, TransactionInsideMutex, ThreadFacts
  DEF SaveNothing, SaveReturn, TransactionInsideMutex, MutexOwners, InHandler, StopLabels,
       TypeOK, MutexFree
<1>20. ASSUME NEW t \in Threads, SaveBegin(t)
      PROVE  TransactionInsideMutex'
  BY <1>20, TypeOK, MutexOwners, TransactionInsideMutex, ThreadFacts
  DEF SaveBegin, TransactionInsideMutex, MutexOwners, InHandler, StopLabels, TypeOK, MutexFree
<1>21. ASSUME NEW t \in Threads, SaveCommit(t)
      PROVE  TransactionInsideMutex'
  BY <1>21, TypeOK, MutexOwners, TransactionInsideMutex, ThreadFacts
  DEF SaveCommit, SaveReturn, TransactionInsideMutex, MutexOwners, InHandler, StopLabels,
       TypeOK, MutexFree
<1>22. ASSUME NEW t \in Threads, SaveHangs(t)
      PROVE  TransactionInsideMutex'
  BY <1>22, TypeOK, MutexOwners, TransactionInsideMutex, ThreadFacts
  DEF SaveHangs, TransactionInsideMutex, MutexOwners, InHandler, StopLabels, TypeOK, MutexFree
<1>23. ASSUME NEW t \in Threads, NEW p \in Players, SyncPlayer(t, p)
      PROVE  TransactionInsideMutex'
  BY <1>23, TypeOK, MutexOwners, TransactionInsideMutex, ThreadFacts
  DEF SyncPlayer, StorePlayer, SendRow, TransactionInsideMutex, MutexOwners, InHandler, StopLabels,
       TypeOK, MutexFree
<1>24. ASSUME NEW t \in Threads, Join(t, Timer, "joinTimer", "waitTimer", "joinPoller")
      PROVE  TransactionInsideMutex'
  BY <1>24, TypeOK, MutexOwners, TransactionInsideMutex, ThreadFacts
  DEF Join, Abort, EndProcess, ConnectionLost, TransactionInsideMutex, MutexOwners, InHandler,
       StopLabels, TypeOK, MutexFree
<1>25. ASSUME NEW t \in Threads, Joined(t, Timer, "waitTimer", "joinPoller")
      PROVE  TransactionInsideMutex'
  BY <1>25, TypeOK, MutexOwners, TransactionInsideMutex, ThreadFacts
  DEF Joined, Abort, EndProcess, ConnectionLost, TransactionInsideMutex, MutexOwners, InHandler,
       StopLabels, TypeOK, MutexFree
<1>26. ASSUME NEW t \in Threads, Join(t, Poller, "joinPoller", "waitPoller", "disconnect")
      PROVE  TransactionInsideMutex'
  BY <1>26, TypeOK, MutexOwners, TransactionInsideMutex, ThreadFacts
  DEF Join, Abort, EndProcess, ConnectionLost, TransactionInsideMutex, MutexOwners, InHandler,
       StopLabels, TypeOK, MutexFree
<1>27. ASSUME NEW t \in Threads, Joined(t, Poller, "waitPoller", "disconnect")
      PROVE  TransactionInsideMutex'
  BY <1>27, TypeOK, MutexOwners, TransactionInsideMutex, ThreadFacts
  DEF Joined, Abort, EndProcess, ConnectionLost, TransactionInsideMutex, MutexOwners, InHandler,
       StopLabels, TypeOK, MutexFree
<1>28. ASSUME NEW t \in Threads, Disconnect(t)
      PROVE  TransactionInsideMutex'
  BY <1>28, TypeOK, MutexOwners, TransactionInsideMutex, ThreadFacts
  DEF Disconnect, ConnectionLost, TransactionInsideMutex, MutexOwners, InHandler, StopLabels,
       TypeOK, MutexFree
<1>29. ASSUME TimerWake
      PROVE  TransactionInsideMutex'
  BY <1>29, TypeOK, MutexOwners, TransactionInsideMutex, ThreadFacts
  DEF TimerWake, TransactionInsideMutex, MutexOwners, InHandler, StopLabels, TypeOK, MutexFree
<1>30. ASSUME PollerInstall
      PROVE  TransactionInsideMutex'
  BY <1>30, TypeOK, MutexOwners, TransactionInsideMutex, ThreadFacts
  DEF PollerInstall, TransactionInsideMutex, MutexOwners, InHandler, StopLabels, TypeOK,
       MutexFree
<1>31. ASSUME PollerDone
      PROVE  TransactionInsideMutex'
  BY <1>31, TypeOK, MutexOwners, TransactionInsideMutex, ThreadFacts
  DEF PollerDone, TransactionInsideMutex, MutexOwners, InHandler, StopLabels, TypeOK, MutexFree
<1>32. ASSUME DbDrop
      PROVE  TransactionInsideMutex'
  BY <1>32, TypeOK, MutexOwners, TransactionInsideMutex, ThreadFacts
  DEF DbDrop, Fault, ConnectionLost, TransactionInsideMutex, MutexOwners, InHandler, StopLabels,
       TypeOK, MutexFree
<1>33. ASSUME RedisDrop
      PROVE  TransactionInsideMutex'
  BY <1>33, TypeOK, MutexOwners, TransactionInsideMutex, ThreadFacts
  DEF RedisDrop, Fault, TransactionInsideMutex, MutexOwners, InHandler, StopLabels, TypeOK,
       MutexFree
<1>34. ASSUME Crash
      PROVE  TransactionInsideMutex'
  BY <1>34, TypeOK, MutexOwners, TransactionInsideMutex, ThreadFacts
  DEF Crash, Fault, EndProcess, ConnectionLost, TransactionInsideMutex, MutexOwners, InHandler,
       StopLabels, TypeOK, MutexFree
<1>35. ASSUME Restart
      PROVE  TransactionInsideMutex'
  BY <1>35, TypeOK, MutexOwners, TransactionInsideMutex, ThreadFacts
  DEF Restart, TransactionInsideMutex, MutexOwners, InHandler, StopLabels, TypeOK, MutexFree,
       FreshThreads
<1>36. ASSUME NEW t \in Threads, Signal(t)
      PROVE  TransactionInsideMutex'
  BY <1>36, TypeOK, MutexOwners, TransactionInsideMutex, ThreadFacts
  DEF Signal, TransactionInsideMutex, MutexOwners, InHandler, StopLabels, TypeOK, MutexFree
<1>37. ASSUME NEW t \in Clients, InitializeCrashes(t)
      PROVE  TransactionInsideMutex'
  BY <1>37, TypeOK, MutexOwners, TransactionInsideMutex, ThreadFacts
  DEF InitializeCrashes, FreeUnderSave, EndProcess, ConnectionLost, Call, TransactionInsideMutex, MutexOwners, InHandler, StopLabels, TypeOK,
       MutexFree
<1>38. ASSUME NEW t \in Threads, DisconnectCrashes(t)
      PROVE  TransactionInsideMutex'
  BY <1>38, TypeOK, MutexOwners, TransactionInsideMutex, ThreadFacts
  DEF DisconnectCrashes, FreeUnderSave, EndProcess, ConnectionLost, TransactionInsideMutex, MutexOwners, InHandler, StopLabels, TypeOK,
       MutexFree
<1>39. ASSUME DbRefuses
      PROVE  TransactionInsideMutex'
  BY <1>39, TypeOK, MutexOwners, TransactionInsideMutex, ThreadFacts
  DEF DbRefuses, Fault, TransactionInsideMutex, MutexOwners, InHandler, StopLabels, TypeOK,
       MutexFree
<1>40. ASSUME RedisRefuses
      PROVE  TransactionInsideMutex'
  BY <1>40, TypeOK, MutexOwners, TransactionInsideMutex, ThreadFacts
  DEF RedisRefuses, Fault, TransactionInsideMutex, MutexOwners, InHandler, StopLabels, TypeOK,
       MutexFree
<1>41. ASSUME ServersRecover
      PROVE  TransactionInsideMutex'
  BY <1>41, TypeOK, MutexOwners, TransactionInsideMutex, ThreadFacts
  DEF ServersRecover, TransactionInsideMutex, MutexOwners, InHandler, StopLabels, TypeOK,
       MutexFree
<1>42. CASE UNCHANGED vars
  BY <1>42 DEF vars, TransactionInsideMutex, MutexOwners, InHandler, StopLabels, TypeOK,
       MutexFree
<1>43. QED
  BY <1>1, <1>2, <1>3, <1>4, <1>5, <1>6, <1>7, <1>8, <1>9, <1>10, <1>11, <1>12, <1>13, <1>14,
       <1>15, <1>16, <1>17, <1>18, <1>19, <1>20, <1>21, <1>22, <1>23, <1>24, <1>25, <1>26,
       <1>27, <1>28, <1>29, <1>30, <1>31, <1>32, <1>33, <1>34, <1>35, <1>36, <1>37, <1>38, <1>39,
       <1>40, <1>41, <1>42
  DEF Next, ClientCall, ThreadStep, Background, Environment

(* Records carried between critical sections stay records. *)
LEMMA HeldRecordsStep ==
  ASSUME TypeOK, HeldRecords, [Next]_vars
  PROVE  HeldRecords'
<1> USE DEF cacheVars, mutexVars, threadVars, modeVars, redisLink, redisVars, dbVars, serverVars, Goto
<1>1. ASSUME NEW t \in Clients, NEW p \in Players, GetPlayerData(t, p)
      PROVE  HeldRecords'
  BY <1>1, TypeOK, HeldRecords, ThreadFacts, DataFacts
  DEF GetPlayerData, Lookup, Install, RedisSet, HeldRecords, TypeOK
<1>2. ASSUME NEW t \in Clients, NEW p \in Players, GetHangs(t, p)
      PROVE  HeldRecords'
  BY <1>2, TypeOK, HeldRecords, ThreadFacts, DataFacts DEF GetHangs, HeldRecords, TypeOK
<1>3. ASSUME NEW t \in Clients, NEW p \in Players, LoadSelect(t, p)
      PROVE  HeldRecords'
  <2>1. [player |-> p, data |-> Select(p)] \in [player : Players, data : Data]
    BY <1>3, RowFacts DEF LoadSelect
  <2>. QED  BY <2>1, <1>3, TypeOK, HeldRecords DEF LoadSelect, TypeOK, HeldRecords
<1>4. ASSUME NEW t \in Clients, NEW p \in Players, SetDirty(t, p)
      PROVE  HeldRecords'
  BY <1>4, TypeOK, HeldRecords, ThreadFacts, DataFacts
  DEF SetDirty, SetFlags, HeldRecords, TypeOK
<1>5. ASSUME NEW t \in Clients, NEW p \in Players, ClearDirty(t, p)
      PROVE  HeldRecords'
  BY <1>5, TypeOK, HeldRecords, ThreadFacts, DataFacts
  DEF ClearDirty, SetFlags, HeldRecords, TypeOK
<1>6. ASSUME NEW t \in Clients, NEW p \in Players, SavePlayerDataToDB(t, p)
      PROVE  HeldRecords'
  BY <1>6, TypeOK, HeldRecords, ThreadFacts, DataFacts
  DEF SavePlayerDataToDB, StorePlayer, SendRow, HeldRecords, TypeOK
<1>7. ASSUME NEW t \in Clients, NEW p \in Players, NEW d \in Data, SetPlayerData(t, p, d)
      PROVE  HeldRecords'
  BY <1>7, TypeOK, HeldRecords, ThreadFacts, DataFacts
  DEF SetPlayerData, Put, RedisSet, HeldRecords, TypeOK
<1>8. ASSUME NEW t \in Clients, NEW p \in Players, NEW s \in Sections, NEW v \in Vals, SetSection(t, p, s, v)
      PROVE  HeldRecords'
  <2>1. PICK d \in Fetched(p) :
          arg' = [arg EXCEPT ![t] = [player |-> p, data |-> [d EXCEPT ![s] = v]]]
    BY <1>8 DEF SetSection
  <2>2. [player |-> p, data |-> [d EXCEPT ![s] = v]] \in [player : Players, data : Data]
    BY <2>1, FetchedFacts DEF Data
  <2>. QED  BY <2>1, <2>2, <1>8, TypeOK, HeldRecords DEF SetSection, TypeOK, HeldRecords
<1>9. ASSUME NEW t \in Clients, LoadBreaksConnection(t)
      PROVE  HeldRecords'
  BY <1>9, TypeOK, HeldRecords, ThreadFacts, DataFacts
  DEF LoadBreaksConnection, ConnectionLost, HeldRecords, TypeOK
<1>10. ASSUME NEW t \in Clients, MarkAllDirty(t)
      PROVE  HeldRecords'
  BY <1>10, TypeOK, HeldRecords, ThreadFacts, DataFacts
  DEF MarkAllDirty, SetFlags, HeldRecords, TypeOK
<1>11. ASSUME NEW t \in Clients, EnableDBOnlyMode(t)
      PROVE  HeldRecords'
  BY <1>11, TypeOK, HeldRecords, ThreadFacts, DataFacts
  DEF EnableDBOnlyMode, HeldRecords, TypeOK
<1>12. ASSUME NEW t \in Clients, SaveAll(t)
      PROVE  HeldRecords'
  BY <1>12, TypeOK, HeldRecords, ThreadFacts, DataFacts DEF SaveAll, HeldRecords, TypeOK, Call
<1>13. ASSUME NEW t \in Clients, Initialize(t)
      PROVE  HeldRecords'
  BY <1>13, TypeOK, HeldRecords, ThreadFacts, DataFacts DEF Initialize, HeldRecords, TypeOK
<1>14. ASSUME NEW t \in Clients, Start(t)
      PROVE  HeldRecords'
  <2>1. CASE Joinable(Timer) \/ Joinable(Poller)
    BY <2>1, <1>14, TypeOK, HeldRecords
    DEF Start, Abort, EndProcess, ConnectionLost, HeldRecords
  <2>2. CASE ~(Joinable(Timer) \/ Joinable(Poller))
    BY <2>2, <1>14, TypeOK, HeldRecords, ThreadFacts
    DEF Start, Joinable, Call, TypeOK, HeldRecords
  <2> QED
    BY <2>1, <2>2
<1>15. ASSUME NEW t \in Clients, Stop(t, "stop")
      PROVE  HeldRecords'
  BY <1>15, TypeOK, HeldRecords, ThreadFacts, DataFacts DEF Stop, HeldRecords, TypeOK, Call
<1>16. ASSUME NEW t \in Clients, Stop(t, "destroy")
      PROVE  HeldRecords'
  BY <1>16, TypeOK, HeldRecords, ThreadFacts, DataFacts DEF Stop, HeldRecords, TypeOK, Call
<1>17. ASSUME NEW t \in Threads, SetSectionPut(t)
      PROVE  HeldRecords'
  BY <1>17, TypeOK, HeldRecords, ThreadFacts, DataFacts
  DEF SetSectionPut, Put, RedisSet, HeldRecords, TypeOK
<1>18. ASSUME NEW t \in Threads, LoadInstall(t)
      PROVE  HeldRecords'
  BY <1>18, TypeOK, HeldRecords, ThreadFacts, DataFacts
  DEF LoadInstall, Install, RedisSet, HeldRecords, TypeOK
<1>19. ASSUME NEW t \in Threads, SaveNothing(t)
      PROVE  HeldRecords'
  BY <1>19, TypeOK, HeldRecords, ThreadFacts, DataFacts
  DEF SaveNothing, SaveReturn, HeldRecords, TypeOK
<1>20. ASSUME NEW t \in Threads, SaveBegin(t)
      PROVE  HeldRecords'
  BY <1>20, TypeOK, HeldRecords, ThreadFacts, DataFacts DEF SaveBegin, HeldRecords, TypeOK
<1>21. ASSUME NEW t \in Threads, SaveCommit(t)
      PROVE  HeldRecords'
  BY <1>21, TypeOK, HeldRecords, ThreadFacts, DataFacts
  DEF SaveCommit, SaveReturn, HeldRecords, TypeOK
<1>22. ASSUME NEW t \in Threads, SaveHangs(t)
      PROVE  HeldRecords'
  BY <1>22, TypeOK, HeldRecords, ThreadFacts, DataFacts DEF SaveHangs, HeldRecords, TypeOK
<1>23. ASSUME NEW t \in Threads, NEW p \in Players, SyncPlayer(t, p)
      PROVE  HeldRecords'
  BY <1>23, TypeOK, HeldRecords, ThreadFacts, DataFacts
  DEF SyncPlayer, StorePlayer, SendRow, HeldRecords, TypeOK
<1>24. ASSUME NEW t \in Threads, Join(t, Timer, "joinTimer", "waitTimer", "joinPoller")
      PROVE  HeldRecords'
  BY <1>24, TypeOK, HeldRecords, ThreadFacts, DataFacts
  DEF Join, Abort, EndProcess, ConnectionLost, HeldRecords, TypeOK
<1>25. ASSUME NEW t \in Threads, Joined(t, Timer, "waitTimer", "joinPoller")
      PROVE  HeldRecords'
  BY <1>25, TypeOK, HeldRecords, ThreadFacts, DataFacts
  DEF Joined, Abort, EndProcess, ConnectionLost, HeldRecords, TypeOK
<1>26. ASSUME NEW t \in Threads, Join(t, Poller, "joinPoller", "waitPoller", "disconnect")
      PROVE  HeldRecords'
  BY <1>26, TypeOK, HeldRecords, ThreadFacts, DataFacts
  DEF Join, Abort, EndProcess, ConnectionLost, HeldRecords, TypeOK
<1>27. ASSUME NEW t \in Threads, Joined(t, Poller, "waitPoller", "disconnect")
      PROVE  HeldRecords'
  <2>1. /\ arg' = arg
        /\ \A u \in Threads : pc'[u] = pc[u] \/ pc'[u] \in {"disconnect", "joined"}
    BY <1>27, ThreadFacts DEF Joined, Abort, TypeOK
  <2>. QED  BY <2>1, HeldRecords DEF HeldRecords
<1>28. ASSUME NEW t \in Threads, Disconnect(t)
      PROVE  HeldRecords'
  BY <1>28, TypeOK, HeldRecords, ThreadFacts, DataFacts
  DEF Disconnect, ConnectionLost, HeldRecords, TypeOK
<1>29. ASSUME TimerWake
      PROVE  HeldRecords'
  BY <1>29, TypeOK, HeldRecords, ThreadFacts, DataFacts DEF TimerWake, HeldRecords, TypeOK
<1>30. ASSUME PollerInstall
      PROVE  HeldRecords'
  BY <1>30, TypeOK, HeldRecords, ThreadFacts, DataFacts DEF PollerInstall, HeldRecords, TypeOK
<1>31. ASSUME PollerDone
      PROVE  HeldRecords'
  BY <1>31, TypeOK, HeldRecords, ThreadFacts, DataFacts DEF PollerDone, HeldRecords, TypeOK
<1>32. ASSUME DbDrop
      PROVE  HeldRecords'
  BY <1>32, TypeOK, HeldRecords, ThreadFacts, DataFacts
  DEF DbDrop, Fault, ConnectionLost, HeldRecords, TypeOK
<1>33. ASSUME RedisDrop
      PROVE  HeldRecords'
  BY <1>33, TypeOK, HeldRecords, ThreadFacts, DataFacts
  DEF RedisDrop, Fault, HeldRecords, TypeOK
<1>34. ASSUME Crash
      PROVE  HeldRecords'
  BY <1>34, TypeOK, HeldRecords, ThreadFacts, DataFacts
  DEF Crash, Fault, EndProcess, ConnectionLost, HeldRecords, TypeOK
<1>35. ASSUME Restart
      PROVE  HeldRecords'
  BY <1>35, TypeOK, HeldRecords, ThreadFacts, DataFacts
  DEF Restart, HeldRecords, TypeOK, FreshThreads
<1>36. ASSUME NEW t \in Threads, Signal(t)
      PROVE  HeldRecords'
  BY <1>36, TypeOK, HeldRecords, ThreadFacts, DataFacts DEF Signal, HeldRecords, TypeOK
<1>37. ASSUME NEW t \in Clients, InitializeCrashes(t)
      PROVE  HeldRecords'
  BY <1>37, TypeOK, HeldRecords, ThreadFacts, DataFacts
  DEF InitializeCrashes, FreeUnderSave, EndProcess, ConnectionLost, Call, HeldRecords, TypeOK
<1>38. ASSUME NEW t \in Threads, DisconnectCrashes(t)
      PROVE  HeldRecords'
  BY <1>38, TypeOK, HeldRecords, ThreadFacts, DataFacts
  DEF DisconnectCrashes, FreeUnderSave, EndProcess, ConnectionLost, HeldRecords, TypeOK
<1>39. ASSUME DbRefuses
      PROVE  HeldRecords'
  BY <1>39, TypeOK, HeldRecords, ThreadFacts, DataFacts
  DEF DbRefuses, Fault, HeldRecords, TypeOK
<1>40. ASSUME RedisRefuses
      PROVE  HeldRecords'
  BY <1>40, TypeOK, HeldRecords, ThreadFacts, DataFacts
  DEF RedisRefuses, Fault, HeldRecords, TypeOK
<1>41. ASSUME ServersRecover
      PROVE  HeldRecords'
  BY <1>41, TypeOK, HeldRecords, ThreadFacts, DataFacts
  DEF ServersRecover, HeldRecords, TypeOK
<1>42. CASE UNCHANGED vars
  BY <1>42 DEF vars, HeldRecords, TypeOK
<1>43. QED
  BY <1>1, <1>2, <1>3, <1>4, <1>5, <1>6, <1>7, <1>8, <1>9, <1>10, <1>11, <1>12, <1>13, <1>14,
       <1>15, <1>16, <1>17, <1>18, <1>19, <1>20, <1>21, <1>22, <1>23, <1>24, <1>25, <1>26,
       <1>27, <1>28, <1>29, <1>30, <1>31, <1>32, <1>33, <1>34, <1>35, <1>36, <1>37, <1>38, <1>39,
       <1>40, <1>41, <1>42
  DEF Next, ClientCall, ThreadStep, Background, Environment

(* Without Redis and direct loads, the cache is what was written last. *)
LEMMA LookupLatest ==
  ASSUME TypeOK, TransactionInsideMutex, CacheIsLatest, NEW p \in Players, Lookup(p)
  PROVE  \/ UNCHANGED <<cacheVars, redis, unsent>>
         \/ /\ ~Cached(p) /\ Loadable(p) /\ dbUp /\ Row(p) = rows[p]
            /\ Install(p, rows[p])
<1>1. ~RedisHit(p)
  BY DEF CacheIsLatest, RedisHit, RedisGet, UseRedis
<1>2. pending = NoRecords
  BY DEF Lookup, MutexFree, TransactionInsideMutex
<1>3. Row(p) = rows[p]
  BY <1>2 DEF Row, NoRecords
<1>. QED
  BY <1>1, <1>3, RowFacts DEF Lookup, ColdLoad

LEMMA StoreLatest ==
  ASSUME TypeOK, CacheIsLatest, NEW p \in Players, StorePlayer(p),
         inTxn \/ pending = NoRecords,
         UNCHANGED <<cacheData, proc, written, redisUp, pc>>
  PROVE  CacheIsLatest'
<1>1. CASE CanStore(p)
  BY <1>1 DEF StorePlayer, SendRow, CanStore, CacheIsLatest, CacheHoldsLastWrite, Cached, TypeOK
<1>2. CASE ~CanStore(p)
  BY <1>2 DEF StorePlayer, CacheIsLatest, CacheHoldsLastWrite, Cached
<1>. QED  BY <1>1, <1>2

LEMMA CacheIsLatestStep ==
  ASSUME OnlyDatabase, TypeOK, TransactionInsideMutex, HeldRecords, CacheIsLatest, [Next]_vars
  PROVE  CacheIsLatest'
<1> USE DEF cacheVars, mutexVars, threadVars, modeVars, redisLink, redisVars, dbVars, serverVars, Goto
<1>1. ASSUME NEW t \in Clients, NEW p \in Players, GetPlayerData(t, p)
      PROVE  CacheIsLatest'
  <2>1. Lookup(p) /\ UNCHANGED <<proc, pc, written, rows, pending, redisUp>>
    BY <1>1 DEF GetPlayerData
  <2>. QED
    BY <2>1, LookupLatest, TypeOK, CacheIsLatest
    DEF Install, CacheIsLatest, CacheHoldsLastWrite, Cached, TypeOK
<1>2. ASSUME NEW t \in Clients, NEW p \in Players, GetHangs(t, p)
      PROVE  CacheIsLatest'
  BY <1>2, TypeOK, CacheIsLatest, ThreadFacts
  DEF GetHangs, CacheIsLatest, CacheHoldsLastWrite, Cached, TypeOK, Call
<1>3. ASSUME NEW t \in Clients, NEW p \in Players, LoadSelect(t, p)
      PROVE  CacheIsLatest'
  BY <1>3, TypeOK, CacheIsLatest, ThreadFacts, OnlyDatabase
  DEF LoadSelect, CacheIsLatest, CacheHoldsLastWrite, Cached, TypeOK, OnlyDatabase, Call
<1>4. ASSUME NEW t \in Clients, NEW p \in Players, SetDirty(t, p)
      PROVE  CacheIsLatest'
  BY <1>4, TypeOK, CacheIsLatest, ThreadFacts
  DEF SetDirty, SetFlags, CacheIsLatest, CacheHoldsLastWrite, Cached, TypeOK, Call
<1>5. ASSUME NEW t \in Clients, NEW p \in Players, ClearDirty(t, p)
      PROVE  CacheIsLatest'
  BY <1>5, TypeOK, CacheIsLatest, ThreadFacts
  DEF ClearDirty, SetFlags, CacheIsLatest, CacheHoldsLastWrite, Cached, TypeOK, Call
<1>6. ASSUME NEW t \in Clients, NEW p \in Players, SavePlayerDataToDB(t, p)
      PROVE  CacheIsLatest'
  BY <1>6, StoreLatest, TransactionInsideMutex
  DEF SavePlayerDataToDB, TransactionInsideMutex, MutexFree
<1>7. ASSUME NEW t \in Clients, NEW p \in Players, NEW d \in Data, SetPlayerData(t, p, d)
      PROVE  CacheIsLatest'
  BY <1>7, TypeOK, CacheIsLatest, ThreadFacts, TransactionInsideMutex, DataFacts
  DEF SetPlayerData, Put, RedisSet, CacheIsLatest, CacheHoldsLastWrite, Cached, TypeOK,
       TransactionInsideMutex, MutexFree, NoRecords
<1>8. ASSUME NEW t \in Clients, NEW p \in Players, NEW s \in Sections, NEW v \in Vals, SetSection(t, p, s, v)
      PROVE  CacheIsLatest'
  <2>1. Lookup(p) /\ UNCHANGED <<proc, written, rows, pending, redisUp>>
    BY <1>8 DEF SetSection
  <2>2. \A u \in Threads : pc'[u] # "loaded"
    BY <1>8, TypeOK, CacheIsLatest DEF SetSection, CacheIsLatest, TypeOK
  <2>. QED
    BY <2>1, <2>2, LookupLatest, TypeOK, CacheIsLatest
    DEF Install, CacheIsLatest, CacheHoldsLastWrite, Cached, TypeOK
<1>9. ASSUME NEW t \in Clients, LoadBreaksConnection(t)
      PROVE  CacheIsLatest'
  BY <1>9, TypeOK, CacheIsLatest, ThreadFacts, OnlyDatabase
  DEF LoadBreaksConnection, ConnectionLost, CacheIsLatest, CacheHoldsLastWrite, Cached, TypeOK,
       OnlyDatabase, Call, NoRecords
<1>10. ASSUME NEW t \in Clients, MarkAllDirty(t)
      PROVE  CacheIsLatest'
  BY <1>10, TypeOK, CacheIsLatest, ThreadFacts
  DEF MarkAllDirty, SetFlags, CacheIsLatest, CacheHoldsLastWrite, Cached, TypeOK, Call
<1>11. ASSUME NEW t \in Clients, EnableDBOnlyMode(t)
      PROVE  CacheIsLatest'
  BY <1>11, TypeOK, CacheIsLatest, ThreadFacts
  DEF EnableDBOnlyMode, CacheIsLatest, CacheHoldsLastWrite, Cached, TypeOK, Call
<1>12. ASSUME NEW t \in Clients, SaveAll(t)
      PROVE  CacheIsLatest'
  BY <1>12, TypeOK, CacheIsLatest, ThreadFacts
  DEF SaveAll, CacheIsLatest, CacheHoldsLastWrite, Cached, TypeOK, Call
<1>13. ASSUME NEW t \in Clients, Initialize(t)
      PROVE  CacheIsLatest'
  <2>1. EnableRedis = FALSE
    BY OnlyDatabase, TypeOK DEF OnlyDatabase, EnableRedis, TypeOK
  <2>2. redisUp' = FALSE
    BY <2>1, <1>13 DEF Initialize
  <2> QED
    BY <2>2, <1>13, TypeOK, CacheIsLatest DEF Initialize, CacheIsLatest, CacheHoldsLastWrite, Cached, NoRecords
<1>14. ASSUME NEW t \in Clients, Start(t)
      PROVE  CacheIsLatest'
  <2>1. CASE Joinable(Timer) \/ Joinable(Poller)
    BY <2>1, <1>14, TypeOK, CacheIsLatest
    DEF Start, Abort, EndProcess, ConnectionLost, CacheIsLatest, CacheHoldsLastWrite, Cached, TypeOK,
         NoRecords
  <2>2. CASE ~(Joinable(Timer) \/ Joinable(Poller))
    <3>1. \A u \in Threads : pc'[u] # "loaded"
      BY <2>2, <1>14, TypeOK, CacheIsLatest, ThreadFacts DEF Start, CacheIsLatest, TypeOK
    <3>. QED
      BY <3>1, <2>2, <1>14, CacheIsLatest DEF Start, CacheIsLatest, CacheHoldsLastWrite, Cached
  <2>. QED  BY <2>1, <2>2
<1>15. ASSUME NEW t \in Clients, Stop(t, "stop")
      PROVE  CacheIsLatest'
  BY <1>15, TypeOK, CacheIsLatest, ThreadFacts
  DEF Stop, CacheIsLatest, CacheHoldsLastWrite, Cached, TypeOK, Call
<1>16. ASSUME NEW t \in Clients, Stop(t, "destroy")
      PROVE  CacheIsLatest'
  BY <1>16, TypeOK, CacheIsLatest, ThreadFacts
  DEF Stop, CacheIsLatest, CacheHoldsLastWrite, Cached, TypeOK, Call
<1>17. ASSUME NEW t \in Threads, SetSectionPut(t)
      PROVE  CacheIsLatest'
  BY <1>17, TypeOK, CacheIsLatest, ThreadFacts, TransactionInsideMutex, HeldRecords, DataFacts
  DEF SetSectionPut, Put, RedisSet, CacheIsLatest, CacheHoldsLastWrite, Cached, TypeOK,
       TransactionInsideMutex, HeldRecords, MutexFree, NoRecords
<1>18. ASSUME NEW t \in Threads, LoadInstall(t)
      PROVE  CacheIsLatest'
  BY <1>18, TypeOK, CacheIsLatest, ThreadFacts
  DEF LoadInstall, Install, RedisSet, CacheIsLatest, CacheHoldsLastWrite, Cached, TypeOK
<1>19. ASSUME NEW t \in Threads, SaveNothing(t)
      PROVE  CacheIsLatest'
  BY <1>19, TypeOK, CacheIsLatest, ThreadFacts
  DEF SaveNothing, SaveReturn, CacheIsLatest, CacheHoldsLastWrite, Cached, TypeOK
<1>20. ASSUME NEW t \in Threads, SaveBegin(t)
      PROVE  CacheIsLatest'
  BY <1>20, TypeOK, CacheIsLatest, ThreadFacts, DataFacts
  DEF SaveBegin, CacheIsLatest, CacheHoldsLastWrite, Cached, TypeOK, Committed, Row, NoRecords
<1>21. ASSUME NEW t \in Threads, SaveCommit(t)
      PROVE  CacheIsLatest'
  BY <1>21, TypeOK, CacheIsLatest, ThreadFacts, DataFacts
  DEF SaveCommit, SaveReturn, CacheIsLatest, CacheHoldsLastWrite, Cached, TypeOK, Committed,
       Row, NoRecords
<1>22. ASSUME NEW t \in Threads, SaveHangs(t)
      PROVE  CacheIsLatest'
  BY <1>22, TypeOK, CacheIsLatest, ThreadFacts
  DEF SaveHangs, CacheIsLatest, CacheHoldsLastWrite, Cached, TypeOK
<1>23. ASSUME NEW t \in Threads, NEW p \in Players, SyncPlayer(t, p)
      PROVE  CacheIsLatest'
  BY <1>23, StoreLatest, TransactionInsideMutex DEF SyncPlayer, TransactionInsideMutex
<1>24. ASSUME NEW t \in Threads, Join(t, Timer, "joinTimer", "waitTimer", "joinPoller")
      PROVE  CacheIsLatest'
  BY <1>24, TypeOK, CacheIsLatest, ThreadFacts
  DEF Join, Abort, EndProcess, ConnectionLost, CacheIsLatest, CacheHoldsLastWrite, Cached, TypeOK,
       NoRecords
<1>25. ASSUME NEW t \in Threads, Joined(t, Timer, "waitTimer", "joinPoller")
      PROVE  CacheIsLatest'
  BY <1>25, TypeOK, CacheIsLatest, ThreadFacts
  DEF Joined, Abort, EndProcess, ConnectionLost, CacheIsLatest, CacheHoldsLastWrite, Cached, TypeOK,
       NoRecords
<1>26. ASSUME NEW t \in Threads, Join(t, Poller, "joinPoller", "waitPoller", "disconnect")
      PROVE  CacheIsLatest'
  BY <1>26, TypeOK, CacheIsLatest, ThreadFacts
  DEF Join, Abort, EndProcess, ConnectionLost, CacheIsLatest, CacheHoldsLastWrite, Cached, TypeOK,
       NoRecords
<1>27. ASSUME NEW t \in Threads, Joined(t, Poller, "waitPoller", "disconnect")
      PROVE  CacheIsLatest'
  BY <1>27, TypeOK, CacheIsLatest, ThreadFacts
  DEF Joined, Abort, EndProcess, ConnectionLost, CacheIsLatest, CacheHoldsLastWrite, Cached, TypeOK,
       NoRecords
<1>28. ASSUME NEW t \in Threads, Disconnect(t)
      PROVE  CacheIsLatest'
  BY <1>28, TypeOK, CacheIsLatest, ThreadFacts
  DEF Disconnect, ConnectionLost, CacheIsLatest, CacheHoldsLastWrite, Cached, TypeOK, NoRecords
<1>29. ASSUME TimerWake
      PROVE  CacheIsLatest'
  BY <1>29, TypeOK, CacheIsLatest, ThreadFacts
  DEF TimerWake, CacheIsLatest, CacheHoldsLastWrite, Cached, TypeOK
<1>30. ASSUME PollerInstall
      PROVE  CacheIsLatest'
  BY <1>30, TypeOK, CacheIsLatest, ThreadFacts
  DEF PollerInstall, CacheIsLatest, CacheHoldsLastWrite, Cached, TypeOK
<1>31. ASSUME PollerDone
      PROVE  CacheIsLatest'
  BY <1>31, TypeOK, CacheIsLatest, ThreadFacts
  DEF PollerDone, CacheIsLatest, CacheHoldsLastWrite, Cached, TypeOK
<1>32. ASSUME DbDrop
      PROVE  CacheIsLatest'
  BY <1>32, TypeOK, CacheIsLatest, ThreadFacts
  DEF DbDrop, Fault, ConnectionLost, CacheIsLatest, CacheHoldsLastWrite, Cached, TypeOK, NoRecords
<1>33. ASSUME RedisDrop
      PROVE  CacheIsLatest'
  BY <1>33, TypeOK, CacheIsLatest, ThreadFacts
  DEF RedisDrop, Fault, CacheIsLatest, CacheHoldsLastWrite, Cached, TypeOK
<1>34. ASSUME Crash
      PROVE  CacheIsLatest'
  BY <1>34, TypeOK, CacheIsLatest, ThreadFacts
  DEF Crash, Fault, EndProcess, ConnectionLost, CacheIsLatest, CacheHoldsLastWrite, Cached, TypeOK,
       NoRecords
<1>35. ASSUME Restart
      PROVE  CacheIsLatest'
  BY <1>35, TypeOK, CacheIsLatest, ThreadFacts, OnlyDatabase, SwitchFacts
  DEF Restart, EnableRedis, CacheIsLatest, CacheHoldsLastWrite, Cached, TypeOK, OnlyDatabase, NoRecords,
       FreshThreads
<1>36. ASSUME NEW t \in Threads, Signal(t)
      PROVE  CacheIsLatest'
  BY <1>36, TypeOK, CacheIsLatest, ThreadFacts
  DEF Signal, CacheIsLatest, CacheHoldsLastWrite, Cached, TypeOK
<1>37. ASSUME NEW t \in Clients, InitializeCrashes(t)
      PROVE  CacheIsLatest'
  BY <1>37, TypeOK, CacheIsLatest, ThreadFacts
  DEF InitializeCrashes, FreeUnderSave, EndProcess, ConnectionLost, Call, NoRecords, CacheIsLatest, CacheHoldsLastWrite, Cached, TypeOK
<1>38. ASSUME NEW t \in Threads, DisconnectCrashes(t)
      PROVE  CacheIsLatest'
  BY <1>38, TypeOK, CacheIsLatest, ThreadFacts
  DEF DisconnectCrashes, FreeUnderSave, EndProcess, ConnectionLost, NoRecords, CacheIsLatest, CacheHoldsLastWrite, Cached, TypeOK
<1>39. ASSUME DbRefuses
      PROVE  CacheIsLatest'
  BY <1>39, TypeOK, CacheIsLatest, ThreadFacts
  DEF DbRefuses, Fault, CacheIsLatest, CacheHoldsLastWrite, Cached, TypeOK
<1>40. ASSUME RedisRefuses
      PROVE  CacheIsLatest'
  BY <1>40, TypeOK, CacheIsLatest, ThreadFacts
  DEF RedisRefuses, Fault, CacheIsLatest, CacheHoldsLastWrite, Cached, TypeOK
<1>41. ASSUME ServersRecover
      PROVE  CacheIsLatest'
  BY <1>41, TypeOK, CacheIsLatest, ThreadFacts
  DEF ServersRecover, CacheIsLatest, CacheHoldsLastWrite, Cached, TypeOK
<1>42. CASE UNCHANGED vars
  BY <1>42 DEF vars, CacheIsLatest, CacheHoldsLastWrite, Cached, TypeOK
<1>43. QED
  BY <1>1, <1>2, <1>3, <1>4, <1>5, <1>6, <1>7, <1>8, <1>9, <1>10, <1>11, <1>12, <1>13, <1>14,
       <1>15, <1>16, <1>17, <1>18, <1>19, <1>20, <1>21, <1>22, <1>23, <1>24, <1>25, <1>26,
       <1>27, <1>28, <1>29, <1>30, <1>31, <1>32, <1>33, <1>34, <1>35, <1>36, <1>37, <1>38, <1>39,
       <1>40, <1>41, <1>42
  DEF Next, ClientCall, ThreadStep, Background, Environment

(* A statement that succeeds clears the flag of the record it stored. *)
LEMMA StoreClean ==
  ASSUME TypeOK, CleanIsStored, NEW p \in Players, StorePlayer(p),
         inTxn \/ pending = NoRecords,
         UNCHANGED <<cacheData, proc, dbUp>>
  PROVE  CleanIsStored'
<1>1. CASE CanStore(p)
  <2>1. Stored[cacheData[p]] # Absent
    <3>1. cacheData[p] \in Data
      BY <1>1, DataFacts DEF CanStore, Cached, TypeOK
    <3>2. Stored[cacheData[p]] \in Data \cup {Unreadable}
      BY <1>1, <3>1, EncodingFacts DEF CanStore
    <3>. QED  BY <3>2, DataFacts
  <2>2. \A q \in Players \ {p} : Row(q)' = Row(q) /\ dirtyFlags'[q] = dirtyFlags[q]
    BY <1>1 DEF StorePlayer, SendRow, Row, TypeOK
  <2>3. Row(p)' = Stored[cacheData[p]]
    BY <1>1, <2>1 DEF StorePlayer, SendRow, Row, TypeOK, NoRecords
  <2>. QED  BY <2>2, <2>3 DEF CleanIsStored, RowsOf, Cached
<1>2. CASE ~CanStore(p)
  BY <1>2 DEF StorePlayer, CleanIsStored, RowsOf, Cached, Row
<1>. QED  BY <1>1, <1>2

(* The row behind a clean flag is the record's own: flags are cleared only for
   records just sent or loaded, and never set aside while the mutex is free. *)
LEMMA CleanIsStoredStep ==
  ASSUME OnlyDatabase, FlagsAreKept, TypeOK, TransactionInsideMutex, CacheIsLatest,
         CleanIsStored, [Next]_vars
  PROVE  CleanIsStored'
<1> USE DEF cacheVars, mutexVars, threadVars, modeVars, redisLink, redisVars, dbVars, serverVars, Goto
<1>1. ASSUME NEW t \in Clients, NEW p \in Players, GetPlayerData(t, p)
      PROVE  CleanIsStored'
  <2>1. Lookup(p) /\ UNCHANGED <<proc, rows, pending, dbUp>>
    BY <1>1 DEF GetPlayerData
  <2>. QED
    BY <2>1, LookupLatest, TypeOK, CleanIsStored
    DEF Install, CleanIsStored, Row, RowsOf, Cached, TypeOK
<1>2. ASSUME NEW t \in Clients, NEW p \in Players, GetHangs(t, p)
      PROVE  CleanIsStored'
  BY <1>2, TypeOK, CleanIsStored, ThreadFacts
  DEF GetHangs, CleanIsStored, Row, RowsOf, Cached, TypeOK, Call
<1>3. ASSUME NEW t \in Clients, NEW p \in Players, LoadSelect(t, p)
      PROVE  CleanIsStored'
  BY <1>3, TypeOK, CleanIsStored, ThreadFacts
  DEF LoadSelect, CleanIsStored, Row, RowsOf, Cached, TypeOK, Call
<1>4. ASSUME NEW t \in Clients, NEW p \in Players, SetDirty(t, p)
      PROVE  CleanIsStored'
  BY <1>4, TypeOK, CleanIsStored, ThreadFacts
  DEF SetDirty, SetFlags, CleanIsStored, Row, RowsOf, Cached, TypeOK, Call
<1>5. ASSUME NEW t \in Clients, NEW p \in Players, ClearDirty(t, p)
      PROVE  CleanIsStored'
  BY <1>5, TypeOK, CleanIsStored, ThreadFacts, FlagsAreKept
  DEF ClearDirty, SetFlags, CleanIsStored, Row, RowsOf, Cached, TypeOK, FlagsAreKept, Call
<1>6. ASSUME NEW t \in Clients, NEW p \in Players, SavePlayerDataToDB(t, p)
      PROVE  CleanIsStored'
  <2>1. StorePlayer(p) /\ UNCHANGED <<cacheData, proc, dbUp>>
    BY <1>6 DEF SavePlayerDataToDB
  <2>2. inTxn \/ pending = NoRecords
    BY TransactionInsideMutex DEF TransactionInsideMutex
  <2>. QED  BY <2>1, <2>2, StoreClean
<1>7. ASSUME NEW t \in Clients, NEW p \in Players, NEW d \in Data, SetPlayerData(t, p, d)
      PROVE  CleanIsStored'
  BY <1>7, TypeOK, CleanIsStored, ThreadFacts
  DEF SetPlayerData, Put, RedisSet, CleanIsStored, Row, RowsOf, Cached, TypeOK, Call
<1>8. ASSUME NEW t \in Clients, NEW p \in Players, NEW s \in Sections, NEW v \in Vals, SetSection(t, p, s, v)
      PROVE  CleanIsStored'
  <2>1. Lookup(p) /\ UNCHANGED <<proc, rows, pending, dbUp>>
    BY <1>8 DEF SetSection
  <2>. QED
    BY <2>1, LookupLatest, TypeOK, CleanIsStored
    DEF Install, CleanIsStored, Row, RowsOf, Cached, TypeOK
<1>9. ASSUME NEW t \in Clients, LoadBreaksConnection(t)
      PROVE  CleanIsStored'
  BY <1>9, TypeOK, CleanIsStored, ThreadFacts
  DEF LoadBreaksConnection, ConnectionLost, CleanIsStored, Row, RowsOf, Cached, TypeOK, Call
<1>10. ASSUME NEW t \in Clients, MarkAllDirty(t)
      PROVE  CleanIsStored'
  BY <1>10, TypeOK, CleanIsStored, ThreadFacts
  DEF MarkAllDirty, SetFlags, CleanIsStored, Row, RowsOf, Cached, TypeOK, Call
<1>11. ASSUME NEW t \in Clients, EnableDBOnlyMode(t)
      PROVE  CleanIsStored'
  BY <1>11, TypeOK, CleanIsStored, ThreadFacts
  DEF EnableDBOnlyMode, CleanIsStored, Row, RowsOf, Cached, TypeOK, Call
<1>12. ASSUME NEW t \in Clients, SaveAll(t)
      PROVE  CleanIsStored'
  BY <1>12, TypeOK, CleanIsStored, ThreadFacts
  DEF SaveAll, CleanIsStored, Row, RowsOf, Cached, TypeOK, Call
<1>13. ASSUME NEW t \in Clients, Initialize(t)
      PROVE  CleanIsStored'
  BY <1>13, TypeOK, CleanIsStored, ThreadFacts, FlagsAreKept
  DEF Initialize, CleanIsStored, Row, RowsOf, Cached, TypeOK, FlagsAreKept, Call
<1>14. ASSUME NEW t \in Clients, Start(t)
      PROVE  CleanIsStored'
  BY <1>14, TypeOK, CleanIsStored, ThreadFacts
  DEF Start, Abort, EndProcess, ConnectionLost, CleanIsStored, Row, RowsOf, Cached, TypeOK
<1>15. ASSUME NEW t \in Clients, Stop(t, "stop")
      PROVE  CleanIsStored'
  BY <1>15, TypeOK, CleanIsStored, ThreadFacts
  DEF Stop, CleanIsStored, Row, RowsOf, Cached, TypeOK, Call
<1>16. ASSUME NEW t \in Clients, Stop(t, "destroy")
      PROVE  CleanIsStored'
  BY <1>16, TypeOK, CleanIsStored, ThreadFacts
  DEF Stop, CleanIsStored, Row, RowsOf, Cached, TypeOK, Call
<1>17. ASSUME NEW t \in Threads, SetSectionPut(t)
      PROVE  CleanIsStored'
  BY <1>17, TypeOK, CleanIsStored, ThreadFacts
  DEF SetSectionPut, Put, RedisSet, CleanIsStored, Row, RowsOf, Cached, TypeOK
<1>18. ASSUME NEW t \in Threads, LoadInstall(t)
      PROVE  CleanIsStored'
  BY <1>18, TypeOK, CleanIsStored, ThreadFacts, CacheIsLatest
  DEF LoadInstall, Install, RedisSet, CleanIsStored, Row, RowsOf, Cached, TypeOK, CacheIsLatest
<1>19. ASSUME NEW t \in Threads, SaveNothing(t)
      PROVE  CleanIsStored'
  BY <1>19, TypeOK, CleanIsStored, ThreadFacts
  DEF SaveNothing, SaveReturn, CleanIsStored, Row, RowsOf, Cached, TypeOK
<1>20. ASSUME NEW t \in Threads, SaveBegin(t)
      PROVE  CleanIsStored'
  BY <1>20, TypeOK, CleanIsStored, ThreadFacts, DataFacts
  DEF SaveBegin, CleanIsStored, Row, RowsOf, Cached, TypeOK, Committed, NoRecords
<1>21. ASSUME NEW t \in Threads, SaveCommit(t)
      PROVE  CleanIsStored'
  BY <1>21, TypeOK, CleanIsStored, ThreadFacts, DataFacts
  DEF SaveCommit, SaveReturn, CleanIsStored, Row, RowsOf, Cached, TypeOK, Committed, NoRecords
<1>22. ASSUME NEW t \in Threads, SaveHangs(t)
      PROVE  CleanIsStored'
  BY <1>22, TypeOK, CleanIsStored, ThreadFacts
  DEF SaveHangs, CleanIsStored, Row, RowsOf, Cached, TypeOK
<1>23. ASSUME NEW t \in Threads, NEW p \in Players, SyncPlayer(t, p)
      PROVE  CleanIsStored'
  <2>1. StorePlayer(p) /\ UNCHANGED <<cacheData, proc, dbUp>>
    BY <1>23 DEF SyncPlayer
  <2>2. inTxn \/ pending = NoRecords
    BY TransactionInsideMutex DEF TransactionInsideMutex
  <2>. QED  BY <2>1, <2>2, StoreClean
<1>24. ASSUME NEW t \in Threads, Join(t, Timer, "joinTimer", "waitTimer", "joinPoller")
      PROVE  CleanIsStored'
  BY <1>24, TypeOK, CleanIsStored, ThreadFacts
  DEF Join, Abort, EndProcess, ConnectionLost, CleanIsStored, Row, RowsOf, Cached, TypeOK
<1>25. ASSUME NEW t \in Threads, Joined(t, Timer, "waitTimer", "joinPoller")
      PROVE  CleanIsStored'
  BY <1>25, TypeOK, CleanIsStored, ThreadFacts
  DEF Joined, Abort, EndProcess, ConnectionLost, CleanIsStored, Row, RowsOf, Cached, TypeOK
<1>26. ASSUME NEW t \in Threads, Join(t, Poller, "joinPoller", "waitPoller", "disconnect")
      PROVE  CleanIsStored'
  BY <1>26, TypeOK, CleanIsStored, ThreadFacts
  DEF Join, Abort, EndProcess, ConnectionLost, CleanIsStored, Row, RowsOf, Cached, TypeOK
<1>27. ASSUME NEW t \in Threads, Joined(t, Poller, "waitPoller", "disconnect")
      PROVE  CleanIsStored'
  BY <1>27, TypeOK, CleanIsStored, ThreadFacts
  DEF Joined, Abort, EndProcess, ConnectionLost, CleanIsStored, Row, RowsOf, Cached, TypeOK
<1>28. ASSUME NEW t \in Threads, Disconnect(t)
      PROVE  CleanIsStored'
  BY <1>28, TypeOK, CleanIsStored, ThreadFacts
  DEF Disconnect, ConnectionLost, CleanIsStored, Row, RowsOf, Cached, TypeOK
<1>29. ASSUME TimerWake
      PROVE  CleanIsStored'
  BY <1>29, TypeOK, CleanIsStored, ThreadFacts
  DEF TimerWake, CleanIsStored, Row, RowsOf, Cached, TypeOK
<1>30. ASSUME PollerInstall
      PROVE  CleanIsStored'
  BY <1>30, TypeOK, CleanIsStored, ThreadFacts
  DEF PollerInstall, CleanIsStored, Row, RowsOf, Cached, TypeOK
<1>31. ASSUME PollerDone
      PROVE  CleanIsStored'
  BY <1>31, TypeOK, CleanIsStored, ThreadFacts
  DEF PollerDone, CleanIsStored, Row, RowsOf, Cached, TypeOK
<1>32. ASSUME DbDrop
      PROVE  CleanIsStored'
  BY <1>32, TypeOK, CleanIsStored, ThreadFacts
  DEF DbDrop, Fault, ConnectionLost, CleanIsStored, Row, RowsOf, Cached, TypeOK
<1>33. ASSUME RedisDrop
      PROVE  CleanIsStored'
  BY <1>33, TypeOK, CleanIsStored, ThreadFacts
  DEF RedisDrop, Fault, CleanIsStored, Row, RowsOf, Cached, TypeOK
<1>34. ASSUME Crash
      PROVE  CleanIsStored'
  BY <1>34, TypeOK, CleanIsStored, ThreadFacts
  DEF Crash, Fault, EndProcess, ConnectionLost, CleanIsStored, Row, RowsOf, Cached, TypeOK
<1>35. ASSUME Restart
      PROVE  CleanIsStored'
  BY <1>35, TypeOK, CleanIsStored, ThreadFacts
  DEF Restart, CleanIsStored, Row, RowsOf, Cached, TypeOK, NoRecords, FreshThreads
<1>36. ASSUME NEW t \in Threads, Signal(t)
      PROVE  CleanIsStored'
  BY <1>36, TypeOK, CleanIsStored, ThreadFacts DEF Signal, CleanIsStored, Row, RowsOf, Cached, TypeOK
<1>37. ASSUME NEW t \in Clients, InitializeCrashes(t)
      PROVE  CleanIsStored'
  BY <1>37, TypeOK, CleanIsStored, ThreadFacts
  DEF InitializeCrashes, FreeUnderSave, EndProcess, ConnectionLost, Call, CleanIsStored, Row, RowsOf, Cached, TypeOK
<1>38. ASSUME NEW t \in Threads, DisconnectCrashes(t)
      PROVE  CleanIsStored'
  BY <1>38, TypeOK, CleanIsStored, ThreadFacts
  DEF DisconnectCrashes, FreeUnderSave, EndProcess, ConnectionLost, CleanIsStored, Row, RowsOf, Cached, TypeOK
<1>39. ASSUME DbRefuses
      PROVE  CleanIsStored'
  BY <1>39, TypeOK, CleanIsStored, ThreadFacts
  DEF DbRefuses, Fault, CleanIsStored, Row, RowsOf, Cached, TypeOK
<1>40. ASSUME RedisRefuses
      PROVE  CleanIsStored'
  BY <1>40, TypeOK, CleanIsStored, ThreadFacts
  DEF RedisRefuses, Fault, CleanIsStored, Row, RowsOf, Cached, TypeOK
<1>41. ASSUME ServersRecover
      PROVE  CleanIsStored'
  BY <1>41, TypeOK, CleanIsStored, ThreadFacts
  DEF ServersRecover, CleanIsStored, Row, RowsOf, Cached, TypeOK
<1>42. CASE UNCHANGED vars
  BY <1>42 DEF vars, CleanIsStored, Row, RowsOf, Cached, TypeOK
<1>43. QED
  BY <1>1, <1>2, <1>3, <1>4, <1>5, <1>6, <1>7, <1>8, <1>9, <1>10, <1>11, <1>12, <1>13, <1>14,
       <1>15, <1>16, <1>17, <1>18, <1>19, <1>20, <1>21, <1>22, <1>23, <1>24, <1>25, <1>26,
       <1>27, <1>28, <1>29, <1>30, <1>31, <1>32, <1>33, <1>34, <1>35, <1>36, <1>37, <1>38, <1>39,
       <1>40, <1>41, <1>42
  DEF Next, ClientCall, ThreadStep, Background, Environment

-----------------------------------------------------------------------------
(* The mutex invariants together. *)
IndInv == TypeOK /\ MutexOwners /\ TransactionInsideMutex /\ HeldRecords

LEMMA SavedFacts == SavedRows \subseteq MaybeRow
  BY EncodingFacts, DataFacts DEF SavedRows

LEMMA InitIndInv == Init => IndInv
<1> SUFFICES ASSUME Init PROVE IndInv
  OBVIOUS
<1>1. TypeOK
  <2>1. rows \in [Players -> MaybeRow]
    BY SavedFacts DEF Init
  <2>2. faults \in 0..MaxFaults /\ depth \in 0..2
    BY SwitchFacts DEF Init
  <2>4. redisUp \in {FALSE, EnableRedis} /\ dbUp = EnableDatabase
    BY DEF Init
  <2>5. redisUp \in BOOLEAN /\ dbUp \in BOOLEAN
    BY <2>4, SwitchFacts
  <2>3. build \in Builds
    BY DEF Init
  <2> QED
    BY <2>1, <2>2, <2>3, <2>5, FreshFacts, DataFacts DEF Init, TypeOK
<1>2. MutexOwners
  BY ThreadFacts DEF Init, MutexOwners
<1>3. TransactionInsideMutex /\ HeldRecords
  BY DEF Init, TransactionInsideMutex, HeldRecords, FreshThreads
<1> QED
  BY <1>1, <1>2, <1>3 DEF IndInv

LEMMA IndInvHolds == Spec => []IndInv
<1>1. IndInv /\ [Next]_vars => IndInv'
  BY TypeStep, MutexOwnersStep, TransactionStep, HeldRecordsStep DEF IndInv
<1> QED
  BY InitIndInv, <1>1, PTL DEF Spec

(* Type correctness, for every configuration of the program: whichever methods it
   calls, whatever fails, and whatever relocking the mutex does. *)
THEOREM TypeCorrect == Spec => []TypeOK
<1>1. IndInv => TypeOK
  BY DEF IndInv
<1> QED
  BY IndInvHolds, <1>1, PTL

(* A transaction is only open while a thread owns the mutex on a live connection,
   and the save loop runs in that thread: no statement of another save, direct
   save or set falls between START TRANSACTION and COMMIT. *)
THEOREM TransactionsAreExclusive == Spec => []TransactionInsideMutex
<1>1. IndInv => TransactionInsideMutex
  BY DEF IndInv
<1> QED
  BY IndInvHolds, <1>1, PTL

-----------------------------------------------------------------------------
LEMMA InitCacheIsLatest == Init /\ OnlyDatabase => CacheIsLatest
  BY SwitchFacts DEF Init, EnableRedis, OnlyDatabase, CacheIsLatest, CacheHoldsLastWrite, Cached, NoRecords,
     FreshThreads

LEMMA CacheIsLatestHolds ==
  ASSUME OnlyDatabase
  PROVE  Spec => []CacheIsLatest
<1>1. IndInv /\ CacheIsLatest /\ [Next]_vars => CacheIsLatest'
  BY OnlyDatabase, CacheIsLatestStep DEF IndInv
<1> QED
  BY OnlyDatabase, InitCacheIsLatest, IndInvHolds, <1>1, PTL DEF Spec

(* In a build without Redis whose program reads through getPlayerData only, the
   cached record is the one setPlayerData acknowledged last since the process
   began, or the row it was loaded from, and a player who is not cached was not
   written - through saves, refused statements, lost connections and signals. *)
THEOREM CacheHoldsLastWriteHolds ==
  ASSUME OnlyDatabase
  PROVE  Spec => []CacheHoldsLastWrite
<1>1. CacheIsLatest => CacheHoldsLastWrite
  BY DEF CacheIsLatest
<1> QED
  BY OnlyDatabase, CacheIsLatestHolds, <1>1, PTL

(* In the same builds, when the program neither clears flags by hand nor connects
   again, a save that skips a record without a dirty flag loses no write: the row
   is already what its statement would make of it, or what it was read from. *)
THEOREM CleanIsStoredHolds ==
  ASSUME OnlyDatabase, FlagsAreKept
  PROVE  Spec => []CleanIsStored
<1>1. Init => CleanIsStored
  BY DEF Init, CleanIsStored, Cached, NoRecords
<1>2. IndInv /\ CacheIsLatest /\ CleanIsStored /\ [Next]_vars => CleanIsStored'
  BY OnlyDatabase, FlagsAreKept, CleanIsStoredStep DEF IndInv
<1> QED
  BY <1>1, <1>2, OnlyDatabase, IndInvHolds, CacheIsLatestHolds, PTL DEF Spec

-----------------------------------------------------------------------------
LEMMA InitStore == Init => Store!Init
  BY SavedFacts DEF Init, Store!Init

(* What a statement stores is what the encoding makes of the current record. *)
LEMMA CanStoreFacts ==
  ASSUME TypeOK, CacheIsLatest, proc = "up", NEW p \in Players, CanStore(p)
  PROVE  Store!Encodable(p) /\ Stored[cacheData[p]] = Stored[written[p]]
<1>1. written[p] = cacheData[p]
  BY DEF CacheIsLatest, CacheHoldsLastWrite, CanStore
<1>2. cacheData[p] \in Data
  BY DataFacts DEF CanStore, Cached, TypeOK
<1>. QED  BY <1>1, <1>2 DEF CanStore, Store!Encodable

(* What a transaction holds was encodable when it was sent, and still is. *)
LEMMA PendingFacts ==
  ASSUME TypeOK, CacheIsLatest, proc = "up", NEW p \in Players, pending[p] # Absent
  PROVE  Store!Encodable(p) /\ pending[p] = Stored[written[p]]
<1>1. written[p] = cacheData[p] /\ pending[p] = Stored[cacheData[p]]
  BY DEF CacheIsLatest, CacheHoldsLastWrite
<1>2. cacheData[p] \in Data
  BY DataFacts DEF CacheIsLatest, Cached, TypeOK
<1>3. pending[p] # Broken
  BY DataFacts, CacheAssumption DEF TypeOK, CacheAssumption
<1>. QED  BY <1>1, <1>2, <1>3 DEF Store!Encodable

LEMMA CommitSaves ==
  ASSUME TypeOK, CacheIsLatest, proc = "up", rows' = Committed, written' = written
  PROVE  Store!Next
<1>. DEFINE S == {p \in Players : pending[p] # Absent}
<1>1. \A p \in S : Store!Encodable(p)
  BY PendingFacts
<1>2. Committed = [p \in Players |-> IF p \in S THEN Stored[written[p]] ELSE rows[p]]
  <2>1. \A p \in Players : Row(p) = IF p \in S THEN Stored[written[p]] ELSE rows[p]
    BY PendingFacts DEF Row
  <2>. QED  BY <2>1 DEF Committed
<1>3. Store!Save(S)
  BY <1>1, <1>2 DEF Store!Save
<1>. QED  BY <1>3 DEF Store!Next

LEMMA StoreSaves ==
  ASSUME TypeOK, CacheIsLatest, proc = "up", NEW p \in Players, CanStore(p), ~inTxn,
         StorePlayer(p), written' = written
  PROVE  Store!Next
<1>1. rows' = [rows EXCEPT ![p] = Stored[written[p]]]
  BY CanStoreFacts DEF StorePlayer, SendRow
<1>2. rows' = [q \in Players |-> IF q \in {p} THEN Stored[written[q]] ELSE rows[q]]
  BY <1>1 DEF TypeOK
<1>3. Store!Save({p})
  BY <1>2, CanStoreFacts DEF Store!Save
<1>. QED  BY <1>3 DEF Store!Next

(* Every step of the manager is a write, a save of some players, the loss of the
   process, or invisible to the callers. *)
LEMMA StoreStep ==
  ASSUME TypeOK, TransactionInsideMutex, HeldRecords, CacheIsLatest, [Next]_vars
  PROVE  [Store!Next]_(Store!storeVars)
<1> USE DEF cacheVars, mutexVars, threadVars, modeVars, redisLink, redisVars, dbVars, serverVars, Goto
<1>1. ASSUME NEW t \in Clients, NEW p \in Players, GetPlayerData(t, p)
      PROVE  [Store!Next]_(Store!storeVars)
  BY <1>1 DEF GetPlayerData, Lookup, Install, RedisSet, Store!storeVars
<1>2. ASSUME NEW t \in Clients, NEW p \in Players, GetHangs(t, p)
      PROVE  [Store!Next]_(Store!storeVars)
  BY <1>2 DEF GetHangs, Store!storeVars
<1>3. ASSUME NEW t \in Clients, NEW p \in Players, LoadSelect(t, p)
      PROVE  [Store!Next]_(Store!storeVars)
  BY <1>3 DEF LoadSelect, Store!storeVars
<1>4. ASSUME NEW t \in Clients, NEW p \in Players, SetDirty(t, p)
      PROVE  [Store!Next]_(Store!storeVars)
  BY <1>4 DEF SetDirty, SetFlags, Store!storeVars
<1>5. ASSUME NEW t \in Clients, NEW p \in Players, ClearDirty(t, p)
      PROVE  [Store!Next]_(Store!storeVars)
  BY <1>5 DEF ClearDirty, SetFlags, Store!storeVars
<1>6. ASSUME NEW t \in Clients, NEW p \in Players, SavePlayerDataToDB(t, p)
      PROVE  [Store!Next]_(Store!storeVars)
  <2>1. CASE CanStore(p)
    <3>1. ~inTxn
      BY <1>6, TransactionInsideMutex DEF SavePlayerDataToDB, MutexFree, TransactionInsideMutex
    <3>. QED  BY <2>1, <3>1, <1>6, StoreSaves DEF SavePlayerDataToDB, Call
  <2>2. CASE ~CanStore(p)
    BY <2>2, <1>6 DEF SavePlayerDataToDB, StorePlayer, SendRow, Store!storeVars
  <2> QED
    BY <2>1, <2>2
<1>7. ASSUME NEW t \in Clients, NEW p \in Players, NEW d \in Data, SetPlayerData(t, p, d)
      PROVE  [Store!Next]_(Store!storeVars)
  <2>1. Store!Write(p, d)
    BY <1>7 DEF SetPlayerData, Put, Store!Write
  <2> QED
    BY <2>1, DataFacts DEF Store!Next
<1>8. ASSUME NEW t \in Clients, NEW p \in Players, NEW s \in Sections, NEW v \in Vals, SetSection(t, p, s, v)
      PROVE  [Store!Next]_(Store!storeVars)
  BY <1>8 DEF SetSection, Lookup, Install, RedisSet, Store!storeVars
<1>9. ASSUME NEW t \in Clients, LoadBreaksConnection(t)
      PROVE  [Store!Next]_(Store!storeVars)
  BY <1>9 DEF LoadBreaksConnection, ConnectionLost, Store!storeVars
<1>10. ASSUME NEW t \in Clients, MarkAllDirty(t)
      PROVE  [Store!Next]_(Store!storeVars)
  BY <1>10 DEF MarkAllDirty, SetFlags, Store!storeVars
<1>11. ASSUME NEW t \in Clients, EnableDBOnlyMode(t)
      PROVE  [Store!Next]_(Store!storeVars)
  BY <1>11 DEF EnableDBOnlyMode, Store!storeVars
<1>12. ASSUME NEW t \in Clients, SaveAll(t)
      PROVE  [Store!Next]_(Store!storeVars)
  BY <1>12 DEF SaveAll, Store!storeVars
<1>13. ASSUME NEW t \in Clients, Initialize(t)
      PROVE  [Store!Next]_(Store!storeVars)
  BY <1>13 DEF Initialize, Store!storeVars
<1>14. ASSUME NEW t \in Clients, Start(t)
      PROVE  [Store!Next]_(Store!storeVars)
  BY <1>14 DEF Start, Abort, EndProcess, ConnectionLost, Store!storeVars
<1>15. ASSUME NEW t \in Clients, Stop(t, "stop")
      PROVE  [Store!Next]_(Store!storeVars)
  BY <1>15 DEF Stop, Store!storeVars
<1>16. ASSUME NEW t \in Clients, Stop(t, "destroy")
      PROVE  [Store!Next]_(Store!storeVars)
  BY <1>16 DEF Stop, Store!storeVars
<1>17. ASSUME NEW t \in Threads, SetSectionPut(t)
      PROVE  [Store!Next]_(Store!storeVars)
  <2>1. Store!Write(arg[t].player, arg[t].data)
    BY <1>17 DEF SetSectionPut, Put, Store!Write
  <2>2. arg[t].player \in Players /\ arg[t].data \in Data
    BY <1>17, HeldRecords, DataFacts DEF SetSectionPut, HeldRecords
  <2> QED
    BY <2>1, <2>2 DEF Store!Next
<1>18. ASSUME NEW t \in Threads, LoadInstall(t)
      PROVE  [Store!Next]_(Store!storeVars)
  BY <1>18, CacheIsLatest DEF LoadInstall, Install, RedisSet, Store!storeVars, CacheIsLatest
<1>19. ASSUME NEW t \in Threads, SaveNothing(t)
      PROVE  [Store!Next]_(Store!storeVars)
  BY <1>19 DEF SaveNothing, SaveReturn, Store!storeVars
<1>20. ASSUME NEW t \in Threads, SaveBegin(t)
      PROVE  [Store!Next]_(Store!storeVars)
  <2>1. rows' = Committed \/ rows' = rows
    BY <1>20 DEF SaveBegin
  <2>. QED  BY <2>1, <1>20, CommitSaves DEF SaveBegin, Store!storeVars
<1>21. ASSUME NEW t \in Threads, SaveCommit(t)
      PROVE  [Store!Next]_(Store!storeVars)
  <2>1. rows' = Committed \/ rows' = rows
    BY <1>21 DEF SaveCommit
  <2>. QED  BY <2>1, <1>21, CommitSaves DEF SaveCommit, Store!storeVars
<1>22. ASSUME NEW t \in Threads, SaveHangs(t)
      PROVE  [Store!Next]_(Store!storeVars)
  BY <1>22 DEF SaveHangs, Store!storeVars
<1>23. ASSUME NEW t \in Threads, NEW p \in Players, SyncPlayer(t, p)
      PROVE  [Store!Next]_(Store!storeVars)
  <2>1. CASE inTxn \/ ~CanStore(p)
    BY <2>1, <1>23 DEF SyncPlayer, StorePlayer, SendRow, Store!storeVars
  <2>2. CASE ~inTxn /\ CanStore(p)
    BY <2>2, <1>23, StoreSaves DEF SyncPlayer
  <2> QED
    BY <2>1, <2>2
<1>24. ASSUME NEW t \in Threads, Join(t, Timer, "joinTimer", "waitTimer", "joinPoller")
      PROVE  [Store!Next]_(Store!storeVars)
  BY <1>24 DEF Join, Abort, EndProcess, ConnectionLost, Store!storeVars
<1>25. ASSUME NEW t \in Threads, Joined(t, Timer, "waitTimer", "joinPoller")
      PROVE  [Store!Next]_(Store!storeVars)
  BY <1>25 DEF Joined, Abort, EndProcess, ConnectionLost, Store!storeVars
<1>26. ASSUME NEW t \in Threads, Join(t, Poller, "joinPoller", "waitPoller", "disconnect")
      PROVE  [Store!Next]_(Store!storeVars)
  BY <1>26 DEF Join, Abort, EndProcess, ConnectionLost, Store!storeVars
<1>27. ASSUME NEW t \in Threads, Joined(t, Poller, "waitPoller", "disconnect")
      PROVE  [Store!Next]_(Store!storeVars)
  BY <1>27 DEF Joined, Abort, EndProcess, ConnectionLost, Store!storeVars
<1>28. ASSUME NEW t \in Threads, Disconnect(t)
      PROVE  [Store!Next]_(Store!storeVars)
  BY <1>28 DEF Disconnect, ConnectionLost, Store!storeVars
<1>29. ASSUME TimerWake
      PROVE  [Store!Next]_(Store!storeVars)
  BY <1>29 DEF TimerWake, Store!storeVars
<1>30. ASSUME PollerInstall
      PROVE  [Store!Next]_(Store!storeVars)
  BY <1>30 DEF PollerInstall, Store!storeVars
<1>31. ASSUME PollerDone
      PROVE  [Store!Next]_(Store!storeVars)
  BY <1>31 DEF PollerDone, Store!storeVars
<1>32. ASSUME DbDrop
      PROVE  [Store!Next]_(Store!storeVars)
  BY <1>32 DEF DbDrop, Fault, ConnectionLost, Store!storeVars
<1>33. ASSUME RedisDrop
      PROVE  [Store!Next]_(Store!storeVars)
  BY <1>33 DEF RedisDrop, Fault, Store!storeVars
<1>34. ASSUME Crash
      PROVE  [Store!Next]_(Store!storeVars)
  BY <1>34 DEF Crash, Fault, EndProcess, ConnectionLost, Store!storeVars
<1>35. ASSUME Restart
      PROVE  [Store!Next]_(Store!storeVars)
  BY <1>35 DEF Restart, Store!Next, Store!Lose
<1>36. ASSUME NEW t \in Threads, Signal(t)
      PROVE  [Store!Next]_(Store!storeVars)
  BY <1>36 DEF Signal, Store!storeVars
<1>37. ASSUME NEW t \in Clients, InitializeCrashes(t)
      PROVE  [Store!Next]_(Store!storeVars)
  BY <1>37 DEF InitializeCrashes, FreeUnderSave, EndProcess, ConnectionLost, Call, Store!storeVars
<1>38. ASSUME NEW t \in Threads, DisconnectCrashes(t)
      PROVE  [Store!Next]_(Store!storeVars)
  BY <1>38 DEF DisconnectCrashes, FreeUnderSave, EndProcess, ConnectionLost, Store!storeVars
<1>39. ASSUME DbRefuses
      PROVE  [Store!Next]_(Store!storeVars)
  BY <1>39 DEF DbRefuses, Fault, Store!storeVars
<1>40. ASSUME RedisRefuses
      PROVE  [Store!Next]_(Store!storeVars)
  BY <1>40 DEF RedisRefuses, Fault, Store!storeVars
<1>41. ASSUME ServersRecover
      PROVE  [Store!Next]_(Store!storeVars)
  BY <1>41 DEF ServersRecover, Store!storeVars
<1>42. CASE UNCHANGED vars
  BY <1>42 DEF vars, Store!storeVars
<1>43. QED
  BY <1>1, <1>2, <1>3, <1>4, <1>5, <1>6, <1>7, <1>8, <1>9, <1>10, <1>11, <1>12, <1>13, <1>14,
       <1>15, <1>16, <1>17, <1>18, <1>19, <1>20, <1>21, <1>22, <1>23, <1>24, <1>25, <1>26,
       <1>27, <1>28, <1>29, <1>30, <1>31, <1>32, <1>33, <1>34, <1>35, <1>36, <1>37, <1>38, <1>39,
       <1>40, <1>41, <1>42
  DEF Next, ClientCall, ThreadStep, Background, Environment

(* The cache is a write-behind store: the database only ever moves to the encodings
   of records that were current, all players of a save at once, and a lost process
   falls back to it.  The encoding is what the unescaped statement stores. *)
THEOREM CacheImplementsStore ==
  ASSUME OnlyDatabase
  PROVE  Spec => ImplementsStore
<1>1. IndInv /\ CacheIsLatest /\ [Next]_vars => [Store!Next]_(Store!storeVars)
  BY StoreStep DEF IndInv
<1> QED
  BY <1>1, OnlyDatabase, InitStore, IndInvHolds, CacheIsLatestHolds, PTL
  DEF Spec, ImplementsStore, Store!Spec

-----------------------------------------------------------------------------
(* The save loop misses no dirty record: no flag is raised while it runs. *)
LEMMA LoopStep ==
  ASSUME FlagsAreKept, TypeOK, TransactionInsideMutex, LoopCoversDirty, [Next]_vars
  PROVE  LoopCoversDirty'
<1> USE DEF cacheVars, mutexVars, threadVars, modeVars, redisLink, redisVars, dbVars, serverVars, Goto
<1>1. ASSUME NEW t \in Clients, NEW p \in Players, GetPlayerData(t, p)
      PROVE  LoopCoversDirty'
  BY <1>1, TypeOK, TransactionInsideMutex, LoopCoversDirty, ThreadFacts
  DEF GetPlayerData, Lookup, Install, RedisSet, TransactionInsideMutex, LoopCoversDirty,
       MutexFree, Cached, TypeOK, Call
<1>2. ASSUME NEW t \in Clients, NEW p \in Players, GetHangs(t, p)
      PROVE  LoopCoversDirty'
  BY <1>2, TypeOK, TransactionInsideMutex, LoopCoversDirty, ThreadFacts
  DEF GetHangs, TransactionInsideMutex, LoopCoversDirty, MutexFree, Cached, TypeOK, Call
<1>3. ASSUME NEW t \in Clients, NEW p \in Players, LoadSelect(t, p)
      PROVE  LoopCoversDirty'
  BY <1>3, TypeOK, TransactionInsideMutex, LoopCoversDirty, ThreadFacts
  DEF LoadSelect, TransactionInsideMutex, LoopCoversDirty, MutexFree, Cached, TypeOK, Call
<1>4. ASSUME NEW t \in Clients, NEW p \in Players, SetDirty(t, p)
      PROVE  LoopCoversDirty'
  BY <1>4, TypeOK, TransactionInsideMutex, LoopCoversDirty, ThreadFacts
  DEF SetDirty, SetFlags, TransactionInsideMutex, LoopCoversDirty, MutexFree, Cached, TypeOK,
       Call
<1>5. ASSUME NEW t \in Clients, NEW p \in Players, ClearDirty(t, p)
      PROVE  LoopCoversDirty'
  BY <1>5, TypeOK, TransactionInsideMutex, LoopCoversDirty, ThreadFacts
  DEF ClearDirty, SetFlags, TransactionInsideMutex, LoopCoversDirty, MutexFree, Cached, TypeOK,
       Call
<1>6. ASSUME NEW t \in Clients, NEW p \in Players, SavePlayerDataToDB(t, p)
      PROVE  LoopCoversDirty'
  BY <1>6, TypeOK, TransactionInsideMutex, LoopCoversDirty, ThreadFacts
  DEF SavePlayerDataToDB, StorePlayer, SendRow, TransactionInsideMutex, LoopCoversDirty, MutexFree,
       Cached, TypeOK, Call
<1>7. ASSUME NEW t \in Clients, NEW p \in Players, NEW d \in Data, SetPlayerData(t, p, d)
      PROVE  LoopCoversDirty'
  BY <1>7, TypeOK, TransactionInsideMutex, LoopCoversDirty, ThreadFacts
  DEF SetPlayerData, Put, RedisSet, TransactionInsideMutex, LoopCoversDirty, MutexFree, Cached,
       TypeOK, Call
<1>8. ASSUME NEW t \in Clients, NEW p \in Players, NEW s \in Sections, NEW v \in Vals, SetSection(t, p, s, v)
      PROVE  LoopCoversDirty'
  BY <1>8, TypeOK, TransactionInsideMutex, LoopCoversDirty, ThreadFacts
  DEF SetSection, Lookup, Install, RedisSet, TransactionInsideMutex, LoopCoversDirty, MutexFree,
       Cached, TypeOK, Call
<1>9. ASSUME NEW t \in Clients, LoadBreaksConnection(t)
      PROVE  LoopCoversDirty'
  BY <1>9, TypeOK, TransactionInsideMutex, LoopCoversDirty, ThreadFacts
  DEF LoadBreaksConnection, ConnectionLost, TransactionInsideMutex, LoopCoversDirty, MutexFree,
       Cached, TypeOK, Call
<1>10. ASSUME NEW t \in Clients, MarkAllDirty(t)
      PROVE  LoopCoversDirty'
  BY <1>10, TypeOK, TransactionInsideMutex, LoopCoversDirty, ThreadFacts
  DEF MarkAllDirty, SetFlags, TransactionInsideMutex, LoopCoversDirty, MutexFree, Cached,
       TypeOK, Call
<1>11. ASSUME NEW t \in Clients, EnableDBOnlyMode(t)
      PROVE  LoopCoversDirty'
  BY <1>11, TypeOK, TransactionInsideMutex, LoopCoversDirty, ThreadFacts
  DEF EnableDBOnlyMode, TransactionInsideMutex, LoopCoversDirty, MutexFree, Cached, TypeOK, Call
<1>12. ASSUME NEW t \in Clients, SaveAll(t)
      PROVE  LoopCoversDirty'
  BY <1>12, TypeOK, TransactionInsideMutex, LoopCoversDirty, ThreadFacts
  DEF SaveAll, TransactionInsideMutex, LoopCoversDirty, MutexFree, Cached, TypeOK, Call
<1>13. ASSUME NEW t \in Clients, Initialize(t)
      PROVE  LoopCoversDirty'
  BY <1>13, TypeOK, TransactionInsideMutex, LoopCoversDirty, ThreadFacts, FlagsAreKept
  DEF Initialize, TransactionInsideMutex, LoopCoversDirty, MutexFree, Cached, TypeOK,
       FlagsAreKept, Call
<1>14. ASSUME NEW t \in Clients, Start(t)
      PROVE  LoopCoversDirty'
  <2>1. CASE Joinable(Timer) \/ Joinable(Poller)
    BY <2>1, <1>14 DEF Start, Abort, EndProcess, ConnectionLost, LoopCoversDirty
  <2>2. CASE ~(Joinable(Timer) \/ Joinable(Poller))
    <3>1. \A u \in Threads : pc'[u] = "sync" => pc[u] = "sync"
      BY <2>2, <1>14, TypeOK, ThreadFacts DEF Start, TypeOK
    <3> QED
      BY <3>1, <2>2, <1>14, LoopCoversDirty DEF Start, LoopCoversDirty, Cached
  <2> QED
    BY <2>1, <2>2
<1>15. ASSUME NEW t \in Clients, Stop(t, "stop")
      PROVE  LoopCoversDirty'
  BY <1>15, TypeOK, TransactionInsideMutex, LoopCoversDirty, ThreadFacts
  DEF Stop, TransactionInsideMutex, LoopCoversDirty, MutexFree, Cached, TypeOK, Call
<1>16. ASSUME NEW t \in Clients, Stop(t, "destroy")
      PROVE  LoopCoversDirty'
  BY <1>16, TypeOK, TransactionInsideMutex, LoopCoversDirty, ThreadFacts
  DEF Stop, TransactionInsideMutex, LoopCoversDirty, MutexFree, Cached, TypeOK, Call
<1>17. ASSUME NEW t \in Threads, SetSectionPut(t)
      PROVE  LoopCoversDirty'
  BY <1>17, TypeOK, TransactionInsideMutex, LoopCoversDirty, ThreadFacts
  DEF SetSectionPut, Put, RedisSet, TransactionInsideMutex, LoopCoversDirty, MutexFree, Cached,
       TypeOK
<1>18. ASSUME NEW t \in Threads, LoadInstall(t)
      PROVE  LoopCoversDirty'
  BY <1>18, TypeOK, TransactionInsideMutex, LoopCoversDirty, ThreadFacts
  DEF LoadInstall, Install, RedisSet, TransactionInsideMutex, LoopCoversDirty, MutexFree,
       Cached, TypeOK
<1>19. ASSUME NEW t \in Threads, SaveNothing(t)
      PROVE  LoopCoversDirty'
  BY <1>19, TypeOK, TransactionInsideMutex, LoopCoversDirty, ThreadFacts
  DEF SaveNothing, SaveReturn, TransactionInsideMutex, LoopCoversDirty, MutexFree, Cached,
       TypeOK
<1>20. ASSUME NEW t \in Threads, SaveBegin(t)
      PROVE  LoopCoversDirty'
  BY <1>20, TypeOK, LoopCoversDirty, ThreadFacts
  DEF SaveBegin, TransactionInsideMutex, LoopCoversDirty, MutexFree, Cached, TypeOK
<1>21. ASSUME NEW t \in Threads, SaveCommit(t)
      PROVE  LoopCoversDirty'
  BY <1>21, TypeOK, TransactionInsideMutex, LoopCoversDirty, ThreadFacts
  DEF SaveCommit, SaveReturn, TransactionInsideMutex, LoopCoversDirty, MutexFree, Cached, TypeOK
<1>22. ASSUME NEW t \in Threads, SaveHangs(t)
      PROVE  LoopCoversDirty'
  BY <1>22, TypeOK, TransactionInsideMutex, LoopCoversDirty, ThreadFacts
  DEF SaveHangs, TransactionInsideMutex, LoopCoversDirty, MutexFree, Cached, TypeOK
<1>23. ASSUME NEW t \in Threads, NEW p \in Players, SyncPlayer(t, p)
      PROVE  LoopCoversDirty'
  BY <1>23, TypeOK, TransactionInsideMutex, LoopCoversDirty, ThreadFacts
  DEF SyncPlayer, StorePlayer, SendRow, TransactionInsideMutex, LoopCoversDirty, MutexFree, Cached,
       TypeOK, CanStore
<1>24. ASSUME NEW t \in Threads, Join(t, Timer, "joinTimer", "waitTimer", "joinPoller")
      PROVE  LoopCoversDirty'
  <2>1. CASE t = Timer
    BY <1>24, <2>1 DEF Join, Abort, EndProcess, LoopCoversDirty
  <2>2. CASE t # Timer
    <3>1. /\ UNCHANGED <<proc, dbUp, cacheData, dirtyFlags, todo, failed>>
          /\ \A u \in Threads : pc'[u] = "sync" => pc[u] = "sync"
      BY <1>24, <2>2 DEF Join, TypeOK
    <3>. QED  BY <3>1, LoopCoversDirty DEF LoopCoversDirty, Cached
  <2>. QED  BY <2>1, <2>2
<1>25. ASSUME NEW t \in Threads, Joined(t, Timer, "waitTimer", "joinPoller")
      PROVE  LoopCoversDirty'
  BY <1>25, TypeOK, TransactionInsideMutex, LoopCoversDirty, ThreadFacts
  DEF Joined, Abort, EndProcess, ConnectionLost, TransactionInsideMutex, LoopCoversDirty,
       MutexFree, Cached, TypeOK
<1>26. ASSUME NEW t \in Threads, Join(t, Poller, "joinPoller", "waitPoller", "disconnect")
      PROVE  LoopCoversDirty'
  <2>1. CASE t = Poller
    BY <1>26, <2>1 DEF Join, Abort, EndProcess, LoopCoversDirty
  <2>2. CASE t # Poller
    <3>1. /\ UNCHANGED <<proc, dbUp, cacheData, dirtyFlags, todo, failed>>
          /\ \A u \in Threads : pc'[u] = "sync" => pc[u] = "sync"
      BY <1>26, <2>2 DEF Join, TypeOK
    <3>. QED  BY <3>1, LoopCoversDirty DEF LoopCoversDirty, Cached
  <2>. QED  BY <2>1, <2>2
<1>27. ASSUME NEW t \in Threads, Joined(t, Poller, "waitPoller", "disconnect")
      PROVE  LoopCoversDirty'
  BY <1>27, TypeOK, TransactionInsideMutex, LoopCoversDirty, ThreadFacts
  DEF Joined, Abort, EndProcess, ConnectionLost, TransactionInsideMutex, LoopCoversDirty,
       MutexFree, Cached, TypeOK
<1>28. ASSUME NEW t \in Threads, Disconnect(t)
      PROVE  LoopCoversDirty'
  BY <1>28, TypeOK, TransactionInsideMutex, LoopCoversDirty, ThreadFacts
  DEF Disconnect, ConnectionLost, TransactionInsideMutex, LoopCoversDirty, MutexFree, Cached,
       TypeOK
<1>29. ASSUME TimerWake
      PROVE  LoopCoversDirty'
  BY <1>29, TypeOK, TransactionInsideMutex, LoopCoversDirty, ThreadFacts
  DEF TimerWake, TransactionInsideMutex, LoopCoversDirty, MutexFree, Cached, TypeOK
<1>30. ASSUME PollerInstall
      PROVE  LoopCoversDirty'
  BY <1>30, TypeOK, TransactionInsideMutex, LoopCoversDirty, ThreadFacts
  DEF PollerInstall, TransactionInsideMutex, LoopCoversDirty, MutexFree, Cached, TypeOK
<1>31. ASSUME PollerDone
      PROVE  LoopCoversDirty'
  BY <1>31, TypeOK, TransactionInsideMutex, LoopCoversDirty, ThreadFacts
  DEF PollerDone, TransactionInsideMutex, LoopCoversDirty, MutexFree, Cached, TypeOK
<1>32. ASSUME DbDrop
      PROVE  LoopCoversDirty'
  BY <1>32, TypeOK, TransactionInsideMutex, LoopCoversDirty, ThreadFacts
  DEF DbDrop, Fault, ConnectionLost, TransactionInsideMutex, LoopCoversDirty, MutexFree, Cached,
       TypeOK
<1>33. ASSUME RedisDrop
      PROVE  LoopCoversDirty'
  BY <1>33, TypeOK, TransactionInsideMutex, LoopCoversDirty, ThreadFacts
  DEF RedisDrop, Fault, TransactionInsideMutex, LoopCoversDirty, MutexFree, Cached, TypeOK
<1>34. ASSUME Crash
      PROVE  LoopCoversDirty'
  BY <1>34, TypeOK, TransactionInsideMutex, LoopCoversDirty, ThreadFacts
  DEF Crash, Fault, EndProcess, ConnectionLost, TransactionInsideMutex, LoopCoversDirty,
       MutexFree, Cached, TypeOK
<1>35. ASSUME Restart
      PROVE  LoopCoversDirty'
  BY <1>35, TypeOK, TransactionInsideMutex, LoopCoversDirty, ThreadFacts
  DEF Restart, TransactionInsideMutex, LoopCoversDirty, MutexFree, Cached, TypeOK, FreshThreads
<1>36. ASSUME NEW t \in Threads, Signal(t)
      PROVE  LoopCoversDirty'
  BY <1>36, TypeOK, TransactionInsideMutex, LoopCoversDirty, ThreadFacts
  DEF Signal, TransactionInsideMutex, LoopCoversDirty, MutexFree, Cached, TypeOK
<1>37. ASSUME NEW t \in Clients, InitializeCrashes(t)
      PROVE  LoopCoversDirty'
  BY <1>37, TypeOK, TransactionInsideMutex, LoopCoversDirty, ThreadFacts
  DEF InitializeCrashes, FreeUnderSave, EndProcess, ConnectionLost, Call, TransactionInsideMutex, LoopCoversDirty, MutexFree, Cached, TypeOK
<1>38. ASSUME NEW t \in Threads, DisconnectCrashes(t)
      PROVE  LoopCoversDirty'
  BY <1>38, TypeOK, TransactionInsideMutex, LoopCoversDirty, ThreadFacts
  DEF DisconnectCrashes, FreeUnderSave, EndProcess, ConnectionLost, TransactionInsideMutex, LoopCoversDirty, MutexFree, Cached, TypeOK
<1>39. ASSUME DbRefuses
      PROVE  LoopCoversDirty'
  BY <1>39, TypeOK, TransactionInsideMutex, LoopCoversDirty, ThreadFacts
  DEF DbRefuses, Fault, TransactionInsideMutex, LoopCoversDirty, MutexFree, Cached, TypeOK
<1>40. ASSUME RedisRefuses
      PROVE  LoopCoversDirty'
  BY <1>40, TypeOK, TransactionInsideMutex, LoopCoversDirty, ThreadFacts
  DEF RedisRefuses, Fault, TransactionInsideMutex, LoopCoversDirty, MutexFree, Cached, TypeOK
<1>41. ASSUME ServersRecover
      PROVE  LoopCoversDirty'
  BY <1>41, TypeOK, TransactionInsideMutex, LoopCoversDirty, ThreadFacts
  DEF ServersRecover, TransactionInsideMutex, LoopCoversDirty, MutexFree, Cached, TypeOK
<1>42. CASE UNCHANGED vars
  BY <1>42 DEF vars, TransactionInsideMutex, LoopCoversDirty, MutexFree, Cached, TypeOK
<1>43. QED
  BY <1>1, <1>2, <1>3, <1>4, <1>5, <1>6, <1>7, <1>8, <1>9, <1>10, <1>11, <1>12, <1>13, <1>14,
       <1>15, <1>16, <1>17, <1>18, <1>19, <1>20, <1>21, <1>22, <1>23, <1>24, <1>25, <1>26,
       <1>27, <1>28, <1>29, <1>30, <1>31, <1>32, <1>33, <1>34, <1>35, <1>36, <1>37, <1>38, <1>39,
       <1>40, <1>41, <1>42
  DEF Next, ClientCall, ThreadStep, Background, Environment

(* Leaving the save loop is the commit. *)
LEMMA LeavingTheLoop ==
  ASSUME TypeOK, NEW u \in Threads, [Next]_vars, proc = "up", pc[u] = "sync",
         pc'[u] \notin {"sync", "save", "hung"}
  PROVE  SaveCommit(u)
<1> USE DEF cacheVars, mutexVars, threadVars, modeVars, redisLink, redisVars, dbVars, serverVars, Goto
<1>1. ASSUME NEW t \in Clients, NEW p \in Players, GetPlayerData(t, p)
      PROVE  SaveCommit(u)
  BY <1>1, TypeOK, ThreadFacts
  DEF GetPlayerData, Lookup, Install, RedisSet, TypeOK, SaveReturn, Call
<1>2. ASSUME NEW t \in Clients, NEW p \in Players, GetHangs(t, p)
      PROVE  SaveCommit(u)
  BY <1>2, TypeOK, ThreadFacts DEF GetHangs, TypeOK, SaveReturn, Call
<1>3. ASSUME NEW t \in Clients, NEW p \in Players, LoadSelect(t, p)
      PROVE  SaveCommit(u)
  BY <1>3, TypeOK, ThreadFacts DEF LoadSelect, TypeOK, SaveReturn, Call
<1>4. ASSUME NEW t \in Clients, NEW p \in Players, SetDirty(t, p)
      PROVE  SaveCommit(u)
  BY <1>4, TypeOK, ThreadFacts DEF SetDirty, SetFlags, TypeOK, SaveReturn, Call
<1>5. ASSUME NEW t \in Clients, NEW p \in Players, ClearDirty(t, p)
      PROVE  SaveCommit(u)
  BY <1>5, TypeOK, ThreadFacts DEF ClearDirty, SetFlags, TypeOK, SaveReturn, Call
<1>6. ASSUME NEW t \in Clients, NEW p \in Players, SavePlayerDataToDB(t, p)
      PROVE  SaveCommit(u)
  BY <1>6, TypeOK, ThreadFacts DEF SavePlayerDataToDB, StorePlayer, SendRow, TypeOK, SaveReturn, Call
<1>7. ASSUME NEW t \in Clients, NEW p \in Players, NEW d \in Data, SetPlayerData(t, p, d)
      PROVE  SaveCommit(u)
  BY <1>7, TypeOK, ThreadFacts DEF SetPlayerData, Put, RedisSet, TypeOK, SaveReturn, Call
<1>8. ASSUME NEW t \in Clients, NEW p \in Players, NEW s \in Sections, NEW v \in Vals, SetSection(t, p, s, v)
      PROVE  SaveCommit(u)
  BY <1>8, TypeOK, ThreadFacts
  DEF SetSection, Lookup, Install, RedisSet, TypeOK, SaveReturn, Call
<1>9. ASSUME NEW t \in Clients, LoadBreaksConnection(t)
      PROVE  SaveCommit(u)
  BY <1>9, TypeOK, ThreadFacts
  DEF LoadBreaksConnection, ConnectionLost, TypeOK, SaveReturn, Call
<1>10. ASSUME NEW t \in Clients, MarkAllDirty(t)
      PROVE  SaveCommit(u)
  BY <1>10, TypeOK, ThreadFacts DEF MarkAllDirty, SetFlags, TypeOK, SaveReturn, Call
<1>11. ASSUME NEW t \in Clients, EnableDBOnlyMode(t)
      PROVE  SaveCommit(u)
  BY <1>11, TypeOK, ThreadFacts DEF EnableDBOnlyMode, TypeOK, SaveReturn, Call
<1>12. ASSUME NEW t \in Clients, SaveAll(t)
      PROVE  SaveCommit(u)
  BY <1>12, TypeOK, ThreadFacts DEF SaveAll, TypeOK, SaveReturn, Call
<1>13. ASSUME NEW t \in Clients, Initialize(t)
      PROVE  SaveCommit(u)
  BY <1>13, TypeOK, ThreadFacts DEF Initialize, TypeOK, SaveReturn, Call
<1>14. ASSUME NEW t \in Clients, Start(t)
      PROVE  SaveCommit(u)
  BY <1>14, TypeOK, ThreadFacts
  DEF Start, Abort, EndProcess, ConnectionLost, TypeOK, SaveReturn, Call, Joinable
<1>15. ASSUME NEW t \in Clients, Stop(t, "stop")
      PROVE  SaveCommit(u)
  BY <1>15, TypeOK, ThreadFacts DEF Stop, TypeOK, SaveReturn, Call
<1>16. ASSUME NEW t \in Clients, Stop(t, "destroy")
      PROVE  SaveCommit(u)
  BY <1>16, TypeOK, ThreadFacts DEF Stop, TypeOK, SaveReturn, Call
<1>17. ASSUME NEW t \in Threads, SetSectionPut(t)
      PROVE  SaveCommit(u)
  BY <1>17, TypeOK, ThreadFacts DEF SetSectionPut, Put, RedisSet, TypeOK, SaveReturn, Call
<1>18. ASSUME NEW t \in Threads, LoadInstall(t)
      PROVE  SaveCommit(u)
  BY <1>18, TypeOK, ThreadFacts DEF LoadInstall, Install, RedisSet, TypeOK, SaveReturn, Call
<1>19. ASSUME NEW t \in Threads, SaveNothing(t)
      PROVE  SaveCommit(u)
  BY <1>19, TypeOK, ThreadFacts DEF SaveNothing, SaveReturn, TypeOK, Call
<1>20. ASSUME NEW t \in Threads, SaveBegin(t)
      PROVE  SaveCommit(u)
  BY <1>20, TypeOK, ThreadFacts DEF SaveBegin, TypeOK, SaveReturn, Call
<1>21. ASSUME NEW t \in Threads, SaveCommit(t)
      PROVE  SaveCommit(u)
  BY <1>21, TypeOK, ThreadFacts DEF SaveCommit, SaveReturn, TypeOK, Call
<1>22. ASSUME NEW t \in Threads, SaveHangs(t)
      PROVE  SaveCommit(u)
  BY <1>22, TypeOK, ThreadFacts DEF SaveHangs, TypeOK, SaveReturn, Call
<1>23. ASSUME NEW t \in Threads, NEW p \in Players, SyncPlayer(t, p)
      PROVE  SaveCommit(u)
  BY <1>23, TypeOK, ThreadFacts DEF SyncPlayer, StorePlayer, SendRow, TypeOK, SaveReturn, Call
<1>24. ASSUME NEW t \in Threads, Join(t, Timer, "joinTimer", "waitTimer", "joinPoller")
      PROVE  SaveCommit(u)
  BY <1>24, TypeOK, ThreadFacts
  DEF Join, Abort, EndProcess, ConnectionLost, TypeOK, SaveReturn, Call
<1>25. ASSUME NEW t \in Threads, Joined(t, Timer, "waitTimer", "joinPoller")
      PROVE  SaveCommit(u)
  BY <1>25, TypeOK, ThreadFacts
  DEF Joined, Abort, EndProcess, ConnectionLost, TypeOK, SaveReturn, Call
<1>26. ASSUME NEW t \in Threads, Join(t, Poller, "joinPoller", "waitPoller", "disconnect")
      PROVE  SaveCommit(u)
  BY <1>26, TypeOK, ThreadFacts
  DEF Join, Abort, EndProcess, ConnectionLost, TypeOK, SaveReturn, Call
<1>27. ASSUME NEW t \in Threads, Joined(t, Poller, "waitPoller", "disconnect")
      PROVE  SaveCommit(u)
  BY <1>27, TypeOK, ThreadFacts
  DEF Joined, Abort, EndProcess, ConnectionLost, TypeOK, SaveReturn, Call
<1>28. ASSUME NEW t \in Threads, Disconnect(t)
      PROVE  SaveCommit(u)
  BY <1>28, TypeOK, ThreadFacts DEF Disconnect, ConnectionLost, TypeOK, SaveReturn, Call
<1>29. ASSUME TimerWake
      PROVE  SaveCommit(u)
  BY <1>29, TypeOK, ThreadFacts DEF TimerWake, TypeOK, SaveReturn, Call
<1>30. ASSUME PollerInstall
      PROVE  SaveCommit(u)
  BY <1>30, TypeOK, ThreadFacts DEF PollerInstall, TypeOK, SaveReturn, Call
<1>31. ASSUME PollerDone
      PROVE  SaveCommit(u)
  BY <1>31, TypeOK, ThreadFacts DEF PollerDone, TypeOK, SaveReturn, Call
<1>32. ASSUME DbDrop
      PROVE  SaveCommit(u)
  BY <1>32, TypeOK, ThreadFacts DEF DbDrop, Fault, ConnectionLost, TypeOK, SaveReturn, Call
<1>33. ASSUME RedisDrop
      PROVE  SaveCommit(u)
  BY <1>33, TypeOK, ThreadFacts DEF RedisDrop, Fault, TypeOK, SaveReturn, Call
<1>34. ASSUME Crash
      PROVE  SaveCommit(u)
  BY <1>34, TypeOK, ThreadFacts
  DEF Crash, Fault, EndProcess, ConnectionLost, TypeOK, SaveReturn, Call
<1>35. ASSUME Restart
      PROVE  SaveCommit(u)
  BY <1>35, TypeOK, ThreadFacts DEF Restart, TypeOK, SaveReturn, Call
<1>36. ASSUME NEW t \in Threads, Signal(t)
      PROVE  SaveCommit(u)
  BY <1>36, TypeOK, ThreadFacts DEF Signal, TypeOK, SaveReturn, Call
<1>37. ASSUME NEW t \in Clients, InitializeCrashes(t)
      PROVE  SaveCommit(u)
  BY <1>37, TypeOK, ThreadFacts DEF InitializeCrashes, FreeUnderSave, EndProcess, ConnectionLost, Call, TypeOK, SaveReturn, Call
<1>38. ASSUME NEW t \in Threads, DisconnectCrashes(t)
      PROVE  SaveCommit(u)
  BY <1>38, TypeOK, ThreadFacts DEF DisconnectCrashes, FreeUnderSave, EndProcess, ConnectionLost, TypeOK, SaveReturn, Call
<1>39. ASSUME DbRefuses
      PROVE  SaveCommit(u)
  BY <1>39, TypeOK, ThreadFacts DEF DbRefuses, Fault, TypeOK, SaveReturn, Call
<1>40. ASSUME RedisRefuses
      PROVE  SaveCommit(u)
  BY <1>40, TypeOK, ThreadFacts DEF RedisRefuses, Fault, TypeOK, SaveReturn, Call
<1>41. ASSUME ServersRecover
      PROVE  SaveCommit(u)
  BY <1>41, TypeOK, ThreadFacts DEF ServersRecover, TypeOK, SaveReturn, Call
<1>42. CASE UNCHANGED vars
  BY <1>42 DEF vars, TypeOK, SaveReturn, Call
<1>43. QED
  BY <1>1, <1>2, <1>3, <1>4, <1>5, <1>6, <1>7, <1>8, <1>9, <1>10, <1>11, <1>12, <1>13, <1>14,
       <1>15, <1>16, <1>17, <1>18, <1>19, <1>20, <1>21, <1>22, <1>23, <1>24, <1>25, <1>26,
       <1>27, <1>28, <1>29, <1>30, <1>31, <1>32, <1>33, <1>34, <1>35, <1>36, <1>37, <1>38, <1>39,
       <1>40, <1>41, <1>42
  DEF Next, ClientCall, ThreadStep, Background, Environment

(* In those builds a save that ends on a live connection leaves, at once, the row
   that the statement of each cached record stores, but for the records it counts
   as failed. *)
THEOREM SaveIsASnapshotHolds ==
  ASSUME OnlyDatabase, FlagsAreKept
  PROVE  Spec => SaveIsASnapshot
<1>1. Init => LoopCoversDirty
  BY DEF Init, LoopCoversDirty, FreshThreads
<1>2. IndInv /\ LoopCoversDirty /\ [Next]_vars => LoopCoversDirty'
  BY FlagsAreKept, LoopStep DEF IndInv
<1>3. ASSUME IndInv, CleanIsStored, LoopCoversDirty, [Next]_vars, NEW t \in Threads
      PROVE  ReturnsWithSnapshot(t)
  <2> SUFFICES ASSUME proc = "up", pc[t] = "sync", pc'[t] \notin {"sync", "save", "hung"},
                      proc' = "up", dbUp',
                      NEW p \in Players, Cached(p), p \notin failed
               PROVE  rows'[p] \in RowsOf(cacheData[p])
    BY DEF ReturnsWithSnapshot
  <2>1. SaveCommit(t)
    BY <1>3, LeavingTheLoop DEF IndInv
  <2>2. dbUp /\ dirtyFlags[p] # "dirty"
    BY <2>1, <1>3 DEF SaveCommit, LoopCoversDirty, dbVars
  <2>3. Row(p) \in RowsOf(cacheData[p])
    BY <2>2, <1>3 DEF CleanIsStored
  <2>4. rows'[p] = Row(p)
    BY <2>1 DEF SaveCommit, Committed
  <2> QED
    BY <2>3, <2>4
<1>4. IndInv /\ CleanIsStored /\ LoopCoversDirty /\ [Next]_vars =>
        [\A t \in Threads : ReturnsWithSnapshot(t)]_vars
  BY <1>3
<1> QED
  BY <1>1, <1>2, <1>4, OnlyDatabase, FlagsAreKept, IndInvHolds, CleanIsStoredHolds, PTL
  DEF Spec, SaveIsASnapshot

(* Types, and the transaction inside the mutex. *)
THEOREM MutexIsSoundHolds == Spec => []MutexIsSound
BY TypeCorrect, TransactionsAreExclusive, PTL DEF MutexIsSound

-----------------------------------------------------------------------------
(* Redis mirrors the cache: a record enters the cache from Redis, or goes there
   in the same critical section; a SET that fails is remembered. *)

(* What every step does that installs no record. *)
LeavesRecords ==
  /\ cacheData' = cacheData /\ redis' = redis /\ unsent' = unsent
  /\ proc' = "up" => proc = "up"

LEMMA LeavesMirror ==
  ASSUME RedisMirrorsCache, LeavesRecords
  PROVE  RedisMirrorsCache'
BY DEF LeavesRecords, RedisMirrorsCache, Cached

(* A record installed in cache and, unless the SET fails, in Redis at once. *)
LEMMA BothMirror ==
  ASSUME TypeOK, RedisMirrorsCache, NEW p \in Players, NEW d \in Data, proc = "up",
         cacheData' = [cacheData EXCEPT ![p] = d], RedisSet(p, d)
  PROVE  RedisMirrorsCache'
<1>1. CASE redis' = [redis EXCEPT ![p] = d] /\ unsent' = unsent \ {p}
  BY <1>1, DataFacts DEF RedisMirrorsCache, Cached, TypeOK
<1>2. CASE redis' = redis /\ unsent' = unsent \cup {p}
  BY <1>2 DEF RedisMirrorsCache, Cached, TypeOK
<1>. QED  BY <1>1, <1>2 DEF RedisSet

LEMMA LookupMirrors ==
  ASSUME TypeOK, RedisMirrorsCache, NEW p \in Players, Lookup(p), proc = "up", proc' = "up"
  PROVE  RedisMirrorsCache'
<1>1. CASE Cached(p) \/ (~RedisHit(p) /\ ~ColdLoad(p))
  <2>1. UNCHANGED <<cacheVars, redis, unsent>>
    BY <1>1 DEF Lookup, ColdLoad
  <2>. QED  BY <2>1, LeavesMirror DEF LeavesRecords, cacheVars
<1>2. CASE ~Cached(p) /\ RedisHit(p)
  <2>1. Install(p, RedisGet(p)) /\ UNCHANGED <<redis, unsent>>
    BY <1>2 DEF Lookup, ColdLoad
  <2>2. redis[p] # Absent /\ RedisGet(p) = Cut[redis[p]]
    BY <1>2 DEF RedisHit, RedisGet
  <2>. QED  BY <2>1, <2>2 DEF Install, RedisMirrorsCache, Cached, TypeOK
<1>3. CASE ColdLoad(p)
  <2>1. Install(p, Select(p)) /\ RedisSet(p, Select(p)) /\ Select(p) \in Data
    BY <1>3, RowFacts DEF Lookup, ColdLoad
  <2>. QED  BY <2>1, BothMirror DEF Install
<1>. QED  BY <1>1, <1>2, <1>3 DEF ColdLoad

LEMMA MirrorStep ==
  ASSUME TypeOK, HeldRecords, RedisMirrorsCache, [Next]_vars
  PROVE  RedisMirrorsCache'
<1>. USE DEF cacheVars, mutexVars, threadVars, modeVars, redisLink, redisVars, dbVars, serverVars
(* The calls that install a record. *)
<1>1. ASSUME NEW t \in Clients, NEW p \in Players, GetPlayerData(t, p)
      PROVE  RedisMirrorsCache'
  BY <1>1, LookupMirrors DEF GetPlayerData, Call
<1>2. ASSUME NEW t \in Clients, NEW p \in Players, NEW d \in Data, SetPlayerData(t, p, d)
      PROVE  RedisMirrorsCache'
  BY <1>2, BothMirror DEF SetPlayerData, Put, Call
<1>3. ASSUME NEW t \in Clients, NEW p \in Players, NEW s \in Sections, NEW v \in Vals,
             SetSection(t, p, s, v)
      PROVE  RedisMirrorsCache'
  BY <1>3, LookupMirrors DEF SetSection, Call
(* Their second critical sections: the record was held outside the mutex. *)
<1>4. ASSUME NEW t \in Threads, SetSectionPut(t)
      PROVE  RedisMirrorsCache'
  <2>1. arg[t].player \in Players /\ arg[t].data \in Data
    BY <1>4 DEF SetSectionPut, HeldRecords
  <2>. QED  BY <1>4, <2>1, BothMirror DEF SetSectionPut, Put
<1>5. ASSUME NEW t \in Threads, LoadInstall(t)
      PROVE  RedisMirrorsCache'
  <2>1. arg[t].player \in Players /\ arg[t].data \in Data
    BY <1>5 DEF LoadInstall, HeldRecords
  <2>. QED  BY <1>5, <2>1, BothMirror DEF LoadInstall, Install
(* A new process caches nothing. *)
<1>6. ASSUME Restart
      PROVE  RedisMirrorsCache'
  BY <1>6 DEF Restart, RedisMirrorsCache, Cached, NoRecords
(* All other steps. *)
<1>7. ASSUME NEW t \in Clients, NEW p \in Players,
             \/ GetHangs(t, p) \/ LoadSelect(t, p) \/ SetDirty(t, p) \/ ClearDirty(t, p)
             \/ SavePlayerDataToDB(t, p)
      PROVE  LeavesRecords
  BY <1>7 DEF GetHangs, LoadSelect, SetDirty, ClearDirty, SetFlags, SavePlayerDataToDB,
              LeavesRecords
<1>8. ASSUME NEW t \in Clients,
             \/ LoadBreaksConnection(t) \/ MarkAllDirty(t) \/ EnableDBOnlyMode(t)
             \/ SaveAll(t) \/ Start(t) \/ Stop(t, "stop") \/ Stop(t, "destroy")
             \/ Initialize(t) \/ InitializeCrashes(t)
      PROVE  LeavesRecords
  <2>1. CASE LoadBreaksConnection(t) \/ MarkAllDirty(t) \/ SaveAll(t) \/ Initialize(t)
    BY <2>1 DEF LoadBreaksConnection, MarkAllDirty, SetFlags, SaveAll, Initialize, LeavesRecords
  <2>2. CASE EnableDBOnlyMode(t) \/ Stop(t, "stop") \/ Stop(t, "destroy")
    BY <2>2 DEF EnableDBOnlyMode, Stop, Call, LeavesRecords
  <2>3. CASE Start(t)
    BY <2>3 DEF Start, Abort, EndProcess, Call, LeavesRecords
  <2>4. CASE InitializeCrashes(t)
    BY <2>4 DEF InitializeCrashes, FreeUnderSave, EndProcess, Call, LeavesRecords
  <2>. QED  BY <1>8, <2>1, <2>2, <2>3, <2>4
<1>9. ASSUME NEW t \in Threads,
             \/ SaveNothing(t) \/ SaveBegin(t) \/ SaveCommit(t) \/ SaveHangs(t)
             \/ \E p \in Players : SyncPlayer(t, p)
      PROVE  LeavesRecords
  BY <1>9 DEF SaveNothing, SaveBegin, SaveCommit, SaveHangs, SyncPlayer, LeavesRecords
<1>10. ASSUME NEW t \in Threads,
              \/ Join(t, Timer, "joinTimer", "waitTimer", "joinPoller")
              \/ Joined(t, Timer, "waitTimer", "joinPoller")
              \/ Join(t, Poller, "joinPoller", "waitPoller", "disconnect")
              \/ Joined(t, Poller, "waitPoller", "disconnect")
              \/ Disconnect(t) \/ DisconnectCrashes(t)
       PROVE  LeavesRecords
  BY <1>10 DEF Join, Joined, Disconnect, DisconnectCrashes, FreeUnderSave, Abort, EndProcess,
               LeavesRecords
<1>11. ASSUME Background
       PROVE  LeavesRecords
  BY <1>11 DEF Background, TimerWake, PollerInstall, PollerDone, LeavesRecords
<1>12. ASSUME \/ DbDrop \/ RedisDrop \/ DbRefuses \/ RedisRefuses \/ ServersRecover
              \/ Crash \/ \E t \in Threads : Signal(t)
       PROVE  LeavesRecords
  BY <1>12 DEF DbDrop, RedisDrop, DbRefuses, RedisRefuses, ServersRecover, Crash, Signal,
               Fault, EndProcess, LeavesRecords
<1>13. CASE UNCHANGED vars
  BY <1>13, LeavesMirror DEF vars, LeavesRecords
<1>. QED
  BY <1>1, <1>2, <1>3, <1>4, <1>5, <1>6, <1>7, <1>8, <1>9, <1>10, <1>11, <1>12, <1>13,
     LeavesMirror
  DEF Next, ClientCall, ThreadStep, Environment

(* Redis holds the record of every cached player whose last SET succeeded, or the
   value that record was read from, whoever reads, writes, loads, saves, connects
   again or fails at the same time, in every build and with any database. *)
THEOREM RedisMirrorsCacheHolds == Spec => []RedisMirrorsCache
<1>1. Init => RedisMirrorsCache
  BY DEF Init, RedisMirrorsCache, Cached, NoRecords
<1>2. IndInv /\ RedisMirrorsCache /\ [Next]_vars => RedisMirrorsCache'
  BY MirrorStep DEF IndInv
<1>. QED  BY IndInvHolds, <1>1, <1>2, PTL DEF Spec

=============================================================================
