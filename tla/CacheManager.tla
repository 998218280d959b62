---------------------------- MODULE CacheManager ----------------------------
(***************************************************************************)
(* The write-back player cache of server/redis_cache: an in-process map of *)
(* player records with dirty flags, guarded by one std::mutex, in front of *)
(* Redis and of one MySQL connection shared by all threads.  Clients call  *)
(* the public methods; a timer thread saves dirty records; stop() runs in  *)
(* a client, in the signal handler of any thread, or in the destructor.    *)
(*                                                                         *)
(* A step is a critical section, or the part of one between two statements *)
(* sent to MySQL.  A record is a function from its sections (base_info,    *)
(* inventory_info, ...) to values; its bytes are left out but for what the *)
(* two stores make of them: the SQL text holds them unescaped, and both    *)
(* clients read them back as C strings.                                    *)
(***************************************************************************)
EXTENDS Naturals, FiniteSets

CONSTANTS
  Players,          \* player ids
  Clients,          \* application threads
  Timer, Poller,    \* timer_thread_ and signal_thread_
  NoThread,         \* owner of a free mutex
  Sections, Vals,   \* sections of PlayerData and their contents
  Unset,            \* a section that was never set
  Absent,           \* no record under a key
  Unreadable,       \* bytes that do not deserialise
  Broken,           \* no row: the SQL text of the record is refused
  Stored,           \* what a statement that holds a record's bytes unescaped
                    \* stores: the record a later SELECT gives, or one of these
  Cut,              \* what GET gives of a record's bytes: they end at a NUL
  Builds,           \* the #ifdef switches on: subsets of {"redis", "database"}
  Relock,           \* what the C++ library may do when a thread locks the
                    \* std::mutex it owns: "hang" (glibc) or "recurse" (MSVC)
  Calls,            \* the public methods the embedding program uses
  Faults, MaxFaults \* which faults occur, and how many of them at most

Threads == Clients \cup {Timer, Poller}
Data == [Sections -> Vals \cup {Unset}]
EmptyData == [s \in Sections |-> Unset]
MaybeData == Data \cup {Absent}
MaybeRow == MaybeData \cup {Unreadable}

ASSUME CacheAssumption ==
  /\ Timer # Poller /\ {Timer, Poller} \cap Clients = {}
  /\ NoThread \notin Threads
  /\ Unset \notin Vals
  /\ Absent \notin Data /\ Unreadable \notin MaybeData /\ Broken \notin MaybeRow
  /\ Stored \in [Data -> Data \cup {Unreadable, Broken}]
  /\ Cut \in [Data -> Data \cup {Unreadable}]
  /\ Stored[EmptyData] = EmptyData /\ Cut[EmptyData] = EmptyData
  /\ Builds \subseteq SUBSET {"redis", "database"}
  /\ Relock \subseteq {"hang", "recurse"}
  /\ MaxFaults \in Nat

VARIABLES
  cacheData,    \* cache_data_
  dirtyFlags,   \* dirty_flags_: "none" is a missing key
  running, dbOnlyMode,
  owner, depth, \* cache_mutex_: owning thread and how often it locked it
  pc, after,    \* per thread: where it is, what saveAllDirtyDataToDB returns to
  arg,          \* per thread: player and record held outside the mutex
  todo,         \* dirty players the loop of saveAllDirtyDataToDB still visits
  failed,       \* those it could not store (fail_count)
  handler,      \* signalHandler is installed
  redis, redisUp, \* records SET, connection usable
  rows, dbUp,   \* committed rows of player_data, connection usable
  redisRefuses, dbRefuses, \* commands the servers answer with an error
  inTxn, pending, \* open transaction of the connection and its writes
  build,        \* the switches of this build: never changes
  proc,         \* the process: "up", "exited", "aborted" or "crashed"
  faults,       \* number of faults so far
  written,      \* history: the record last passed to setPlayerData
  unsent        \* history: the players whose last SET failed

cacheVars  == <<cacheData, dirtyFlags>>
mutexVars  == <<owner, depth>>
threadVars == <<pc, after, arg, todo, failed>>
modeVars   == <<running, dbOnlyMode, handler, proc, faults, build>>
redisLink  == <<redisUp, redisRefuses>>
redisVars  == <<redis, unsent, redisLink>>
dbVars     == <<rows, dbUp, dbRefuses, inTxn, pending>>
(* What is kept outside the process. *)
serverVars == <<redis, redisRefuses, rows, dbRefuses>>
vars == <<cacheVars, mutexVars, threadVars, modeVars, redisVars, dbVars, written>>

EnableRedis == "redis" \in build
EnableDatabase == "database" \in build

NoRecords == [p \in Players |-> Absent]
NoFlags == [p \in Players |-> "none"]
FreshThreads == [t \in Threads |-> IF t \in Clients THEN "idle" ELSE "none"]
NoReturn == [t \in Threads |-> "return"]
Nothing == [player |-> Absent, data |-> Absent]
NoArg == [t \in Threads |-> Nothing]

(* Rows that a process of this program left in the table. *)
SavedRows == ({Stored[d] : d \in Data} \ {Broken}) \cup {Absent}

(* The manager after initialize(), which succeeds without Redis too, and before
   start(). *)
Init ==
  /\ cacheData = NoRecords /\ dirtyFlags = NoFlags
  /\ running = FALSE /\ dbOnlyMode = FALSE /\ handler = FALSE
  /\ owner = NoThread /\ depth = 0
  /\ pc = FreshThreads /\ after = NoReturn /\ arg = NoArg
  /\ todo = {} /\ failed = {}
  /\ proc = "up" /\ faults = 0 /\ build \in Builds
  /\ redis = NoRecords /\ redisUp \in {FALSE, EnableRedis}
  /\ rows \in [Players -> SavedRows]
  /\ dbUp = EnableDatabase /\ inTxn = FALSE /\ pending = NoRecords
  /\ redisRefuses = {} /\ dbRefuses = {}
  /\ written = rows /\ unsent = {}

-----------------------------------------------------------------------------
(* The two stores behind the cache. *)

Cached(p) == cacheData[p] # Absent
UseRedis == EnableRedis /\ ~dbOnlyMode /\ redisUp

(* RedisClient::get: "", as for an empty record, when the key is missing or the
   command fails; a value up to its first NUL. *)
RedisGet(p) == IF ~UseRedis \/ "get" \in redisRefuses \/ redis[p] = Absent
               THEN EmptyData ELSE Cut[redis[p]]
RedisHit(p) == RedisGet(p) \notin {EmptyData, Unreadable}

(* RedisClient::set; a failure is only logged by its callers. *)
RedisSet(p, d) ==
  IF UseRedis /\ "set" \notin redisRefuses
  THEN redis' = [redis EXCEPT ![p] = d] /\ unsent' = unsent \ {p}
  ELSE redis' = redis /\ unsent' = unsent \cup {p}

(* A statement on the shared connection sees its own open transaction. *)
Row(p) == IF pending[p] # Absent THEN pending[p] ELSE rows[p]
Select(p) == IF dbUp /\ "select" \notin dbRefuses THEN Row(p) ELSE Absent

(* loadPlayerDataFromDB finds a row and can deserialise it. *)
Loadable(p) == Select(p) \notin {Absent, Unreadable}

(* START TRANSACTION commits what is open; COMMIT publishes; both do nothing
   on a dead connection, and their results are ignored. *)
Committed == [p \in Players |-> Row(p)]
ConnectionLost == dbUp' = FALSE /\ inTxn' = FALSE /\ pending' = NoRecords

(* The INSERT or UPDATE succeeds; a refused SELECT makes it an INSERT, which
   fails on an existing row. *)
CanStore(p) ==
  /\ Cached(p) /\ dbUp /\ Stored[cacheData[p]] # Broken
  /\ "store" \notin dbRefuses
  /\ "select" \in dbRefuses => Row(p) = Absent

(* A row goes to the open transaction, or is committed at once. *)
SendRow(p, row) ==
  IF inTxn THEN pending' = [pending EXCEPT ![p] = row] /\ rows' = rows
           ELSE rows' = [rows EXCEPT ![p] = row] /\ pending' = pending

(* Seeded fault: the flag is cleared although the statement failed. *)
StorePlayerIgnoringFailure(p) ==
  /\ dirtyFlags' = [dirtyFlags EXCEPT ![p] = "clean"]
  /\ IF CanStore(p) THEN SendRow(p, Stored[cacheData[p]]) ELSE UNCHANGED <<rows, pending>>
(* Seeded fault: a default-constructed record is serialised. *)
StorePlayerDefault(p) ==
  IF CanStore(p)
  THEN dirtyFlags' = [dirtyFlags EXCEPT ![p] = "clean"] /\ SendRow(p, EmptyData)
  ELSE UNCHANGED <<dirtyFlags, rows, pending>>

(* syncPlayerDataToDB below its lock: the statement of one player, which clears
   the flag when it succeeds, whatever it stored. *)
StorePlayer(p) ==
  IF CanStore(p)
  THEN dirtyFlags' = [dirtyFlags EXCEPT ![p] = "clean"] /\ SendRow(p, Stored[cacheData[p]])
  ELSE UNCHANGED <<dirtyFlags, rows, pending>>

(* A client makes the call `name`: it is between calls, the process runs. *)
Call(t, name) == proc = "up" /\ name \in Calls /\ t \in Clients /\ pc[t] = "idle"
MutexFree == owner = NoThread
Goto(t, l) == pc' = [pc EXCEPT ![t] = l]

-----------------------------------------------------------------------------
(* Reading and writing records. *)

Install(p, d) == /\ cacheData' = [cacheData EXCEPT ![p] = d]
                 /\ dirtyFlags' = [dirtyFlags EXCEPT ![p] = "clean"]

(* What getPlayerData may leave in its out-parameter: a record loaded from the
   database is put in the cache and not in the parameter, and a value of Redis
   that does not deserialise leaves what could be parsed of it. *)
Fetched(p) ==
  CASE Cached(p) -> {cacheData[p]}
    [] ~Cached(p) /\ RedisGet(p) = Unreadable -> Data
    [] OTHER -> {RedisGet(p)}

(* getPlayerData falls through to loadPlayerDataFromDB, which locks again. *)
ColdLoad(p) == ~Cached(p) /\ ~RedisHit(p) /\ Loadable(p)

(* Seeded fault: the early return on a cache hit is missing. *)
LookupIgnoringCache(p) ==
  /\ MutexFree
  /\ IF ~Loadable(p) THEN UNCHANGED <<cacheVars, redis, unsent>>
     ELSE Install(p, Select(p)) /\ RedisSet(p, Select(p))

(* The critical section of getPlayerData. *)
Lookup(p) ==
  /\ MutexFree
  /\ ColdLoad(p) => "recurse" \in Relock
  /\ IF ColdLoad(p)
     THEN Install(p, Select(p)) /\ RedisSet(p, Select(p))
     ELSE IF ~Cached(p) /\ RedisHit(p)
     THEN Install(p, RedisGet(p)) /\ UNCHANGED <<redis, unsent>>
     ELSE UNCHANGED <<cacheVars, redis, unsent>>

GetPlayerData(t, p) ==
  /\ Call(t, "get")
  /\ Lookup(p)
  /\ UNCHANGED <<mutexVars, threadVars, modeVars, redisLink, dbVars, written>>

(* The same call where locking one's own mutex blocks: it never returns. *)
GetHangs(t, p) ==
  /\ Call(t, "get") \/ Call(t, "setSection")
  /\ MutexFree /\ ColdLoad(p) /\ "hang" \in Relock
  /\ owner' = t /\ depth' = 1
  /\ Goto(t, "hung")
  /\ UNCHANGED <<cacheVars, after, arg, todo, failed, modeVars, redisVars, dbVars, written>>

(* Lines 161 to 172 of setPlayerData. *)
Put(p, d) ==
  /\ MutexFree
  /\ cacheData' = [cacheData EXCEPT ![p] = d]
  /\ dirtyFlags' = [dirtyFlags EXCEPT ![p] = "dirty"]
  /\ RedisSet(p, d)
  /\ written' = [written EXCEPT ![p] = d]

SetPlayerData(t, p, d) ==
  /\ Call(t, "set")
  /\ Put(p, d)
  /\ UNCHANGED <<mutexVars, threadVars, modeVars, redisLink, dbVars>>

(* setPlayerBaseInfo and setPlayerInventory: a get, then a set of the changed
   copy, with the mutex free in between. *)
SetSection(t, p, s, v) ==
  /\ Call(t, "setSection")
  /\ Lookup(p)
  /\ \E d \in Fetched(p) :
       arg' = [arg EXCEPT ![t] = [player |-> p, data |-> [d EXCEPT ![s] = v]]]
  /\ Goto(t, "merged")
  /\ UNCHANGED <<mutexVars, after, todo, failed, modeVars, redisLink, dbVars, written>>

SetSectionPut(t) ==
  /\ proc = "up" /\ pc[t] = "merged"
  /\ Put(arg[t].player, arg[t].data)
  /\ arg' = [arg EXCEPT ![t] = Nothing]
  /\ Goto(t, "idle")
  /\ UNCHANGED <<mutexVars, after, todo, failed, modeVars, redisLink, dbVars>>

(* loadPlayerDataFromDB called by a client: the SELECT runs without the mutex,
   the row is installed under it. *)
LoadSelect(t, p) ==
  /\ Call(t, "load")
  /\ Loadable(p)
  /\ arg' = [arg EXCEPT ![t] = [player |-> p, data |-> Select(p)]]
  /\ Goto(t, "loaded")
  /\ UNCHANGED <<cacheVars, mutexVars, after, todo, failed, modeVars, redisVars, dbVars, written>>

(* Seeded fault: the loaded record is not written to Redis. *)
LoadInstallCacheOnly(t) ==
  /\ proc = "up" /\ pc[t] = "loaded" /\ MutexFree
  /\ Install(arg[t].player, arg[t].data)
  /\ arg' = [arg EXCEPT ![t] = Nothing]
  /\ Goto(t, "idle")
  /\ UNCHANGED <<mutexVars, after, todo, failed, modeVars, redisVars, dbVars, written>>

LoadInstall(t) ==
  /\ proc = "up" /\ pc[t] = "loaded" /\ MutexFree
  /\ Install(arg[t].player, arg[t].data)
  /\ RedisSet(arg[t].player, arg[t].data)
  /\ arg' = [arg EXCEPT ![t] = Nothing]
  /\ Goto(t, "idle")
  /\ UNCHANGED <<mutexVars, after, todo, failed, modeVars, redisLink, dbVars, written>>

(* That SELECT may meet a statement of the thread that holds the mutex on the
   same MYSQL*: one outcome of the race is a connection out of sync. *)
LoadBreaksConnection(t) ==
  /\ Call(t, "load")
  /\ inTxn /\ ConnectionLost
  /\ UNCHANGED <<cacheVars, mutexVars, threadVars, modeVars, redisVars, rows, dbRefuses, written>>

(* setDirty, clearDirty and markAllDirty. *)
SetFlags(t, name, flags) ==
  /\ Call(t, name) /\ MutexFree
  /\ dirtyFlags' = flags
  /\ UNCHANGED <<cacheData, mutexVars, threadVars, modeVars, redisVars, dbVars, written>>

SetDirty(t, p) == SetFlags(t, "setDirty", [dirtyFlags EXCEPT ![p] = "dirty"])
ClearDirty(t, p) == SetFlags(t, "clearDirty", [dirtyFlags EXCEPT ![p] = "clean"])
MarkAllDirty(t) ==
  SetFlags(t, "markAllDirty", [p \in Players |->
             IF dirtyFlags[p] = "none" THEN "none" ELSE "dirty"])

EnableDBOnlyMode(t) ==
  /\ Call(t, "dbOnly")
  /\ dbOnlyMode' = TRUE
  /\ UNCHANGED <<cacheVars, mutexVars, threadVars, running, handler, build, proc, faults,
                 redisVars, dbVars, written>>

-----------------------------------------------------------------------------
(* Saving. *)

SavePlayerDataToDB(t, p) ==
  /\ Call(t, "save") /\ MutexFree
  /\ StorePlayer(p)
  /\ UNCHANGED <<cacheData, mutexVars, threadVars, modeVars, redisVars, dbUp, dbRefuses, inTxn, written>>

SaveAll(t) ==
  /\ Call(t, "saveAll")
  /\ Goto(t, "save") /\ after' = [after EXCEPT ![t] = "return"]
  /\ UNCHANGED <<cacheVars, mutexVars, arg, todo, failed, modeVars, redisVars, dbVars, written>>

(* Where a thread goes when saveAllDirtyDataToDB returns. *)
SaveReturn(t) == Goto(t, CASE after[t] = "return" -> "idle"
                           [] after[t] = "loop" -> "sleep"
                           [] OTHER -> "joinTimer")

(* Without ENABLE_DATABASE the method returns true at once. *)
SaveNothing(t) ==
  /\ proc = "up" /\ pc[t] = "save" /\ ~EnableDatabase
  /\ SaveReturn(t)
  /\ UNCHANGED <<cacheVars, mutexVars, after, arg, todo, failed, modeVars, redisVars, dbVars, written>>

(* Seeded fault: the lock_guard of saveAllDirtyDataToDB is missing. *)
SaveBeginUnlocked(t) ==
  /\ proc = "up" /\ pc[t] = "save" /\ EnableDatabase
  /\ todo' = {p \in Players : dirtyFlags[p] = "dirty"} /\ failed' = {}
  /\ rows' = Committed /\ pending' = NoRecords /\ inTxn' = dbUp
  /\ Goto(t, "sync")
  /\ UNCHANGED <<cacheVars, mutexVars, after, arg, modeVars, redisVars, dbUp, dbRefuses, written>>

(* Lines 128 to 136: lock, START TRANSACTION, and the flags the loop will find. *)
SaveBegin(t) ==
  /\ proc = "up" /\ pc[t] = "save" /\ EnableDatabase
  /\ owner = NoThread \/ (owner = t /\ "recurse" \in Relock)
  /\ owner' = t /\ depth' = depth + 1
  /\ todo' = {p \in Players : dirtyFlags[p] = "dirty"} /\ failed' = {}
  /\ rows' = Committed /\ pending' = NoRecords /\ inTxn' = dbUp
  /\ Goto(t, "sync")
  /\ UNCHANGED <<cacheVars, after, arg, modeVars, redisVars, dbUp, dbRefuses, written>>

(* Seeded fault: the loop ends at the first record that fails. *)
SyncUntilFailure(t, p) ==
  /\ proc = "up" /\ pc[t] = "sync" /\ p \in todo /\ "recurse" \in Relock
  /\ StorePlayer(p)
  /\ todo' = IF CanStore(p) THEN todo \ {p} ELSE {}
  /\ UNCHANGED failed
  /\ UNCHANGED <<cacheData, mutexVars, pc, after, arg, modeVars, redisVars, dbUp, dbRefuses, inTxn, written>>

(* One iteration of the loop, in any order of the hash map; the nested lock of
   syncPlayerDataToDB is taken and released inside it. *)
SyncPlayer(t, p) ==
  /\ proc = "up" /\ pc[t] = "sync" /\ p \in todo /\ "recurse" \in Relock
  /\ StorePlayer(p)
  /\ todo' = todo \ {p}
  /\ failed' = IF CanStore(p) THEN failed ELSE failed \cup {p}
  /\ UNCHANGED <<cacheData, mutexVars, pc, after, arg, modeVars, redisVars, dbUp, dbRefuses, inTxn, written>>

(* The end of saveAllDirtyDataToDB: COMMIT, then the lock_guard's destructor. *)
SaveCommit(t) ==
  /\ proc = "up" /\ pc[t] = "sync" /\ todo = {}
  /\ rows' = Committed /\ pending' = NoRecords /\ inTxn' = FALSE
  /\ failed' = {}
  /\ depth' = depth - 1 /\ owner' = IF depth = 1 THEN NoThread ELSE t
  /\ SaveReturn(t)
  /\ UNCHANGED <<cacheVars, after, arg, todo, modeVars, redisVars, dbUp, dbRefuses, written>>

(* A thread locks the mutex it owns and the lock blocks: in the first dirty
   iteration of the loop, or in a handler that interrupted the owner. *)
SaveHangs(t) ==
  /\ proc = "up" /\ "hang" \in Relock /\ owner = t
  /\ \/ pc[t] = "sync" /\ todo # {}
     \/ pc[t] = "save" /\ EnableDatabase
  /\ Goto(t, "hung")
  /\ UNCHANGED <<cacheVars, mutexVars, after, arg, todo, failed, modeVars, redisVars, dbVars, written>>

-----------------------------------------------------------------------------
(* The two threads, stop() and the end of the process. *)

Joinable(th) == pc[th] \notin {"none", "joined"}

(* The process ends; MySQL rolls the open transaction back. *)
EndProcess(how) == proc' = how /\ ConnectionLost /\ redisUp' = FALSE

(* std::terminate: an assignment to a joinable std::thread, a failed join. *)
Abort ==
  /\ EndProcess("aborted")
  /\ UNCHANGED <<cacheVars, mutexVars, threadVars, running, dbOnlyMode, handler, build, faults,
                 serverVars, written, unsent>>

Start(t) ==
  /\ Call(t, "start")
  /\ IF Joinable(Timer) \/ Joinable(Poller)
     THEN Abort
     ELSE /\ running' = TRUE
          /\ pc' = [pc EXCEPT ![Timer] = "sleep", ![Poller] = "install"]
          /\ after' = [after EXCEPT ![Timer] = "loop", ![Poller] = "loop"]
          /\ UNCHANGED <<cacheVars, mutexVars, arg, todo, failed, dbOnlyMode, handler, build, proc, faults,
                         redisVars, dbVars, written>>

(* Seeded faults: running_ is tested the wrong way round, or not at all. *)
TimerWakeInverted ==
  /\ proc = "up" /\ pc[Timer] = "sleep"
  /\ Goto(Timer, IF running THEN "done" ELSE "save")
  /\ UNCHANGED <<cacheVars, mutexVars, after, arg, todo, failed, modeVars, redisVars, dbVars, written>>
TimerWakeAlways ==
  /\ proc = "up" /\ pc[Timer] = "sleep"
  /\ Goto(Timer, "save")
  /\ UNCHANGED <<cacheVars, mutexVars, after, arg, todo, failed, modeVars, redisVars, dbVars, written>>

(* The timer wakes up after sync_interval_ seconds. *)
TimerWake ==
  /\ proc = "up" /\ pc[Timer] = "sleep"
  /\ Goto(Timer, IF running THEN "save" ELSE "done")
  /\ UNCHANGED <<cacheVars, mutexVars, after, arg, todo, failed, modeVars, redisVars, dbVars, written>>

PollerInstall ==
  /\ proc = "up" /\ pc[Poller] = "install"
  /\ handler' = TRUE
  /\ Goto(Poller, "sleep")
  /\ UNCHANGED <<cacheVars, mutexVars, after, arg, todo, failed, running, dbOnlyMode, proc, faults, build,
                 redisVars, dbVars, written>>

PollerDone ==
  /\ proc = "up" /\ pc[Poller] = "sleep" /\ ~running
  /\ Goto(Poller, "done")
  /\ UNCHANGED <<cacheVars, mutexVars, after, arg, todo, failed, modeVars, redisVars, dbVars, written>>

(* stop() by a client, or by the destructor when the program ends. *)
Stop(t, name) ==
  /\ Call(t, name) /\ name \in {"stop", "destroy"}
  /\ running' = FALSE
  /\ Goto(t, "save") /\ after' = [after EXCEPT ![t] = name]
  /\ UNCHANGED <<cacheVars, mutexVars, arg, todo, failed, dbOnlyMode, handler, build, proc, faults,
                 redisVars, dbVars, written>>

(* SIGINT or SIGTERM is delivered to any live thread, which may hold the mutex
   or be inside one of the short critical sections; it never resumes. *)
Signal(t) ==
  /\ proc = "up" /\ handler /\ "signal" \in Faults /\ faults < MaxFaults
  /\ t \in Threads /\ pc[t] \notin {"none", "done", "joined"}
  /\ after[t] \notin {"handler", "destroy"}
  /\ running' = FALSE
  /\ Goto(t, "save") /\ after' = [after EXCEPT ![t] = "handler"]
  /\ \/ UNCHANGED mutexVars
     \/ t \in Clients /\ pc[t] \in {"idle", "merged", "loaded"} /\ MutexFree
        /\ owner' = t /\ depth' = 1
  /\ faults' = faults + 1
  /\ arg' = [arg EXCEPT ![t] = Nothing]
  /\ UNCHANGED <<cacheVars, todo, failed, dbOnlyMode, handler, build, proc, redisVars, dbVars, written>>

(* joinable() of one of the two threads, then join(). *)
Join(t, th, at, wait, next) ==
  /\ proc = "up" /\ pc[t] = at
  /\ IF t = th
     THEN Abort    \* resource_deadlock_would_occur
     ELSE /\ Goto(t, IF Joinable(th) THEN wait ELSE next)
          /\ UNCHANGED <<cacheVars, mutexVars, after, arg, todo, failed, modeVars, redisVars,
                         dbVars, written>>

(* join() returns when the thread is done.  Two threads in join() of the same
   one: the second fails or returns, according to the library. *)
Joined(t, th, wait, next) ==
  /\ proc = "up" /\ pc[t] = wait
  /\ \/ /\ pc[th] \in {"done", "joined"}
        /\ pc' = [pc EXCEPT ![t] = next, ![th] = "joined"]
        /\ UNCHANGED <<cacheVars, mutexVars, after, arg, todo, failed, modeVars, redisVars,
                       dbVars, written>>
     \/ pc[th] = "joined" /\ Abort

(* The end of stop(): both clients disconnect.  The handler then calls exit(0),
   whose static destructors run stop() again; the destructor ends the process. *)
Disconnect(t) ==
  /\ proc = "up" /\ pc[t] = "disconnect"
  /\ ConnectionLost /\ redisUp' = FALSE
  /\ proc' = IF after[t] = "destroy" THEN "exited" ELSE proc
  /\ Goto(t, IF after[t] = "handler" THEN "save" ELSE "idle")
  /\ after' = [after EXCEPT ![t] = IF @ = "handler" THEN "destroy" ELSE "return"]
  /\ UNCHANGED <<cacheVars, mutexVars, arg, todo, failed, running, dbOnlyMode, handler, build, faults,
                 serverVars, written, unsent>>

(* initialize() again, at any time: new connections, whose servers drop the old
   ones' transactions; the cache and its flags stay. *)
Initialize(t) ==
  /\ Call(t, "initialize")
  /\ redisUp' \in {FALSE, EnableRedis} /\ dbUp' \in {FALSE, EnableDatabase}
  /\ inTxn' = FALSE /\ pending' = NoRecords
  /\ UNCHANGED <<cacheVars, mutexVars, threadVars, modeVars, serverVars, written, unsent>>

(* Both free the clients without the mutex: under another thread's save, which
   uses the freed connection, the process may also die. *)
FreeUnderSave(t) ==
  /\ \E u \in Threads \ {t} : pc[u] = "sync"
  /\ EndProcess("crashed")
  /\ UNCHANGED <<cacheVars, mutexVars, threadVars, running, dbOnlyMode, handler, build, faults,
                 serverVars, written, unsent>>
InitializeCrashes(t) == Call(t, "initialize") /\ FreeUnderSave(t)
DisconnectCrashes(t) == proc = "up" /\ pc[t] = "disconnect" /\ FreeUnderSave(t)

-----------------------------------------------------------------------------
(* The environment. *)

Fault(name) == proc = "up" /\ name \in Faults /\ faults < MaxFaults /\ faults' = faults + 1

(* Nothing reconnects: mysql_ping and the Redis context stay failed. *)
DbDrop ==
  /\ Fault("dbDrop") /\ dbUp /\ ConnectionLost
  /\ UNCHANGED <<cacheVars, mutexVars, threadVars, running, dbOnlyMode, handler, build, proc,
                 redisVars, rows, dbRefuses, written>>

RedisDrop ==
  /\ Fault("redisDrop") /\ redisUp /\ redisUp' = FALSE
  /\ UNCHANGED <<cacheVars, mutexVars, threadVars, running, dbOnlyMode, handler, build, proc,
                 redis, redisRefuses, unsent, dbVars, written>>

(* A server answers commands with errors for a while, on a live connection:
   Redis out of memory refuses SET, one that loads its data refuses GET too;
   MySQL refuses a table's INSERT and UPDATE (it is full, or read-only), or its
   SELECT.  START TRANSACTION and COMMIT are not refused. *)
RedisRefuses ==
  /\ Fault("redisRefuse") /\ redisRefuses' \in {{"set"}, {"get", "set"}}
  /\ UNCHANGED <<cacheVars, mutexVars, threadVars, running, dbOnlyMode, handler, build, proc,
                 redis, redisUp, unsent, dbVars, written>>
DbRefuses ==
  /\ Fault("dbRefuse") /\ dbRefuses' \in {{"store"}, {"select"}}
  /\ UNCHANGED <<cacheVars, mutexVars, threadVars, running, dbOnlyMode, handler, build, proc,
                 redisVars, rows, dbUp, inTxn, pending, written>>

(* They answer again. *)
ServersRecover ==
  /\ redisRefuses # {} \/ dbRefuses # {}
  /\ redisRefuses' = {} /\ dbRefuses' = {}
  /\ UNCHANGED <<cacheVars, mutexVars, threadVars, modeVars, redis, redisUp, unsent,
                 rows, dbUp, inTxn, pending, written>>

Crash ==
  /\ Fault("crash") /\ EndProcess("crashed")
  /\ UNCHANGED <<cacheVars, mutexVars, threadVars, running, dbOnlyMode, handler, build,
                 serverVars, written, unsent>>

(* A new process: what the stores hold is all that is left. *)
Restart ==
  /\ proc # "up"
  /\ cacheData' = NoRecords /\ dirtyFlags' = NoFlags
  /\ running' = FALSE /\ dbOnlyMode' = FALSE /\ handler' = FALSE
  /\ owner' = NoThread /\ depth' = 0
  /\ pc' = FreshThreads /\ after' = NoReturn /\ arg' = NoArg
  /\ todo' = {} /\ failed' = {}
  /\ proc' = "up"
  /\ redisUp' \in {FALSE, EnableRedis}
  /\ dbUp' = EnableDatabase /\ inTxn' = FALSE /\ pending' = NoRecords
  /\ written' = rows /\ unsent' = {}
  /\ UNCHANGED <<serverVars, faults, build>>

ClientCall(t) ==
  \/ \E p \in Players :
       \/ GetPlayerData(t, p) \/ GetHangs(t, p)
       \/ LoadSelect(t, p)
       \/ SetDirty(t, p) \/ ClearDirty(t, p)
       \/ SavePlayerDataToDB(t, p)
       \/ \E d \in Data : SetPlayerData(t, p, d)
       \/ \E s \in Sections, v \in Vals : SetSection(t, p, s, v)
  \/ LoadBreaksConnection(t) \/ MarkAllDirty(t) \/ EnableDBOnlyMode(t)
  \/ SaveAll(t) \/ Initialize(t) \/ InitializeCrashes(t)
  \/ Start(t) \/ Stop(t, "stop") \/ Stop(t, "destroy")

ThreadStep(t) ==
  \/ SetSectionPut(t) \/ LoadInstall(t)
  \/ SaveNothing(t) \/ SaveBegin(t) \/ SaveCommit(t) \/ SaveHangs(t)
  \/ \E p \in Players : SyncPlayer(t, p)
  \/ Join(t, Timer, "joinTimer", "waitTimer", "joinPoller")
  \/ Joined(t, Timer, "waitTimer", "joinPoller")
  \/ Join(t, Poller, "joinPoller", "waitPoller", "disconnect")
  \/ Joined(t, Poller, "waitPoller", "disconnect")
  \/ Disconnect(t) \/ DisconnectCrashes(t)

Background == TimerWake \/ PollerInstall \/ PollerDone
Environment ==
  \/ DbDrop \/ RedisDrop \/ DbRefuses \/ RedisRefuses \/ ServersRecover
  \/ Crash \/ Restart \/ \E t \in Threads : Signal(t)

Next ==
  \/ \E t \in Clients : ClientCall(t)
  \/ \E t \in Threads : ThreadStep(t)
  \/ Background
  \/ Environment

Spec == Init /\ [][Next]_vars

-----------------------------------------------------------------------------
(* Properties. *)

Labels == {"idle", "none", "hung", "merged", "loaded", "save", "sync", "sleep", "install",
           "done", "joined", "joinTimer", "waitTimer", "joinPoller", "waitPoller", "disconnect"}

(* Every variable has its type; the mutex is locked at most twice, by its owner. *)
TypeOK ==
  /\ cacheData \in [Players -> MaybeData]
  /\ dirtyFlags \in [Players -> {"none", "clean", "dirty"}]
  /\ running \in BOOLEAN /\ dbOnlyMode \in BOOLEAN /\ handler \in BOOLEAN
  /\ owner \in Threads \cup {NoThread} /\ depth \in 0..2
  /\ pc \in [Threads -> Labels]
  /\ after \in [Threads -> {"return", "loop", "stop", "handler", "destroy"}]
  /\ arg \in [Threads -> [player : Players \cup {Absent}, data : MaybeData]]
  /\ todo \subseteq Players /\ failed \subseteq Players
  /\ redis \in [Players -> MaybeData] /\ redisUp \in BOOLEAN
  /\ rows \in [Players -> MaybeRow] /\ pending \in [Players -> MaybeRow]
  /\ redisRefuses \subseteq {"get", "set"} /\ dbRefuses \subseteq {"store", "select"}
  /\ dbUp \in BOOLEAN /\ inTxn \in BOOLEAN
  /\ proc \in {"up", "exited", "aborted", "crashed"} /\ build \in Builds
  /\ faults \in 0..MaxFaults
  /\ written \in [Players -> MaybeRow] /\ unsent \subseteq Players

(* The transaction of saveAllDirtyDataToDB lives inside the mutex: only the
   owner is in the save loop, an open transaction has an owner, and nothing is
   pending without a transaction.  It is what keeps the statements of two saves
   on the one connection apart. *)
TransactionInsideMutex ==
  /\ \A t \in Threads : pc[t] = "sync" => owner = t
  /\ inTxn => owner # NoThread /\ dbUp
  /\ ~inTxn => pending = NoRecords

(* The variables have their types, and the transaction is inside the mutex. *)
MutexIsSound == TypeOK /\ TransactionInsideMutex

(* Who owns the mutex: a thread in the save loop, a thread that blocks on its
   own lock, or one whose owner was interrupted and runs stop() in the handler. *)
StopLabels == {"save", "joinTimer", "waitTimer", "joinPoller", "waitPoller", "disconnect"}
InHandler(t) == after[t] \in {"handler", "destroy"}
MutexOwners ==
  /\ owner = NoThread <=> depth = 0
  /\ depth = 2 => "recurse" \in Relock /\ pc[owner] \in {"sync", "hung"} /\ InHandler(owner)
  /\ proc = "up" => \A t \in Threads :
       owner = t => pc[t] \in {"sync", "hung"} \/ (InHandler(t) /\ pc[t] \in StopLabels)

(* A record carried from one critical section to the next is a real one. *)
HeldRecords ==
  \A t \in Threads : pc[t] \in {"merged", "loaded"} =>
    arg[t] \in [player : Players, data : Data]

(* The record cached for a player is the one last passed to setPlayerData, or the
   row it was loaded from; a player who is not cached was not written since the
   process began.  A call that finds the player cached hands this record out; one
   that loads it hands out an empty record and returns true (line 202), whatever
   is cached: see SectionSetKeepsOthers.  (Builds without Redis whose program
   does not call loadPlayerDataFromDB itself.) *)
CacheHoldsLastWrite ==
  proc = "up" =>
    \A p \in Players : written[p] = IF Cached(p) THEN cacheData[p] ELSE rows[p]

(* Why it holds: nothing but the database feeds the cache, and what a save has
   sent so far is what the statements make of the cached records. *)
OnlyDatabase == (\A b \in Builds : "redis" \notin b) /\ "load" \notin Calls
CacheIsLatest ==
  /\ CacheHoldsLastWrite
  /\ \A p \in Players : pending[p] # Absent => Cached(p) /\ pending[p] = Stored[cacheData[p]]
  /\ ~redisUp
  /\ \A t \in Threads : pc[t] # "loaded"

(* The row a record was read from, or the one its statement makes. *)
RowsOf(d) == {d, Stored[d]}

(* What a clear flag is worth: the row of a cached record that is not flagged
   dirty, as the database connection shows it, is the one the record was read
   from or the one the statement of this very record stored - not that of an
   older record, so skipping it in a save loses no write.  It need not be the
   record: unescaped bytes are stored as what the SQL text makes of them, and the
   flag is cleared all the same; see CleanReadsBack.  After a lost connection the
   flags of the last transaction are wrong: see CleanIsDurable. *)
CleanIsStored ==
  proc = "up" /\ dbUp =>
    \A p \in Players : Cached(p) /\ dirtyFlags[p] # "dirty" => Row(p) \in RowsOf(cacheData[p])

FlagsAreKept == "clearDirty" \notin Calls /\ "initialize" \notin Calls

(* What a clear flag is taken for: the row is the cached record. *)
CleanReadsBack ==
  proc = "up" /\ dbUp =>
    \A p \in Players : Cached(p) /\ dirtyFlags[p] = "clean" => Row(p) = cacheData[p]

(* What the design document promises (a flag is cleared after the write to the
   database, a lost connection delays the write): a clean record outside a save
   is committed, whatever happened to the connection. *)
CleanIsDurable ==
  proc = "up" /\ owner = NoThread =>
    \A p \in Players : Cached(p) /\ dirtyFlags[p] = "clean" => rows[p] \in RowsOf(cacheData[p])

(* When saveAllDirtyDataToDB ends on a live connection, the committed row of every
   cached player is that of the record cached now, all in one snapshot, but for
   those it counts as failed: a record whose statement fails keeps no other from
   the commit, and no older record of a player is what the commit leaves. *)
ReturnsWithSnapshot(t) ==
  proc = "up" /\ pc[t] = "sync" /\ pc'[t] \notin {"sync", "save", "hung"} /\ proc' = "up" /\ dbUp' =>
    \A p \in Players : Cached(p) /\ p \notin failed => rows'[p] \in RowsOf(cacheData[p])
SaveIsASnapshot == [][\A t \in Threads : ReturnsWithSnapshot(t)]_vars

(* Why it holds: the loop still visits every dirty record that has not failed. *)
LoopCoversDirty ==
  proc = "up" /\ dbUp =>
    \A t \in Threads, p \in Players :
      pc[t] = "sync" /\ dirtyFlags[p] = "dirty" /\ Cached(p) => p \in todo \cup failed

(* Redis holds the record of every cached player, or the value the record was
   read from, unless the player's last SET failed: refused by the server, without
   a connection, or left out in DB-only mode.  Writers, loads of other threads and
   new connections make no other player's copy old. *)
RedisMirrorsCache ==
  proc = "up" =>
    \A p \in Players : Cached(p) /\ p \notin unsent =>
      redis[p] # Absent /\ cacheData[p] \in {redis[p], Cut[redis[p]]}

(* The same without that exception, while Redis is connected and in use. *)
RedisIsCurrent ==
  proc = "up" /\ UseRedis =>
    \A p \in Players : Cached(p) =>
      redis[p] # Absent /\ cacheData[p] \in {redis[p], Cut[redis[p]]}

(* setPlayerBaseInfo and setPlayerInventory change one section: the comment
   "create new player data if it does not exist" covers only players of whom
   nothing is stored. *)
SectionSetKeepsOthers ==
  [][\A t \in Threads :
       proc = "up" /\ pc[t] = "merged" /\ pc'[t] = "idle" =>
         LET p == arg[t].player IN
         written[p] \in Data =>
           Cardinality({s \in Sections : written'[p][s] # written[p][s]}) <= 1]_vars

(* saveAllDirtyDataToDB returns: no thread waits for a mutex it owns itself. *)
NoSelfDeadlock == \A t \in Threads : pc[t] # "hung"

(* The program ends with every acknowledged record in the database. *)
ExitLosesNothing == proc = "exited" => rows = written

(* The cache implements the store of PlayerStore: the history of acknowledged
   writes is the current record, the committed rows are the durable ones, and the
   unescaped SQL text is the encoding. *)
Store == INSTANCE PlayerStore
           WITH Records <- Data, Values <- MaybeRow, Encoded <- Stored, Refused <- Broken,
                current <- written, durable <- rows
ImplementsStore == Store!Spec

(* The periodic save.  A thread that can go on does; a lock that is free again
   and again is granted in the end. *)
Fairness ==
  /\ WF_vars(TimerWake) /\ WF_vars(PollerInstall) /\ WF_vars(PollerDone)
  /\ \A t \in Threads : SF_vars(SaveBegin(t)) /\ WF_vars(ThreadStep(t))

FairSpec == Spec /\ Fairness

Unsaved(p) == /\ Cached(p) /\ dirtyFlags[p] = "dirty"
              /\ Stored[cacheData[p]] \notin {Broken, rows[p]}

(* Write-behind works: while the manager runs, the timer brings the record of
   every dirty player to the database, as its statement stores it, unless the
   connection is lost or the record becomes one whose statement fails; a record
   that cannot be stored delays no other. *)
DirtyGetsStored ==
  \A p \in Players : (running /\ Unsaved(p)) ~> (~Unsaved(p) \/ ~running \/ ~dbUp)

(* stop() returns: its save gets the mutex, and both threads see running_ and
   end, unless another client's start() sets it again meanwhile. *)
StopReturns ==
  \A t \in Clients :
    (pc[t] = "save" /\ after[t] = "stop") ~> (pc[t] = "idle" \/ running \/ proc # "up")

(* The shutdown flow of the design document ends with the program's exit. *)
SignalEndsProcess ==
  \A t \in Threads : (after[t] = "handler") ~> (proc # "up")

=============================================================================
