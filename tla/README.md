# TLA+ model of the MMO server

This directory holds a verification development of the server code of the
repository: TLA+ modules that model its components, TLC configurations that
check them on small instances, and proofs, checked by TLAPS, that hold for every
value of the constants. Paths below are relative to the repository root;
`server/` is the implemented part, `client/` holds design documents only.

    tlc -workers 2 -config MCCacheSafe.cfg MCCacheManager.tla
    tlapm CacheManagerProofs.tla

Contents: [1 the system](#1-the-system), [2 plan](#2-plan),
[3 modules and code](#3-modules-and-code), [4 runs](#4-runs),
[5 bounds and fairness](#5-bounds-and-fairness), [6 proofs](#6-proofs),
[7 counterexamples and findings](#7-counterexamples-and-findings),
[8 what is not modelled](#8-what-is-not-modelled).

## 1 The system

Six libraries under `server/`, each built by its own CMake file. They share no
state with each other: the game server uses the network server, the register
service uses the Redis client of the cache, the rest are used by examples. What
follows is, per component, its state, its operations, what makes it hard, and
what makes it correct.

### Player cache: `redis_cache/src/redis/cache_manager.cpp`
* State: `cache_data_` (player → record), `dirty_flags_` (none, clean, dirty),
  `running_`, `db_only_mode_`, one `std::mutex`, a timer thread, a signal thread,
  a Redis connection, one MySQL connection that every thread uses.
* Operations: `initialize`, `start`, `stop`, destructor, `getPlayerData`,
  `setPlayerData`, the per-section setters, `loadPlayerDataFromDB`,
  `savePlayerDataToDB`, `saveAllDirtyDataToDB`, flag setters, signal handler.
* Hard: critical sections that call methods that lock again; `stop()` inside a
  signal handler; a transaction of several statements, each of which can fail;
  a crash between Redis and MySQL; values read before a lock and used after it.
* Correct when: the cache holds the last write; a clean flag never hides an older record;
  a save is one snapshot; dirty records are stored in the end; `stop()` returns.

### Redis and MySQL clients: `redis_cache/src/redis/{redis,database}_client.cpp`
* State: a connection that may be lost; for MySQL, an open transaction.
* They are modelled as the cache and the register service use them: SET/GET/
  SETEX/DEL, and START TRANSACTION, INSERT/UPDATE, SELECT, COMMIT. A command fails on a
  lost connection, and a server may answer it with an error on a live one.
* Hard: the SQL text holds a record's bytes unescaped, so a statement may fail, or succeed
  and store other bytes; both clients read values as C strings, which end at a NUL.

### Network server: `network/src/network/{server,message,connection}.cpp`
* State: the listener, a map from `uv_tcp_t*` to `Connection`, per connection the
  time of its last heartbeat.
* Operations: `start`, `stop`, `send`, `close`, destructor, and the callbacks of
  libuv: new connection, read, write, close.
* Hard: life of handles (freed only by their close callback, addresses that are
  used again), calls of the application from inside its callbacks, reads that cut
  the stream anywhere, `stop()` while connections close, write buffers.
* Correct when: the map holds exactly the live handles, callbacks run on live
  handles, messages arrive once and in order, gone peers are freed, `stop()` ends
  the loop.

### Thread pool: `network/src/network/thread_pool.cpp`
* State: the queue, `stop_`, a mutex, a condition variable, the worker threads.
* Operations: `submit`, `stop`, the destructor, `worker`.
* Hard: lost wake-ups, stop while tasks are queued, tasks that call `submit` and
  `stop`, two callers of `stop`, tasks that throw.
* Correct when: it behaves as a FIFO queue, nobody sleeps on work, stop drains and
  waits, every accepted task runs.

### Game server: `game/src/game/{game_server,user_manager}.cpp`
* State: users (id → name, password, token), `next_user_id_`; per connection the
  requests on their way and the answers.
* Operations: register, login, heartbeat; the user manager may be called by other
  threads too.
* Hard: messages carry no type, so which handler runs depends on what parses;
  an answer that is missing shifts the later ones; tokens of earlier logins.
* Correct when: names and announced ids are unique, no request is answered twice,
  the last login decides which token is valid.

### Register service: `register_service/src/register/*.cpp`
* State: in Redis, a code per contact and type and a count per contact, both with
  an expiry; in each instance, the request it works on.
* Operations: `sendVerificationCode`, `registerAccount`, `activateAccount`.
* Hard: each operation is several Redis commands; several instances share one
  Redis (the design document requires it); any command may fail, be carried out
  unheard, or be the last before a crash; time passes in between.
* Correct when: a code makes one account, a contact is sent a bounded number of
  codes a day, a contact can use the code it was promised, user ids differ.

### Characters: `character_system/src/character/*.cpp`
* State per character: health, stamina, mana, combat state, cast and cooldown
  timers, position, goal, path, AI state, respawn timer.
* Operations: `attack`, `castSkill`, `takeDamage`, `heal`, movement commands, path
  commands, `respawn`, `setAIState`, `CharacterManager::update`.
* Hard: it is one thread, but callbacks (death of the victim, attack) run in the
  middle of `attack` and may call anything, the attacker's methods included;
  timers that only one place counts down; an order of components given by a hash.
* Correct when: no health means dead, states end with what they stand for, costs
  are paid, the dead come back, movement comes to rest.

### Character manager: `character_system/src/character/character_manager.cpp`
* State: the map that owns the characters, the list of all of them, the lists of
  players and NPCs, two callbacks, one `std::mutex`.
* Operations: create, remove and look up by id or by range, `update`, `shutdown`,
  `removeAllCharacters`.
* Hard: four containers that must agree; callbacks inside the mutex, which may call
  the manager; pointers that leave the mutex; addresses that are used again; a type
  given by the caller that decides a `static_cast` later.
* Correct when: the containers agree, callbacks tell the program exactly what
  exists, no method works on a freed character.

### Network sync: `character_system/src/character/network_sync_component.cpp`
* State: three marks and `is_dirty_` (shadowed in `component.h`), a timer, a history of
  predictions; it reads and writes the state of the owner.
* Operations: the three marks, `setDirty`, `initialize`, `update`, `performSync`,
  `applySyncData`, `handleRPC`.
* Hard: data that arrives late, twice or from somebody else; a clock that may be set;
  state written past the methods that keep it well formed.
* Correct when: no mark is lost, each is gathered in the end, my own data that comes back does not
  move me, nobody lives without health.

### Chat service: `chat_service/src/chat/*.cpp`
* `ContentFilter`: a set of words, `filterContent` and `isSensitive`. Hard: words that
  overlap each other or themselves, in the order of a hash set. Correct when: what
  it returns has nothing sensitive left and nothing else masked.
* Channels: members and, for a `NearbyChannel`, positions, under two mutexes. Correct
  when: positions are those of members, a private channel is one of two users.
* `ChatServer` is a skeleton: nothing adds a client to `clients_`, so
  `handleMessage` returns at `chat_server.cpp:66-69` for every message.

### The rest
`network/thread_pool.cpp`, `multi_thread_server.cpp`, `connection_pool.cpp`,
`memory_pool.cpp` and `object_pool.h` are in no CMake target. The first is used by the second
and documented in `network/README.md`; the pools have no caller. `protobuf_*.cpp` wrap
two calls of generated code. `server/test` and the examples are drivers.

## 2 Plan

Order: the components whose failure loses data or blocks a process come first.

| step | modules | content | state |
|---|---|---|---|
| 1 | `PlayerStore`, `CacheManager` | write-back cache; refines a store of current and durable records | done, proved |
| 2 | `WorkQueue`, `ThreadPool` | pool; refines a FIFO queue | done, proved |
| 3 | `Mailbox`, `Server` | libuv callbacks, framing, life of handles; refines a lossy mailbox | done, proved |
| 4 | `Registration` | instances over one Redis | done, proved |
| 5 | `UserManager`, `GameServer` | users; `GameServer` composes them with the connections | done, proved |
| 6 | `Character`, `Characters` | methods of one character; their interleaving by callbacks | done, proved |
| 7 | `NetworkSync` | marks, sync timer, prediction, data from elsewhere; extends `Character` | done, proved |
| 8 | `CharacterManager` | create, remove and lookup under one mutex, with callbacks inside it | done, proved |
| 9 | `Chat` | the content filter against a reference definition; the channels | done, proved |
| 10 | `Player` | experience, levels, gold and diamonds at the width of their integers | left |
| 11 | `MultiThreadServer` | composition of `Server` and `ThreadPool`, if the build takes the files in | later |

Every invariant and every action property of the runs is proved (section 6). Still
worth stating and proving: an account ledger that `Registration` implements, variants
like that of `filterContent` for a walk and for `stop()` of the pool, and the
theorems of `Player`.

## 3 Modules and code

Conventions. A module is named for a component, an action for the function it
stands for. `PROJECT.json` ("map") gives the source lines of every definition. A
variable that no code has is marked as history in its declaration. A definition
headed "Seeded fault" is a mutation that a property must detect; no specification
uses it. Each component has an `MC…` module when TLC needs something that a `.cfg`
cannot say (symmetry, sequences), and a `…Proofs` module.

**`CacheManager`** (`PlayerStore`, `MCCacheManager`, `CacheManagerProofs`). A step
is a critical section of `cache_mutex_`, or the part of one between two statements
sent to MySQL. `owner`/`depth` are the mutex; `pc[t]` says where a thread is:
`save` waits for the mutex in `saveAllDirtyDataToDB`, `sync` is its loop (the mutex
is held, `todo` are the players still to visit), `hung` has locked its own mutex
for ever, `merged`/`loaded` hold a record between two critical sections,
`joinTimer … disconnect` are the steps of `stop()`. `after[t]` is what the save
returns to: the caller, the timer loop, `stop()` in a client, in the signal handler
or in the destructor. `rows` are committed rows, `pending` the writes of the open
transaction. `build` chooses the `#ifdef` variants. `Relock` says what a `std::mutex`
does when its owner locks it (undefined in C++): block, or succeed.
The bytes of a record are left out but for what the stores make of them: `Stored[d]` is the record
a later SELECT gives after the statement of `d` succeeded (`d` itself, another record, or
`Unreadable`), or `Broken` when the statement is refused; `Cut[d]` is what GET gives of it. They
are constants: the proofs hold for every such pair, the runs take those of `MCCacheManager`.
`redisRefuses` and `dbRefuses` are the commands that a server answers with an error on a live
connection; `failed` are the records that the running save could not store. `initialize()` may be called at any
time, and, like `stop()`, frees the clients without the mutex (`FreeUnderSave`: under another
thread's save the process may die of it). `written` (the record a program last passed to
`setPlayerData`) and `unsent` (the players whose last SET failed) are history.

**`ThreadPool`** (`WorkQueue`, `ThreadPoolProofs`). `worker[w]` is `check` before the
critical section of the loop, `wait` in the condition variable, `run` in the task,
`exited`. `caller[x]` is a thread's place in `stop()`: `notify`, `test` (joinable?),
`join`. `Free(x)` is a thread that runs code of its own, which may be a task.

**`Server`** (`Mailbox`, `MCServer`, `ServerProofs`). One action per libuv callback; `Turn` is
the loop between two callbacks. A callback of the application is open while
`cb` names its connection, and makes at most `MaxCalls` calls of `send`, `close`,
`stop`. `handle[c]` is the life of a `uv_tcp_t` at an address, `map` the keys of
`connections_`. A frame on the wire is a head and a tail; a read returns any run of units, so a frame
comes in one piece or in two; `Decode` says what
`Message::decode` makes of the units of one read. `peer[c]` is `there`, `gone` (end of its stream)
or `reset`: then a write fails, which only `onWrite` learns, and what the sockets held may be lost.
`received` is what the socket took. `Opened` and `Coming` map it to
`Mailbox`: the connections whose handle is open, and the frames whose tail is still on the wire.
Where reads split frames (`Splits`), a read of the mailbox may hand over something that was never
sent (`Garbage`), a heartbeat or nothing in place of the frame that it takes.

**`Registration`** (`MCRegistration`, `RegistrationProofs`). A step is the code
between two Redis commands. `Outcomes` are what a command can do: be done, answer
an error, lose the connection before or after it is carried out. `codes` and
`counts` are the keys of Redis, `Tick` drops the expired. Time is counted in
lifetimes of a code. `saved`, `accounts`, `issued`, `sentAt`, `promised` and
`handlers` are history.

**`UserManager`**, **`GameServer`** (`MCGameServer`, `GameServerProofs`). Every
operation of the user manager runs under its mutex and is a step. `GameServer`
adds the connections: `OnMessage` takes the head of an `inbox` and runs the handler
of the first type that the message parses as: protobuf fields of an unexpected
number or wire type are passed over, so only texts that are not UTF-8 make a
message fail to parse. `InProcess` are other callers of the user manager. `given`, a history, is what the last login of a
user returned; a user who never logged in has no entry.

**`Character`**, **`Characters`** (`MCCharacters`, `CharactersProofs`). `Character`
has a record per character and one operator per method of it. `Characters` has
the calls: `Attack` and `Cast` run up to the first callback and push a frame on
`stack`; any method may be called while frames wait; `AfterDeath` and `AfterAttack`
are the rest of the method. `setAIState` may set any state of `Moods` at any time. `Update` is `CharacterManager::update`: components in
either order (`CombatFirst`, the order of an `unordered_map`), then the AI. Places
are integers on a line. Time is counted in updates. `MCFightAndWalk` has two
instances of it, a fight and an NPC on its way, and its first state chooses one.

**`CharacterManager`** (`ManagerAndSyncProofs`). A step is a method up to its callback,
a callback, or a round of a loop. `object` is what is at an address, `at[t]` the
character a method works on, `todo[t]` what its loop has still to visit, `kept[t]` the
pointers that a thread got and has not given up; `known` counts callbacks (history).
`Nested` is a callback that calls the manager: the thread waits for its own mutex.
`removeAllCharacters` by itself takes no lock and belongs to `UnlockedSpec` only.

**`NetworkSync`** (`ManagerAndSyncProofs`). `me` is the owner, a record of `Character`;
`SyncUpdate` is `Character::update` with this component at any place of the hash order
(`SyncAt`). Priority, prediction and rollback can be switched at any time: they are
chosen anew wherever they are read, as is the clock. `Applied` is `applySyncData`. `owed`
(marked and not gathered since), `latest` (the last data sent) and `forged` (data that said that I am
dead) are history.

**`Chat`** (`MCChat`, `ChatProofs`). `Replace` is one `find` and `replace` of `filterContent`, `NextWord` any
order of the hash set; `Loaded` are the words of the constructor. `RemoveMember` and `ErasePosition` are
the two critical sections of `NearbyChannel::removeMember`, and `leaving[u]` counts the calls about
a user that are between them; any other call may come there. `late` (history) are the users whose
position was reported when they were neither members nor leaving.

`MCNetworkLive`, `MCFightAndWalk`, `MCManagerAndSync` and `MCChat` check two
components that share nothing in one run: a variable (`part`, `scene`) is chosen
in the first state and only that component moves.

## 4 Runs

| run | configuration | question |
|---|---|---|
| cache_safe | `MCCacheSafe` | database build; a client, the timer, a signal thread; signals, crashes, lost connections, refused statements, records that break the SQL or that it stores as other bytes: transactions stay inside the mutex (`MutexIsSound`), a clean flag hides no older record, the cache holds the last write, a save is a snapshot, the cache refines `PlayerStore` |
| cache_redis | `MCCacheRedis` | builds with Redis, and programs that load rows or connect again at any time, refused SETs, values that GET cuts short: Redis in use holds the record of every cached player, but for those whose own last SET failed |
| cache_live | `MCCacheLive` | every dirty record is stored in the end, among records whose statement fails and players who are flagged without a record; `stop()` returns |
| cache_self_deadlock | `MCCacheSelfDeadlock` | expected to fail: a save with one dirty record blocks on its own mutex |
| network_live | `MCNetworkLive` | pool: lost wake-ups, draining and joining (`StopIsClean`), refinement of `WorkQueue`, every task runs, `stop()` returns; server: gone peers are freed, `stop()` ends the loop |
| server_safe | `MCServerSafe` | reads that cut frames in two, resets, full socket buffers: exact map and live handles (`HandlesAreSound`), bodies once and in order, writes in order, a lossy mailbox (`ImplementsMailbox`) |
| registration | `MCRegistration` | accounts per code, codes per day, the promised code is good |
| game | `MCGame` | unique names and announced ids (`NamesAreSound`), no request answered twice, the last login decides which token is accepted |
| game_kinds | `MCGameKinds` | expected to fail: a login (all strings UTF-8) is answered as a registration |
| characters | `MCFightAndWalk` | fight: no life without health (`LifeIsSound`), attacks end and debts are bounded (`AttacksSettle`), the respawn is not delayed, casts end; walk: a dead NPC comes back, movement comes to rest |
| managed | `MCManagerAndSync` | manager: the containers agree, callbacks are exact, nobody works on a freed character; sync: marks are kept and gathered, my own data does not move me |
| chat | `MCChat` | the filter agrees with its reference and returns, unless the empty word is declared; no position stays behind when a member leaves |

What the properties mean where it is not obvious:

* `CacheHoldsLastWrite` is about builds without Redis whose program does not call
  `loadPlayerDataFromDB` itself (`OnlyDatabase`). A call of it installs a row that it
  read before it took the lock, over a newer record; with that call enabled the
  property fails. It is about what is cached, not what every reader gets: a `getPlayerData` that loads the
  record from the database returns true and leaves its out-parameter empty
  (`cache_manager.cpp:202`). `SectionSetKeepsOthers` (section 7) is about that.
* `CleanIsStored` says that a clean flag hides no write: the row is the one that the record was read from, or
  the one that the statement of this very record stored (`RowsOf`). That this row *is* the
  record, `CleanReadsBack`, fails, because the SQL text is not escaped. The property compares with what
  the *connection* shows, the open transaction included. That the rows are durable is another property,
  `CleanIsDurable`, which fails too (section 7). `SaveIsASnapshot` and `PlayerStore` are about the same rows.
* `RedisMirrorsCache` leaves out the players whose own last SET failed (`unsent`), on a lost connection or
  answered with an error, since `setPlayerData` only logs it. Without this exception, `RedisIsCurrent`, it fails.
* `MutexIsSound`, `StopIsClean`, `HandlesAreSound`, `NamesAreSound`, `LifeIsSound` and
  `OneAccountPerCode` are conjunctions of the type invariant of their module with the named
  parts defined before them.
* `AccountsPerCode`, the heart of `OneAccountPerCode`, is what two-step verification does promise: one account per
  stored code, per instance and per failure. That a code makes one account,
  `CodeUsedOnce`, fails.
* `DailyLimit` and `PromisedCodeIsGood` are about contacts whose requests reach one
  instance (`Sticky`). With two instances increments are lost and an old
  deletion can remove a new code.
* `NamesAreSound`: `registerUser` is one step because its `lock_guard` spans the method; the property is about
  what that critical section does, not about whether there is one.
* `OneAnswerEach` bounds answers from above. That a request stays unanswered, and that later answers
  are then taken for it, it does not see: it happens (`OnMessage` has no handler for what does not parse).
* `LastLoginCounts`: of a user who never logged in `validateToken` accepts the empty text, which is the token
  `registerUser` leaves in his record. The property says so, and that it accepts no other.
* `HandlesAreSound` says nothing about a process that libuv's assertion has ended: that it does not come to that is
  `NoAbort`, which fails (section 7).
* `DeliveredOnce` is checked with reads that cut frames. It says that what is
  delivered was sent, in order, none twice, and that anything else that is delivered is `Garbage`; it
  does not say that all of it arrives. `ImplementsMailbox` adds what becomes
  of each frame: of those that one read returns the first counts, a heartbeat is answered
  each time, and `send` accepts nothing for a connection that is not open.
* `WritesKeepOrder`: what `send` accepted on a connection that was reset may be lost, but what was taken
  before is a first part of it, in order.
* `LifeIsSound` is about the methods of `Characters`. Data from the network writes past them: see `SyncIsSound`.
* `DebtIsNested`, a part of `AttacksSettle`: `attack` subtracts stamina after its first callback, so a nested
  attack can start before the outer one has paid. With `MaxDepth` levels it
  owes fewer than `MaxDepth` blows.
* `CastEnds` and `WalksEnd` are about the game loop: if it keeps running, a cast ends,
  and a character that gets no new goal comes to rest. Nobody moves in the fight: that moves in
  callbacks leave attacks and life sound is shown by the theorems, which hold for any `Places`.
* `NpcsComeBack` holds although the NPC may be hit at any time while it waits.
* `ContainersAgree` is about programs that pass the types MONSTER and PET to
  `createCharacter` (`BareTypes`), as `PLAYER` and `NPC` have methods of their own.
* `CallbacksTrack` speaks of the moments when the mutex is free; a callback that calls the manager hangs
  inside it, which is `NobodyHangs` and fails (section 7).
* `EchoIsHarmless` is about the latest data I sent, whenever it comes back; older data does move me back.
* `HeldObjectsLive` promises a kept pointer only where no other thread may remove its id.
* `SyncIsSound` and `MarkedIsSent` are about callbacks that mark nothing
  (`CallbackMarks`) and about `initialize()` before the first mark (`LateInitialize`); the
  life that `SyncIsSound` promises ends with data that says that I am dead (`forged`).
* `MarkedIsSent` promises nothing to the dead: `Character::update` returns for them.
* `FilterIsSound` holds although the words are visited in any order and a star may be in the
  text: words have letters only, so a star that one word leaves cannot begin another,
  and what one word masks was an occurrence of it in the text that was given.
* `FilterReturns` has two parts: a call returns if the empty word is not declared, and if it is, the
  call never returns, because `find` finds it where it stands for ever.
* `ChannelsAreSound` is about any order of calls: a position is kept of a member, of a user whom a call of
  `removeMember` is about to forget, or of one for whom it was reported when he was neither. The code asks
  nobody about the last, so his position stays until he is removed.

Every property of a passing run has a seeded fault that breaks it (`PROJECT.json`,
"mutants"), which is how the bounds were tried: the fault is found under the same
configuration.

## 5 Bounds and fairness

Bounds are constants, named in each configuration.

* `CacheManager`: two players and one client, which with the timer, the poller and a
  signal on any thread are three that compete for the mutex; records that never set anything, that
  break the SQL (`quote`) and that it stores as something unreadable (`garbling`). Two players are needed for a save that fails for one of them. In
  `MCCacheRedis` it is one player and two clients that get, set and load it at
  once, with values that GET gives whole (`plain`), cut to another record (`nul`) or cut to none (`torn`); `MCCacheLateWrite` has a client that writes while another stops. `MaxFaults` bounds crashes,
  lost connections, refusals and signals: two in `MCCacheSafe`, so that a fault hits the recovery of another,
  one in `MCCacheRedis`, none in `MCCacheLive`. The destructor's `stop()` is in the runs as the end of
  a signal's `exit(0)`.
* `ThreadPool`: two workers, two clients, three tasks, one of them throws, and worker
  1 may call `stop()` from a task. Lost wake-ups need a sleeping and a busy worker
  and one more task than workers.
* `Server`: one address that is reused any number of times, two bodies, two frames
  per connection, two calls per callback (close, then send), three accepted writes (`MaxSends`: one taken, one
  queued, one behind it), with `stop` and the destructor at any time. In `MCNetworkLive` it has two
  addresses, so that `stop()` meets connections in different states, one frame each, and peers that
  only leave.
* `Registration`: two instances, one phone, codes of two types, a limit of two
  sends a day, a day of two code lifetimes, a clock of three, four requests, one fault.
  The smallest lost increment, the smallest late deletion, and the smallest sliding
  window fit.
* `GameServer`: two connections, two requests, two users, three strings (empty, UTF-8,
  not UTF-8), two token stamps; in `MCGameKinds` UTF-8 strings only.
* `Characters`: the fight has one player and one NPC, two levels of callbacks, blows of
  one and two with two points of health, one skill; the walk one NPC, a line of a few places
  and paths of two nodes. Distances on the walk are multiples of the step: that
  is the assumption under which `WalksEnd` holds (`MCWalkOvershoot` drops it).
* `CharacterManager`: two threads, two ids, two addresses. Both threads remove the first id; only one
  removes the second or shuts down, so that there are pointers of both sorts.
  Two addresses are enough for one to be used again under another id.
* `NetworkSync`: an interval of two updates, a history of one entry, a clock of two readings, one
  point of health, data from me and from another that says that I am dead.
* `Chat`: every text of up to four over two letters and the star; the empty word and three words, of which one overlaps
  itself, and one begins with another and ends with the third; three users, two calls of `removeMember` for one of them
  at once (`MaxLeaving`).

Deadlock checking is off where the system may stop: a process that has exited,
crashed or hangs, a drained pool, a server that has ended, the bounds of requests
reached, nobody left to do anything.

Fairness, and why the code justifies it:

* Cache: weak fairness of each thread's own steps (the OS schedules threads, timed
  sleeps end) and strong fairness of `SaveBegin`, the lock acquisition of a save: a
  mutex that is free again and again is granted in the end. Clients' calls are not fair.
* Pool: weak fairness per worker and per caller of `stop()`; a task returns or throws.
  Submitting and stopping are not fair.
* Server: strong fairness per connection and of the listener's close: each
  iteration of `uv_run` polls every handle and runs every pending close callback;
  weak fairness of the return of a callback. Peers, the clock and the application are
  not fair.
* Characters: callbacks return (weak), and the game loop comes back to `Update`
  (strong, because a command may run between any two updates).
* Network sync: weak fairness of `SyncUpdate`, the same game loop; marking, data and blows are not fair.
* Filter: weak fairness of the thread that runs `filterContent`.
* `Registration`, `GameServer`, `CharacterManager` and the channels are checked for safety only.

## 6 Proofs

All theorems are proved for any values of the constants that satisfy the `ASSUME`s
of their modules. These demand no more than that sets of different things
are disjoint, bounds are naturals, and `Servers` is finite.

| module | theorem | property |
|---|---|---|
| `CacheManagerProofs` | `MutexIsSoundHolds` | `MutexIsSound` |
| | `CacheHoldsLastWriteHolds`, `CacheImplementsStore` (under `OnlyDatabase`) | `CacheHoldsLastWrite`, `ImplementsStore` |
| | `CleanIsStoredHolds`, `SaveIsASnapshotHolds` (under `OnlyDatabase` and `FlagsAreKept`) | `CleanIsStored`, `SaveIsASnapshot` |
| | `RedisMirrorsCacheHolds` | `RedisMirrorsCache` |
| `ThreadPoolProofs` | `NobodySleepsOnWorkHolds`, `StopIsCleanHolds`, `PoolImplementsQueue` | `NobodySleepsOnWork`, `StopIsClean`, `ImplementsQueue` |
| `ServerProofs` | `HandlesAreSoundHolds`, `WritesKeepOrderHolds` | `HandlesAreSound`, `WritesKeepOrder` |
| | `DeliveredOnceHolds`, `ServerImplementsMailbox` | `DeliveredOnce`, `ImplementsMailbox` |
| `RegistrationProofs` | `OneAccountPerCodeHolds`, `PromisedCodeIsGoodHolds`, `DailyLimitHolds` | `OneAccountPerCode`, `PromisedCodeIsGood`, `DailyLimit` |
| `GameServerProofs` | `NamesAreSoundHolds`, `OneAnswerEachHolds`, `LastLoginCountsHolds` | `NamesAreSound`, `OneAnswerEach`, `LastLoginCounts` |
| `CharactersProofs` | `LifeIsSoundHolds`, `AttacksSettleHolds`, `WaitOnlyShortensHolds` | `LifeIsSound`, `AttacksSettle`, `WaitOnlyShortens` |
| `ManagerAndSyncProofs` | `ContainersAgreeHolds`, `CallbacksTrackHolds`, `HeldObjectsLiveHolds` (under `ProperTypes`) | the manager's properties of run `managed` |
| | `SyncIsSoundHolds`, `EchoIsHarmlessHolds` (under `QuietCallback`) | `SyncIsSound`, `EchoIsHarmless` |
| `ChatProofs` | `FilterIsSoundHolds` | `FilterIsSound` |
| | `FilterProgresses` | a variant behind `FilterReturns`, for every word but the empty one |
| | `ChannelsAreSoundHolds` | `ChannelsAreSound` |

The arguments:

* Cache. The base invariant is `TypeOK ∧ MutexOwners ∧ TransactionInsideMutex ∧
  HeldRecords`: who may own the mutex (a thread in the loop, one that blocked
  itself, or an interrupted owner that runs `stop()` in the handler), that a
  transaction has an owner, and that a record carried between two critical
  sections is a real one. `CacheIsLatest` (the cached record is the last written, and
  what a save has sent is what its statement stores) gives `CacheHoldsLastWrite` and the
  refinement, whose mapping takes `written` to `current` and `rows` to `durable`; `PlayerStore` saves the encoding
  of the current record, as `Stored` has it.
  `LoopCoversDirty` (the loop still visits every dirty record that has not failed)
  gives `SaveIsASnapshot`. `OnlyDatabase` excludes Redis and the direct load call,
  `FlagsAreKept` excludes calls of `clearDirty` and `initialize`, for which
  the properties are false. `RedisMirrorsCache` is inductive with the base invariant: a
  record enters the cache from Redis or in the critical section that sends it there, and
  a SET that fails enters the player in `unsent`, from which only a SET that succeeds takes him.
* Pool. `NobodySleepsOnWork` is inductive with the types: a queued task has a woken
  worker, and after `stop_` is set some caller has still to notify. `DueInv` places
  every due task in the queue, a worker or the finished set, and lets a worker leave
  only when none is queued. `OnePlace` says that a task is in one place; with it, each
  step maps to a step of `WorkQueue` or to a stutter.
* Server. `LifeInv` is the map and the callback property together: either needs the
  other across `OnClose` and the application's `close`. For `WritesKeepOrder`,
  `Placed` splits what was accepted into what is received and what is queued: a write at once
  comes last because nothing is queued before it; of a connection that was reset only the first half
  is claimed. `MailInv` says that the wire holds the last `k` frames that were sent, each with its two
  units, but that of the first the tail alone may be left, and that what was delivered, without
  `Garbage`, are frames among those of which no unit is left there, in their order. So a read that begins with a head
  and holds a whole frame decodes to the first frame on the wire, and one that begins with a tail, or is a
  head alone, delivers nothing or `Garbage`. It gives `DeliveredOnce`, and with `LifeInv`
  (a handle that is open is in the map, so the answer to a heartbeat is accepted) each step
  maps to a step of `Mailbox` or to a stutter: a read that takes a head alone is a stutter.
* Registration. The invariant is a budget: accounts of a contact plus the demand for
  accounts that can still come do not exceed `N * (codes stored + failures)`. The
  demand is `N`, the number of instances, while a code is usable, and the number of
  instances that have verified it after it is gone. A deletion that is not carried out
  costs a failure. `PromisedCodeIsGood` needs that a draft that waits for its SETEX is
  known to nobody yet, and that only the one instance of a contact is at work for it
  (`Touched`: an instance at work is noted among those that served the contact). `LimitInv`
  says by how much the count in Redis lags: the sends of a day are at most the count
  and `MaxSends` for each failure; a send that is reported but not counted, or a count
  read as zero, costs a failure, and a count outlives the sends that it counts.
* Game. `IdsAreBelow` (every id is smaller than the next one) makes a new id new;
  `RegisteredOnce` follows step by step; `OneAnswerEach` counts lengths;
  `TokensAreGiven` (a user's token is what his last login returned, or empty if there was none) makes `LastLoginCounts`
  a property of each call of `validateToken`.
* Characters. `Serves(r, q)` relates a character before and after a method: it is
  well formed and dead without health, it has not begun to attack, and a dead NPC
  does not wait longer; `Keeps` adds that it pays no stamina. There is a lemma per method
  and one per action; `IInv` adds that every character in the state ATTACKING has a
  frame on the stack. For `AttacksSettle`, `DebtInv` counts frames: the stamina of a
  character plus `MaxDepth` exceeds the number of its attacks on the stack that wait for the
  death callback, and have not paid. A blow needs stamina and room on the stack; paying takes one
  point and one such frame away.
* Manager. `ContainersAgree` is inductive with `Locked` (a thread is inside a method exactly
  when it owns the mutex), `Working` (what methods and loops have in hand exists), `Known`
  (the characters that are not known any more are those a method has taken back and not yet freed) and `Kept`.
  `ProperTypes` excludes `createCharacter` with the type PLAYER or NPC, for
  which the claim about casts is false.
* Network sync. `Carries` says of each method that it makes no living character
  lifeless; only `applySyncData` can, and then it sets `forged`. `Echoed`
  says that the newest entry of the history is the data sent last: `rollback` finds it and
  returns before anything is written. `QuietCallback` excludes callbacks that mark
  and a late `initialize()`, which lose marks.

* Chat. `FilterInv` says that what is masked was an occurrence in the content given
  (`Faithful`), that `filtered` is already the answer (`Told`), and that no word that the loop
  has been at occurs any more (`Cleared`). The step is `MaskHides`: as words have no star, a mask
  makes no word occur that did not, and an occurrence in what is left is one in what was given
  (`OccursInGiven`). `Progress` is the variant of the loops, lexicographic: the words left, the word it
  is at, the place where the search goes on; it is claimed for a word that is not empty. For `ChannelsAreSound` a call of `removeMember` counts in `leaving`
  before the position of its user may be left behind.

Model-checked only: the liveness properties (`DirtyGetsStored`, the two `StopReturns`,
`EveryTaskRuns`, `GoneIsFreed`, `StopEndsLoop`, `CastEnds`, `NpcsComeBack`,
`WalksEnd`, `MarkedIsSent`, `FilterReturns`), because liveness under fairness is out of
the prover's reach.

## 7 Counterexamples and findings

Two counterexamples are among the regular runs and reported in `PROJECT.json`:

* `MCCacheSelfDeadlock`: `saveAllDirtyDataToDB` holds `cache_mutex_` (line 128) and
  calls `syncPlayerDataToDB`, which locks it again (line 330). With one dirty record
  the thread blocks for ever, though `redis_cache/examples/cache_example.cpp:105-108`
  expects the call to return. The other cache runs therefore also let the
  lock succeed (`Relock`), to see what else holds.
* `MCGameKinds`: messages carry no type, and a login parses as a registration, though
  every string in it is proper UTF-8.

The following configurations are kept beside them. Each checks one statement of a
document, a comment or an example, and TLC finds it violated:

| configuration | property | what happens |
|---|---|---|
| `MCCacheLostCommit` | `CleanIsDurable` | flags are cleared before COMMIT, whose result is ignored |
| `MCCacheRedisCrash` | `CleanIsDurable` | after a crash a record comes back from Redis as clean, newer than its row |
| `MCCacheColdSection` | `SectionSetKeepsOthers` | `getPlayerData` leaves its result empty when the record comes from the database; a section setter then erases the other sections |
| `MCCacheSignalDeadlock` | `SignalEndsProcess` | `stop()` in a signal handler joins the thread it runs on, or waits for the one it interrupted |
| `MCCacheLateWrite` | `ExitLosesNothing` | writes are accepted after the last save of `stop()` |
| `MCServerFraming` | `EveryFrameArrives` | one frame of each read is decoded, the rest of the read is dropped |
| `MCServerBackpressure` | `PeerGetsWhatWasSent` | the write buffer is a local string that has gone when libuv sends it |
| `MCServerStopRace` | `NoAbort` | `stop()` closes handles that are closing; libuv asserts |
| `MCServerExit` | `ExitIsClean` | the destructor calls `stop()` a second time |
| `MCServerHeartbeat` | `SilentIsClosed` | nothing calls `checkHeartbeat` |
| `MCRegistrationCodeTwice` | `CodeUsedOnce` | two instances verify one code before either deletes it |
| `MCRegistrationRefusal` | `RefusalIsEarned` | every send begins the 24 hours anew |
| `MCFightDead` | `DeadDoNotStrike` | a dead character whose state became IDLE (it died in the callback of its own attack, or was moved and stopped) attacks |
| `MCWalkStop` | `StopIsKept` | `stopMovement` keeps the path, and the next update walks on |
| `MCWalkOvershoot` | `WalkEnds` | a step longer than the rest of the way jumps over the goal, to and fro |

Definitions that state what a reader of the code may expect and that do not hold.
No configuration is kept for them; each is found by adding it to the one named:

| definition | configuration | what happens |
|---|---|---|
| `UserIdsDiffer` | `MCRegistration` | user ids are random numbers (`register_service.cpp:296`) |
| `CleanReadsBack` | `MCCacheSafe` | the SQL text is not escaped: a statement may store other bytes, and clears the flag all the same (`database_client.cpp:113,121`) |
| `RedisIsCurrent` | `MCCacheRedis` | a SET that fails is only logged (`cache_manager.cpp:110,168`): after an error reply, or when a second `initialize()` connects again, Redis is in use with an older record or none |
| `CastEnds` | `MCFightAndWalk` with `CastTime` = 0 | a skill without cast time never leaves the state CASTING |
| `FreedIsNotRead` | `MCManagerAndSync` | `removeCharacter` logs the name after the map entry, and with it the character, is gone (`character_manager.cpp:133`) |
| `KeptPointersLive` | `MCManagerAndSync` | pointers from `getCharacter` outlive a removal by another thread |
| `NobodyHangs` | `MCManagerAndSync` | a callback that calls the manager waits for its own mutex |
| `ContainersAgree` | the same with `BareTypes` = {"PLAYER"} | `createCharacter` makes a plain `Character` of type PLAYER, which `getPlayer` casts to `Player` |
| `HeldObjectsLive` | `CharacterManager` alone, with `UnlockedSpec` | `removeAllCharacters` takes no lock and frees what another thread is about to announce, though `character_system/README.md:358` says that a mutex inside the manager protects the shared data |
| `DeathIsSent` | `MCManagerAndSync` | `Character::update` returns for the dead before the component gathers what was marked |
| `SyncIsSound` | the same with `LateInitialize` or `CallbackMarks` | `initialize()` resets `is_dirty_` and not the marks; marks made in the sync callback are cleared when it returns |

Also seen while modelling, without a property: an NPC that flees from its spawn
runs on the spot; `respawn` clears neither the path nor a cast timer; `checkAggro`
never finds anybody; data that says "no health" leaves a character alive that
`takeDamage` will not kill; `performSync` sends the whole data whichever marks are set, and a component that is disabled
or paused syncs all the same; `validateToken` accepts the empty token for a user who never logged in; the id of a private channel
is a sum of user ids, so two pairs can share one.

## 8 What is not modelled

* `registerAccount`'s checks for an existing name, phone or email always answer no in
  the code; there is no step for them. The character tests of the validation service
  are an input (which fields are right).
* The threat table has no reader; the jump, gold, diamonds and loot touch nothing
  else; move and arrival callbacks and the aggro callback are left out.
* The component life cycle: `Component::update` tests whether a component is enabled and not paused and
  returns, and the `update` of the subclass goes on regardless. Listeners, dependencies and custom data
  have no reader among the components.
* `sendRPC`, which only calls a callback.
* `ChatServer`'s sessions and routes: nothing reaches them at this commit (section 1).
* `multi_thread_server`: in no CMake target, and its header names callback types that it does
  not include. The pools of connections, memory and objects have no caller.
* `START TRANSACTION` and `COMMIT` that MySQL refuses on a live connection; records whose bytes make the SQL text another
  statement, or one about other rows. What is parsed of a damaged value is any record.
* The lookups of `character_manager.h:35-37,46-48`, which read the containers without the mutex, and callbacks that call
  `removeAllCharacters`, which takes no lock. What the sync callback does other than mark.
* Skills other than one; `setState`, `setAttributes` and `initialize()` of a character's components called from outside;
  moves in the callbacks of the fight (in the theorems, not in the run).
* The wrappers of generated code, the serializer, test programs, examples, and the client.
* The texts of records, messages, names and codes, the values of timers, log output.
* Widths of integers: ids and counts are naturals. `next_user_id_`, the send count and
  experience do not come near their limits in any run of the programs here; the
  planned `Player` module takes up the widths.
