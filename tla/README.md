# A verification of The Forgotten Server (Darghos, 0.4 line)

TLA+ models of the parts of this server whose correctness is a matter of order:
the two threads that run the game and their shutdown, the life of a client's
connection, logins and the waiting list, the protocols between players, the life
of creatures and items, the scripts' interface, and what the database keeps of it all.  TLC checks them on small
instances; TLAPS proves the most important invariants for every instance.
Paths are relative to the repository's root; `src/` is its C++ source.

    tlc -workers 2 -config MCTaskEngine.cfg MCTaskEngine     one run
    tlapm TaskEngineProofs.tla                               the proofs

## 1. The system

The process has four kinds of threads: the main thread, which loads everything
and then waits; the **service** thread, which runs boost::asio handlers (accept,
read, write, timers); the **scheduler** thread, which waits for delayed events;
and the **dispatcher** thread, which runs every task of the game, one at a time.
Game state is touched by the dispatcher thread only: that is the design's answer
to concurrency, and everything below depends on the hand-over of tasks being
right.  What is left to go wrong inside the game is *order*: tasks that refer by
pointer or id to what an earlier task removed, protocols of several commands by
several players, hooks that change what their caller is looking at.

| component | state | operations | what is hard | correct when |
|---|---|---|---|---|
| Scheduler (`scheduler.cpp`) | priority queue of events, set of active ids, last id, state | `addEvent`, `stopEvent`, `stop`, `shutdown`, the thread's loop | wake-ups, ids that are reused, stop against pop | a stopped event never runs; every event is popped, not before its date |
| Dispatcher (`dispatcher.cpp`) | list of tasks, state, the lock | `addTask` (both ends), `stop`, `shutdown` with `flush`, the loop | lost wake-ups, a task posted from a flushed task | each task runs once, in order, or is dropped after its date |
| Process life (`otserv.cpp`, `Game::setGameState`, `Game::shutdown`) | game state | signals, save, kick, terminate | the order of closing the lists and ending the threads | a shutdown that begins ends |
| Connection, ConnectionManager (`connection.cpp`) | state, socket, pending reads and writes, timers, reference count | `acceptConnection`, `parseHeader`, `parsePacket`, `send`, `onWrite`, `close`, `closeConnection`, time-outs, `onStop` | both threads, late time-outs, writes in progress at a close | one read and one write at a time; closed once, freed once |
| Output pool (`outputmessage.cpp`) | free and waiting messages, queue | `getOutputMessage`, `send`, `sendAll`, `releaseMessage` | release runs on another thread; lock order with the connection | a message is encoded once, given back always |
| Protocols (`protocol*.cpp`, `admin.cpp`, `manager.cpp`, `status.cpp`) | reference count, output buffer, the player | first packet, `login`, `connect`, `logout`, `releaseProtocol` | a protocol outlives its connection, and the reverse | never used after deletion |
| Logins (`protocolgame.cpp`, `player.cpp`, `Game::setGameState`) | who serves whom, the state of the game, the delayed `connect` | log in, take over, log out, kick, die, close the game | the player is gone, replaced or back when the event fires | one client each, held as long as needed, once per account |
| Waiting list (`waitlist.cpp`) | slots with time-outs, priority list | `login`, `cleanup` | a client that returns at its time-out | nobody enters before his turn |
| Safe trade (`game.cpp`, `player.cpp`) | per player: state, partner, item; the items being traded | request, accept, close, and all that moves items or players | the items move while two players agree on them | see 4.3 |
| Houses (`house.cpp`, `talkaction.cpp`) | owner, access lists, rent | buy, sell by trade, leave, rent | sold later than checked | one owner, one house for a player |
| Party (`party.cpp`) | leader, members, invitations, shared experience | invite, join, pass leadership, leave, disband | any order, with logouts | one party each, a leader in it |
| Creature life (`game.cpp`, `creature.cpp`, `monster.cpp`) | map, ten check vectors, reference counts, targets, friends, summons, who rests | place, remove, check, move, attack, summon, convince, die | removal inside hooks and while a vector is walked | deleted when nobody has it, looked at while it needs to be |
| Items, cylinders, decay (`item.cpp`, `container.cpp`, `tile.cpp`) | parents, counts, decay buckets, references | add, remove, move, transform, decay | decay and transformation of items that move, are listed, or are in a container that goes | references are those that are held; what decays does, in time |
| Spawns, raids (`spawn.cpp`, `raids.cpp`) | who is spawned, timers | check, start-up, events | monsters that die, leave or are convinced elsewhere | never above the limit, an empty place is watched |
| Chat, guilds (`chat.cpp`, `ioguild.cpp`) | members of channels, invitations | open, close, talk, invite | membership against logout and party | only members hear |
| NPCs (`npc.cpp`) | focus queue, shop list | talk, trade, close | a player gone in mid conversation | focus on one who is there |
| Conditions, combat (`condition.cpp`, `combat.cpp`) | conditions of a creature, ticks | add, merge, execute, end | end during execution | ended once |
| Persistence (`iologindata.cpp`, `iomapserialize.cpp`, `map.cpp`) | the database | load and save players, save houses, mail, save all | a crash between two transactions, copies of players who are away, a store of the houses that fails and is committed | nothing lost or doubled but what had moved, and what a failed store left out |
| Lua (`luascript.cpp`) | timed calls, environment stack, items a script makes | `addEvent`, `stopEvent`, `doCreateItemEx`, calls | scripts within scripts, a reload with events pending | a call runs once, or not when it was stopped; what a script made is placed or freed |
| Loaders, tables, support | read once | - | - | - |

Interactions: the service thread posts tasks to the dispatcher; tasks add events
to the scheduler, which posts them back as tasks; game code writes to output
messages, which `sendAll` sends after every task; connection and protocol ask the
dispatcher to close and free them.  Within the game the components call each
other directly, and event scripts are called from the middle of operations.

## 2. Modules

| module | models | used by |
|---|---|---|
| `Tasks` | the task objects: allocation, expiration, event ids | `Dispatcher` |
| `Dispatcher` | the list, the thread, `shutdown` and `flush` | `Scheduler` |
| `Scheduler` | the queue, the ids, the thread | `TaskEngine` |
| `TaskEngine` | the two threads together, the callers, signals and shutdown; the properties | `MCTaskEngine`, `TaskEngineProofs` |
| `OutputPool` | messages, reference counts, the protocol's buffer | `Connection` |
| `Connection` | one connection: state, socket, handlers, timers | `ClientSession` |
| `ClientSession` | connection, protocol and both threads together; the properties | `MCClientSession`, `ClientSessionProofs` |
| `SafeTrade` | trades, the items and players in them, house sales; the properties | `MCSafeTrade`, `SafeTradeProofs` |
| `Party` | parties, invitations, the flag of shared experience, the party's channel; the properties | `MCParty`, `PartyProofs` |
| `WaitingList` | the list of those who wait: slots, time-outs, priority | `Login` |
| `Login` | players, clients and the states of the game; the properties | `MCLogin`, `LoginProofs` |
| `Creatures` | creatures, monsters and a spawn; the properties | `MCCreatures`, `CreaturesProofs` |
| `Items` | items: references, containers, transformation, decay | `Scripts` |
| `Scripts` | the scripts' environments, the items they make, timed calls, with what tasks do to items; the properties | `MCScripts`, `ScriptsProofs` |
| `Storage` | memory, database and the saves between them; the properties | `MCStorage`, `StorageProofs` |
| `Ledger` | abstract: every thing is in one place | `Storage`, as what it implements |
| `TaskEngineProofs` | theorems about `TaskEngine` | |
| `StorageProofs` | theorems about `Storage` | |
| `SafeTradeProofs` | theorems about `SafeTrade` | |
| `PartyProofs` | theorems about `Party` | |
| `LoginProofs` | theorems about `Login` | |
| `ClientSessionProofs` | theorems about `ClientSession` | |
| `ScriptsProofs` | theorems about `Scripts` and `Items` | |
| `CreaturesProofs` | theorems about `Creatures` | |

A module of a component holds its state and its steps; the one that composes them
adds who calls what and when, and states the properties.  Definitions have the
code's names where there is one.  Definitions that a comment calls *Mutant* are
plausible mistakes in the definition beside them; no specification uses one.
They show that each property depends on the code it is about.

## 3. How the models correspond to the code

**Atomicity.**  A critical section is one step.  What the code does after it
unlocks (every `notify_one`, the read of the event's id at the end of `addEvent`)
is a later step of its thread.  A lock that is held across steps is a variable:
`taskLock` for `Dispatcher::shutdown`, the positions "reply" and "sendAll" of the
two threads for the connection's lock and the pool's.  Where only the dispatcher
thread runs (`SafeTrade`, `Party`, `Creatures`, `Scripts`), one step is one task, or
one call of a script; in `Login`
the service thread's work on a packet has a beginning and an end; in `Storage` each
transaction of a save is a step, because a crash may come between two.

**Task engine.**  A task is an address; `live` says which hold an object, and an
address is reused as soon as it is deleted.  Dates are relative to the present
and `Tick` brings them nearer.  `spc` and `dpc` are the threads' positions.
`wait` and `timed_wait` wake up unasked when `Spurious` says so.  `ret`, the local
variable that `schedulerThread` does not set after `wait`, appears as `RetFalse`.
The event id wraps at `MaxEventId` (0xFFFFFFFF in the code), so reuse happens
within the bounds; `collided` remembers that a reused id still meant something,
and the properties that depend on unique ids say so.  An ordinary task makes any
sequence of calls; `SaveAndStop`, `Final` and `Terminate` are the tasks of the
shutdown, step by step as in `Game::setGameState` and `Game::shutdown`.

**Client session.**  `handlers` is asio's queue, in order.  A close of the socket
queues the operations in progress with an error.  A timer that has expired but
not run is not cancelled, as in asio.  `tasks` is the part of the dispatcher's
list that concerns the connection; all other tasks are `GameTask`.  The reference
counts are plain integers in the code, changed by both threads: `LostUpdates` says
what such a race may lose, and `raced` that it happened.  `UsesDeleted` and
`Embrace` name the states in which the code would use a deleted object, or each
thread would hold the lock the other wants; nothing happens after them.

**Safe trade.**  `place` is the parent of an item; bags may be nested.  `BagsOf(i)`,
the bags an item is in, is what every set that is closed under parents has: the
loop of `isHoldingItem` over parents, without an order.  A house's
transfer document is an item of its own per seller.  `CloseTrades` is
`internalCloseTrade` for the players it is called for, and so is the end of an
exchange; every way an item can move ends in it through `checkTradeState`, whose
condition is `Disturbs`.  `promise` is history: what an offer held when it was
made.  The walk to a distant item ends in the same request, and is not a step.
The event hooks of requests and acceptances may refuse: the request is then no
step, the acceptance `AcceptTrade` by the second player.  The exchange asks whether both
have room and both items may be taken, and ignores what the two moves after that return
(`game.cpp:3037`): `Exchange` takes them to succeed, so that only a failure of the
questions (`AcceptFails`) is modelled.  When each sells the other the same house, the
document that is handled second counts.

**Party.**  A party is an address, free again after `disband`, since players and
the chat refer to parties by pointer.  `Left` is `leave` up to its end and `Settle`
is that end with `disband`, for one party or for all those a logout touches.
`shared` is `sharedExpActive` with `sharedExpEnabled`; whether levels and positions
allow sharing is one bit, `together`, that anything which moves or changes the
players may change.  `unnoticed` is history: the parties where only time, or a loss
of levels, has changed what sharing depends on since they last looked;
`removeExperience` does not tell the party, as `addExperience` does.  `users` is
kept by address like `m_partyChannels`, which `disband` does not clean.  A scene is
who takes part: two parties without experience, or one that shares it.  Players who
have no client any more are still in the game: which of a disbanded party's players
are told of it is any subset.

**Logins.**  A client is a `ProtocolGame` with as much of its connection as a login
sees: open, asked to close, gone.  A body is a `Player` object at an address that is
free again when the object is deleted; `refs` is its count, `releases` the game's
`releaseThings`.  `seeks` is the id that the delayed `connect` carries: ids are never
used twice, so it is the body, or nobody once that one has left the game.  `todo` is
the client's part of the dispatcher's list, and `behind` the clients whose close was
asked for before.  Bans, passwords, clones and loading errors are one refusal among
others; the group that may have several characters of an account in the game
(`protocolgame.cpp:183`), the account manager and `ALLOW_CLONES` are left out.  A cast is
what takes part at a time (`Casts`).

**Creatures.**  `world` maps addresses to creatures.  An operation takes a world to
the world it leaves, calls in the order of the code, and folds a hook over the
spectators (`Each`, in the fixed `Order`).  `at` is "none", "game", or "removed" while
somebody holds a reference; `Reaped` deletes whom nobody holds.  `Sight` replaces
coordinates: who is seen from where.  `Thoughts` is what `Monster::onThink` does to
pointers and lists, and each change of target is a choice.  A check vector per
creature stands for the ten buckets: only the order of visits is lost, and each
visit is a step that comes in any order.  Conditions are left out: a monster under one
does not rest (`monster.cpp:542`).

**Items and scripts.**  `store` maps addresses to items, which are allocated at the
first free one; an operation takes a store to the store it leaves.  The parent of an
item is a container, "floor" (a tile, a player), "void" (the virtual cylinder of what a
script has made) or none.  What the code does by recursion over containers is a least
set here: `Holders(i)` are the containers around an item, in what every set closed under
parents has, and `Unheld` is what a chain of destructors deletes.  `list[k]` is the decay
bucket that is visited in the k-th pass from now, `list[0]` what is left of the one that
is being visited, and the last list is `toDecayItems`; `Pass` is one second of
`checkDecay` with its `cleanup`, and its loops are a step that is repeated (`Times`).
A task that would need more addresses than there are is not a step (`full`).  `left` is
history: the time an item has when it is listed, brought down by each pass, and
forgotten when a transformation gives it another.  `env` is the stack of environments,
`known` the environment in use that has a uid for the item it made, `temp` the items of
`m_tempItems`, which `reset` frees for all environments.  A task that is not a script
runs while none does.  An event of a timed call is in the scheduler (`queued`) or
handed over to the dispatcher (`posted`); `TaskEngine` has what is between.

**Storage.**  A thing is in the memory of one who is online, in the row of one who is
not, or in a house; the same names appear in the tables.  A coin is a unit of a
balance.  `Goes` is every way to give something to a player by name: to the one in
memory, or to a copy of his row that is saved and deleted.  A save fails by choice
and is counted in `faults`, as `Restarts` is.  A shallow save, of everybody
(`saveGameState`) or of one player by a script (`doPlayerSave`, `ScriptSaves`), stores
the balances and not the things.  `moved`, `unstored` and `lost` are history: what has
moved since the last complete save; what lies in a house and the last store of the
houses, which failed and was committed, left out; and what was given up: by a restart,
all that had moved or was unstored; by a logout that could not be saved, what had
moved; by a mail to a copy that could not be saved, what was sent.  `unsaved` has the
houses whose last save failed.  Left out is the `savePlayer` of one who is not to be
saved (`save` = 0 in the database, or `isSaving` turned off by a script): it stores the
date of the login only, and what he has is lost on purpose.  `ImplementsLedger` reads the place of a thing
off memory, rows and houses, and says that every step of the server is a step of
`Ledger` or none: a transfer, a payment, or a loss by a fault.

## 4. What the runs check

### 4.1 Task engine

| run | question |
|---|---|
| `engine_safety` | two ordinary tasks, one call each, ids 1..2, spurious wake-ups, SIGQUIT at any time: unique ownership of task objects, truth and finality of `stopEvent`, events that do not expire in the dispatcher's list, a closed dispatcher that still has its last task |
| `engine_live` | no wake-up is lost on either side, and a save-and-shutdown ends |
| `sigterm_shutdown` | (violated) SIGTERM ends the process |

Two tasks are enough for one event to be popped while another is added, stopped
or reuses its id; two ids for the counter to wrap while an old id is queued or
held.  Fairness: the operating system runs both threads, a call that has begun
returns, and time passes.  Nobody is obliged to begin a call.  The live run has no
spurious wake-ups, which would hide a lost one.

### 4.2 Client session

| run | question |
|---|---|
| `session_safety` | two messages, one racing count update, every error and time-out: counts are exact and nothing is used after deletion unless a race came first; one close, one read, one write; no output added to an encoded message |
| `session_live` | one message, no race: a close asked for by anyone ends in the deletion of the socket, the protocol and the return of every message |

Two messages are what a write in progress and a queued one need; a third would
repeat the second.  Fairness: both threads run, timers and events fire, and the
game always has a next task.  The dispatcher's list is first in, first out, so the
other tasks of the game cannot put off a close for ever: that is the one strong
fairness.  Of the peer nothing is assumed.  Both runs are about the executions
that do not reach `Embrace`.

### 4.3 Safe trade

| run | question |
|---|---|
| `trade_safety` | three players, a bag, a second bag and an item in them, a house: the two sides agree; nothing is promised twice, directly or in a bag; references and documents are given back; what was offered is unchanged until it is handed over; items change hands only in a trade both had accepted |
| `house_sale` | (violated) what is checked when a house's sale is offered still holds when it is sold |

Three players are two who trade and one who interferes; two bags and an item are a
chain of containment with a middle.

### 4.4 Party

| run | question |
|---|---|
| `party_safety` | three players in two scenes: players, parties and invitations agree, whatever is invited, joined, passed, left, revoked or logged out; a party ends only when it has nobody to be with; a channel's users are in the game; the cached flag of shared experience is what an examination would give |

Three players are a leader, a member and one who is invited or stays; two addresses
let a player hold invitations of two parties, and an address be used again.  The
second scene has one address, and all that sharing depends on.

### 4.5 Logins

| run | question |
|---|---|
| `login_safety` | three clients for one character; two clients for four characters with room for one, while the game closes and opens: a player exists as long as he is held, is served by the client he names, is not left connecting, is in the game once; those who wait enter in turn |

Three clients are one that plays, one that takes over and one that does so while the
second waits for its event.  The four characters are a plain and a premium one, one
who may always log in, and one who shares his account.  The run lets the process
stop: after the game has shut down nothing need happen.

### 4.6 Creatures

| run | question |
|---|---|
| `creatures_safety` | a player, two monsters, two spots out of each other's sight, a place of a spawn: counts are those of the references, pointers lead to creatures in the game, who needs a look gets one, a monster that sees a player is awake, the spawn is never above its limit and an empty place is watched |

Two monsters are a master and his summon, or a spawned one and its successor; the
player moves between the spots, so that everything comes into and goes out of sight.
One creature is dying at a time: the next is killed when the last is gone.
Deadlock is not checked: an empty map with no event is a rest.

### 4.7 Storage

| run | question |
|---|---|
| `storage_safety` | two players, a house, a coin, a thing, two faults: a thing is in one place, in memory and in the database, unless it had moved when a fault came, or lay in a house and a failed store had left it out; the row of a house names its owner; and the whole implements `Ledger` |

Two faults are a failed save and a crash after it, or a crash in the recovery from
another.  Houses are stored by item (`Relational`), where a failed store of one tile
is committed all the same.  Then a thing that has not moved for days is in memory only,
and a process that ends before the next store loses it: `CrashKeeps` says of such a
thing that it is in a house and stored nowhere, and of all others that have not moved
that they are stored where they are; `HeldOnce` counts it as lost only when the
process ends.

### 4.8 Items and scripts

| run | question |
|---|---|
| `scripts_safety` | three addresses, three buckets, at most two items that were made at a time, in five scenes: two lamps that are lit, put out and changed by a script; a corpse with a lit lamp in it; what a script within a script makes, lists, places and changes; a candle and a lich that decay into what keeps their mark; three timed calls.  References are those that are held; what is marked as decaying and has time left, or has become nothing that keeps a mark, is in a list; what decays does so when its time is over; a timed call in the table has one event or is running |

A third address is what a transformation to another kind of object takes.  The times,
1 to 4 seconds, are less than a round of three buckets, one, and more.  Within a
scene all steps interleave.  An execution ends where a script gives a place to an item
that one inside it has had freed (`strayed`), or has stopped its own timed call
(`erased`): what follows is undefined.  Items do not stack.  Two entries of
`data/items/items.xml` decay into a type that `setID` neither unmarks an item for nor
gives time to: the lit candelabrum (2057), whose end (2041) stops its time, and the slain
lich (8273), whose end (8274) decays and has no time.  Such an item stays marked and is
in no list: the lich stays for ever, and so does the candelabrum when it is lit again.
The scene of the candle and the lich reaches this, and `MarkedAreListed` says how far it
goes (`Stuck`): only where the table has such a type, and only for an item whose time is
over and whose type has not ended; without `Stuck` the property fails in that scene.

### 4.9 Disagreements found

1. `sigterm_shutdown`: `Dispatcher::shutdown` flushes the list under `m_taskLock`;
   a flushed task that posts another locks it again and waits for itself.
2. `house_sale`: a house sale is checked when it is offered, and concluded by
   `TransferItem::onTradeEvent` without a look at seller, buyer or house.  The buyer
   may have bought another meanwhile; the seller may have left the house and a third
   player rent it.

Seen on the way, and not the subject of a run:

- *Task engine.*  `schedulerThread` takes a return of `wait` for a time-out
  (`scheduler.cpp:57`): the first event of an empty queue is handed over at once,
  whatever its delay, and a wake-up that finds the queue empty would call `top()` on
  an empty heap (`PopNothing`).
- *Session.*  The branch of `Connection::send` for slow clients, `m_pendingWrite > 100`,
  is never taken, since `OneWrite` bounds the counter by 1.  `parsePacket` and `sendAll`
  take the connection's lock and the pool's in opposite orders (`Embrace`).  Reference
  counts are changed by two threads without a lock.
- *Logins.*  `login` tests `m_eventConnect` of the new protocol (`protocolgame.cpp:259`),
  which is always 0: a third client may take over a player whose second one is still
  to be connected, and `ConnectingIsPending` holds because the last event finds him.
  A login that was posted before SHUTDOWN lets a player in after it.  Newcomers may be
  queued although there is room, when only expired entries are listed.  The loop of
  `setGameState(SHUTDOWN)` starts again from the first player until there is none, and
  `data/creaturescripts/scripts/game/logout.lua` refuses the logout of one in a
  dungeon, also by force: the loop would not end.
- *Trades.*  `houseSell` asks for a premium account when none is needed
  (`talkaction.cpp:564`; `houseNeedPremium` in `doc/CONFIG_HELP`), which `HouseSell`
  keeps; one that cannot start a trade also clears the parent of the seller's
  `transferContainer`.
- *Parties.*  A player without a party may invite himself, and when he then leaves,
  his own list keeps a pointer to the deleted party (`selfInvited`; `Logout` is only
  modelled while no pointer dangles).  `Party::leave` clears the player's party before
  it closes his party channel (`party.cpp:100`), and the channel is looked up by the
  party: he goes on hearing what it says.  `disband` does the two in the other order.
  A second acceptance of a trade that a script denies leaves both sides in TRADE_ACCEPT.
- *Creatures.*  A monster that is hurt wakes first (`Monster::changeHealth`), which is
  the only reason a dead one gets checked.  `convinceCreature` starts no `checkSpawn`:
  the place a convinced monster leaves stays empty until another of the spawn goes.
  Lists of friends and targets may keep creatures that were removed, with a reference.
  `~Spawn` does not give back the references of monsters that were removed.  A monster
  that cannot be placed at start-up is not tried again.
- *Items.*  A transformation across `alwaysOnTop` loses the time an item had, so it
  decays at once.  One that is listed and transformed into a type with a time of its
  own is unmarked, and is listed again beside its old entry: each entry takes its round
  off.  An item put out keeps the time it had when its bucket was last visited, up to
  16 seconds more than it has burnt.  `transformItem` to another kind of object does
  not call `onRemoved`, so that `m_globalMap` keeps a pointer to what had a unique id.
  The candelabrum and the lich of §4.8 keep their mark for ever.
- *Scripts.*  `reset` frees the items without a place of every environment, not only
  its own, and `removeTempItem` takes an item off a copy of the list.  `executeTimer`
  goes on with its entry of `m_timerEvents` after the call, which may have stopped it.
  `loadBuffer` goes on when `reserveEnv` has failed.  `doDecayItem` says "to stop decay
  set decayTo = 0", which removes the item.
- *Storage.*  The rent of an owner who is away is taken from a copy of him that is
  not saved (`house.cpp:887`): he lives free.  `updateAuctions` gives a house to its
  winner in memory, and `loadHouses`, called next, overwrites it (`map.cpp:67`).
  `saveMapRelational` ignores what `saveItems` returns, commits, and reports success:
  what a tile could not store is not in the database, and nobody is told.  `saveHouses`
  ignores what `saveHouse` returns.  The early returns of `payHouse` leak the copy.

## 5. What is proved

`TaskEngineProofs` proves of `TaskEngine`, for any set of tasks, any delays, any
width of the event id, any number of calls, with or without spurious wake-ups:

| theorem | property |
|---|---|
| `TypeCorrect` | `TypeOK` |
| `OwnershipIsUnique` | `OneOwner`: no task object has two owners |
| `StopIsTruthful` | `ActiveIdsAreExact`: the active ids are those of the queued events that nobody stopped |
| `StopIsFinal` | `StoppedEventNeverRuns`: a stopped event is never handed over |
| `AddEventReadsItsTask` | `ReturnedIdIsRead`: the task whose id `addEvent` reads after it has unlocked is still there, when the game calls it |
| `NoHandedEventIsDropped` | `HandedEventsNeverExpire`: an event the scheduler has handed over is not dropped from the list |
| `AClosedServerEnds` | `ClosedHasItsEnd`: a dispatcher that accepts no more tasks has the one that ends the process in its list or in hand |

The assumptions are those of the modules: the null pointer is no task, the bounds
are positive, the three shutdown tasks differ, the signals are the two modelled.
The inductive invariant grows in layers.  `OneOwner` is inductive beside `TypeOK`:
an object enters an owner only when it is new or leaves another in the same step.
`StoppedEventNeverRuns` is not inductive alone: an event that is popped is handed
over if its id is active, so one needs that the ids of stopped events are not, and
that no two queued events share one; that is `ActiveIdsAreExact`, and `StopInv` is
the two together.  `OneOwner` is needed below them, since an address that is both
queued and listed would carry a `cancelled` mark from one life to the next.

`StorageProofs` proves of `Storage`, for any players, houses, things and coins, with
houses stored by item or whole, and any number of faults:

| theorem | property |
|---|---|
| `TypeCorrect` | `TypeOK` |
| `HeldInOnePlace` | `HeldOnce`: what is not paid, and was not given up by a fault, is in one place |
| `CrashesKeep` | `CrashKeeps`: what has not moved since the last complete save is stored where it is, and nowhere else; but what the last store of the houses left out, which is stored nowhere |
| `OwnersAreStored` | `OwnerIsStored`: the row of a house names its owner, unless its save failed |
| `Implements` | `ImplementsLedger`: `Storage` refines `Ledger` |

It assumes that coins are things, that no player is a house, and that the bounds are
natural numbers.  `HeldOnce` needs `CrashKeeps`: a restart or a logout that could not
be saved puts what is stored in the place of what is held, which moves nothing only
if the two agree on what is not given up for lost.  `CrashKeeps` needs `SavedSoFar`:
at the end of a save that failed nowhere `moved` is emptied, and only then must all
that is stored be what is held; `SavedSoFar` says how much of it is, at each step.
It also needs that no coin lies in a house (`NoMoneyInHouses`): a shallow save stores a
player's coins and not his things.
The argument has a middle: `Moves` says of one step what it does to the places of
things, with four cases.  Either nothing changes (`Rests`), a set of things that are in one
place passes to another (`Passes`), a coin is spent (`Spends`), or things that had
moved, or that a failed store left out, are lost (`Fails`).  `StepMoves` shows it of each action; from it alone follow
both that `HeldOnce` is kept and that the step is one of `Ledger`.

`SafeTradeProofs` proves of `SafeTrade`, for any players, items, houses, and bags in
bags to any depth:

| theorem | property |
|---|---|
| `TypeCorrect` | `TypeOK` |
| `BothSidesAgree` | `PartnersAgree`: each is the other's partner, and their states fit |
| `NothingIsPromisedTwice` | `PromisedOnce`: no item is in two offers, itself or in a bag |
| `ReferencesAreReturned` | `RefsReturned`: the references of a trade are given back |
| `OffersDoNotChange` | `OfferIsIntact`: an offer holds what it held, within reach |
| `NoBagIsInItself` | `Rooted(place)` |
| `NothingGoesForNothing` | `HandedOverByTrade`: an item changes hands by an accepted trade only |

It assumes that players, items and the ground are different things, that bags are
items, and that a transfer document is none of the items (`DocumentAssumption`).
`IInv` is these invariants with `OwnDocuments`, a document is offered by the player it
was made for, without which the end of one trade could free the document of another.
`RefsReturned` counts what is in `tradeItems`, and is kept only if the offers are
distinct: `PromisedOnce`.  `PromisedOnce` and `OfferIsIntact` are kept by a move because
what is offered, is in an offer, or has one in it does not move without the end of its
trade.  That needs what a move does to containment.  `In(f, i)` is `BagsOf` for any
function of places, and `Moves(f, g, M)` says that the items of `M` go where no item of
`M` is or is around: the bags of all that is in none of them are those
they were, and nothing gets into itself (`MovesKeepRoots`).  The exchange of a trade is
such a move of two items at once.  `Rooted` is needed for it: a
bag that is in itself would be in what it moves to.

`PartyProofs` proves of `Party`, for any players, and any addresses to allocate at:

| theorem | property |
|---|---|
| `TypeCorrect` | `TypeOK` |
| `PartiesAndPlayersAgree` | `PartiesAgree`: parties, players and invitations agree |
| `ChannelsHoldPlayersInTheGame` | `UsersAreOnline` |
| `TheFlagIsCurrent` | `SharedIsCurrent` |
| `NoPartyEndsWithOthers` | `EndsWhenAlone`: a party ends when its one player leaves, whoever it waits for, or when a player leaves or is no longer invited and one at most remains of those it has or waits for |

`Membership` takes the place of `MembershipAgrees`: it says that the list of members has
each once and not the leader (from which `MembershipCounts` gets the number), and that
an address without a party is blank.  `InvitationsAgree` is not inductive: it says
nothing of a player who invited himself, and he may log out, which takes him off that
list of exceptions.  `InvitedKnow` is the half of it that holds of everybody: whom
a party waits for has its invitation, so that refusing those he has leaves no party
waiting for him.  `revoke`, `leave` and the logout come together in `SettleKeepsInv`,
whose hypothesis `Orderly` says what each party and list must be before those that have
ended are disbanded.

`LoginProofs` proves of `Login`, for any clients (finitely many: references are
counted), bodies, characters, and casts:

| theorem | property |
|---|---|
| `TypeCorrect` | `TypeOK` |
| `NoPlayerIsLostOrLeaked` | `PlayersAreHeld`: a count is the number of those that hold the player, who exists as long as it is positive |
| `NoPlayerHasTwoClients` | `OneClientEach` |
| `WhoIsKeptIsFetched` | `ConnectingIsPending`: a player kept for a client that will connect is fetched by one |
| `NobodyIsInTheGameTwice` | `OncePerAccount` |
| `NobodyIsOvertaken` | `WaitInOrder`: those who wait keep their order, and who enters leaves room for those before him |

`StagesAgree` says how far a protocol has come: none has a player before its login or
while its connect event is on its way, and one that accepts packets has a player who
was placed in the game.  Every count depends on it, for the login of a protocol that
had a player already would leave that one held for ever.  `ConnectingIsPending` alone
does not survive a second take-over: the client that was to connect may find another
in its place.  `ConnectingIsFound` says that of those that will come there is one that
comes after the client which is there now has been closed (`behind`).
What a step does to counts is said by a few relations (a player departs, one is
admitted, one is attached, one awaited, objects are freed): a lemma per action shows
which it is, and a lemma per relation that it keeps the invariant.

`WaitInOrder` is about slots, the first entry of each name, and holds because a
name has only one entry and the premium stand before the others (`Lined`): else the
slot of a name could jump when its first entry times out, and the place before the
first who is not premium could be before one who is.  `Thins` says that a list is
another with entries left out, by the increasing function that maps the places of the one
to those of the other: `cleanup` (by induction over the entries) and the removal of
who enters are such, and a thinned list keeps both `Lined` and the order.

`ClientSessionProofs` proves of `ClientSession`, for any finite number of messages, any
length of the dispatcher's list and of asio's queue, and with any lost updates:

| theorem | property |
|---|---|
| `InvariantHolds` | `IInv`, from which the others follow |
| `TypeCorrect` | `TypeOK` |
| `CountsAreExact` | `RefsAreExact` |
| `NothingDeletedIsUsed` | `NoUseAfterDelete`: nor is the socket |
| `ClosesOnce` | `OneCloseTask` |
| `OneAtATime` | `OneOperation`: one read and one write |
| `WaitingIsNotEncoded` | `BufferIsNotEncoded` |

It assumes that there are finitely many messages, none of which is the null pointer or
another kind of task (`MsgAssumption`), and that a lost update changes a count by what a
lost increment or decrement does (`LostUpdatesAssumption`).  The theorems do not assume
that no update is lost: those that depend on the counts speak of the executions in which
none was, and the others (`OneCloseTask`, `OneOperation`, `BufferIsNotEncoded`) hold of
all of them.

None of these properties is inductive, and they need each other.  A count is exact only if
each message is released once: `ReleasedArePosted`, one task for each message in that
state.  A protocol that is deleted when its count is 0 stays unused only if nothing makes
work for it again: `AttachedAgrees` says that a connection that has been closed knows no
protocol, and that its release is then under way once; and `LoginsAreOnce`, that a login,
which is not counted, is run before the close that lets the protocol go (`Behind`: the
close was posted after it, and only releases of messages are put in front).  The same for
the socket: `StoppedIsFree` says that `onStop` is behind every handler of a read or a
write, which nobody counts either.  That the release of the connection is posted once
needs `SocketAgrees`, and one write at a time that a message being written has one
operation or handler (`WritesAreCounted`), since the code knows it by `m_pendingWrite`
only.  The lists are sequences, and the properties count what is in them: `HowMany`,
with lemmas for a list put behind another, for the head taken, for one put last
(`HowManyTogether`, `HowManyInTail`, `HowManyAfter`), and the same for order (`Behind`).
`JInv` is `IInv` in these numbers, and each action has one lemma that says it keeps it.

`ScriptsProofs` proves of `Scripts`, with `Items`, for any table of item types that is
finite, any number of items, of buckets and of scripts within scripts, containers in
containers to any depth, and any timed calls:

| theorem | property |
|---|---|
| `TypesHold` | `TypeOK` |
| `CountsHold` | `ItemsAreCounted`: a count is the number of the references; nothing held is deleted, nothing is kept that nobody holds |
| `MarksHold` | `MarkedAreListed`: what is marked as decaying and in the game is in a list, but for one whose time was over when it became a type that keeps the mark, in a table that has such a type (§4.8) |
| `DatesHold` | `OnTime`: what decays does so with the pass its time says, or one of the next two |
| `TimersHold` | `TimersAreDue`: a timed call in the table has one event to come, or is running |

It assumes what the table of items has (`ItemsAssumption`): that durations are natural
numbers, that there are at least two buckets, that nothing decays into itself, and that
what stops its time decays into nothing else.  The last two are so of every entry of
`data/items/items.xml`; without them `startDecay` could call itself for ever.

An operation is a function of the store, so most lemmas are about stores: what one
operation needs and what it keeps.  The inductive invariant says it in parts.  `Counted`
is `ItemsAreCounted` with a place for the item that is on its way from one list to
another: between `Tail` and `Append` an entry is counted and not listed.  `Clean` and
`Alive` say that what was deleted leaves nothing and what exists is counted; `Counted` is
only known while `strayed` is not set, and the others need not know it.  `Marks` says
that what is marked and not listed is out of the game for good: a script no more has it
(`Unknown`), its parent is gone, or it is `Stuck`: when an entry is taken off its list
because the time is over, `setID` takes the mark, or gives time anew, or the new type is
one that keeps the mark, and what is stuck stays so until one of the first two.
`MarkedAreListed` alone is not inductive, for such an
item could come back through a script; `Environments` says it cannot, since a script
that knows an item without a place holds it or has freed it.  `OnTime` speaks of the
items that decay in a step, so it needs where the others are: `Punctual` says that an
item whose time is followed has one entry, and `Due` in which pass its bucket comes, for
each bucket and each rest of its time.  The times -2, -1 and 0 are what the code's
rounding to buckets gives: an item that has less than a round left goes to the bucket of
that many passes, and `cleanup` puts a new one a bucket later.  `TimersAreDue` needs `Unmade`:
nothing is known of an id before it is given.

Loops are steps repeated, so the proofs need induction over data, and get it without
the theorems of the library that the provers cannot use: the set of those k for which
the loop's k-th store is as it should has 0 and with each k the next, so it has all
(`UpTo`, from the least element of a set of naturals).  `Repeated` shows that the
recursive function behind `Times` has a value, and `Drained` that a loop over a list
that takes its head each time ends with the list empty, which `Visit` and `ListOne`
both do.  What `Unheld` deletes is a least set: that nobody else had it is proved from
the set of those that somebody has.

`CreaturesProofs` proves of `Creatures`, for any players and monsters, any spots with any
sight between them, and any places of a spawn:

| theorem | property |
|---|---|
| `Keeps` | `IInv`, of which the others are parts |
| `CountsAreExact` | `CountIsExact`: a count is the number of the references, and who has none is deleted |
| `PointersHold` | `PointersAreInGame`: whom one attacks, follows or serves is in the game |
| `NobodyForgotten` | `NobodyIsForgotten`: who needs a look gets one, who sees a player is awake |
| `PlacesStayWatched` | `PlacesAreWatched`: no more monsters than places, and no empty place forgotten |

It assumes (`CreaturesAssumption`) that the order in which spectators are told has each
creature once, so that there are finitely many; that a spot is seen from itself, and
sight goes both ways; and that a spawn has finitely many places, all of them spots of the map.

An operation is a function of the world, and calls others in the order of the code, so
the proof follows the calls: each operation has lemmas that say what it needs of the
world and what it leaves.  Most of them say that it is `Told`: what a creature does when
it hears of another moves no one, keeps every count in balance, forgets nobody, lets no
monster fall asleep before a player, and aims only at those in sight.  `Told` composes,
and a fold over spectators keeps it.  Where it is broken is in the middle of an
operation, and there the proof says for whom.  `Sound(w, e, X, Y, M, P)` is the invariant with
exceptions: X may not be in a vector of checks yet, the pairs of Y aim at each other out of
sight, M have a master who is leaving, and the pairs of P have not been told that they
see each other.  A move starts with all pairs of who moves in Y and P, and each spectator
that is told takes his own out; a removal puts all aims at who is removed out of the
game, and the spectators are all who can have one, since aims are in sight.  `Calm` is
`Sound` without exceptions, and what each task ends with.

`CountIsExact` compares a count with a sum over monsters; the lemmas use `Excess`, the
count less all references but the spawn's, which most operations leave alone
(`Balanced`), and a task ends with what the places of the spawn refer to (`Taken`).
`Ranked` says that summons have none of their own: it is what lets a removal and an
attack go one level down and no further, and `Summons` and `Convinces` keep it, the
first by its guard and the second by `destroySummons`.  `PointersAreInGame` is not
inductive without sight: a creature that goes is told to spectators only.
`WakesForPlayers` needs that everything that comes into sight is told both ways.
`PlacesAreWatched` needs `Homed`, that the mark on a monster and the map of the spawn agree,
and that a removal of a marked one starts the event.

Deleting a creature gives up its lists, which may delete others: `Reaped` goes on as long as
somebody has no reference, and the proof has to show that it ends.  No deletion adds to those
that are removed, and each takes one away, so that as many rounds as there are creatures are
enough (`Survives`, `Removed`).  That nobody who is deleted is aimed at, or
has summons in the game, is `MastersBut` and `AimsBut` again.

Model-checked only: the three liveness properties (`NoWakeUpIsLost` and `ShutdownEnds` of the
engine, `ClosedIsFreed` of a session), which are out of the prover's reach together
with ENABLED and fairness.  Every other property of a passing run has a theorem.

## 6. What is not modelled

Formatting, parsing and the content of packets; socket errors other than success
and failure; addresses, bans and attempts per address; what event scripts do (they
are any choice where they may refuse); coordinates, paths and floors; stacks of
items, depots, mailboxes and the room in containers; guild halls, auctions, levels and
per-account limits of houses; beds; guild and private channels; raids, NPCs,
conditions and combat; the bindings of Lua; loaders and tables; SQL.  `PROJECT.json` lists every
component with what is missing.

## 7. Plan

1. Stacks of items: those that merge in a move or an exchange, with what decays.
2. Channels of guilds and private ones; the focus and the shop list of an NPC; the
   life of a condition.
3. Raids; beds and who sleeps in them, in `Storage`.
4. `ClientSession` as an implementation of the connection that `Login` assumes (open,
   closing, gone); `SafeTrade` as one of an abstract swap of two promised sets.
5. `Creatures` as an implementation of an abstract one: handles that are counted,
   pointers that are cleared, and a set of those that will be looked at.
