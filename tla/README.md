# Lendy: models, checks and proofs

Lendy is a server for card games played in rooms, written in C++.  This directory holds TLA+
models of its core, the TLC configurations that check them on small instances, and proofs of the
central invariants that hold for every value of the constants.

Paths below are relative to the source tree: `apilib/` is the kernel library, `src/` the servers.

## 1. The system

Three kinds of processes, each built on the same kernel:

    client --TCP-->  game server (one room)  --TCP-->  correspond server  <--TCP--  logon server
                     subgame/redblack

| Component | State | Operations | Talks to |
|---|---|---|---|
| Game room: `src/gameserver/AttemperEngineSink`, `RoomUserManager`, `TableFrame` | bind slots of the connections, map user id -> `CRoomUserItem`, free list, chairs of the table, status, table, chair and bind index of an item, `m_bGameStarted` | network bind, shut, logon, sit down, stand up, game message; timer events; `StartGame`, `ConcludeGame` | sink of the subgame (callbacks both ways), network engine (send, shut down), timer engine, correspond link, database |
| Red-black sink: `src/subgame/redblack/TableFrameSink` | bets per chair and area, totals, win scores and revenue, the two game timers | bet, withdraw, sit down, stand up, `IDI_PLACE_JETTON`, `IDI_GAME_END` | table frame |
| Card logic: `src/subgame/redblack/GameLogic` | none | card type, comparison, shuffle | sink |
| Timer engine: `apilib/net/TimerEngine` | active items, `m_dwTimePass`, `m_dwTimeLeave` | `SetTimer`, a tick; `KillTimer` does nothing | posts timer events to the attemper engine |
| Correspond link: `apilib/net/TCPSocketService`, handlers of the game server's sink, `ServiceUnits` | `m_hSocket`, request queue, Loop threads, `m_bNeekCorrespond`, service status | connect, send, close; read, shut; retry timer; registration | correspond server, attemper engine |
| Data queue: `apilib/util/DataQueue` | a ring of bytes, three positions, two counts | `InsertData`, `DistillData`, `RectifyBuffer` | under every queue between two threads |
| Asynchronism and attemper engine: `apilib/net` | a data queue, its mutex, the buffer the callers share, one thread | post an event, run a callback, dispatch one event | every engine posts to it; calls the sink |
| TCP network engine: `apilib/net/TCPNetwork*` | items of connections, store, free list, batch store, write queues | accept, read, send, send to all, close, shut down, allow batch | attemper engine |
| Correspond server: `src/correspondserver` | registered logon servers, rooms, users and their items; whose users are collected next | register, shut, user enter and leave, room list | every game and logon server |
| Logon server: `src/logonserver` | kinds and rooms known, connections | room insert, remove; visitor logon | correspond server, clients, database |
| Database layer: `apilib/db` | pool of connections, request queue | query, asynchronous query, callbacks | servers |
| Log, configuration, string helpers, message layouts, vendored asio/fmt/utf8cpp | - | - | - |

Threads.  All handlers of a server run on its one attemper thread, one at a time, in the order of
the attemper engine's queue.  The network threads, the timer's thread, the socket service's two
threads and the user-interface thread only post to that queue (or to a queue of their own), each
queue being a `DataQueue` under a mutex.  So the hard parts are

- *inside* a handler: calls that call back.  `SetUserStatus(US_NULL)` calls
  `OnEventUserItemStatus`, which unbinds the user and calls `DeleteUserItem`, while the caller
  still walks over the chairs;
- *between* handlers: a request made in one (close a connection, connect, set a timer) is answered
  by an event some handlers later, when the state may have changed;
- *between* threads: the socket service shares `m_hSocket` without a lock, the network engine's
  threads share the items of connections, which outlive the connections;
- *between* processes: a registration, a report or a list is lost with the link it was sent on.

What makes each component correct, in a line: a user object is in exactly the places its status
says (room); bets and settlement agree although users move between the phases of a round
(red-black); a timer fires on time whatever is set meanwhile (timer engine); the link is never
given up silently (correspond link); the ring is a queue (data queue); a connection index means
one connection at a time (network engine); the directory is the union of what rooms reported
(correspond server) and the logon servers' lists follow it (logon server).

`PROJECT.json` lists the hazards with their lines, and which property is aimed at which.

## 2. Modules

| Module | Models | Needs |
|---|---|---|
| `GameRoom`, `MCGameRoom` | the game room with one table; symmetry of users and objects | - |
| `GameRoomProofs` | eleven theorems | `GameRoom`, `TLAPS` |
| `TimerService` | what timers promise (abstract) | - |
| `TimerEngine` | the timer engine | instantiates `TimerService` |
| `TimerEngineProofs` | five theorems | `TimerEngine`, `TLAPS` |
| `CorrespondLink` | the link, composed with the timer engine | instantiates `TimerEngine` |
| `ConnectionEvents` | the events of connections every sink relies on (abstract) | - |
| `NetworkEngine` | the TCP network engine between its clients and a sink | instantiates `ConnectionEvents` |
| `PacketFifo` | what a queue promises (abstract) | - |
| `DataQueue` | the ring | instantiates `PacketFifo` |
| `AsynchronismEngine`, `MCDataQueue` | threads that post through the ring; packets of given sizes | `DataQueue` |
| `CardLogic` | hands and their comparison, and the rules to compare with | - |
| `RedBlackRound`, `MCRedBlack` | bets, deals, settlement and timers of the red-black game; deals and a deck | `CardLogic` |
| `CorrespondDirectory` | the correspond server's directory, its game servers and a logon server | - |
| `AsynchronismEngineProofs` | three theorems, two of them about the ring | `AsynchronismEngine`, `TLAPS` |
| `CardLogicProofs` | two theorems | `CardLogic`, `TLAPS` |
| `RedBlackProofs` | eight theorems | `RedBlackRound`, `CardLogicProofs` |
| `NetworkEngineProofs` | six theorems | `NetworkEngine`, `TLAPS` |
| `CorrespondDirectoryProofs` | four theorems | `CorrespondDirectory`, `TLAPS` |
| `CorrespondLinkProofs` | two theorems | `CorrespondLink`, `TLAPS` |

Operators whose comment begins with *Mutation* are wrong variants of the definition that follows
them, the way a slip in the code would make it wrong; no specification uses them.  `PROJECT.json`
says which property each one breaks.

### GameRoom

The record `room` holds what several handlers' nested calls change; each method is a function
from record to record, and a handler composes them in the order of the calls.

| Variable | Code |
|---|---|
| `room.bind` | `m_pBindParameter[i].pIServerUserItem` |
| `room.shut` | connections `ShutDownSocket` was called for and whose Shut event has not come |
| `room.map`, `room.free` | `m_UserItemMap`, `m_FreeUserItem` |
| `room.seat` | `m_TableUserItemArray` |
| `room.user/status/chair/index` | `dwUserID`, `cbUserStatus`, `wChairID` (and `wTableID`), `m_wBindIndex` |
| `linked` | connections between their Bind and Shut event |
| `bet` | which of `m_lPlayBet` are not zero |
| `round`, `pc`, `at` | phase of the round; where the loops of `ConcludeGame` and `StartGame` are |

`IDI_GAME_END`'s handler is split into one step per chair and loop, because each iteration calls
back; no other handler runs meanwhile (`pc # "idle"` disables them, as the attemper thread does).
Choices: the outcome of the logon's database query, who is below `lMinEnterScore`, whether the
password sent is empty (`m_szLogonPass` is never assigned, so only an empty one matches).

*Configuration as constants.*  `OffLineTrustee` (`cbOffLineTrustee`), `EnterLimit`
(`lMinEnterScore # 0`), `ChipsSet` (what the memory behind the bets holds, which
`OnEventGetBetStatus` reads for the last chair).  `Relogon` says whether clients log on with a
password while the room holds an item of theirs: the only way the code loses an object.  They do
in `room_trustee`, and may in `ObjectsAreLostToLogons`; they do not in `room_plain` and in the
theorems that say so, because connections and chairs go on naming the object that was lost
(section 3).

### TimerEngine and TimerService

`SetTimer` and a tick are atomic under `m_mutex`.  A tick before the earliest timer is due only
moves `timePass` and `timeLeave` (`PassTime`); the tick that brings `timeLeave` to zero searches
all items (`SearchTimers`).  A tick that does not get the mutex changes nothing.  Elapses are
positive (callers pass seconds times 1000 or constants): an elapse of 0 would take `timeLeave`
below zero.  `TimerService` counts every timer down on its own; the refinement maps an item's
`dwTimeLeave - m_dwTimePass` to the time remaining.

### CorrespondLink

| Variable | Code |
|---|---|
| `hSocket` | `m_hSocket`: INVALID, or the TCP state behind it as the next `recv`, `send` or `select` will see it |
| `looping`, `closing` | the Loop thread; threads inside `PerformCloseSocket` after its unlocked check |
| `requests`, `events`, `controls` | the socket service's, the attemper engine's and `ServiceUnits`' data queues |
| `neek`, `status` | `m_bNeekCorrespond`, `m_ServiceStatus` |
| `up`, `holds`, `arrived`, `inbox` | the other server: running, which connection holds this room's registration, what is on the wire |

`HangupIsReadable` is the platform: on Linux `select` reports a socket whose `connect()` failed as
readable, so `recv` fails and Loop closes it; Windows reports it in the third set only, which Loop
does not pass.  `PostRequest` is disabled while `connect()` is in progress, because
`OnServiceRequest` holds `m_mutex` meanwhile.  `OnUIControlRequest` may stop the service although
the link is up, which is what it does when the network of the players does not start.

Timing.  Loop looks every 100 ms, a tick that ends the retry delay is seconds away; so the model
lets no tick pass while a socket is being closed or its Loop thread has not ended, nor (with
`MaxEvents = 1`) while the attemper thread has an event to handle.  Everything else interleaves
freely.

### NetworkEngine and ConnectionEvents

| Variable | Code |
|---|---|
| `item[i]` | the `CTCPNetworkItem` of index i: its socket, `m_closed`, `m_closing`, `m_bWritingAsync`, `m_writeQueue`, the operations pending on the socket, and whether a thread has it in `m_vNewSocket` or `m_vSocket` |
| `store`, `batch`, `free`, `curIndex` | `m_NetItemStore`, `m_BatchNetItemStore`, `m_NetworkFreeItem`, `m_curIndex` |
| `opening` | how far `OnSocketOpen` is: item taken, handed to a thread, read started |
| `requests`, `current` | the engine's queue; the request whose item the asynch thread has looked up |
| `events`, `bound` | the attemper engine's queue; who the sink believes to be behind an index |
| `peer`, `got` | the clients and what reached them |

`m_mutex` protects the store and the free list for the time of a lookup, not the item that was
found: the asynch thread's lookup and its use of the item are two steps, and so are the exchange
of `m_closed` and the closing of the socket.  `Abort` moves what is pending on a closed socket to
`lateReads` and `lateWrites`, the handlers that will still run with an error, on whatever the item
serves by then.  `HandleQueue` chooses between sent, sent in part (a handler waits), and an error.
A message is a number; a read is a packet whose head is good or not.

`ConnectionEvents` is what sinks are written for: under an index Bind and Shut alternate, and a
connection has one of each.  A Read may follow the Shut of its connection.  `GameRoom`,
`CorrespondLink` and `CorrespondDirectory` rest on it.

### CorrespondDirectory

| Variable | Code |
|---|---|
| `bind` | `m_pBindParameter[i]`: `ServiceKind` and `wServiceID` |
| `rooms`, `logons`, `users` | keys of `m_ActiveGameRoom` and `m_ActiveGameLogon`; `m_ActiveUserItem`, from users to items |
| `items`, `free` | `vGameRoomID` of each `tagGlobalUserItem` made so far; `m_FreeUserItem` |
| `collect`, `waiting`, `allowed` | `m_wCollectItem`, `m_WaitCollectItemArray`, whom batches are sent to |
| `conn`, `link`, `logonLink` | connections as the directory knows them, and as the other servers do |
| `retired`, `inside` | `m_bNeekCorrespond` is FALSE; who is in a room |
| `inbox`, `list` | what is on its way to the logon server; `m_RoomList` |
| `asserted`, `astray`, `since` | history: the assertions that failed in the last step; what a Shut took for the registration of a connection that had none; what became of a room since the logon server registered |

A game server's report and its handling are one step (a connection delivers in order, and nothing
else of that server can come between); a link that is lost is known to its owner at once and to
the directory with the Shut event.  `ServerRegister` in `CorrespondLink` is the same handler, seen
from one game server with its timers and threads.

*Unwritten memory.*  The correspond server allocates `m_pBindParameter` and does not clear it
(`AttemperEngineSink.cpp:42`; the game server's does), and its Bind handler writes neither
`ServiceKind` nor `wServiceID`.  So an index is `Unwritten` until the first registration or Shut on
it, and a connection that is bound to it finds any value there (`Found`): nothing, or a game or
logon server with a number in `Leftover`.  Then a connection that never registered may report users
for another's room, or take that room out of the directory when it ends; `astray` records the
latter.  `RoomsAreBound` says that this is all that can go wrong with the rooms.

`RoomList` is what `SendRoomList` really sends:
`pGameRoom` is never advanced, so the last room is written over the others, and the rest of the
message is what the buffer held.

### DataQueue and PacketFifo

The unit of memory is the packet head; a cell holds (packet, offset).  `DistillData` copies as
much as the head at the query position says and hands out `Blank` if what it copied is not one
whole packet.  The refinement reads the abstract queue off the ring: the heads of the stored
cells in the order a reallocation would copy them.

### AsynchronismEngine

Above the ring: `shared` is the buffer of an `AttemperEngine` that its callers fill under
`m_mutex` (`holder`), `callbacks` counts what was posted to the `io_context` and not run,
`handling` is the packet in the engine's own buffer.  `MaxPending` bounds the packets posted and
not read.

### RedBlackRound

Scores, bets, withdrawal, the settlement (`CalculateScore`) and the writing of scores, with the
two timers.  The system is the banker (no message puts a player into the banker's queue).  A deal
is a pair of hands from `Deals`, and `Outcome` what `CompareCard` and `GetCardType` make of it.
`rounds` bounds the rounds.  `owed` is a history variable: what the last settlement gave each
playing user.

*Numbers.*  `SCORE` is a `double` (`define/Define.h:29`), and nothing checks the `lBetScore` a client
sends for fractions (`TableFrameSink.cpp:616`).  In the model scores, limits and bets are natural
numbers, and bets are multiples of 1000, the unit of `wRevenueRatio`, so that the revenue is a
natural number too and nothing is truncated, as the code truncates nothing.  For whole numbers
below 2^53 a `double` is exact; that sums stay exact with bets of other fractions is an
idealisation: the totals, which the code keeps by adding and subtracting, may drift from the bets.

### CardLogic

A card is the byte of the code.  A hand is a set, because both operations sort a copy first;
`SortCardList` returns the one sorted list.  The second half of the module states the rules without
sorting or positions (`RuledType`, `IsStronger`), and `ComparisonFollowsTheRules` compares the two.

## 3. Runs

Every run finishes in under four minutes with two workers.

| Run | Instance | Shows |
|---|---|---|
| `room_plain` | 2 users, 2 objects, 3 connections of which index 2 is refused, 2 chairs, no trustee, no second logons; 125 thousand states | types, connections, chairs and statuses agree (`BindConsistent`, `SeatConsistent`, `StatusConsistent`), evicted connections are shut down, and under fairness `OfflineIsResolved` and `SitterPlays` |
| `room_trustee` | 2 users, 2 objects, 2 connections, 2 chairs, trustee, second logons; 696 thousand states up to symmetry | `ItemAccounting`, `LostOnlyToSecondLogon`, `BettorKeepsSeat`; evicted connections but index 0 are shut down |
| `timer_engine` | 2 timers, ticks of 2, elapses 1, 4 and 5, 1, 2 or unlimited repetitions; 2 thousand states | the countdown, the assertions of the search, refinement of `TimerService`, every timer fires |
| `link` | retry delay of 2 ticks, 2 faults anywhere, 1 user-status message waiting; 59 thousand states | `DownIsBeingHandled`, `LostIsReplaced` |
| `network` | 2 connections, 2 requests or packets; 354 thousand states | store and free list are exact, nobody is forgotten, order, whose messages and requests reach whom, refinement of `ConnectionEvents`, who leaves is reported |
| `data_queue` | packets of 2 and 3 units from two threads, 2 pending, reallocation by 2 packets, buffer up to 40 units; 23 thousand states | the copied stretches are where `RectifyBuffer` asserts, refinement of `PacketFifo`, a callback for each packet, and each is handled |
| `redblack` | 2 users, 2 chairs, scores of 1000 and 2000, bets of 1000, both limits 2000, three deals, 50 % revenue, 2 rounds; 1.6 million states up to symmetry; a deck of 11 cards for the comparison | no negative score, totals, limits, one timer armed, bettors are paid, the stronger hand's side pays and the banker loses it, the comparison follows the rules |
| `directory` | 2 game servers, a logon server, 2 users, 3 indexes, 2 visits, 1 fault, unwritten memory that may say 1; 2.7 million states | registrations and connections agree, who is collected next, users' items name live rooms, the list follows the changes |
| `room_two_chairs` | 2 users, 3 objects, 2 connections, 2 chairs, trustee, no limit for entering | violates `OneSeatPerUser` |
| `link_close` | 1 fault | violates `CloseIsNoticed` |
| `network_shutdown` | 1 connection, 1 request | violates `ShutDownCloses` |
| `directory_user` | 1 game server, 2 users, no fault | violates `EnterIsTaken` |

Why the bounds are enough.

- *Room.*  Two users and two chairs let one user take a chair another has left, and one logon
  recycle the other's object; three connections let a user switch connection while a third
  message is refused.  With no repeated logon a user has at most one object, so two objects
  suffice for two users; with them, a second logon takes the object that is left or that the other
  user gave back, whatever the first has come to.  One area is enough: the
  room only tests whether there is a bet.
- *Timer.*  Elapses of 1 and 5 are rounded, 4 is not; two timers set at any offset give every order
  of expiry, coincidence included.
- *Link.*  Two faults let a second loss happen while the first is being repaired; the other server
  may be down from the start for free.
- *Network.*  Two connections are one more than a reused item needs; two requests let one be made
  for the first connection and carried out on the second, and a close be overtaken by a packet.
- *Queue.*  The buffer is reallocated and wraps at each size; packets of different size make a wrap
  that leaves a gap at the end of the buffer.  Two threads and two pending packets let a post meet
  a callback that is running and one that is waiting.
- *Directory.*  Three indexes serve two game servers and the logon server, so a lost connection's
  index is needed before its Shut is handled; two users and two visits let an item be freed and
  handed on while its first user still finds it (the third visit, in which the first user meets it
  again, is that of `directory_user`).  One fault is a lost link of either kind, or a crash
  of any of the three processes, at any point.  What unwritten memory says is the number of a game
  server and of an index, so that it can pass for either kind of server and for a live room.
- *Red-black.*  Limits of two bets are reached; two rounds let bets, users and results of one
  round meet the next.  The three deals are one of each kind that the comparison treats apart and
  that pays the lucky area differently: equal hands, a pair decided by its rank, and the straights
  in which an ace is low.  The 11 cards make every type, straights from both ends of an ace and
  pairs on both sides of the limit between small and large.

`CHECK_DEADLOCK FALSE` is set where a process may really stop: in the timer engine and the link,
where `SetTimer` may crash the process, in the link, where `ServiceUnits::Conclude` stops it, and in
the network and the directory, which rest when the bounded connections, requests and visits are
used up.

*The violations.*  Each states what an assertion, a message or a comment of the code says, and TLC
finds a way in which the code does not do it; `PROJECT.json` quotes the lines.

- `OneSeatPerUser`: with the trustee option a player with a bet asks to sit down; the stand-up
  inside the sit-down handler only marks the player offline, and the handler goes on to enter the
  player on another chair.
- `CloseIsNoticed`: `recv` returning 0 is not looked at.
- `ShutDownCloses`: `ShutDownSocket` only marks the item; with nothing left to write, nothing
  closes the socket, and no read is started any more: only one that is still pending would notice
  the client leave.  (`LeaverIsReported` therefore leaves out who is marked and has none pending.)
- `EnterIsTaken`: an item that names no room any more is put on the free list and stays the user's;
  two users share it, and one of them is refused the room the other is in.

*Other disagreements* that were met while modelling; the models contain them, no run is kept for them.

- A second logon of a user with a password creates a second object under the same id
  (`RoomUserManager.cpp:335`), and the first is lost: `LostOnlyToSecondLogon` says that objects are
  lost in no other way, `room_trustee` checks it with such logons.  What the lost object still leads
  to is not covered: when its connection ends, `DeleteUserItem` frees the second object, whereas it
  asserts to find the user's own, and the second connection goes on naming a freed object.
- `dwSocketID != 0` leaves the connection with index 0 open when its user is removed
  (`AttemperEngineSink.cpp:526`); `EvictedIsShutDownButZero` says that it is the only one.
- A failed `connect()` whose socket `select` reports as readable (`HangupIsReadable`) sets the retry
  timer twice, which `SetTimer` asserts against (`TimerEngine.cpp:118`); `crashed` is that state.
- `GetGameStatus` is a stub (`TableFrame.cpp:312`), so the test of `OnUserPlayBet` ("not in the
  betting state now") always passes and bets are taken after the cards are open; `BetsAddUp` and
  `BettorIsPaid` hold nevertheless.
- `CMD_RedBlack.h` calls `INDEX_PLAYER` the red hand and `AREA_XIAN`, which pays with it, black.
- A request names an index.  One meant for the connection that had the index before may close or mark
  the next client; `RequestsMissOnlyTheEnded` says that this happens only to requests made before
  the sink handled the Shut.
- A close request falls through to the shut-down case (`TCPNetworkEngine.cpp:146-160`), modelled as
  `FallThrough`.

## 4. Fairness

- `GameRoom!FairSpec`: weak fairness of `Round`, the timer handlers and their loops.  The timer
  engine fires every armed timer (`ArmedFires`), the sink arms one in each phase
  (`OneTimerPending`), and the attemper thread finishes what it began.  No fairness of clients.
- `TimerEngine!FairSpec`: weak fairness of a tick.  The thread re-arms its wait after each tick;
  `SetTimer` holds the mutex for a few lines only.
- `NetworkEngine!FairSpec`: weak fairness of the steps the threads take of themselves, each a bounded
  number of times, so that fairness of their disjunction is fairness of each thread.  None of
  clients, packets, or writes becoming possible.
- `AsynchronismEngine!AsynchSpec`: weak fairness of the engine's thread and of a caller that holds
  `m_mutex` and has only to post.
- `CorrespondLink!FairSpec`: weak fairness of each thread and of the other server's start,
  registration and noticing of a loss; none of faults or of messages about users.

## 5. Proofs

`tlapm` checks every theorem to the last leaf.  They hold for all values of the constants that
satisfy the modules' `ASSUME`s, which only give the constants their types, and the assumptions
named below.  Every invariant, action property and refinement that a passing run checks is the
statement of one of them; the runs' liveness properties are not (end of this section).  Four
theorems state what no run checks: the safety under two of the liveness properties, the order of
the hands and the risk of a round.

**GameRoomProofs.**  `TypeCorrect` (`Spec => []TypeOK`), `AccountingHolds`
(`Spec => []ItemAccounting`) and `ObjectsAreLostToLogons` (`Spec => LostOnlyToSecondLogon`), for every
option and with repeated logons.
The methods are functions on `room`, so each is treated once by a lemma ("if the argument has the
type and the accounting, so has the result") and each handler cites the lemmas of the methods it
calls.  `ItemAccounting` alone is not inductive: that `DeleteUserItem` frees an object registered
under its *own* id, and `InsertUserItem` takes one that no id maps to, needs `TypeOK` and that an
object of `NoUser` is in neither structure, which is what `Accounting` adds for the free list.
For `LostOnlyToSecondLogon` each function but one keeps every object that is registered or free so
(`Keeps`), `DeleteUserItem` by moving it; only `InsertUserItem` overwrites an entry of the map, and
then with an object of the same user (`OnlyReplaced`, of every handler by `NextCarries`).

The second part proves `ConnectionsAgree`, `ChairsAgree`, `StatusesAgree` and
`OneSeatWithoutTrustee`, assuming `~Relogon` and `~OffLineTrustee`.  The three agreements are one
invariant (`Places`): what a connection or a chair names is registered and names it back, and a
registered user has the status that goes with both.  The functions break it on the way (`US_NULL`
is announced before the object leaves the map, a stand-up before its chair is cleared), so a lemma
per function says which fields of which object it changes, the agreement of all *other* objects
being kept, and a lemma per handler looks at the room it ends with.  The run `room_two_chairs`
shows that `~OffLineTrustee` cannot be dropped.

The third part is about what steps may do.  `PlayersKeepTheirSeats` (`Spec => BettorKeepsSeat`,
assuming `OffLineTrustee`): a lemma per function says that a chair with a bet keeps its user
(`Settled`), because with the trustee option the one function that empties chairs returns early
for whoever plays.  `TheEvictedAreShutDown` (`Spec => EvictedIsShutDownButZero`) and, assuming
`~Relogon` and `~OffLineTrustee`, `TheEvictedAreShutDownWithoutTrustee` (`Spec =>
EvictedIsShutDown`): each function is given the set of connections that lose their user, and shown
to ask to close all of them but index 0 and to withdraw no request (`Closing`).  Index 0 is the
exception because of `dwSocketID != 0`; without the trustee option and repeated logons it is none,
since `Places` then shows that no handler removes a user whom connection 0 names while it is open
(`ZeroIsSafe`).

The last part is the safety under `OfflineIsResolved` and `SitterPlays`, for all options and with
repeated logons: `RoundsResolveEverybody`.  The loops of `ConcludeGame` and `StartGame` go over
the *chairs*, so whoever is offline, ready or sitting must be on one.  `Seated` says this of a
room: the chair an object names holds that object, and an object whose status belongs to the table
names a chair.  (The converse, that the object in a chair names it, is false with the trustee
option.)  `Passed` says what the loops have achieved: nobody is offline on the chairs that
`ConcludeGame` has passed, nor on any during the kicks and `StartGame`, and whoever sits on a chair
that `StartGame` has passed is playing.  With `IInv` they are inductive, and yield that
nobody at all is offline when `StartGame` begins and nobody is
offline, ready or sitting when it has ended.  `EndOfRound` counts the steps the handler has yet to
take; each takes one, and no other handler runs meanwhile.  What liveness adds is that the timer
that starts the handler fires.

**TimerEngineProofs.**  `TypeCorrect`, `CountdownHolds`, `NeverTooLateHolds` and
`EngineImplementsService` (`Spec => Implements`).  The inductive invariant joins the types with
`CountdownIsEarliest` and `NeverTooLate`, and says that the elapses of active items are positive
multiples of the tick: the minimum after a search is then a multiple of the tick and positive, so
a tick that is not the last leaves every timer time to run, and the unsigned subtractions never
go below zero.  For the refinement, a `PassTime` step is an abstract tick on which no timer is
due (the minimum is above one tick) and a `SearchTimers` step one on which exactly the earliest
are.  `TimersFireOnTime` is the safety under `ArmedFires`, with the deadline that liveness leaves
out: every tick brings an active timer exactly one tick nearer or, at its last, fires it; setting
and killing others moves it by nothing; and it never has longer to wait than it was set to.

**AsynchronismEngineProofs.**  `EachHasItsCallback`
(`AsynchSpec => []CallbackPerPacket`) is inductive with `q.count \in Nat`: an insertion counts one packet
whether the ring is reallocated,
wraps or neither.

`DataStaysInItsStretches` (`AsynchSpec => []DataIsWhereItCounts`) and `TheRingIsAQueue`
(`AsynchSpec => Implements`) are about bytes, for any packet sizes and buffer sizes.
`DataIsWhereItCounts` is not inductive, as it does not say that a stretch is made of whole packets,
and `DistillData` advances by the size it finds where it reads.  `Whole(b, o, n, w)` says that n
cells of b from o on are the packets w one after the other; `RingIs(r, u, v)`, that the packets u
lie between query and terminal, and v from the front up to insert.  Two copies of whole stretches
next to each other are whole (`Joined`), which covers the reallocation, the bytes an insertion
leaves alone, and the packet it adds; the first packet can be taken off a stretch (`FirstOut`).
`RectifiedIs` goes through the cases of `RectifyBuffer` and shows that there is room afterwards
(`HasRoom`), the case `stuck` included, where both query and insert have reached the terminal.
That reading a stretch by its heads gives back the packets (`ReadBack`) is about a recursive
function; it is proved by its first disagreement with one written down directly.

**CardLogicProofs.**  `CompareCardFollowsTheRules`: for any two hands of three of the 52 cards the
code's comparison, which sorts and looks at positions, is that of the rules.  A hand is described
by the ranks of its cards from the highest down and by whether they have one colour
(`HandsAreDescribed`); both the code's type and keys and the rules' type and sets of ranks are
functions of that description (`CodeFinds`, `RulesSay`), and the comparison is decided on it type
by type (`TheStrongerWins`).

`CompareCardOrdersTheHands`: a hand draws with itself, of two hands one wins exactly if the other
loses, and "not weaker" is transitive, strictly so if one of the two comparisons is won.  A hand
has a weight of four numbers (`Weighs`: its type and what decides between hands of the type), and
the stronger hand is the one whose weight comes later in the lexicographic order, the exceptional
types (an ace that counts low, a pair and its third card) being in the weight already.

**RedBlackProofs.**  For any number of users, chairs and rounds, any scores, limits and deals:
`NoScoreIsNegative` (`Spec => []TypeOK`), `TotalsAreSums` (`BetsAddUp`), `NoLimitIsExceeded`
(`LimitsHold`), `WhatIsOwedIsPaid` (`BettorIsPaid`), `StrongerHandIsPaid` (`StrongerHandPays`),
`ComparedByTheRules` (`ComparisonFollowsTheRules`) and `NextPhaseComes` (`OneTimerPending`).
The first four share one invariant, `RoundInv`.  `LimitsHold` needs `BetsAddUp`, since the room
left in an area is computed from the total; a withdrawal takes a chair's bets off the totals, which
stay natural numbers only because they are sums; and `BettorIsPaid` needs that no user has two
chairs (`OneChairEach`), or a score would be written twice, and that what is owed is still in
`lUserWinScore` of the chair of that user (`OwedIsDue`), although users leave and come between the
settlement and the end of the round.  A sum over a set is a recursive function on its subsets;
facts about sums (one element taken out, one bet changed, two functions added) are proved by
looking at a smallest subset that would contradict them, which exists because a finite set's
subsets are well founded under inclusion (`SmallestSubset`).  `StrongerHandPays` cites
`TheStrongerWins`, so that the rules and not the code's comparison say which hand is the stronger,
and `RevenueIsExact`: with bets of whole thousands the revenue's division leaves nothing over.
`RiskOfARoundIsBounded` puts these together: whatever is dealt, and however bets were placed,
withdrawn and left behind, the bank wins at most twice `lAreaLimitScore` in a round and loses at
most eleven times as much (an area's bets once, ten times what is on the pair), and a chair loses
at most `lUserLimitScore` and wins at most ten times that.  Each chair's gross win lies between its
bets (`GrossIsBounded`), so their sum lies between the areas' totals (`SumBetween`), which
`BetsAddUp` and `LimitsHold` bound.
`MaxRounds` is only assumed to be positive and `Deck`, the cards whose hands are compared, to be
some of the 52.

**NetworkEngineProofs.**  `StoreStaysExact` (`Spec => []StoreIsExact`) and `EngineImplementsEvents`
(`Spec => Implements`), `NobodyIsForgotten` (`HandlersArePending`), `OthersKnowTheyAreOthers`
(`ToOthersOnlyAfterShut`), `OnlyTheEndedAreMissed` (`RequestsMissOnlyTheEnded`) and
`MessagesKeepTheirOrder` (`InOrder`), for any number of connections and requests.  `StoreIsExact` alone is not
inductive: that what is bound is not bound already needs that no two items serve one connection
and none one that has ended (`Serving`), that a fresh connection is served by no item and that a
new index is below the number of those accepted (`Accepting`), and that an item with a read pending
is known to the sink (`Reading`).  Most steps leave alone what these speak of: `Serves` says so of
an operation on an item, and `QuietStep` deals with all of them at once.  The same lemmas show each
step to be one of `ConnectionEvents` or none.

For the other four, one lemma (`NextMoves`) says of each step what becomes of messages (`Moves`)
and of the handlers pending (`Minding`), so that each invariant is kept case by case without
looking at the actions again.  `HandlersArePending` is inductive per item, once the item that is
being opened is excepted (`Attended`).  `ToOthersOnlyAfterShut` needs that a message for a
connection finds it under its index or the connection is already reported shut (`Addressed`), and
that an item in nobody's hands has served a connection that has ended (`HandedOn`).
`RequestsMissOnlyTheEnded` is `Addressed` said of the request the asynch thread works on (`Named`).
`InOrder`
needs that the numbers in queues ascend and are older than those of waiting requests (`Numbered`),
that a connection has one item, and that what its client has received is older than what waits
there (`InTurn`).

**CorrespondDirectoryProofs.**  `DirectoryMatchesConnections`, `CollectionIsExact`, `UsersRoomsLive`
and `LogonListFollows`, for any number of game servers, users, connections, messages and faults.
One invariant (`DInv`) serves all four, with no assumption on what unwritten memory says.
`RoomsAreBound` is exact only up to `astray`: a registration is the only thing that adds a room, so
what is in the directory is bound; what is bound is in it unless a Shut mistook another connection
for it, which `astray` remembers; and an assertion fails only if there is memory, now or then, that
looks like a registration (`Asserting`).  It needs that a game server's link, if
registered at all, is registered by that server (`Linked`), or a report could name a room that is
gone; `UsersAreInLiveRooms` needs that an item which names a room is still found through `users`
(`Living`), as those that are not found keep what they name when a room goes; and
`ListFollowsChanges`, which speaks of an empty inbox, needs what the messages on their way will do:
the last that speaks of a room says what became of it (`Settled`).

**CorrespondLinkProofs.**  `DownIsAlwaysHandled` (`Spec => []DownIsBeingHandled`), for any retry
delay, any number of faults and either behaviour of `select`.  While the link is down some
thread, event, request or timer is on its way to repair it; the invariant (`LInv`) says which: an
event of the link cannot be lost in a queue (`Queues`), the engine's countdown is that of the one
timer (`TimerOK`), so that an armed timer is one that will fire, and the configuration is the first
control and handled only while the status is Config (`Configured`), so that `connect` is requested
once.  `TheTimerIsTheEngines` (`Spec => Timer!Spec`) is the composition: whatever the other threads
do, the link changes the timer's state by calls of the engine alone, with one timer, the elapse
`ConnectTime` and one repetition, which satisfy the engine's assumptions; so the theorems of
`TimerEngineProofs` hold of the timer inside the link.

*Left to TLC*: liveness under fairness (`OfflineIsResolved`, `SitterPlays`, `ArmedFires`,
`LostIsReplaced`, `LeaverIsReported`, `PostedIsHandled`), since what it rests on, when an action is
`ENABLED`, is out of the prover's reach.  The safety each rests on is proved: for the first two
`RoundsResolveEverybody`, then `TimersFireOnTime`, `DownIsAlwaysHandled`, `NobodyIsForgotten` and
`EachHasItsCallback`.  No induction theorem that takes an operator can be used
with the installed provers: what is proved of sums, sequences and recursive functions is proved by
a smallest counterexample.

## 6. Not modelled

- Formats: packet layouts, encryption, compression, logging, configuration files, strings.
- The assembly of packets from the byte stream and write readiness in the socket service; its Stop.
- Database: `apilib/db` is a pool of threads around a client library; the servers call it
  synchronously, and a query's outcome is a choice in the handlers that make one.  The logon
  server's visitor logon is nothing but such queries and the answer to the client.
- Rooms with several tables, look-on users, androids: not reachable in the code or configuration.
- Player bankers, the records and the statistics sent to clients in the red-black game.
- Counts of players per room and kind in `RoomListManager`, which only the log shows.
- A second network thread and `SelectThreadWithMinConnections`; data races on containers
  (`m_BatchNetItemStore`, `m_writeQueue`), which are undefined behaviour beyond a choice of states.
- Connections whose client is gone before they are accepted: an exception ends the process.
- The subgame's service manager, a factory.
- Vendored libraries and the SQL files.

More than nine tenths of the source lines are the vendored asio, fmt and utf8cpp; what the models
take from them is how the code uses a socket and an `io_context`.  The share of the repository that
is modelled is therefore small whatever is added, although most of the servers' stateful code is
among it.

## 7. Order of the modules

The room and the timer engine came first, because everything else is called from their handlers;
then the link, the ring and the round; then the network engine, whose abstract events the sinks
rest on, the directory and the asynchronism engine.  Worth adding: the visitor logon of the logon
server with a modelled database, if it comes to keep state of its own; player bankers, when a
message fills their queue.
