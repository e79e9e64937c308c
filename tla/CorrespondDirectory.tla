------------------------ MODULE CorrespondDirectory ------------------------
(***************************************************************************)
(* The correspond server's directory of rooms and users, the game servers  *)
(* that register with it and report who enters and leaves, and the logon   *)
(* server that keeps the list of rooms it is sent.                         *)
(*                                                                         *)
(* A connection delivers in order and a server has one at a time, so that  *)
(* a report is handled in the step that sends it, or lost with the link.   *)
(* What is sent to the logon server waits in its inbox.  The directory is  *)
(* told of the end of a connection later than it ends.                     *)
(*                                                                         *)
(* Nothing writes the correspond server's bind parameters before the first *)
(* registration or Shut on their index: until then they hold any value.    *)
(* Nothing reads what a user's status, or a room's vUserID, is set to.     *)
(* The build defines NDEBUG: a failed assertion is not stopped at.         *)
(***************************************************************************)
EXTENDS Naturals, Sequences, FiniteSets, SequencesExt, FiniteSetsExt

CONSTANTS
  Servers,     \* the game servers, by wServerID
  Users,
  Indexes,     \* connection indexes
  MaxFaults,   \* bounds the connections that break and the processes that restart
  MaxVisits,   \* bounds how often users enter rooms
  MaxInbox,    \* bounds what waits for the logon server
  Leftover,    \* what memory may hold where nobody wrote a wServiceID
  Junk,        \* a room that is none: memory SendRoomList did not write to
  None

ASSUME DirectoryAssumption ==
  /\ Servers \subseteq Nat /\ IsFiniteSet(Servers) /\ IsFiniteSet(Users)
  /\ {MaxFaults, MaxVisits, MaxInbox} \subseteq Nat
  /\ Junk \notin Servers /\ None \notin Servers \cup Users \cup Indexes

VARIABLES
  bind,        \* m_pBindParameter: ServiceKind and wServiceID
  rooms,       \* the keys of m_ActiveGameRoom
  logons,      \* the keys of m_ActiveGameLogon
  users,       \* m_ActiveUserItem: from users to items
  items,       \* vGameRoomID of every user item: how often it names a room
  free,        \* m_FreeUserItem
  collect, waiting,   \* m_wCollectItem and m_WaitCollectItemArray
  allowed,     \* connections that batches are sent to
  asserted,    \* the assertions that failed in the last step
  astray,      \* what Shut took for the registration of a connection that had none
  conn,        \* the connections of the directory
  link,        \* each game server's
  retired,     \* game servers that were refused: m_bNeekCorrespond is FALSE
  inside,      \* who is in each room
  logonLink, inbox, list,   \* the logon server: connection, messages, m_RoomList
  since,       \* what became of a room since the logon server registered
  visits, faults

manager == <<rooms, users, items, free>>
server  == <<bind, manager, logons, collect, waiting, allowed, astray>>
game    == <<link, retired, inside>>
logon   == <<logonLink, inbox, list, since>>
vars == <<server, asserted, conn, game, logon, visits, faults>>

Game(s)   == [kind |-> "game", service |-> s]
Plaza(k)  == [kind |-> "plaza", service |-> k]
Unbound   == [kind |-> "none", service |-> None]
Unwritten == [kind |-> "unwritten", service |-> None]

\* What memory that nobody wrote to may say.
Memory ==
  {Unbound} \cup {Game(s) : s \in Leftover} \cup {Plaza(k) : k \in Leftover}

\* What a bind parameter may say
Params ==
  {Unwritten} \cup Memory \cup {Game(s) : s \in Servers} \cup {Plaza(k) : k \in Indexes}

\* What a message to the logon server may call a room
RoomIds == Servers \cup Leftover \cup {Junk}

\* What the bind parameter of index k may say when it is read.
Found(k) == IF bind[k] = Unwritten THEN Memory ELSE {bind[k]}

\* Which of the free indexes the engine hands out does not matter here.
FreeIndex == CHOOSE k \in Indexes : conn[k] = "free"

-----------------------------------------------------------------------------
(* CGlobalInfoManager                                                      *)

Names(k) == {s \in Servers : items[k][s] > 0}

\* Mutation: the users of a room that goes are kept.
DeleteRoomItemKeepsUsers(s) == rooms' = rooms \ {s} /\ UNCHANGED <<users, items, free>>

\* The room is taken out of the items of its users.  One that names no room then
\* is no longer found, and is not freed either.
DeleteRoomItem(s) ==
  IF s \notin rooms THEN UNCHANGED manager
  ELSE /\ rooms' = rooms \ {s} /\ UNCHANGED free
       /\ items' = [k \in DOMAIN items |->
            IF k \in Range(users) THEN [items[k] EXCEPT ![s] = 0] ELSE items[k]]
       /\ users' = [u \in {v \in DOMAIN users : ~(Names(users[v]) \subseteq {s})} |-> users[u]]

\* A user who is found keeps the item, one who is not gets one: the last that was
\* freed, whatever it names.
ActiveUserItem(u, s) ==
  LET k == IF u \in DOMAIN users THEN users[u]
           ELSE IF free = <<>> THEN Len(items) + 1 ELSE Last(free)
      new == k = Len(items) + 1
  IN  IF s \notin rooms THEN asserted' = {"room"} /\ UNCHANGED manager
      ELSE IF u \in DOMAIN users /\ s \in Names(k)
      THEN asserted' = {"enter"} /\ UNCHANGED manager
      ELSE /\ asserted' = {} /\ UNCHANGED rooms
           /\ free' = IF u \in DOMAIN users \/ free = <<>> THEN free ELSE Front(free)
           /\ users' = [v \in DOMAIN users \cup {u} |-> IF v = u THEN k ELSE users[v]]
           /\ items' = IF new THEN Append(items, [t \in Servers |-> IF t = s THEN 1 ELSE 0])
                       ELSE [items EXCEPT ![k][s] = @ + 1]

\* The item is freed when it names no room, and stays the user's.
DeleteUserItem(u, s) ==
  IF u \notin DOMAIN users THEN asserted' = {"leave"} /\ UNCHANGED manager
  ELSE LET k == users[u]
       IN  IF s \in Names(k) \ rooms THEN asserted' = {"room"} /\ UNCHANGED manager
           ELSE /\ asserted' = {} /\ UNCHANGED <<rooms, users>>
                /\ items' = [items EXCEPT ![k] = [t \in Servers |-> IF t = s THEN 0 ELSE @[t]]]
                /\ free' = IF Names(k) \subseteq {s} THEN Append(free, k) ELSE free

-----------------------------------------------------------------------------
(* What the logon server is sent                                           *)

Room(op, s) == [op |-> op, rooms |-> {s}]

SendDataBatch(op, s) ==
  IF logonLink \in allowed
  THEN /\ inbox' = Append(inbox, Room(op, s))
       /\ since' = [t \in Servers |-> IF t = s THEN op ELSE since[t]]
  ELSE UNCHANGED <<inbox, since>>

\* Each room is written over the one before: the last is sent, and in the places
\* of the others what the buffer held.
RoomList ==
  IF rooms = {} THEN {{}}
  ELSE {{Max(rooms)} \cup junk : junk \in
          {j \in SUBSET (Servers \cup {Junk}) :
             IF Cardinality(rooms) = 1 THEN j = {}
             ELSE Cardinality(j) \in 1 .. Cardinality(rooms) - 1}}

-----------------------------------------------------------------------------
(* The correspond server: CAttemperEngineSink                              *)

\* SUB_CS_C_REGISTER_ROOM.  An id that is taken is refused, and the game server
\* does not come back.
OnRegisterRoom(s) ==
  LET k == link[s]
  IN  /\ k # None /\ k \notin allowed
      /\ IF s \in rooms
         THEN /\ conn' = [conn EXCEPT ![k] = "lost"]
              /\ link' = [link EXCEPT ![s] = None] /\ retired' = retired \cup {s}
              /\ asserted' = {} /\ UNCHANGED <<server, inbox, since>>
         ELSE /\ bind' = [bind EXCEPT ![k] = Game(s)]
              /\ rooms' = rooms \cup {s}
              /\ asserted' = {}
              /\ SendDataBatch("insert", s)
              /\ allowed' = allowed \cup {k}
              /\ IF collect = None THEN collect' = k /\ UNCHANGED waiting
                                   ELSE waiting' = Append(waiting, k) /\ UNCHANGED collect
              /\ UNCHANGED <<users, items, free, logons, conn, link, retired, astray>>
  /\ UNCHANGED <<inside, logonLink, list, visits, faults>>

\* The logon server connects: SUB_CS_C_REGISTER_LOGON.
OnRegisterLogon ==
  /\ logonLink = None /\ \E k \in Indexes : conn[k] = "free"
  /\ LET k == FreeIndex
     IN  /\ conn' = [conn EXCEPT ![k] = "open"] /\ logonLink' = k
         /\ bind' = [bind EXCEPT ![k] = Plaza(k)]
         /\ asserted' = IF k \in logons THEN {"logon"} ELSE {}
         /\ logons' = logons \cup {k}
         /\ \E entries \in RoomList : inbox' = Append(inbox, [op |-> "insert", rooms |-> entries])
         /\ allowed' = allowed \cup {k}
         /\ since' = [s \in Servers |-> "none"]
  /\ UNCHANGED <<manager, collect, waiting, astray, game, list, visits, faults>>

\* Mutation: the index keeps its place among those that wait.
LeaveCollectStaysWaiting(k) ==
  IF k = collect /\ waiting # <<>>
  THEN collect' = Last(waiting) /\ waiting' = Front(waiting)
  ELSE collect' = (IF k = collect THEN None ELSE collect) /\ UNCHANGED waiting

\* A game server that was being asked for its users makes way for the last that
\* waits; one that waits does not wait any more.
LeaveCollect(k) ==
  IF k = collect
  THEN IF waiting = <<>> THEN collect' = None /\ UNCHANGED waiting
       ELSE collect' = Last(waiting) /\ waiting' = Front(waiting)
  ELSE waiting' = RemoveFirst(waiting, k) /\ UNCHANGED collect

\* The registration of a connection that ended is taken back, or what the bind
\* parameter says when nothing was registered on it.
Conclude(k) ==
  /\ conn[k] = "lost" /\ conn' = [conn EXCEPT ![k] = "free"]
  /\ LET b == bind[k]
     IN  /\ IF b.kind = "game"
            THEN /\ LeaveCollect(k) /\ SendDataBatch("remove", b.service)
                 /\ DeleteRoomItem(b.service)
            ELSE UNCHANGED <<collect, waiting, inbox, since, manager>>
         /\ logons' = IF b.kind = "plaza" THEN logons \ {b.service} ELSE logons
         /\ asserted' = IF \/ b.kind = "game" /\ b.service \notin rooms
                           \/ b.kind = "plaza" /\ b.service \notin logons
                        THEN {"delete"} ELSE {}
         /\ astray' = IF k \notin allowed /\ b.kind # "none" THEN astray \cup {b} ELSE astray
  /\ allowed' = allowed \ {k}
  /\ UNCHANGED <<game, logonLink, list, visits, faults>>

\* Mutation: the bind parameter is not cleared.
OnEventTCPNetworkShutKeepsBind(k) == Conclude(k) /\ UNCHANGED bind

OnEventTCPNetworkShut(k) == Conclude(k) /\ bind' = [bind EXCEPT ![k] = Unbound]

\* The room that a report of game server s is taken to be about
ServiceOf(s) == bind[link[s]].service

\* A report of game server s, handled by Handler: lost without a link, and the
\* connection closed if it is not that of a game server.
Report(s, Handler) ==
  IF link[s] = None THEN asserted' = {} /\ UNCHANGED <<manager, conn, link>>
  ELSE IF bind[link[s]].kind = "game" THEN Handler /\ UNCHANGED <<conn, link>>
  ELSE /\ conn' = [conn EXCEPT ![link[s]] = "lost"] /\ link' = [link EXCEPT ![s] = None]
       /\ asserted' = {} /\ UNCHANGED manager

\* SUB_CS_C_USER_ENTER
UserEnter(s, u) ==
  /\ u \notin inside[s] /\ visits < MaxVisits /\ visits' = visits + 1
  /\ inside' = [inside EXCEPT ![s] = @ \cup {u}]
  /\ Report(s, ActiveUserItem(u, ServiceOf(s)))
  /\ UNCHANGED <<bind, logons, collect, waiting, allowed, astray, retired, logon, faults>>

\* SUB_CS_C_USER_LEAVE
UserLeave(s, u) ==
  /\ u \in inside[s] /\ inside' = [inside EXCEPT ![s] = @ \ {u}]
  /\ Report(s, DeleteUserItem(u, ServiceOf(s)))
  /\ UNCHANGED <<bind, logons, collect, waiting, allowed, astray>>
  /\ UNCHANGED <<retired, logon, visits, faults>>

-----------------------------------------------------------------------------
(* The logon server: CRoomListManager                                      *)

\* Mutation: the latest message is handled first.
OnTCPSocketMainServiceInfoLatest ==
  /\ inbox # <<>> /\ inbox' = Front(inbox)
  /\ LET m == Last(inbox)
     IN  list' = IF m.op = "insert" THEN list \cup m.rooms ELSE list \ m.rooms
  /\ asserted' = {}
  /\ UNCHANGED <<server, conn, game, logonLink, since, visits, faults>>

\* SUB_CS_S_ROOM_INSERT and SUB_CS_S_ROOM_REMOVE.  SUB_CS_S_ROOM_INFO, which goes
\* before a list, is to take the rooms out that are not in it, and does nothing.
OnTCPSocketMainServiceInfo ==
  /\ inbox # <<>> /\ inbox' = Tail(inbox)
  /\ LET m == Head(inbox)
     IN  list' = IF m.op = "insert" THEN list \cup m.rooms ELSE list \ m.rooms
  /\ asserted' = {}
  /\ UNCHANGED <<server, conn, game, logonLink, since, visits, faults>>

-----------------------------------------------------------------------------
(* Connections and processes                                               *)

\* A game server connects, with its users inside: OnEventTCPNetworkBind, which
\* writes neither ServiceKind nor wServiceID.
Connect(s) ==
  /\ link[s] = None /\ s \notin retired /\ \E k \in Indexes : conn[k] = "free"
  /\ link' = [link EXCEPT ![s] = FreeIndex] /\ conn' = [conn EXCEPT ![FreeIndex] = "open"]
  /\ \E b \in Found(FreeIndex) : bind' = [bind EXCEPT ![FreeIndex] = b]
  /\ asserted' = {}
  /\ UNCHANGED <<manager, logons, collect, waiting, allowed, astray>>
  /\ UNCHANGED <<retired, inside, logon, visits, faults>>

\* A connection breaks, or the process at its other end stops, and starts again
\* with an empty room.
LinkLost(s) ==
  /\ faults < MaxFaults /\ faults' = faults + 1 /\ link[s] # None
  /\ conn' = [conn EXCEPT ![link[s]] = "lost"] /\ link' = [link EXCEPT ![s] = None]
  /\ inside' \in {inside, [inside EXCEPT ![s] = {}]}
  /\ asserted' = {} /\ UNCHANGED <<server, retired, logon, visits>>

\* What was on its way to the logon server is lost from some message on.
LogonLinkLost ==
  /\ faults < MaxFaults /\ faults' = faults + 1 /\ logonLink # None
  /\ conn' = [conn EXCEPT ![logonLink] = "lost"] /\ logonLink' = None
  /\ \/ \E n \in 0 .. Len(inbox) : inbox' = SubSeq(inbox, 1, n) /\ UNCHANGED list
     \/ inbox' = <<>> /\ list' = {}                 \* the process stops as well
  /\ asserted' = {} /\ UNCHANGED <<server, game, since, visits>>

\* The correspond server stops, and starts with an empty directory.
Restart ==
  /\ faults < MaxFaults /\ faults' = faults + 1
  /\ bind' = [k \in Indexes |-> Unwritten] /\ rooms' = {} /\ logons' = {}
  /\ users' = [u \in {} |-> 0] /\ items' = <<>> /\ free' = <<>>
  /\ collect' = None /\ waiting' = <<>> /\ allowed' = {} /\ astray' = {}
  /\ conn' = [k \in Indexes |-> "free"]
  /\ link' = [s \in Servers |-> None] /\ logonLink' = None /\ asserted' = {}
  /\ UNCHANGED <<retired, inside, inbox, list, since, visits>>

-----------------------------------------------------------------------------
Init ==
  /\ bind = [k \in Indexes |-> Unwritten] /\ rooms = {} /\ logons = {}
  /\ users = [u \in {} |-> 0] /\ items = <<>> /\ free = <<>>
  /\ collect = None /\ waiting = <<>> /\ allowed = {} /\ astray = {} /\ asserted = {}
  /\ conn = [k \in Indexes |-> "free"]
  /\ link = [s \in Servers |-> None] /\ retired = {} /\ inside = [s \in Servers |-> {}]
  /\ logonLink = None /\ inbox = <<>> /\ list = {} /\ since = [s \in Servers |-> "none"]
  /\ visits = 0 /\ faults = 0

Next ==
  \/ \E s \in Servers :
       Connect(s) \/ LinkLost(s) \/ (Len(inbox) < MaxInbox /\ OnRegisterRoom(s))
  \/ \E s \in Servers, u \in Users : UserEnter(s, u) \/ UserLeave(s, u)
  \/ \E k \in Indexes : Len(inbox) < MaxInbox /\ OnEventTCPNetworkShut(k)
  \/ Len(inbox) < MaxInbox /\ OnRegisterLogon
  \/ OnTCPSocketMainServiceInfo \/ LogonLinkLost \/ Restart

Spec == Init /\ [][Next]_vars

-----------------------------------------------------------------------------
\* Types of the three servers' variables
TypeOK ==
  /\ bind \in [Indexes -> Params] /\ astray \subseteq Params
  /\ rooms \subseteq Servers /\ logons \cup allowed \subseteq Indexes
  /\ DOMAIN users \subseteq Users /\ \A u \in DOMAIN users : users[u] \in 1 .. Len(items)
  /\ items \in Seq([Servers -> Nat]) /\ free \in Seq(1 .. Len(items))
  /\ collect \in Indexes \cup {None} /\ waiting \in Seq(Indexes)
  /\ asserted \subseteq {"enter", "leave", "room", "logon", "delete"}
  /\ conn \in [Indexes -> {"free", "open", "lost"}]
  /\ link \in [Servers -> Indexes \cup {None}] /\ retired \subseteq Servers
  /\ inside \in [Servers -> SUBSET Users] /\ logonLink \in Indexes \cup {None}
  /\ inbox \in Seq([op : {"insert", "remove"}, rooms : SUBSET RoomIds])
  /\ list \subseteq RoomIds /\ since \in [Servers -> {"none", "insert", "remove"}]
  /\ visits \in 0 .. MaxVisits /\ faults \in 0 .. MaxFaults

\* A room or logon server is in the directory only while a connection that it
\* registered on is there and bound to it.  It is in the directory all that time,
\* no second connection is bound to it, and no assertion on rooms and logon servers
\* fails (GlobalInfoManager.cpp), unless memory that nobody wrote to says of another
\* connection what a registration would.  An index that is free claims nothing.
RoomsAreBound ==
  LET bound(b) == {k \in allowed : bind[k] = b}
      claims(k) == bind[k].kind \in {"game", "plaza"}
  IN  /\ TypeOK
      /\ \A k \in Indexes : conn[k] = "free" => k \notin allowed /\ ~claims(k)
      /\ \A s \in rooms : bound(Game(s)) # {}
      /\ \A s \in Servers : Game(s) \notin astray =>
           Cardinality(bound(Game(s))) = IF s \in rooms THEN 1 ELSE 0
      /\ \A k \in logons : bound(Plaza(k)) = {k}
      /\ \A k \in Indexes : bound(Plaza(k)) # {} /\ Plaza(k) \notin astray => k \in logons
      /\ \/ asserted \subseteq {"enter", "leave"}
         \/ astray # {} \/ \E k \in Indexes \ allowed : claims(k)

\* One game server is asked for its users and the others wait, each once,
\* whichever of them goes: m_wCollectItem never names a connection that ended.
CollectIsExact ==
  LET games == {k \in allowed : bind[k].kind = "game"}
  IN  IF games = {} THEN collect = None /\ waiting = <<>>
      ELSE /\ collect \in games /\ Range(waiting) = games \ {collect}
           /\ Len(waiting) = Cardinality(games) - 1

\* The item of a user names rooms of the directory only, so that the room a user
\* leaves is found (GlobalInfoManager.cpp:128), shared and reused as items are.
UsersAreInLiveRooms == \A k \in DOMAIN items : Names(k) \subseteq rooms

\* What became of a room since the logon server registered is what its list says
\* once it has handled all it was sent.
ListFollowsChanges ==
  logonLink # None /\ inbox = <<>> =>
    \A s \in Servers : /\ since[s] = "insert" => s \in list
                       /\ since[s] = "remove" => s \notin list

\* ActiveUserItem asserts that a user who enters a room is not in it yet
\* (GlobalInfoManager.cpp:176).
EnterIsTaken == "enter" \notin asserted
=============================================================================
