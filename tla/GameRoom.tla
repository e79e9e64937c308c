------------------------------ MODULE GameRoom ------------------------------
(***************************************************************************)
(* One game room: the handlers CAttemperEngineSink runs, one at a time, on *)
(* the attemper thread, with the room's user manager and its one table     *)
(* (wTableCount = 1, as configured).                                       *)
(*                                                                         *)
(* Four structures point at the same CRoomUserItem objects: the bind slots *)
(* of the connections, the map from user ids, the free list and the chairs *)
(* of the table.  Every handler changes several of them through calls that *)
(* call back (SetUserStatus -> OnEventUserItemStatus -> DeleteUserItem), so *)
(* a handler is a composition of functions on the record `room'.           *)
(*                                                                         *)
(* wTableID and wChairID are always written together: an item is at the    *)
(* table iff its chair is not NoChair.                                     *)
(***************************************************************************)
EXTENDS Integers, FiniteSets

CONSTANTS
  Users,           \* user ids that log on
  Items,           \* CRoomUserItem objects; bounds how many are ever created
  LinkCount,       \* connection indices are 0 .. LinkCount-1 (MAX_LINK_COUNT)
  MaxPlayer,       \* wMaxPlayer: GetBindParameter refuses indices from here on
  ChairCount,      \* wChairCount
  Areas,           \* betting areas 0 .. AREA_MAX-1
  OffLineTrustee,  \* cbOffLineTrustee = TRUE
  EnterLimit,      \* lMinEnterScore # 0
  ChipsSet,        \* the chip table next to the bets in memory is not all zero
  Relogon,         \* a client may log on with a password although the room
                   \* still holds an item of that user
  NoItem, NoUser   \* null pointer; the user of an object not yet created

Socket == 0 .. LinkCount - 1
Chair  == 0 .. ChairCount - 1
NoChair == -1      \* INVALID_CHAIR (and INVALID_TABLE)
NoBind  == -1      \* INVALID_WORD as m_wBindIndex

ASSUME RoomAssumption ==
  /\ LinkCount \in Nat \ {0} /\ MaxPlayer \in 1 .. LinkCount
  /\ ChairCount \in Nat \ {0}
  /\ 0 \in Areas
  /\ {OffLineTrustee, EnterLimit, ChipsSet, Relogon} \subseteq BOOLEAN
  /\ NoItem \notin Items /\ NoUser \notin Users

Status == {"US_NULL", "US_FREE", "US_SIT", "US_READY", "US_PLAYING", "US_OFFLINE"}

VARIABLES
  linked,  \* indices whose Bind event was handled and whose Shut was not
  room,    \* connections, map, free list, chairs and the fields of the objects
  bet,     \* m_lPlayBet # 0, per chair the areas with a bet
  round,   \* "none" before the first sit-down, then "bet" or "end"
  pc, at   \* the GAME_END handler's loops over the chairs: which, and where

vars == <<linked, room, bet, round, pc, at>>

\* m_bGameStarted: set by the first StartGame, cleared only while ConcludeGame runs
Started == round # "none" /\ pc = "idle"

-----------------------------------------------------------------------------
(* CRoomUserItem and CRoomUserManager                                      *)

Live(r) == {r.map[u] : u \in Users} \ {NoItem}

\* Mutations of the next operator: the item stays registered, or is not kept.
DeleteUserItemKeepsEntry(r, i) ==
  LET u == r.user[i]
  IN  IF r.map[u] = NoItem THEN r ELSE [r EXCEPT !.free = @ \cup {r.map[u]}]

DeleteUserItemDropsItem(r, i) ==
  LET u == r.user[i]
  IN  IF r.map[u] = NoItem THEN r ELSE [r EXCEPT !.map[u] = NoItem]

\* The object moved to the free list is the one the map holds for the user id,
\* not the one passed in.
DeleteUserItem(r, i) ==
  LET u == r.user[i]
  IN  IF r.map[u] = NoItem THEN r
      ELSE [r EXCEPT !.free = @ \cup {r.map[u]}, !.map[u] = NoItem]

\* Mutation: the connection of a removed user stays open.
LeaveConnectionOpen(r, i) ==
  LET s == r.index[i]
  IN  IF s \notin Socket THEN r
      ELSE [r EXCEPT !.bind[s] = IF @ = i THEN NoItem ELSE @]

\* ShutDownSocket(dwSocketID): a request only; the Shut event comes later
LeaveConnection(r, i) ==
  LET s == r.index[i]
  IN  IF s \notin Socket THEN r
      ELSE [r EXCEPT !.bind[s] = IF @ = i THEN NoItem ELSE @,
                     !.shut = IF s # 0 /\ s \in linked THEN @ \cup {s} ELSE @]

SetUserStatus(r, i, status, chair) ==
  LET changed == [r EXCEPT !.status[i] = status, !.chair[i] = chair]
  IN  IF status = "US_NULL"
      THEN DeleteUserItem(LeaveConnection(changed, i), i)
      ELSE changed

\* back() of the free list, or a new object when it is empty
Allocatable(r) ==
  IF r.free # {} THEN r.free ELSE {i \in Items : r.user[i] = NoUser}

InsertUserItem(r, i, u, s) ==
  [r EXCEPT !.free = @ \ {i}, !.map[u] = i, !.bind[s] = i,
            !.user[i] = u, !.status[i] = "US_FREE",
            !.chair[i] = NoChair, !.index[i] = s]

-----------------------------------------------------------------------------
(* CTableFrame and the bets of its sink                                    *)

\* Mutation: the loop starts at area 1.
OnEventGetBetStatusFromOne(c) == bet[c] \ {0} # {}

\* The loop reads one element past the chair's row: the first area of the next
\* chair, or the chip table behind the last row.
OnEventGetBetStatus(c) ==
  \/ bet[c] # {}
  \/ c + 1 \in Chair /\ 0 \in bet[c + 1]
  \/ c + 1 \notin Chair /\ ChipsSet

\* Mutation: the chair still names the user that stood up.
PerformStandUpActionKeepsChair(r, i) ==
  LET c == r.chair[i]
      status == r.status[i]
  IN  IF c = NoChair \/ r.seat[c] # i THEN r
      ELSE SetUserStatus(r, i, IF status = "US_OFFLINE" THEN "US_NULL" ELSE "US_FREE",
                         NoChair)

PerformStandUpAction(r, i) ==
  LET c == r.chair[i]
      status == r.status[i]
  IN  IF c = NoChair THEN r
      ELSE IF /\ Started /\ status \in {"US_PLAYING", "US_OFFLINE"}
              /\ OffLineTrustee /\ OnEventGetBetStatus(c)
           THEN SetUserStatus(r, i, "US_OFFLINE", c)
      ELSE IF r.seat[c] # i THEN r
      ELSE SetUserStatus([r EXCEPT !.seat[c] = NoItem], i,
                         IF status = "US_OFFLINE" THEN "US_NULL" ELSE "US_FREE",
                         NoChair)

PerformSitDownAction(r, c, i) ==
  IF r.seat[c] # NoItem THEN r
  ELSE SetUserStatus([r EXCEPT !.seat[c] = i], i,
                     IF Started THEN "US_READY" ELSE "US_PLAYING", c)

OnEventUserOffLine(r, i) ==
  LET status == r.status[i]
  IN  IF status \in {"US_PLAYING", "US_OFFLINE"}
      THEN SetUserStatus(r, i, "US_OFFLINE", r.chair[i])
      ELSE IF status \in {"US_READY", "US_SIT"}
      THEN SetUserStatus(PerformStandUpAction(r, i), i, "US_NULL", NoChair)
      ELSE r

\* GetNullChairID: the lowest empty chair
NullChairs(r) ==
  {c \in Chair : r.seat[c] = NoItem /\ \A d \in Chair : d < c => r.seat[d] # NoItem}

-----------------------------------------------------------------------------
(* Network events                                                          *)

OnEventTCPNetworkBind(s) ==
  /\ pc = "idle" /\ s \notin linked
  /\ linked' = linked \cup {s}
  /\ UNCHANGED <<room, bet, round, pc, at>>

\* memset of the slot follows the user's own handling
OnEventTCPNetworkShut(s) ==
  /\ pc = "idle" /\ s \in linked
  /\ linked' = linked \ {s}
  /\ LET i == room.bind[s]
         left == IF i = NoItem THEN room
                 ELSE IF room.chair[i] # NoChair
                 THEN OnEventUserOffLine([room EXCEPT !.index[i] = NoBind], i)
                 ELSE SetUserStatus(room, i, "US_NULL", NoChair)
     IN  room' = [left EXCEPT !.bind[s] = NoItem, !.shut = @ \ {s}]
  /\ UNCHANGED <<bet, round, pc, at>>

\* A handler that returns false has its connection closed by CAttemperEngine.
Refuse(s) == room' = [room EXCEPT !.shut = @ \cup {s}]

\* Mutations: the old connection keeps the user, is not closed, or the user stays
\* offline.
SwitchUserItemConnectKeepsSource(r, i, s) ==
  LET attached == [r EXCEPT !.bind[s] = i, !.index[i] = s]
  IN  IF r.status[i] = "US_OFFLINE"
      THEN SetUserStatus(attached, i, "US_PLAYING", r.chair[i]) ELSE attached

SwitchUserItemConnectLeavesOpen(r, i, s) ==
  LET source == r.index[i]
      detached == IF source \notin Socket THEN r
                  ELSE [r EXCEPT !.bind[source] = IF @ = i THEN NoItem ELSE @]
      attached == [detached EXCEPT !.bind[s] = i, !.index[i] = s]
  IN  IF r.status[i] = "US_OFFLINE"
      THEN SetUserStatus(attached, i, "US_PLAYING", r.chair[i]) ELSE attached

SwitchUserItemConnectStaysOffline(r, i, s) ==
  LET source == r.index[i]
      detached == IF source \notin Socket THEN r
                  ELSE [r EXCEPT !.bind[source] = IF @ = i THEN NoItem ELSE @,
                                 !.shut = @ \cup {IF source \in linked
                                                  THEN source ELSE 0}]
  IN  [detached EXCEPT !.bind[s] = i, !.index[i] = s]

SwitchUserItemConnect(r, i, s) ==
  LET source == r.index[i]
      detached == IF source \notin Socket THEN r
                  ELSE [r EXCEPT !.bind[source] = IF @ = i THEN NoItem ELSE @,
                                 !.shut = @ \cup {IF source \in linked
                                                  THEN source ELSE 0}]
      attached == [detached EXCEPT !.bind[s] = i, !.index[i] = s]
  IN  IF r.status[i] = "US_OFFLINE"
      THEN SetUserStatus(attached, i, "US_PLAYING", r.chair[i])
      ELSE attached

\* m_szLogonPass is never assigned: only an empty password matches it.
OnTCPNetworkSubMBLogonVisitor(s, u, emptyPass) ==
  /\ pc = "idle" /\ s \in linked
  /\ IF s >= MaxPlayer \/ room.bind[s] # NoItem THEN Refuse(s)
     ELSE IF room.map[u] # NoItem /\ emptyPass
     THEN room' = SwitchUserItemConnect(room, room.map[u], s)
     ELSE \/ Refuse(s)           \* the account query finds nothing
          \/ /\ Relogon \/ room.map[u] = NoItem
             /\ \E i \in Allocatable(room) : room' = InsertUserItem(room, i, u, s)
  /\ UNCHANGED <<linked, bet, round, pc, at>>

\* The request may name any chair; an empty one is searched all the same.
OnTCPNetworkSubUserSitDown(s, c) ==
  /\ pc = "idle" /\ s \in linked
  /\ LET i == room.bind[s]
     IN  IF s >= MaxPlayer \/ i = NoItem
         THEN Refuse(s) /\ UNCHANGED round
         ELSE IF room.seat[c] = i \/ room.status[i] = "US_PLAYING"
         THEN UNCHANGED <<room, round>>
         ELSE LET stood == PerformStandUpAction(room, i)
                  found == NullChairs(stood)
                  chair == IF found = {} THEN c ELSE CHOOSE d \in found : TRUE
              IN  /\ room' = PerformSitDownAction(stood, chair, i)
                  /\ round' = IF round = "none" THEN "bet" ELSE round
  /\ UNCHANGED <<linked, bet, pc, at>>

OnTCPNetworkSubUserStandUp(s, force) ==
  /\ pc = "idle" /\ s \in linked
  /\ LET i == room.bind[s]
     IN  IF s >= MaxPlayer \/ i = NoItem THEN Refuse(s)
         ELSE room' = IF ~force /\ room.status[i] = "US_PLAYING"
                      THEN room ELSE PerformStandUpAction(room, i)
  /\ UNCHANGED <<linked, bet, round, pc, at>>

\* SUB_C_PLACE_JETTON and SUB_C_CHEHUI; the limits on a bet are RedBlackRound's
OnGameMessage(s, areas) ==
  /\ pc = "idle" /\ s \in linked /\ s < MaxPlayer /\ room.bind[s] # NoItem
  /\ LET c == room.chair[room.bind[s]]
     IN  /\ c # NoChair
         /\ bet' = [bet EXCEPT ![c] = IF areas = {} THEN {} ELSE @ \cup areas]
  /\ UNCHANGED <<linked, room, round, pc, at>>

-----------------------------------------------------------------------------
(* Timer events: the round                                                 *)

OnTimerPlaceJetton ==
  /\ pc = "idle" /\ round = "bet" /\ round' = "end"
  /\ UNCHANGED <<linked, room, bet, pc, at>>

OnTimerGameEnd ==
  /\ pc = "idle" /\ round = "end"
  /\ pc' = "conclude" /\ at' = 0
  /\ UNCHANGED <<linked, room, bet, round>>

\* Mutation: the loops run to wChairCount inclusive.
AdvanceTooFar(loop, following) ==
  /\ pc = loop
  /\ IF at \in Chair THEN at' = at + 1 /\ pc' = loop
     ELSE at' = 0 /\ pc' = following
  /\ UNCHANGED <<linked>>

\* One chair of a loop, then the next chair or what follows the loop
Advance(loop, following) ==
  /\ pc = loop
  /\ IF at + 1 \in Chair THEN at' = at + 1 /\ pc' = loop
     ELSE at' = 0 /\ pc' = following
  /\ UNCHANGED <<linked>>

\* Mutation: ConcludeGame passes over offline users.
ConcludeSeatSkipsOffline ==
  /\ Advance("conclude", IF EnterLimit THEN "kick" ELSE "start")
  /\ LET i == room.seat[at]
     IN  room' = IF i = NoItem \/ room.status[i] = "US_OFFLINE" THEN room
                 ELSE SetUserStatus(room, i, "US_SIT", at)
  /\ bet' = IF pc' = "conclude" THEN bet ELSE [c \in Chair |-> {}]
  /\ UNCHANGED round

\* ConcludeGame's first loop; the sink's RepositionSink follows the last chair.
ConcludeSeat ==
  /\ Advance("conclude", IF EnterLimit THEN "kick" ELSE "start")
  /\ LET i == room.seat[at]
     IN  room' = IF i = NoItem THEN room
                 ELSE IF room.status[i] = "US_OFFLINE"
                 THEN PerformStandUpAction(room, i)
                 ELSE IF room.status[i] = "US_NULL"
                 THEN PerformStandUpAction(SetUserStatus(room, i, "US_NULL", at), i)
                 ELSE SetUserStatus(room, i, "US_SIT", at)
  /\ bet' = IF pc' = "conclude" THEN bet ELSE [c \in Chair |-> {}]
  /\ UNCHANGED round

\* Its second loop: who is below lMinEnterScore now stands up.
KickSeat(below) ==
  /\ Advance("kick", "start")
  /\ room' = IF below /\ room.seat[at] # NoItem
             THEN PerformStandUpAction(room, room.seat[at]) ELSE room
  /\ UNCHANGED <<bet, round>>

\* Mutation: StartGame only takes users that are ready.
StartSeatReadyOnly ==
  /\ Advance("start", "idle")
  /\ LET i == room.seat[at]
     IN  room' = IF i # NoItem /\ room.status[i] = "US_READY"
                 THEN SetUserStatus(room, i, "US_PLAYING", at) ELSE room
  /\ round' = IF pc' = "idle" THEN "bet" ELSE round
  /\ UNCHANGED bet

\* StartGame's loop, and IDI_PLACE_JETTON armed again after it
StartSeat ==
  /\ Advance("start", "idle")
  /\ LET i == room.seat[at]
     IN  room' = IF i = NoItem THEN room
                 ELSE IF room.status[i] \in {"US_OFFLINE", "US_PLAYING"} THEN room
                 ELSE SetUserStatus(room, i, "US_PLAYING", at)
  /\ round' = IF pc' = "idle" THEN "bet" ELSE round
  /\ UNCHANGED bet

-----------------------------------------------------------------------------
Init ==
  /\ linked = {}
  /\ room = [bind |-> [s \in Socket |-> NoItem],
             shut |-> {},
             map  |-> [u \in Users |-> NoItem],
             free |-> {},
             seat |-> [c \in Chair |-> NoItem],
             user   |-> [i \in Items |-> NoUser],
             status |-> [i \in Items |-> "US_NULL"],
             chair  |-> [i \in Items |-> NoChair],
             index  |-> [i \in Items |-> NoBind]]
  /\ bet = [c \in Chair |-> {}]
  /\ round = "none" /\ pc = "idle" /\ at = 0

Round ==
  \/ OnTimerPlaceJetton
  \/ OnTimerGameEnd
  \/ ConcludeSeat
  \/ \E below \in BOOLEAN : KickSeat(below)
  \/ StartSeat

Next ==
  \/ \E s \in Socket :
       \/ OnEventTCPNetworkBind(s)
       \/ OnEventTCPNetworkShut(s)
       \/ \E u \in Users, p \in BOOLEAN : OnTCPNetworkSubMBLogonVisitor(s, u, p)
       \/ \E c \in Chair : OnTCPNetworkSubUserSitDown(s, c)
       \/ \E f \in BOOLEAN : OnTCPNetworkSubUserStandUp(s, f)
       \/ \E a \in SUBSET Areas : OnGameMessage(s, a)
  \/ Round

Spec == Init /\ [][Next]_vars

\* The timer engine's thread fires every armed timer and the attemper thread
\* runs a handler it has begun to its end.
FairSpec == Spec /\ WF_vars(Round)

-----------------------------------------------------------------------------
\* Everything the structures may hold
RoomType ==
  [bind : [Socket -> Items \cup {NoItem}],
   shut : SUBSET Socket,
   map  : [Users -> Items \cup {NoItem}],
   free : SUBSET Items,
   seat : [Chair -> Items \cup {NoItem}],
   user   : [Items -> Users \cup {NoUser}],
   status : [Items -> Status],
   chair  : [Items -> Chair \cup {NoChair}],
   index  : [Items -> Socket \cup {NoBind}]]

TypeOK ==
  /\ linked \subseteq Socket
  /\ room \in RoomType
  /\ bet \in [Chair -> SUBSET Areas]
  /\ round \in {"none", "bet", "end"}
  /\ pc \in {"idle", "conclude", "kick", "start"} /\ at \in Chair

\* Whatever clients do, the user map and the free list never share an object,
\* an object is registered under its own user id only, and only objects that
\* were created are on the free list: DeleteUserItem and InsertUserItem move
\* whole objects between the two.
Accounting(r) ==
  /\ \A u \in Users : r.map[u] # NoItem =>
       r.map[u] \notin r.free /\ r.user[r.map[u]] = u
  /\ \A i \in r.free : r.user[i] # NoUser

ItemAccounting == Accounting(room)

\* The objects that the manager still finds
Kept(r) == r.free \cup Live(r)

\* An object is lost to the manager only when its user logs on a second time and
\* another object takes its place in the map, never when it is removed; and a lost
\* one, to which a connection and a chair may still lead, is never handed out again.
LostOnlyToSecondLogon ==
  [][\A i \in Items : room.user[i] # NoUser =>
       /\ i \in Kept(room') => i \in Kept(room)
       /\ i \in Kept(room) \ Kept(room') =>
            room.map[room.user[i]] = i /\ room'.map[room.user[i]] # NoItem]_vars

\* Connections and users name each other: a bound user is registered, knows the
\* connection, and the connection is open; a user that knows a connection is
\* the one bound to it.
BindConsistent ==
  /\ \A s \in Socket : room.bind[s] # NoItem =>
       /\ s \in linked /\ room.bind[s] \in Live(room)
       /\ room.index[room.bind[s]] = s
  /\ \A i \in Live(room) : room.index[i] # NoBind =>
       room.bind[room.index[i]] = i

\* The table and its users name each other; no freed or other user's object
\* sits on a chair.
SeatConsistent ==
  /\ \A c \in Chair : room.seat[c] # NoItem =>
       room.seat[c] \in Live(room) /\ room.chair[room.seat[c]] = c
  /\ \A i \in Live(room) : room.chair[i] # NoChair =>
       room.seat[room.chair[i]] = i

\* The status of a registered user says where the user is: standing iff
\* US_FREE, disconnected iff US_OFFLINE.
StatusConsistent ==
  \A i \in Live(room) :
    /\ room.status[i] # "US_NULL"
    /\ (room.status[i] = "US_FREE") <=> (room.chair[i] = NoChair)
    /\ (room.status[i] = "US_OFFLINE") <=> (room.index[i] = NoBind)

\* PerformSitDownAction's assertion that the user has no table and no chair yet
\* (TableFrame.cpp:445) means that nobody ever occupies two chairs.
OneSeatPerUser ==
  \A c, d \in Chair : room.seat[c] = room.seat[d] /\ c # d => room.seat[c] = NoItem

\* With the trustee option a player with a bet on the chair keeps the chair while
\* the round runs, disconnected or not, so that the bet is settled for that player.
BettorKeepsSeat ==
  [][\A c \in Chair :
       LET i == room.seat[c]
       IN  /\ Started /\ i # NoItem /\ bet[c] # {}
           /\ room.status[i] \in {"US_PLAYING", "US_OFFLINE"}
           => room'.seat[c] = i]_vars

\* A connection that loses its user while it is open is asked to close.
EvictedIsShutDown ==
  [][\A s \in linked \cap linked' :
       room.bind[s] # NoItem /\ room'.bind[s] = NoItem => s \in room'.shut]_vars

\* The same but for connection 0, whose index the code takes for "no connection".
EvictedIsShutDownButZero ==
  [][\A s \in (linked \cap linked') \ {0} :
       room.bind[s] # NoItem /\ room'.bind[s] = NoItem => s \in room'.shut]_vars

\* A disconnected player does not occupy the room for ever: the player returns
\* or the end of the round removes the user.
OfflineIsResolved ==
  \A i \in Items : room.status[i] = "US_OFFLINE" ~> room.status[i] # "US_OFFLINE"

\* Who sits down in a running round is let into a round (or leaves): ConcludeGame
\* and StartGame between them pass over nobody.
SitterPlays ==
  \A i \in Items : room.status[i] \in {"US_READY", "US_SIT"}
                     ~> room.status[i] \notin {"US_READY", "US_SIT"}

=============================================================================
