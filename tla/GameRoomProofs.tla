--------------------------- MODULE GameRoomProofs ---------------------------
(***************************************************************************)
(* What holds of GameRoom for every number of users, connections and       *)
(* chairs, and whatever the options and the clients are.                   *)
(*                                                                         *)
(* A handler is a composition of functions on the room, so the invariant   *)
(* is a predicate on a room and each function has a lemma: it preserves    *)
(* the predicate and changes no object's user.                             *)
(***************************************************************************)
EXTENDS GameRoom, TLAPS

\* Pointers lead to objects that were created.
Referenced(r) ==
  /\ \A s \in Socket : r.bind[s] # NoItem => r.user[r.bind[s]] # NoUser
  /\ \A c \in Chair : r.seat[c] # NoItem => r.user[r.seat[c]] # NoUser

RoomOK(r) == r \in RoomType /\ Accounting(r) /\ Referenced(r)

\* A created object
Object(r, i) == i \in Items /\ r.user[i] \in Users

\* q is a good room whose objects have the users they have in r; none is lost
Keeps(r, q) == RoomOK(q) /\ q.user = r.user /\ Kept(q) = Kept(r)

\* An object that q has lost lost its place in the map to another one.
OnlyReplaced(r, q) ==
  \A i \in Items : r.user[i] # NoUser =>
    /\ i \in Kept(q) => i \in Kept(r)
    /\ i \in Kept(r) \ Kept(q) => r.map[r.user[i]] = i /\ q.map[r.user[i]] # NoItem

-----------------------------------------------------------------------------
(* One field at a time                                                     *)

LEMMA SetFree ==
  ASSUME NEW r \in RoomType, NEW v \in SUBSET Items
  PROVE  LET q == [r EXCEPT !.free = v] IN
         q \in RoomType /\ q = [bind |-> r.bind, shut |-> r.shut, map |-> r.map,
           free |-> v, seat |-> r.seat, user |-> r.user, status |-> r.status,
           chair |-> r.chair, index |-> r.index]
BY DEF RoomType

LEMMA SetMap ==
  ASSUME NEW r \in RoomType, NEW u \in Users, NEW v \in Items \cup {NoItem}
  PROVE  LET q == [r EXCEPT !.map[u] = v] IN
         q \in RoomType /\ q = [bind |-> r.bind, shut |-> r.shut,
           map |-> [r.map EXCEPT ![u] = v],
           free |-> r.free, seat |-> r.seat, user |-> r.user, status |-> r.status,
           chair |-> r.chair, index |-> r.index]
BY DEF RoomType

LEMMA SetBind ==
  ASSUME NEW r \in RoomType, NEW s \in Socket, NEW v \in Items \cup {NoItem}
  PROVE  LET q == [r EXCEPT !.bind[s] = v] IN
         q \in RoomType /\ q = [bind |-> [r.bind EXCEPT ![s] = v], shut |-> r.shut,
           map |-> r.map, free |-> r.free, seat |-> r.seat, user |-> r.user,
           status |-> r.status, chair |-> r.chair, index |-> r.index]
BY DEF RoomType

LEMMA SetShut ==
  ASSUME NEW r \in RoomType, NEW v \in SUBSET Socket
  PROVE  LET q == [r EXCEPT !.shut = v] IN
         q \in RoomType /\ q = [bind |-> r.bind, shut |-> v,
           map |-> r.map, free |-> r.free, seat |-> r.seat, user |-> r.user,
           status |-> r.status, chair |-> r.chair, index |-> r.index]
BY DEF RoomType

LEMMA SetSeat ==
  ASSUME NEW r \in RoomType, NEW c \in Chair, NEW v \in Items \cup {NoItem}
  PROVE  LET q == [r EXCEPT !.seat[c] = v] IN
         q \in RoomType /\ q = [bind |-> r.bind, shut |-> r.shut,
           map |-> r.map, free |-> r.free, seat |-> [r.seat EXCEPT ![c] = v],
           user |-> r.user, status |-> r.status, chair |-> r.chair, index |-> r.index]
BY DEF RoomType

LEMMA SetIndex ==
  ASSUME NEW r \in RoomType, NEW i \in Items, NEW v \in Socket \cup {NoBind}
  PROVE  LET q == [r EXCEPT !.index[i] = v] IN
         q \in RoomType /\ q = [bind |-> r.bind, shut |-> r.shut,
           map |-> r.map, free |-> r.free, seat |-> r.seat, user |-> r.user,
           status |-> r.status, chair |-> r.chair, index |-> [r.index EXCEPT ![i] = v]]
BY DEF RoomType

LEMMA SetStatusField ==
  ASSUME NEW r \in RoomType, NEW i \in Items, NEW v \in Status
  PROVE  LET q == [r EXCEPT !.status[i] = v] IN
         q \in RoomType /\ q = [bind |-> r.bind, shut |-> r.shut,
           map |-> r.map, free |-> r.free, seat |-> r.seat, user |-> r.user,
           status |-> [r.status EXCEPT ![i] = v], chair |-> r.chair, index |-> r.index]
BY DEF RoomType

LEMMA SetChair ==
  ASSUME NEW r \in RoomType, NEW i \in Items, NEW c \in Chair \cup {NoChair}
  PROVE  LET q == [r EXCEPT !.chair[i] = c] IN
         q \in RoomType /\ q = [bind |-> r.bind, shut |-> r.shut,
           map |-> r.map, free |-> r.free, seat |-> r.seat, user |-> r.user,
           status |-> r.status, chair |-> [r.chair EXCEPT ![i] = c], index |-> r.index]
BY DEF RoomType

LEMMA SetUser ==
  ASSUME NEW r \in RoomType, NEW i \in Items, NEW u \in Users \cup {NoUser}
  PROVE  LET q == [r EXCEPT !.user[i] = u] IN
         q \in RoomType /\ q = [bind |-> r.bind, shut |-> r.shut,
           map |-> r.map, free |-> r.free, seat |-> r.seat,
           user |-> [r.user EXCEPT ![i] = u],
           status |-> r.status, chair |-> r.chair, index |-> r.index]
BY DEF RoomType

-----------------------------------------------------------------------------
(* The functions a handler is composed of                                  *)

LEMMA DeleteOK ==
  ASSUME NEW r, RoomOK(r), NEW i, Object(r, i)
  PROVE  Keeps(r, DeleteUserItem(r, i))
<1> DEFINE u == r.user[i]
           free == r.free \cup {r.map[u]}
           q1 == [r EXCEPT !.free = free]
           q2 == [q1 EXCEPT !.map[u] = NoItem]
<1>0. r \in RoomType /\ u \in Users
  BY DEF RoomOK, Object
<1>1. CASE r.map[u] = NoItem
  BY <1>1 DEF Keeps, DeleteUserItem
<1>2. CASE r.map[u] # NoItem
  <2>1. r.map[u] \in Items /\ free \in SUBSET Items
    BY <1>0, <1>2 DEF RoomType
  <2> HIDE DEF u, free
  <2>2. q1 \in RoomType /\ q1 = [bind |-> r.bind, shut |-> r.shut, map |-> r.map,
           free |-> free, seat |-> r.seat, user |-> r.user, status |-> r.status,
           chair |-> r.chair, index |-> r.index]
    BY <1>0, <2>1, SetFree
  <2> HIDE DEF q1
  <2>3. q2 \in RoomType /\ q2 = [bind |-> q1.bind, shut |-> q1.shut,
           map |-> [q1.map EXCEPT ![u] = NoItem],
           free |-> q1.free, seat |-> q1.seat, user |-> q1.user, status |-> q1.status,
           chair |-> q1.chair, index |-> q1.index]
    BY <1>0, <2>2, SetMap
  <2> HIDE DEF q2
  <2>4. DeleteUserItem(r, i) = q2
    BY <1>2 DEF DeleteUserItem, q1, q2, u, free
  <2>5. q2.bind = r.bind /\ q2.seat = r.seat /\ q2.user = r.user /\ q2.free = free
        /\ q2.map = [r.map EXCEPT ![u] = NoItem]
    BY <2>2, <2>3
  <2>6. Accounting(q2)
    BY <1>0, <1>2, <2>1, <2>5, RoomAssumption DEF Accounting, RoomOK, RoomType, free
  <2>7. Referenced(q2)
    BY <2>5 DEF Referenced, RoomOK
  <2>8. Kept(q2) = Kept(r)
    <3>1. \A v \in Users : v # u /\ r.map[v] # NoItem => r.map[v] # r.map[u]
      BY <1>0, <1>2 DEF RoomOK, Accounting
    <3>2. \A v \in Users : q2.map[v] = IF v = u THEN NoItem ELSE r.map[v]
      BY <1>0, <2>5 DEF RoomType
    <3>3. ASSUME NEW x PROVE x \in Live(r) <=> x \in Live(q2) \/ x = r.map[u]
      BY <1>0, <1>2, <3>1, <3>2 DEF Live
    <3> QED BY <2>5, <3>3 DEF Kept, free
  <2> QED BY <2>3, <2>4, <2>5, <2>6, <2>7, <2>8 DEF Keeps, RoomOK
<1> QED BY <1>1, <1>2

\* Who is registered does not change, and pointers lead to created objects.
LEMMA SameUsers ==
  ASSUME NEW r, NEW q, RoomOK(r), q \in RoomType,
         q.user = r.user, q.map = r.map, q.free = r.free,
         \A s \in Socket : q.bind[s] # NoItem =>
           q.bind[s] = r.bind[s] \/ r.user[q.bind[s]] # NoUser,
         \A c \in Chair : q.seat[c] # NoItem =>
           q.seat[c] = r.seat[c] \/ r.user[q.seat[c]] # NoUser
  PROVE  Keeps(r, q)
<1>1. Accounting(q)
  BY DEF RoomOK, Accounting
<1>2. Referenced(q)
  BY DEF RoomOK, Referenced
<1>3. Kept(q) = Kept(r)
  BY DEF Kept, Live
<1> QED BY <1>1, <1>2, <1>3 DEF Keeps, RoomOK

LEMMA LeaveOK ==
  ASSUME NEW r, RoomOK(r), NEW i, Object(r, i)
  PROVE  Keeps(r, LeaveConnection(r, i))
<1> DEFINE s == r.index[i]
           holder == IF r.bind[s] = i THEN NoItem ELSE r.bind[s]
           shut == IF s # 0 /\ s \in linked THEN r.shut \cup {s} ELSE r.shut
           q1 == [r EXCEPT !.bind[s] = holder]
           q2 == [q1 EXCEPT !.shut = shut]
<1>0. r \in RoomType
  BY DEF RoomOK
<1>1. CASE s \notin Socket
  BY <1>1 DEF Keeps, LeaveConnection
<1>2. CASE s \in Socket
  <2>1. holder \in Items \cup {NoItem} /\ shut \in SUBSET Socket
    BY <1>0, <1>2 DEF RoomType
  <2> HIDE DEF holder, shut, s
  <2>2. q1 \in RoomType /\ q1 = [bind |-> [r.bind EXCEPT ![s] = holder],
           shut |-> r.shut, map |-> r.map, free |-> r.free, seat |-> r.seat,
           user |-> r.user, status |-> r.status, chair |-> r.chair, index |-> r.index]
    BY <1>0, <1>2, <2>1, SetBind
  <2> HIDE DEF q1
  <2>3. q2 \in RoomType /\ q2 = [bind |-> q1.bind, shut |-> shut,
           map |-> q1.map, free |-> q1.free, seat |-> q1.seat, user |-> q1.user,
           status |-> q1.status, chair |-> q1.chair, index |-> q1.index]
    BY <2>1, <2>2, SetShut
  <2> HIDE DEF q2
  <2>4. LeaveConnection(r, i) = q2
    BY <1>2 DEF LeaveConnection, q1, q2, s, holder, shut
  <2>5. q2.bind = [r.bind EXCEPT ![s] = holder] /\ q2.seat = r.seat
        /\ q2.user = r.user /\ q2.map = r.map /\ q2.free = r.free
    BY <2>2, <2>3
  <2>6. \A t \in Socket : q2.bind[t] # NoItem => q2.bind[t] = r.bind[t]
    BY <1>0, <2>5 DEF RoomType, holder
  <2> QED BY <2>3, <2>4, <2>5, <2>6, SameUsers
<1> QED BY <1>1, <1>2

LEMMA StatusOK ==
  ASSUME NEW r, RoomOK(r), NEW i, Object(r, i),
         NEW v \in Status, NEW c \in Chair \cup {NoChair}
  PROVE  Keeps(r, SetUserStatus(r, i, v, c))
<1> DEFINE q1 == [r EXCEPT !.status[i] = v]
           q2 == [q1 EXCEPT !.chair[i] = c]
<1>0. r \in RoomType /\ i \in Items
  BY DEF RoomOK, Object
<1>1. q1 \in RoomType /\ q1 = [bind |-> r.bind, shut |-> r.shut,
         map |-> r.map, free |-> r.free, seat |-> r.seat, user |-> r.user,
         status |-> [r.status EXCEPT ![i] = v], chair |-> r.chair, index |-> r.index]
  BY <1>0, SetStatusField
<1> HIDE DEF q1
<1>2. q2 \in RoomType /\ q2 = [bind |-> q1.bind, shut |-> q1.shut,
         map |-> q1.map, free |-> q1.free, seat |-> q1.seat, user |-> q1.user,
         status |-> q1.status, chair |-> [q1.chair EXCEPT ![i] = c],
         index |-> q1.index]
  BY <1>0, <1>1, SetChair
<1> HIDE DEF q2
<1>3. q2.user = r.user /\ q2.map = r.map /\ q2.free = r.free
      /\ q2.bind = r.bind /\ q2.seat = r.seat
  BY <1>1, <1>2
<1>4. Keeps(r, q2)
  BY <1>2, <1>3, SameUsers
<1>5. CASE v = "US_NULL"
  <2> DEFINE q3 == LeaveConnection(q2, i)
  <2>1. Object(q2, i)
    BY <1>3 DEF Object
  <2>2. Keeps(q2, q3)
    BY <1>4, <2>1, LeaveOK DEF Keeps
  <2>3. Object(q3, i)
    BY <2>1, <2>2 DEF Object, Keeps
  <2>4. Keeps(q3, DeleteUserItem(q3, i))
    BY <2>2, <2>3, DeleteOK DEF Keeps
  <2>5. SetUserStatus(r, i, v, c) = DeleteUserItem(q3, i)
    BY <1>5 DEF SetUserStatus, q1, q2
  <2> QED BY <1>4, <2>2, <2>4, <2>5 DEF Keeps
<1>6. CASE v # "US_NULL"
  <2>1. SetUserStatus(r, i, v, c) = q2
    BY <1>6 DEF SetUserStatus, q1, q2
  <2> QED BY <1>4, <2>1
<1> QED BY <1>5, <1>6

LEMMA StandUpOK ==
  ASSUME NEW r, RoomOK(r), NEW i, Object(r, i)
  PROVE  Keeps(r, PerformStandUpAction(r, i))
<1> DEFINE c == r.chair[i]
           q == [r EXCEPT !.seat[c] = NoItem]
<1>0. r \in RoomType /\ c \in Chair \cup {NoChair} /\ Keeps(r, r)
  BY DEF RoomOK, RoomType, Object, Keeps
<1>1. CASE c = NoChair
  BY <1>0, <1>1 DEF PerformStandUpAction
<1>2. CASE c # NoChair
  <2>1. c \in Chair
    BY <1>0, <1>2
  <2> HIDE DEF c
  <2>2. q \in RoomType /\ q = [bind |-> r.bind, shut |-> r.shut,
           map |-> r.map, free |-> r.free, seat |-> [r.seat EXCEPT ![c] = NoItem],
           user |-> r.user, status |-> r.status, chair |-> r.chair, index |-> r.index]
    BY <1>0, <2>1, SetSeat
  <2>3. \A d \in Chair : q.seat[d] # NoItem => q.seat[d] = r.seat[d]
    BY <1>0, <2>2 DEF RoomType
  <2> HIDE DEF q
  <2>4. Keeps(r, q)
    BY <2>2, <2>3, SameUsers
  <2>5. RoomOK(q) /\ Object(q, i)
    BY <2>4 DEF Keeps, Object
  <2>6. Keeps(r, SetUserStatus(r, i, "US_OFFLINE", c))
    BY <2>1, StatusOK DEF Status
  <2>7. /\ Keeps(q, SetUserStatus(q, i, "US_NULL", NoChair))
        /\ Keeps(q, SetUserStatus(q, i, "US_FREE", NoChair))
    BY <2>5, StatusOK DEF Status
  <2>8. PerformStandUpAction(r, i) \in
          {r, SetUserStatus(r, i, "US_OFFLINE", c),
           SetUserStatus(q, i, "US_NULL", NoChair),
           SetUserStatus(q, i, "US_FREE", NoChair)}
    BY DEF PerformStandUpAction, c, q
  <2> QED BY <1>0, <2>4, <2>6, <2>7, <2>8 DEF Keeps
<1> QED BY <1>1, <1>2

LEMMA SitDownOK ==
  ASSUME NEW r, RoomOK(r), NEW c \in Chair, NEW i, Object(r, i)
  PROVE  Keeps(r, PerformSitDownAction(r, c, i))
<1> DEFINE q == [r EXCEPT !.seat[c] = i]
<1>0. r \in RoomType /\ i \in Items /\ Keeps(r, r) /\ r.user[i] # NoUser
  BY RoomAssumption DEF RoomOK, Object, Keeps
<1>1. q \in RoomType /\ q = [bind |-> r.bind, shut |-> r.shut,
         map |-> r.map, free |-> r.free, seat |-> [r.seat EXCEPT ![c] = i],
         user |-> r.user, status |-> r.status, chair |-> r.chair, index |-> r.index]
  BY <1>0, SetSeat
<1>2. \A d \in Chair : q.seat[d] # NoItem =>
        q.seat[d] = r.seat[d] \/ r.user[q.seat[d]] # NoUser
  BY <1>0, <1>1 DEF RoomType
<1> HIDE DEF q
<1>3. Keeps(r, q)
  BY <1>1, <1>2, SameUsers
<1>4. RoomOK(q) /\ Object(q, i)
  BY <1>3 DEF Keeps, Object
<1>5. /\ Keeps(q, SetUserStatus(q, i, "US_READY", c))
      /\ Keeps(q, SetUserStatus(q, i, "US_PLAYING", c))
  BY <1>4, StatusOK DEF Status
<1>6. PerformSitDownAction(r, c, i) \in
        {r, SetUserStatus(q, i, "US_READY", c), SetUserStatus(q, i, "US_PLAYING", c)}
  BY DEF PerformSitDownAction, q
<1> QED BY <1>0, <1>3, <1>5, <1>6 DEF Keeps

LEMMA OffLineOK ==
  ASSUME NEW r, RoomOK(r), NEW i, Object(r, i)
  PROVE  Keeps(r, OnEventUserOffLine(r, i))
<1> DEFINE q == PerformStandUpAction(r, i)
<1>1. Keeps(r, r) /\ Keeps(r, q)
  BY StandUpOK DEF Keeps
<1>2. Object(q, i)
  BY <1>1 DEF Keeps, Object
<1>3. Keeps(q, SetUserStatus(q, i, "US_NULL", NoChair))
  BY <1>1, <1>2, StatusOK DEF Status, Keeps
<1>4. Keeps(r, SetUserStatus(r, i, "US_OFFLINE", r.chair[i]))
  <2>1. r.chair[i] \in Chair \cup {NoChair}
    BY DEF RoomOK, RoomType, Object
  <2> QED BY <2>1, StatusOK DEF Status
<1>5. OnEventUserOffLine(r, i) \in
        {r, SetUserStatus(r, i, "US_OFFLINE", r.chair[i]),
         SetUserStatus(q, i, "US_NULL", NoChair)}
  BY DEF OnEventUserOffLine
<1> QED BY <1>1, <1>3, <1>4, <1>5 DEF Keeps

LEMMA SwitchOK ==
  ASSUME NEW r, RoomOK(r), NEW i, Object(r, i), NEW s \in Socket
  PROVE  Keeps(r, SwitchUserItemConnect(r, i, s))
<1> DEFINE source == r.index[i]
           holder == IF r.bind[source] = i THEN NoItem ELSE r.bind[source]
           shut == r.shut \cup {IF source \in linked THEN source ELSE 0}
           d1 == [r EXCEPT !.bind[source] = holder]
           d2 == [d1 EXCEPT !.shut = shut]
           detached == IF source \notin Socket THEN r ELSE d2
           a1 == [detached EXCEPT !.bind[s] = i]
           a2 == [a1 EXCEPT !.index[i] = s]
<1>0. r \in RoomType /\ i \in Items /\ r.user[i] # NoUser /\ Keeps(r, r)
  BY RoomAssumption DEF RoomOK, Object, Keeps
<1>1. Keeps(r, detached)
  <2>1. CASE source \notin Socket
    BY <1>0, <2>1
  <2>2. CASE source \in Socket
    <3>1. holder \in Items \cup {NoItem} /\ shut \in SUBSET Socket
      BY <1>0, <2>2, RoomAssumption DEF RoomType, Socket
    <3> HIDE DEF holder, shut, source
    <3>2. d1 \in RoomType /\ d1 = [bind |-> [r.bind EXCEPT ![source] = holder],
             shut |-> r.shut, map |-> r.map, free |-> r.free, seat |-> r.seat,
             user |-> r.user, status |-> r.status, chair |-> r.chair, index |-> r.index]
      BY <1>0, <2>2, <3>1, SetBind
    <3> HIDE DEF d1
    <3>3. d2 \in RoomType /\ d2 = [bind |-> d1.bind, shut |-> shut,
             map |-> d1.map, free |-> d1.free, seat |-> d1.seat, user |-> d1.user,
             status |-> d1.status, chair |-> d1.chair, index |-> d1.index]
      BY <3>1, <3>2, SetShut
    <3> HIDE DEF d2
    <3>4. d2.bind = [r.bind EXCEPT ![source] = holder] /\ d2.seat = r.seat
          /\ d2.user = r.user /\ d2.map = r.map /\ d2.free = r.free
      BY <3>2, <3>3
    <3>5. \A t \in Socket : d2.bind[t] # NoItem => d2.bind[t] = r.bind[t]
      BY <1>0, <3>4 DEF RoomType, holder
    <3>6. Keeps(r, d2)
      BY <3>3, <3>4, <3>5, SameUsers
    <3> QED BY <2>2, <3>6
  <2> QED BY <2>1, <2>2
<1> HIDE DEF detached
<1>2. detached \in RoomType /\ detached.user = r.user
  BY <1>1 DEF Keeps, RoomOK
<1>3. a1 \in RoomType /\ a1 = [bind |-> [detached.bind EXCEPT ![s] = i],
         shut |-> detached.shut, map |-> detached.map, free |-> detached.free,
         seat |-> detached.seat, user |-> detached.user, status |-> detached.status,
         chair |-> detached.chair, index |-> detached.index]
  BY <1>0, <1>2, SetBind
<1> HIDE DEF a1
<1>4. a2 \in RoomType /\ a2 = [bind |-> a1.bind, shut |-> a1.shut,
         map |-> a1.map, free |-> a1.free, seat |-> a1.seat, user |-> a1.user,
         status |-> a1.status, chair |-> a1.chair,
         index |-> [a1.index EXCEPT ![i] = s]]
  BY <1>0, <1>3, SetIndex
<1> HIDE DEF a2
<1>5. a2.bind = [detached.bind EXCEPT ![s] = i] /\ a2.seat = detached.seat
      /\ a2.user = detached.user /\ a2.map = detached.map /\ a2.free = detached.free
  BY <1>3, <1>4
<1>6. \A t \in Socket : a2.bind[t] # NoItem =>
        a2.bind[t] = detached.bind[t] \/ detached.user[a2.bind[t]] # NoUser
  BY <1>0, <1>2, <1>5 DEF RoomType
<1>7. Keeps(detached, a2)
  BY <1>1, <1>4, <1>5, <1>6, SameUsers DEF Keeps
<1>8. Object(a2, i) /\ a2.chair[i] \in Chair \cup {NoChair}
  BY <1>1, <1>4, <1>7 DEF Keeps, Object, RoomType
<1>9. r.chair[i] \in Chair \cup {NoChair}
  BY <1>0 DEF RoomType
<1>10. Keeps(a2, SetUserStatus(a2, i, "US_PLAYING", r.chair[i]))
  BY <1>7, <1>8, <1>9, StatusOK DEF Status, Keeps
<1>11. SwitchUserItemConnect(r, i, s) \in
         {a2, SetUserStatus(a2, i, "US_PLAYING", r.chair[i])}
  BY DEF SwitchUserItemConnect, a2, a1, detached, d2, d1, holder, shut, source
<1> QED BY <1>1, <1>7, <1>10, <1>11 DEF Keeps

LEMMA InsertOK ==
  ASSUME NEW r, RoomOK(r), NEW i \in Allocatable(r), NEW u \in Users, NEW s \in Socket
  PROVE  /\ RoomOK(InsertUserItem(r, i, u, s))
         /\ OnlyReplaced(r, InsertUserItem(r, i, u, s))
<1> DEFINE free == r.free \ {i}
           none == NoChair
           standing == "US_FREE"
           q1 == [r EXCEPT !.free = free]
           q2 == [q1 EXCEPT !.map[u] = i]
           q3 == [q2 EXCEPT !.bind[s] = i]
           q4 == [q3 EXCEPT !.user[i] = u]
           q5 == [q4 EXCEPT !.status[i] = standing]
           q6 == [q5 EXCEPT !.chair[i] = none]
           q7 == [q6 EXCEPT !.index[i] = s]
<1>0. r \in RoomType /\ i \in Items /\ free \in SUBSET Items
      /\ none \in Chair \cup {NoChair} /\ s \in Socket \cup {NoBind}
      /\ standing \in Status
  BY DEF Status, RoomOK, RoomType, Allocatable
<1> HIDE DEF free, none, standing
<1>1. q1 \in RoomType /\ q1 = [bind |-> r.bind, shut |-> r.shut, map |-> r.map,
        free |-> free, seat |-> r.seat, user |-> r.user, status |-> r.status,
        chair |-> r.chair, index |-> r.index]
  BY <1>0, SetFree
<1> HIDE DEF q1
<1>2. q2 \in RoomType /\ q2 = [bind |-> q1.bind, shut |-> q1.shut,
        map |-> [q1.map EXCEPT ![u] = i],
        free |-> q1.free, seat |-> q1.seat, user |-> q1.user, status |-> q1.status,
        chair |-> q1.chair, index |-> q1.index]
  BY <1>0, <1>1, SetMap
<1> HIDE DEF q2
<1>3. q3 \in RoomType /\ q3 = [bind |-> [q2.bind EXCEPT ![s] = i], shut |-> q2.shut,
        map |-> q2.map, free |-> q2.free, seat |-> q2.seat, user |-> q2.user,
        status |-> q2.status, chair |-> q2.chair, index |-> q2.index]
  BY <1>0, <1>2, SetBind
<1> HIDE DEF q3
<1>4. q4 \in RoomType /\ q4 = [bind |-> q3.bind, shut |-> q3.shut,
        map |-> q3.map, free |-> q3.free, seat |-> q3.seat,
        user |-> [q3.user EXCEPT ![i] = u],
        status |-> q3.status, chair |-> q3.chair, index |-> q3.index]
  BY <1>0, <1>3, SetUser
<1> HIDE DEF q4
<1>5. q5 \in RoomType /\ q5 = [bind |-> q4.bind, shut |-> q4.shut,
        map |-> q4.map, free |-> q4.free, seat |-> q4.seat, user |-> q4.user,
        status |-> [q4.status EXCEPT ![i] = standing],
        chair |-> q4.chair, index |-> q4.index]
  BY <1>0, <1>4, SetStatusField
<1> HIDE DEF q5
<1>6. q6 \in RoomType /\ q6 = [bind |-> q5.bind, shut |-> q5.shut,
        map |-> q5.map, free |-> q5.free, seat |-> q5.seat, user |-> q5.user,
        status |-> q5.status, chair |-> [q5.chair EXCEPT ![i] = none],
        index |-> q5.index]
  BY <1>0, <1>5, SetChair
<1> HIDE DEF q6
<1>7. q7 \in RoomType /\ q7 = [bind |-> q6.bind, shut |-> q6.shut,
        map |-> q6.map, free |-> q6.free, seat |-> q6.seat, user |-> q6.user,
        status |-> q6.status, chair |-> q6.chair,
        index |-> [q6.index EXCEPT ![i] = s]]
  BY <1>0, <1>6, SetIndex
<1> HIDE DEF q7
<1>8. InsertUserItem(r, i, u, s) = q7
  BY DEF InsertUserItem, q1, q2, q3, q4, q5, q6, q7, free, none, standing
<1>9. /\ q7.bind = [r.bind EXCEPT ![s] = i] /\ q7.map = [r.map EXCEPT ![u] = i]
      /\ q7.free = free /\ q7.seat = r.seat /\ q7.user = [r.user EXCEPT ![i] = u]
  <2>1. q5.map = q4.map /\ q5.bind = q4.bind /\ q5.free = q4.free
        /\ q5.seat = q4.seat /\ q5.user = q4.user
    BY <1>5
  <2>2. q4.map = [r.map EXCEPT ![u] = i] /\ q4.bind = [r.bind EXCEPT ![s] = i]
        /\ q4.free = free /\ q4.seat = r.seat /\ q4.user = [r.user EXCEPT ![i] = u]
    BY <1>1, <1>2, <1>3, <1>4
  <2> QED BY <1>6, <1>7, <2>1, <2>2
\* The object is not registered for another user.
<1>10. \A v \in Users : r.map[v] # NoItem => r.map[v] # i
  BY RoomAssumption DEF Allocatable, RoomOK, Accounting
<1>11. Accounting(q7)
  BY <1>0, <1>9, <1>10, RoomAssumption DEF RoomOK, Accounting, RoomType, free
<1>12. Referenced(q7)
  BY <1>0, <1>9, RoomAssumption DEF RoomOK, Referenced, RoomType
<1>13. \A v \in Users : q7.map[v] = IF v = u THEN i ELSE r.map[v]
  BY <1>0, <1>9 DEF RoomType
<1>14. OnlyReplaced(r, q7)
  <2> SUFFICES ASSUME NEW j \in Items, r.user[j] # NoUser
               PROVE  /\ j \in Kept(q7) => j \in Kept(r)
                      /\ j \in Kept(r) /\ j \notin Kept(q7) =>
                           r.map[r.user[j]] = j /\ q7.map[r.user[j]] # NoItem
    BY DEF OnlyReplaced
  \* Only a free object that was created before is used again.
  <2>1. j = i => j \in r.free
    BY DEF Allocatable
  <2>2. j \in Kept(q7) => j \in Kept(r)
    BY <1>9, <1>13, <2>1 DEF Kept, Live, free
  <2>3. ASSUME j \in Kept(r), j \notin Kept(q7)
        PROVE  r.map[r.user[j]] = j /\ q7.map[r.user[j]] # NoItem
    <3>1. i \in Live(q7) /\ i # NoItem
      BY <1>0, <1>13, RoomAssumption DEF Live
    <3>2. j # i /\ j \notin r.free
      BY <1>9, <2>3, <3>1 DEF Kept, free
    <3>3. PICK v \in Users : r.map[v] = j /\ j # NoItem
      BY <2>3, <3>2 DEF Kept, Live
    <3>4. v = u
      BY <1>13, <2>3, <3>3 DEF Kept, Live
    <3>5. r.user[j] = u
      BY <3>3, <3>4 DEF RoomOK, Accounting
    <3> QED BY <1>13, <3>1, <3>3, <3>4, <3>5
  <2> QED BY <2>2, <2>3
<1> QED BY <1>7, <1>8, <1>11, <1>12, <1>14 DEF RoomOK

\* Releasing a bind slot or posting a close request disturbs nothing.
LEMMA ReleaseOK ==
  ASSUME NEW r, RoomOK(r), NEW s \in Socket, NEW shut \in SUBSET Socket
  PROVE  /\ Keeps(r, [r EXCEPT !.shut = shut])
         /\ Keeps(r, [r EXCEPT !.bind[s] = NoItem, !.shut = shut])
<1> DEFINE q0 == [r EXCEPT !.shut = shut]
           q1 == [r EXCEPT !.bind[s] = NoItem]
           q2 == [q1 EXCEPT !.shut = shut]
           none == NoItem
<1>0. r \in RoomType /\ none \in Items \cup {NoItem}
  BY DEF RoomOK
<1>1. Keeps(r, q0)
  <2>1. q0 \in RoomType /\ q0 = [bind |-> r.bind, shut |-> shut,
           map |-> r.map, free |-> r.free, seat |-> r.seat, user |-> r.user,
           status |-> r.status, chair |-> r.chair, index |-> r.index]
    BY <1>0, SetShut
  <2> HIDE DEF q0
  <2> QED BY <2>1, SameUsers
<1>2. q1 \in RoomType /\ q1 = [bind |-> [r.bind EXCEPT ![s] = none],
         shut |-> r.shut, map |-> r.map, free |-> r.free, seat |-> r.seat,
         user |-> r.user, status |-> r.status, chair |-> r.chair, index |-> r.index]
  <2> HIDE DEF none
  <2>1. LET q == [r EXCEPT !.bind[s] = none] IN
        q \in RoomType /\ q = [bind |-> [r.bind EXCEPT ![s] = none],
         shut |-> r.shut, map |-> r.map, free |-> r.free, seat |-> r.seat,
         user |-> r.user, status |-> r.status, chair |-> r.chair, index |-> r.index]
    BY <1>0, SetBind
  <2> QED BY <2>1 DEF none
<1> HIDE DEF q1
<1>3. q2 \in RoomType /\ q2 = [bind |-> q1.bind, shut |-> shut,
         map |-> q1.map, free |-> q1.free, seat |-> q1.seat, user |-> q1.user,
         status |-> q1.status, chair |-> q1.chair, index |-> q1.index]
  BY <1>2, SetShut
<1> HIDE DEF q2
<1>4. q2.bind = [r.bind EXCEPT ![s] = NoItem] /\ q2.seat = r.seat
      /\ q2.user = r.user /\ q2.map = r.map /\ q2.free = r.free
  BY <1>2, <1>3
<1>5. \A t \in Socket : q2.bind[t] # NoItem => q2.bind[t] = r.bind[t]
  BY <1>0, <1>4 DEF RoomType
<1>6. Keeps(r, q2)
  BY <1>3, <1>4, <1>5, SameUsers
<1>7. q2 = [r EXCEPT !.bind[s] = NoItem, !.shut = shut]
  BY DEF q1, q2
<1> QED BY <1>1, <1>6, <1>7

-----------------------------------------------------------------------------
(* The inductive invariant and its steps                                   *)

IInv == TypeOK /\ RoomOK(room)

LEMMA InitIInv == Init => IInv
<1> SUFFICES ASSUME Init PROVE IInv
  OBVIOUS
<1>1. room \in RoomType
  BY DEF Init, RoomType, Status
<1>2. Accounting(room) /\ Referenced(room)
  BY DEF Init, Accounting, Referenced
<1>3. TypeOK
  BY <1>1, RoomAssumption DEF Init, TypeOK, Chair
<1> QED BY <1>1, <1>2, <1>3 DEF IInv, RoomOK

\* Whom a pointer leads to is a user.
LEMMA PointersOK ==
  ASSUME NEW r, RoomOK(r)
  PROVE  /\ \A s \in Socket : r.bind[s] # NoItem => Object(r, r.bind[s])
         /\ \A c \in Chair : r.seat[c] # NoItem => Object(r, r.seat[c])
         /\ \A u \in Users : r.map[u] # NoItem => Object(r, r.map[u])
BY RoomAssumption DEF RoomOK, Referenced, Accounting, RoomType, Object

LEMMA RefuseOK ==
  ASSUME RoomOK(room), NEW s \in Socket, Refuse(s)
  PROVE  Keeps(room, room')
<1>1. room.shut \cup {s} \in SUBSET Socket
  BY DEF RoomOK, RoomType
<1>2. Keeps(room, [room EXCEPT !.shut = room.shut \cup {s}])
  BY <1>1, ReleaseOK
<1> QED BY <1>2 DEF Refuse

\* What a step has to show of the room
Carried(r, q) == RoomOK(q) /\ OnlyReplaced(r, q)

LEMMA ShutStep ==
  ASSUME IInv, NEW s \in Socket, OnEventTCPNetworkShut(s)
  PROVE  IInv' /\ OnlyReplaced(room, room')
<1> DEFINE i == room.bind[s]
           gone == [room EXCEPT !.index[i] = NoBind]
           left == IF i = NoItem THEN room
                   ELSE IF room.chair[i] # NoChair THEN OnEventUserOffLine(gone, i)
                   ELSE SetUserStatus(room, i, "US_NULL", NoChair)
           none == NoBind
<1>1. RoomOK(room) /\ room \in RoomType
  BY DEF IInv, RoomOK
<1>2. ASSUME i # NoItem PROVE Keeps(room, gone)
  <2>1. i \in Items /\ none \in Socket \cup {NoBind}
    BY <1>1, <1>2 DEF RoomType
  <2> HIDE DEF none, i
  <2>2. LET q == [room EXCEPT !.index[i] = none] IN
        q \in RoomType /\ q = [bind |-> room.bind, shut |-> room.shut,
          map |-> room.map, free |-> room.free, seat |-> room.seat,
          user |-> room.user, status |-> room.status, chair |-> room.chair,
          index |-> [room.index EXCEPT ![i] = none]]
    BY <1>1, <2>1, SetIndex
  <2>3. gone \in RoomType /\ gone.bind = room.bind /\ gone.seat = room.seat
        /\ gone.user = room.user /\ gone.map = room.map /\ gone.free = room.free
    BY <2>2 DEF none
  <2> HIDE DEF gone
  <2> QED BY <1>1, <2>3, SameUsers
<1>3. ASSUME i # NoItem PROVE Keeps(room, OnEventUserOffLine(gone, i))
  <2> HIDE DEF gone
  <2>1. Object(room, i)
    BY <1>1, <1>3, PointersOK
  <2>2. RoomOK(gone) /\ Object(gone, i)
    BY <1>2, <1>3, <2>1 DEF Keeps, Object
  <2> QED BY <1>2, <1>3, <2>2, OffLineOK DEF Keeps
<1>4. ASSUME i # NoItem PROVE Keeps(room, SetUserStatus(room, i, "US_NULL", NoChair))
  <2>1. Object(room, i)
    BY <1>1, <1>4, PointersOK
  <2> QED BY <1>1, <2>1, StatusOK DEF Status
<1>5. Keeps(room, left)
  BY <1>1, <1>3, <1>4 DEF Keeps
<1> DEFINE shut == left.shut \ {s}
<1> HIDE DEF left
<1>6. shut \in SUBSET Socket
  BY <1>5 DEF Keeps, RoomOK, RoomType
<1>7. Keeps(room, [left EXCEPT !.bind[s] = NoItem, !.shut = shut])
  BY <1>5, <1>6, ReleaseOK DEF Keeps
<1>8. room' = [left EXCEPT !.bind[s] = NoItem, !.shut = shut]
  BY DEF OnEventTCPNetworkShut, left
<1>9. linked' \subseteq Socket /\ UNCHANGED <<bet, round, pc, at>>
  BY DEF OnEventTCPNetworkShut, IInv, TypeOK
<1> QED BY <1>7, <1>8, <1>9 DEF IInv, TypeOK, RoomOK, Keeps, OnlyReplaced

LEMMA LogonStep ==
  ASSUME IInv, NEW s \in Socket, NEW u \in Users, NEW p \in BOOLEAN,
         OnTCPNetworkSubMBLogonVisitor(s, u, p)
  PROVE  IInv' /\ OnlyReplaced(room, room')
<1>1. RoomOK(room)
  BY DEF IInv
<1>2. Carried(room, room')
  <2>1. CASE Refuse(s)
    BY <1>1, <2>1, RefuseOK DEF Carried, OnlyReplaced, Keeps
  <2>2. CASE room.map[u] # NoItem
             /\ room' = SwitchUserItemConnect(room, room.map[u], s)
    <3>1. Object(room, room.map[u])
      BY <1>1, <2>2, PointersOK
    <3> QED BY <1>1, <2>2, <3>1, SwitchOK DEF Carried, OnlyReplaced, Keeps
  <2>3. CASE /\ Relogon \/ room.map[u] = NoItem
             /\ \E i \in Allocatable(room) : room' = InsertUserItem(room, i, u, s)
    BY <1>1, <2>3, InsertOK DEF Carried
  <2> QED BY <2>1, <2>2, <2>3 DEF OnTCPNetworkSubMBLogonVisitor
<1>3. UNCHANGED <<linked, bet, round, pc, at>>
  BY DEF OnTCPNetworkSubMBLogonVisitor
<1> QED BY <1>2, <1>3 DEF IInv, TypeOK, RoomOK, Carried

LEMMA SitDownStep ==
  ASSUME IInv, NEW s \in Socket, NEW c \in Chair, OnTCPNetworkSubUserSitDown(s, c)
  PROVE  IInv' /\ OnlyReplaced(room, room')
<1> DEFINE i == room.bind[s]
           stood == PerformStandUpAction(room, i)
           found == NullChairs(stood)
           chair == IF found = {} THEN c ELSE CHOOSE d \in found : TRUE
<1>1. RoomOK(room)
  BY DEF IInv
<1>2. Carried(room, room')
  <2>1. CASE Refuse(s)
    BY <1>1, <2>1, RefuseOK DEF Carried, OnlyReplaced, Keeps
  <2>2. CASE room' = room
    BY <1>1, <2>2 DEF Carried, OnlyReplaced
  <2>3. CASE i # NoItem /\ room' = PerformSitDownAction(stood, chair, i)
    <3>1. Object(room, i)
      BY <1>1, <2>3, PointersOK
    <3>2. RoomOK(stood) /\ Object(stood, i)
      BY <1>1, <3>1, StandUpOK DEF Keeps, Object
    <3>5. Keeps(room, stood)
      BY <1>1, <3>1, StandUpOK
    <3>3. chair \in Chair
      BY DEF NullChairs
    <3> HIDE DEF stood, chair, i
    <3>4. Keeps(stood, PerformSitDownAction(stood, chair, i))
      BY <3>2, <3>3, SitDownOK
    <3> QED BY <3>2, <2>3, <3>4, <3>5 DEF Carried, OnlyReplaced, Keeps
  <2> QED BY <2>1, <2>2, <2>3 DEF OnTCPNetworkSubUserSitDown
<1>3. UNCHANGED <<linked, bet, pc, at>> /\ round' \in {round, "bet"}
  BY DEF OnTCPNetworkSubUserSitDown
<1> QED BY <1>2, <1>3 DEF IInv, TypeOK, RoomOK, Carried

LEMMA StandUpStep ==
  ASSUME IInv, NEW s \in Socket, NEW f \in BOOLEAN, OnTCPNetworkSubUserStandUp(s, f)
  PROVE  IInv' /\ OnlyReplaced(room, room')
<1>1. RoomOK(room)
  BY DEF IInv
<1>2. Carried(room, room')
  <2>1. CASE Refuse(s)
    BY <1>1, <2>1, RefuseOK DEF Carried, OnlyReplaced, Keeps
  <2>2. CASE room' = room
    BY <1>1, <2>2 DEF Carried, OnlyReplaced
  <2>3. CASE room.bind[s] # NoItem
             /\ room' = PerformStandUpAction(room, room.bind[s])
    <3>1. Object(room, room.bind[s])
      BY <1>1, <2>3, PointersOK
    <3> QED BY <1>1, <2>3, <3>1, StandUpOK DEF Carried, OnlyReplaced, Keeps
  <2> QED BY <2>1, <2>2, <2>3 DEF OnTCPNetworkSubUserStandUp
<1>3. UNCHANGED <<linked, bet, round, pc, at>>
  BY DEF OnTCPNetworkSubUserStandUp
<1> QED BY <1>2, <1>3 DEF IInv, TypeOK, RoomOK, Carried

LEMMA ConcludeSeatStep ==
  ASSUME IInv, ConcludeSeat
  PROVE  IInv' /\ OnlyReplaced(room, room')
<1> DEFINE i == room.seat[at]
           q == SetUserStatus(room, i, "US_NULL", at)
<1>1. RoomOK(room) /\ at \in Chair
  BY DEF IInv, TypeOK
<1>2. Carried(room, room')
  <2>1. CASE i = NoItem
    BY <1>1, <2>1 DEF ConcludeSeat, Carried, OnlyReplaced
  <2>2. CASE i # NoItem
    <3>1. Object(room, i)
      BY <1>1, <2>2, PointersOK
    <3> HIDE DEF i
    <3>2. Keeps(room, PerformStandUpAction(room, i))
      BY <1>1, <3>1, StandUpOK
    <3>3. Keeps(room, q) /\ Keeps(room, SetUserStatus(room, i, "US_SIT", at))
      BY <1>1, <3>1, StatusOK DEF Status
    <3>4. RoomOK(q) /\ Object(q, i)
      BY <3>1, <3>3 DEF Keeps, Object
    <3> HIDE DEF q
    <3>5. Keeps(q, PerformStandUpAction(q, i))
      BY <3>4, StandUpOK
    <3>6. room' \in {PerformStandUpAction(room, i), PerformStandUpAction(q, i),
                     SetUserStatus(room, i, "US_SIT", at)}
      BY <2>2 DEF ConcludeSeat, i, q
    <3> QED BY <3>2, <3>3, <3>5, <3>6 DEF Carried, OnlyReplaced, Keeps
  <2> QED BY <2>1, <2>2
<1>3. bet' \in [Chair -> SUBSET Areas]
  BY DEF ConcludeSeat, IInv, TypeOK
<1>4. /\ linked' = linked /\ round' = round
      /\ pc' \in {"conclude", "kick", "start"} /\ at' \in Chair
  BY RoomAssumption DEF ConcludeSeat, Advance, Chair
<1> QED BY <1>2, <1>3, <1>4 DEF IInv, TypeOK, RoomOK, Carried

LEMMA KickSeatStep ==
  ASSUME IInv, NEW below \in BOOLEAN, KickSeat(below)
  PROVE  IInv' /\ OnlyReplaced(room, room')
<1>1. RoomOK(room) /\ at \in Chair
  BY DEF IInv, TypeOK
<1>2. Carried(room, room')
  <2>1. CASE room' = room
    BY <1>1, <2>1 DEF Carried, OnlyReplaced
  <2>2. CASE room.seat[at] # NoItem
             /\ room' = PerformStandUpAction(room, room.seat[at])
    <3>1. Object(room, room.seat[at])
      BY <1>1, <2>2, PointersOK
    <3> QED BY <1>1, <2>2, <3>1, StandUpOK DEF Carried, OnlyReplaced, Keeps
  <2> QED BY <2>1, <2>2 DEF KickSeat
<1>3. /\ UNCHANGED <<linked, bet, round>>
      /\ pc' \in {"kick", "start"} /\ at' \in Chair
  BY RoomAssumption DEF KickSeat, Advance, Chair
<1> QED BY <1>2, <1>3 DEF IInv, TypeOK, RoomOK, Carried

LEMMA StartSeatStep ==
  ASSUME IInv, StartSeat
  PROVE  IInv' /\ OnlyReplaced(room, room')
<1> DEFINE i == room.seat[at]
<1>1. RoomOK(room) /\ at \in Chair
  BY DEF IInv, TypeOK
<1>2. Carried(room, room')
  <2>1. CASE room' = room
    BY <1>1, <2>1 DEF Carried, OnlyReplaced
  <2>2. CASE i # NoItem /\ room' = SetUserStatus(room, i, "US_PLAYING", at)
    <3>1. Object(room, i)
      BY <1>1, <2>2, PointersOK
    <3> QED BY <1>1, <2>2, <3>1, StatusOK DEF Status, Carried, OnlyReplaced, Keeps
  <2> QED BY <2>1, <2>2 DEF StartSeat
<1>3. /\ UNCHANGED <<linked, bet>> /\ round' \in {round, "bet"}
      /\ pc' \in {"start", "idle"} /\ at' \in Chair
  BY RoomAssumption DEF StartSeat, Advance, Chair
<1> QED BY <1>2, <1>3 DEF IInv, TypeOK, RoomOK, Carried

LEMMA NextCarries ==
  ASSUME IInv, [Next]_vars
  PROVE  IInv' /\ OnlyReplaced(room, room')
<1>1. ASSUME room' = room PROVE OnlyReplaced(room, room')
  BY <1>1 DEF OnlyReplaced
<1>2. CASE UNCHANGED vars
  BY <1>1, <1>2 DEF IInv, TypeOK, vars, RoomOK, Accounting, Referenced
<1>3. ASSUME NEW s \in Socket, OnEventTCPNetworkBind(s)
      PROVE  IInv' /\ OnlyReplaced(room, room')
  BY <1>1, <1>3 DEF OnEventTCPNetworkBind, IInv, TypeOK, RoomOK
<1>4. ASSUME NEW s \in Socket, NEW a \in SUBSET Areas, OnGameMessage(s, a)
      PROVE  IInv' /\ OnlyReplaced(room, room')
  <2>1. bet' \in [Chair -> SUBSET Areas]
    BY <1>4 DEF OnGameMessage, IInv, TypeOK
  <2> QED BY <1>1, <1>4, <2>1 DEF OnGameMessage, IInv, TypeOK, RoomOK
<1>5. CASE OnTimerPlaceJetton
  BY <1>1, <1>5 DEF OnTimerPlaceJetton, IInv, TypeOK, RoomOK
<1>6. CASE OnTimerGameEnd
  BY <1>1, <1>6, RoomAssumption DEF OnTimerGameEnd, IInv, TypeOK, RoomOK, Chair
<1> QED
  BY <1>2, <1>3, <1>4, <1>5, <1>6, ShutStep, LogonStep, SitDownStep, StandUpStep,
     ConcludeSeatStep, KickSeatStep, StartSeatStep DEF Next, Round

LEMMA NextIInv == IInv /\ [Next]_vars => IInv'
BY NextCarries

-----------------------------------------------------------------------------
(* Who loses a connection, and who loses a chair                           *)

\* Of the connections in L, those that name a user in r and nobody in q are
\* asked to close; no request is withdrawn.
Closing(r, q, L) ==
  /\ r.shut \subseteq q.shut
  /\ \A s \in L : r.bind[s] # NoItem /\ q.bind[s] = NoItem => s \in q.shut

LEMMA ClosingTwice ==
  ASSUME NEW r, NEW p, NEW q, NEW L, Closing(r, p, L), Closing(p, q, L)
  PROVE  Closing(r, q, L)
BY DEF Closing

\* The fields that the removal of an object and a new status leave alone
LEMMA DeleteLeaves ==
  ASSUME NEW r \in RoomType, NEW i \in Items, r.user[i] \in Users
  PROVE  LET q == DeleteUserItem(r, i) IN
         q.bind = r.bind /\ q.shut = r.shut /\ q.seat = r.seat /\ q.index = r.index
<1> DEFINE u == r.user[i]
           free == r.free \cup {r.map[u]}
           none == NoItem
           q1 == [r EXCEPT !.free = free]
           q2 == [q1 EXCEPT !.map[u] = none]
<1>1. CASE r.map[u] = NoItem
  BY <1>1 DEF DeleteUserItem
<1>2. CASE r.map[u] # NoItem
  <2>1. free \in SUBSET Items /\ u \in Users /\ none \in Items \cup {NoItem}
    BY <1>2 DEF RoomType
  <2> HIDE DEF u, free, none
  <2>2. q1 \in RoomType /\ q1 = [bind |-> r.bind, shut |-> r.shut, map |-> r.map,
           free |-> free, seat |-> r.seat, user |-> r.user, status |-> r.status,
           chair |-> r.chair, index |-> r.index]
    BY <2>1, SetFree
  <2> HIDE DEF q1
  <2>3. q2 \in RoomType /\ q2 = [bind |-> q1.bind, shut |-> q1.shut,
           map |-> [q1.map EXCEPT ![u] = none],
           free |-> q1.free, seat |-> q1.seat, user |-> q1.user, status |-> q1.status,
           chair |-> q1.chair, index |-> q1.index]
    BY <2>1, <2>2, SetMap
  <2> HIDE DEF q2
  <2>4. DeleteUserItem(r, i) = q2
    BY <1>2 DEF DeleteUserItem, q1, q2, u, free, none
  <2> QED BY <2>2, <2>3, <2>4
<1> QED BY <1>1, <1>2

LEMMA LeaveCloses ==
  ASSUME linked \subseteq Socket, NEW L \in SUBSET linked, NEW r \in RoomType,
         NEW i \in Items, 0 \in L => r.index[i] # 0
  PROVE  LET q == LeaveConnection(r, i) IN
         Closing(r, q, L) /\ q.seat = r.seat /\ q.index = r.index
<1> DEFINE s == r.index[i]
           holder == IF r.bind[s] = i THEN NoItem ELSE r.bind[s]
           shut == IF s # 0 /\ s \in linked THEN r.shut \cup {s} ELSE r.shut
           q1 == [r EXCEPT !.bind[s] = holder]
           q2 == [q1 EXCEPT !.shut = shut]
<1>1. CASE s \notin Socket
  BY <1>1 DEF Closing, LeaveConnection
<1>2. CASE s \in Socket
  <2>1. holder \in Items \cup {NoItem} /\ shut \in SUBSET Socket
    BY <1>2 DEF RoomType
  <2>2. r.shut \subseteq shut /\ (s \in L => s \in shut)
    OBVIOUS
  <2> HIDE DEF holder, shut, s
  <2>3. q1 \in RoomType /\ q1 = [bind |-> [r.bind EXCEPT ![s] = holder],
           shut |-> r.shut, map |-> r.map, free |-> r.free, seat |-> r.seat,
           user |-> r.user, status |-> r.status, chair |-> r.chair, index |-> r.index]
    BY <1>2, <2>1, SetBind
  <2> HIDE DEF q1
  <2>4. q2 \in RoomType /\ q2 = [bind |-> q1.bind, shut |-> shut,
           map |-> q1.map, free |-> q1.free, seat |-> q1.seat, user |-> q1.user,
           status |-> q1.status, chair |-> q1.chair, index |-> q1.index]
    BY <2>1, <2>3, SetShut
  <2> HIDE DEF q2
  <2>5. /\ q2.bind = [r.bind EXCEPT ![s] = holder] /\ q2.shut = shut
        /\ q2.seat = r.seat /\ q2.index = r.index
    BY <2>3, <2>4
  <2>6. Closing(r, q2, L)
    BY <1>2, <2>2, <2>5 DEF Closing, RoomType
  <2>7. LeaveConnection(r, i) = q2
    BY <1>2 DEF LeaveConnection, q1, q2, s, holder, shut
  <2> QED BY <2>5, <2>6, <2>7
<1> QED BY <1>1, <1>2

\* A user removed with US_NULL leaves the connection the object names; index 0
\* is taken for "no connection", so the request is missing there.
LEMMA StatusCloses ==
  ASSUME linked \subseteq Socket, NEW L \in SUBSET linked, NEW r, RoomOK(r),
         NEW i, Object(r, i), NEW v \in Status, NEW c \in Chair \cup {NoChair},
         v = "US_NULL" /\ 0 \in L => r.index[i] # 0
  PROVE  LET q == SetUserStatus(r, i, v, c) IN
         Closing(r, q, L) /\ q.seat = r.seat /\ q.index = r.index
<1> DEFINE q1 == [r EXCEPT !.status[i] = v]
           q2 == [q1 EXCEPT !.chair[i] = c]
           q3 == LeaveConnection(q2, i)
<1>0. r \in RoomType /\ i \in Items /\ r.user[i] \in Users
  BY DEF RoomOK, Object
<1>1. q1 \in RoomType /\ q1 = [bind |-> r.bind, shut |-> r.shut,
         map |-> r.map, free |-> r.free, seat |-> r.seat, user |-> r.user,
         status |-> [r.status EXCEPT ![i] = v], chair |-> r.chair, index |-> r.index]
  BY <1>0, SetStatusField
<1> HIDE DEF q1
<1>2. q2 \in RoomType /\ q2 = [bind |-> q1.bind, shut |-> q1.shut,
         map |-> q1.map, free |-> q1.free, seat |-> q1.seat, user |-> q1.user,
         status |-> q1.status, chair |-> [q1.chair EXCEPT ![i] = c],
         index |-> q1.index]
  BY <1>0, <1>1, SetChair
<1> HIDE DEF q2
<1>3. /\ q2.bind = r.bind /\ q2.shut = r.shut /\ q2.seat = r.seat /\ q2.index = r.index
      /\ q2.user = r.user /\ q2.map = r.map /\ q2.free = r.free
  BY <1>1, <1>2
<1>4. Closing(r, q2, L)
  BY <1>3 DEF Closing
<1>5. CASE v = "US_NULL"
  <2>1. Keeps(r, q2)
    BY <1>2, <1>3, SameUsers
  <2>2. RoomOK(q2) /\ Object(q2, i)
    BY <1>3, <2>1 DEF Keeps, Object
  <2>3. Keeps(q2, q3)
    BY <2>2, LeaveOK
  <2>4. Closing(q2, q3, L) /\ q3.seat = q2.seat /\ q3.index = q2.index
    BY <1>0, <1>2, <1>3, <1>5, LeaveCloses
  <2>5. q3 \in RoomType /\ q3.user[i] \in Users
    BY <2>2, <2>3 DEF Keeps, RoomOK, Object
  <2> HIDE DEF q3
  <2>6. LET q == DeleteUserItem(q3, i) IN
        q.bind = q3.bind /\ q.shut = q3.shut /\ q.seat = q3.seat /\ q.index = q3.index
    BY <1>0, <2>5, DeleteLeaves
  <2>7. SetUserStatus(r, i, v, c) = DeleteUserItem(q3, i)
    BY <1>5 DEF SetUserStatus, q1, q2, q3
  <2> QED BY <1>3, <1>4, <2>4, <2>6, <2>7 DEF Closing
<1>6. CASE v # "US_NULL"
  <2>1. SetUserStatus(r, i, v, c) = q2
    BY <1>6 DEF SetUserStatus, q1, q2
  <2> QED BY <1>3, <1>4, <2>1
<1> QED BY <1>5, <1>6

\* Chair c has a player whose bet the running round will settle.
Playing(r, c) ==
  /\ Started /\ r.seat[c] # NoItem /\ bet[c] # {}
  /\ r.status[r.seat[c]] \in {"US_PLAYING", "US_OFFLINE"}

\* With the trustee option such players keep their chairs.
Settled(r, q) ==
  OffLineTrustee => \A c \in Chair : Playing(r, c) => q.seat[c] = r.seat[c]

LEMMA StandUpCloses ==
  ASSUME linked \subseteq Socket, NEW L \in SUBSET linked, NEW r, RoomOK(r),
         NEW i, Object(r, i), 0 \in L /\ r.status[i] = "US_OFFLINE" => r.index[i] # 0
  PROVE  LET q == PerformStandUpAction(r, i) IN
         /\ Closing(r, q, L) /\ q.index = r.index
         /\ Settled(r, q)
<1> DEFINE c == r.chair[i]
           p == [r EXCEPT !.seat[c] = NoItem]
           left == SetUserStatus(p, i, IF r.status[i] = "US_OFFLINE"
                                       THEN "US_NULL" ELSE "US_FREE", NoChair)
           q == PerformStandUpAction(r, i)
<1>0. r \in RoomType /\ i \in Items /\ c \in Chair \cup {NoChair}
  BY DEF RoomOK, RoomType, Object
<1>1. CASE q = r
  BY <1>1 DEF Closing, Settled
<1>2. CASE c # NoChair /\ q = SetUserStatus(r, i, "US_OFFLINE", c)
  <2>1. c \in Chair \cup {NoChair} /\ "US_OFFLINE" \in Status
    BY <1>0 DEF Status
  <2> HIDE DEF c, q
  <2>2. Closing(r, q, L) /\ q.seat = r.seat /\ q.index = r.index
    BY <1>2, <2>1, StatusCloses
  <2> QED BY <2>2 DEF Settled, q
<1>3. CASE /\ c # NoChair /\ r.seat[c] = i /\ q = left
           /\ ~(/\ Started /\ r.status[i] \in {"US_PLAYING", "US_OFFLINE"}
                /\ OffLineTrustee /\ OnEventGetBetStatus(c))
  <2>1. c \in Chair
    BY <1>0, <1>3
  <2> DEFINE v == IF r.status[i] = "US_OFFLINE" THEN "US_NULL" ELSE "US_FREE"
             none == NoItem
  <2>2. none \in Items \cup {NoItem} /\ v \in Status /\ NoChair \in Chair \cup {NoChair}
    BY DEF Status
  <2>3. v = "US_NULL" /\ 0 \in L => r.index[i] # 0
    OBVIOUS
  <2>4. left = SetUserStatus(p, i, v, NoChair)
    OBVIOUS
  <2>5. p = [r EXCEPT !.seat[c] = none]
    OBVIOUS
  <2> HIDE DEF c, p, v, none, left
  <2>6. p \in RoomType /\ p = [bind |-> r.bind, shut |-> r.shut,
           map |-> r.map, free |-> r.free, seat |-> [r.seat EXCEPT ![c] = none],
           user |-> r.user, status |-> r.status, chair |-> r.chair, index |-> r.index]
    BY <1>0, <2>1, <2>2, <2>5, SetSeat
  <2>7. /\ p.bind = r.bind /\ p.shut = r.shut /\ p.map = r.map /\ p.free = r.free
        /\ p.user = r.user /\ p.index = r.index /\ p.seat = [r.seat EXCEPT ![c] = NoItem]
    BY <2>6 DEF none
  <2>8. \A d \in Chair : p.seat[d] # NoItem => p.seat[d] = r.seat[d]
    BY <1>0, <2>7 DEF RoomType
  <2>9. RoomOK(p) /\ Object(p, i)
    <3>1. Keeps(r, p)
      BY <2>6, <2>7, <2>8, SameUsers
    <3> QED BY <2>7, <3>1 DEF Keeps, Object
  <2>10. Closing(p, left, L) /\ left.seat = p.seat /\ left.index = p.index
    BY <2>2, <2>3, <2>4, <2>7, <2>9, StatusCloses
  <2>11. Closing(r, left, L) /\ left.index = r.index
    BY <2>7, <2>10 DEF Closing
  <2>12. Settled(r, left)
    <3> SUFFICES ASSUME OffLineTrustee, NEW d \in Chair, Playing(r, d)
                 PROVE  left.seat[d] = r.seat[d]
      BY DEF Settled
    <3>1. d # c
      BY <1>3 DEF Playing, OnEventGetBetStatus, c
    <3> QED BY <1>0, <2>7, <2>10, <3>1 DEF RoomType
  <2> QED BY <1>3, <2>11, <2>12
<1> QED BY <1>1, <1>2, <1>3 DEF PerformStandUpAction

\* Only an empty chair is taken.
LEMMA SitDownCloses ==
  ASSUME linked \subseteq Socket, NEW L \in SUBSET linked, NEW r, RoomOK(r),
         NEW i, Object(r, i), NEW c \in Chair
  PROVE  LET q == PerformSitDownAction(r, c, i) IN
         /\ Closing(r, q, L)
         /\ \A d \in Chair : r.seat[d] # NoItem => q.seat[d] = r.seat[d]
<1> DEFINE p == [r EXCEPT !.seat[c] = i]
           v == IF Started THEN "US_READY" ELSE "US_PLAYING"
           left == SetUserStatus(p, i, v, c)
           q == PerformSitDownAction(r, c, i)
<1>0. r \in RoomType /\ i \in Items /\ r.user[i] # NoUser /\ v \in Status \ {"US_NULL"}
  BY RoomAssumption DEF RoomOK, Object, Status
<1>1. CASE r.seat[c] # NoItem
  BY <1>1 DEF PerformSitDownAction, Closing
<1>2. CASE r.seat[c] = NoItem
  <2>1. p \in RoomType /\ p = [bind |-> r.bind, shut |-> r.shut,
           map |-> r.map, free |-> r.free, seat |-> [r.seat EXCEPT ![c] = i],
           user |-> r.user, status |-> r.status, chair |-> r.chair, index |-> r.index]
    BY <1>0, SetSeat
  <2>2. q = left
    BY <1>2 DEF PerformSitDownAction
  <2> HIDE DEF p, v
  <2>3. /\ p.bind = r.bind /\ p.shut = r.shut /\ p.map = r.map /\ p.free = r.free
        /\ p.user = r.user /\ p.index = r.index /\ p.seat = [r.seat EXCEPT ![c] = i]
    BY <2>1
  <2>4. \A d \in Chair : p.seat[d] # NoItem =>
          p.seat[d] = r.seat[d] \/ r.user[p.seat[d]] # NoUser
    BY <1>0, <2>3 DEF RoomType
  <2>5. RoomOK(p) /\ Object(p, i)
    <3>1. \A s \in Socket : p.bind[s] # NoItem => p.bind[s] = r.bind[s]
      BY <2>3
    <3>2. p.user = r.user /\ p.map = r.map /\ p.free = r.free /\ p \in RoomType
      BY <2>1, <2>3
    <3> HIDE DEF q, left
    <3>3. Keeps(r, p)
      BY <2>4, <3>1, <3>2, SameUsers
    <3> QED BY <2>3, <3>3 DEF Keeps, Object
  <2>6. Closing(p, left, L) /\ left.seat = p.seat
    BY <1>0, <2>5, StatusCloses
  <2> HIDE DEF left, q
  <2>7. Closing(r, q, L)
    BY <2>2, <2>3, <2>6 DEF Closing
  <2>8. \A d \in Chair : r.seat[d] # NoItem => q.seat[d] = r.seat[d]
    BY <1>0, <1>2, <2>2, <2>3, <2>6 DEF RoomType
  <2> QED BY <2>7, <2>8 DEF q
<1> QED BY <1>1, <1>2

LEMMA OffLineCloses ==
  ASSUME linked \subseteq Socket, NEW L \in SUBSET linked, NEW r, RoomOK(r),
         NEW i, Object(r, i), 0 \in L => r.index[i] # 0
  PROVE  LET q == OnEventUserOffLine(r, i) IN Closing(r, q, L) /\ Settled(r, q)
<1> DEFINE q == OnEventUserOffLine(r, i)
           stood == PerformStandUpAction(r, i)
           left == SetUserStatus(stood, i, "US_NULL", NoChair)
           away == SetUserStatus(r, i, "US_OFFLINE", r.chair[i])
<1>1. r.chair[i] \in Chair \cup {NoChair}
  BY DEF RoomOK, RoomType, Object
<1>2. CASE q = r
  BY <1>2 DEF Closing, Settled
<1>3. CASE q = away
  <2>1. Closing(r, away, L) /\ away.seat = r.seat
    BY <1>1, StatusCloses DEF Status
  <2> QED BY <1>3, <2>1 DEF Settled
<1>4. CASE q = left
  <2>1. Closing(r, stood, L) /\ Settled(r, stood) /\ stood.index = r.index
    BY StandUpCloses
  <2>2. RoomOK(stood) /\ Object(stood, i)
    BY StandUpOK DEF Keeps, Object
  <2> HIDE DEF stood, q
  <2>3. Closing(stood, left, L) /\ left.seat = stood.seat
    BY <2>1, <2>2, StatusCloses DEF Status
  <2> HIDE DEF left
  <2>4. Closing(r, q, L) /\ Settled(r, q)
    BY <1>4, <2>1, <2>3 DEF Closing, Settled
  <2> QED BY <2>4 DEF q
<1> QED BY <1>2, <1>3, <1>4 DEF OnEventUserOffLine

\* The connection a user leaves for another is asked to close, 0 included.
LEMMA SwitchCloses ==
  ASSUME linked \subseteq Socket, NEW L \in SUBSET linked, NEW r, RoomOK(r),
         NEW i, Object(r, i), NEW s \in Socket
  PROVE  LET q == SwitchUserItemConnect(r, i, s) IN Closing(r, q, L) /\ q.seat = r.seat
<1> DEFINE source == r.index[i]
           holder == IF r.bind[source] = i THEN NoItem ELSE r.bind[source]
           shut == r.shut \cup {IF source \in linked THEN source ELSE 0}
           d1 == [r EXCEPT !.bind[source] = holder]
           d2 == [d1 EXCEPT !.shut = shut]
           d == IF source \notin Socket THEN r ELSE d2
           a1 == [d EXCEPT !.bind[s] = i]
           a2 == [a1 EXCEPT !.index[i] = s]
           q == SwitchUserItemConnect(r, i, s)
           play == SetUserStatus(a2, i, "US_PLAYING", r.chair[i])
<1>0. /\ r \in RoomType /\ i \in Items /\ r.user[i] # NoUser /\ i # NoItem
      /\ r.chair[i] \in Chair \cup {NoChair}
  BY RoomAssumption DEF RoomOK, Object, RoomType
<1>1. /\ d \in RoomType /\ Closing(r, d, L) /\ d.seat = r.seat /\ d.user = r.user
      /\ d.map = r.map /\ d.free = r.free
      /\ \A t \in Socket : d.bind[t] # NoItem => d.bind[t] = r.bind[t]
  <2>1. CASE source \notin Socket
    BY <1>0, <2>1 DEF Closing
  <2>2. CASE source \in Socket
    <3>1. holder \in Items \cup {NoItem} /\ shut \in SUBSET Socket
      BY <1>0, <2>2, RoomAssumption DEF RoomType, Socket
    <3>2. r.shut \subseteq shut /\ (source \in L => source \in shut)
          /\ (holder # NoItem => holder = r.bind[source])
      OBVIOUS
    <3> HIDE DEF holder, shut, source
    <3>3. d1 \in RoomType /\ d1 = [bind |-> [r.bind EXCEPT ![source] = holder],
             shut |-> r.shut, map |-> r.map, free |-> r.free, seat |-> r.seat,
             user |-> r.user, status |-> r.status, chair |-> r.chair, index |-> r.index]
      BY <1>0, <2>2, <3>1, SetBind
    <3> HIDE DEF d1
    <3>4. d2 \in RoomType /\ d2 = [bind |-> d1.bind, shut |-> shut,
             map |-> d1.map, free |-> d1.free, seat |-> d1.seat, user |-> d1.user,
             status |-> d1.status, chair |-> d1.chair, index |-> d1.index]
      BY <3>1, <3>3, SetShut
    <3> HIDE DEF d2
    <3>5. /\ d2.bind = [r.bind EXCEPT ![source] = holder] /\ d2.shut = shut
          /\ d2.seat = r.seat /\ d2.user = r.user /\ d2.map = r.map /\ d2.free = r.free
      BY <3>3, <3>4
    <3>6. Closing(r, d2, L)
      BY <1>0, <2>2, <3>2, <3>5 DEF Closing, RoomType
    <3>7. \A t \in Socket : d2.bind[t] # NoItem => d2.bind[t] = r.bind[t]
      BY <1>0, <3>2, <3>5 DEF RoomType
    <3> QED BY <2>2, <3>4, <3>5, <3>6, <3>7
  <2> QED BY <2>1, <2>2
<1>2. q \in {a2, play}
  BY DEF SwitchUserItemConnect
<1> HIDE DEF d, q
<1>3. a1 \in RoomType /\ a1 = [bind |-> [d.bind EXCEPT ![s] = i],
         shut |-> d.shut, map |-> d.map, free |-> d.free,
         seat |-> d.seat, user |-> d.user, status |-> d.status,
         chair |-> d.chair, index |-> d.index]
  BY <1>0, <1>1, SetBind
<1> HIDE DEF a1
<1>4. a2 \in RoomType /\ a2 = [bind |-> a1.bind, shut |-> a1.shut,
         map |-> a1.map, free |-> a1.free, seat |-> a1.seat, user |-> a1.user,
         status |-> a1.status, chair |-> a1.chair,
         index |-> [a1.index EXCEPT ![i] = s]]
  BY <1>0, <1>3, SetIndex
<1> HIDE DEF a2
<1>5. /\ a2.bind = [d.bind EXCEPT ![s] = i] /\ a2.shut = d.shut /\ a2.seat = d.seat
      /\ a2.user = d.user /\ a2.map = d.map /\ a2.free = d.free
  BY <1>3, <1>4
<1>6. Closing(r, a2, L) /\ a2.seat = r.seat
  <2>1. \A t \in Socket : a2.bind[t] = NoItem => d.bind[t] = NoItem
    BY <1>0, <1>1, <1>5 DEF RoomType
  <2> QED BY <1>1, <1>5, <2>1 DEF Closing
<1>7. Closing(a2, play, L) /\ play.seat = a2.seat
  <2>1. \A t \in Socket : a2.bind[t] # NoItem =>
          a2.bind[t] = r.bind[t] \/ r.user[a2.bind[t]] # NoUser
    BY <1>0, <1>1, <1>5 DEF RoomType
  <2>2. Keeps(r, a2)
    BY <1>1, <1>4, <1>5, <2>1, SameUsers
  <2>3. RoomOK(a2) /\ Object(a2, i)
    BY <2>2 DEF Keeps, Object
  <2> QED BY <1>0, <2>3, StatusCloses DEF Status
<1> HIDE DEF play
<1>8. Closing(r, q, L) /\ q.seat = r.seat
  BY <1>2, <1>6, <1>7 DEF Closing
<1> QED BY <1>8 DEF q

\* What a step has to show of the connections in L and of the chairs
Losing(L) ==
  \A s \in L \cap linked' :
    room.bind[s] # NoItem /\ room'.bind[s] = NoItem => s \in room'.shut

\* Connection 0 is named by no user whom a handler removes while it is open.
ZeroIsSafe ==
  /\ \A s \in Socket : room.bind[s] # NoItem =>
       room.index[room.bind[s]] = s /\ room.status[room.bind[s]] # "US_OFFLINE"
  /\ \A c \in Chair : room.seat[c] # NoItem =>
       /\ room.status[room.seat[c]] # "US_NULL"
       /\ room.status[room.seat[c]] = "US_OFFLINE" => room.index[room.seat[c]] # 0

LEMMA ShutLoses ==
  ASSUME IInv, NEW L \in SUBSET linked, 0 \in L => ZeroIsSafe,
         NEW s \in Socket, OnEventTCPNetworkShut(s)
  PROVE  Losing(L) /\ Settled(room, room')
<1> DEFINE i == room.bind[s]
           none == NoBind
           gone == [room EXCEPT !.index[i] = none]
           left == IF i = NoItem THEN room
                   ELSE IF room.chair[i] # NoChair THEN OnEventUserOffLine(gone, i)
                   ELSE SetUserStatus(room, i, "US_NULL", NoChair)
           M == L \ {s}
<1>0. /\ RoomOK(room) /\ room \in RoomType /\ linked \subseteq Socket
      /\ M \in SUBSET linked /\ s \notin M /\ linked' = linked \ {s}
      /\ none \in Socket \cup {NoBind} /\ none # 0
  BY DEF IInv, RoomOK, TypeOK, OnEventTCPNetworkShut, NoBind
<1>1. left \in RoomType /\ Closing(room, left, M) /\ Settled(room, left)
  <2>1. CASE i = NoItem
    BY <1>0, <2>1 DEF Closing, Settled
  <2>2. CASE i # NoItem /\ room.chair[i] # NoChair
    <3>1. Object(room, i) /\ i \in Items
      BY <1>0, <2>2, PointersOK DEF Object
    <3> DEFINE off == OnEventUserOffLine(gone, i)
    <3> HIDE DEF i, none, M
    <3>2. gone \in RoomType /\ gone = [bind |-> room.bind, shut |-> room.shut,
            map |-> room.map, free |-> room.free, seat |-> room.seat,
            user |-> room.user, status |-> room.status, chair |-> room.chair,
            index |-> [room.index EXCEPT ![i] = none]]
      BY <1>0, <3>1, SetIndex
    <3> HIDE DEF gone
    <3>3. /\ gone.bind = room.bind /\ gone.shut = room.shut /\ gone.seat = room.seat
          /\ gone.user = room.user /\ gone.map = room.map /\ gone.free = room.free
          /\ gone.status = room.status
      BY <3>2
    <3>4. gone.index[i] # 0
      BY <1>0, <3>1, <3>2 DEF RoomType
    <3>5. RoomOK(gone) /\ Object(gone, i)
      <4>1. Keeps(room, gone)
        BY <1>0, <3>2, <3>3, SameUsers
      <4> QED BY <3>1, <3>3, <4>1 DEF Keeps, Object
    <3>6. Closing(gone, off, M) /\ Settled(gone, off)
      BY <1>0, <3>4, <3>5, OffLineCloses
    <3>7. off \in RoomType
      BY <3>5, OffLineOK DEF Keeps, RoomOK
    <3>8. left = off
      BY <2>2 DEF i
    <3> HIDE DEF off, left
    <3> QED BY <3>3, <3>6, <3>7, <3>8 DEF Closing, Settled, Playing
  <2>3. CASE i # NoItem /\ room.chair[i] = NoChair
    <3>1. Object(room, i)
      BY <1>0, <2>3, PointersOK DEF Object
    <3>2. 0 \in M => room.index[i] # 0
      BY <2>3 DEF ZeroIsSafe
    <3> DEFINE away == SetUserStatus(room, i, "US_NULL", NoChair)
    <3>3. left = away
      BY <2>3
    <3> HIDE DEF i, M, left
    <3>4. Closing(room, away, M) /\ away.seat = room.seat
      BY <1>0, <3>1, <3>2, StatusCloses DEF Status
    <3>5. away \in RoomType
      BY <1>0, <3>1, StatusOK DEF Keeps, RoomOK, Status
    <3> QED BY <3>3, <3>4, <3>5 DEF Settled
  <2> QED BY <2>1, <2>2, <2>3
<1>2. room' = [left EXCEPT !.bind[s] = NoItem, !.shut = @ \ {s}]
  BY DEF OnEventTCPNetworkShut
<1> HIDE DEF left
<1>3. /\ room'.bind = [left.bind EXCEPT ![s] = NoItem] /\ room'.shut = left.shut \ {s}
      /\ room'.seat = left.seat
  BY <1>1, <1>2 DEF RoomType
<1>4. \A t \in M : room'.bind[t] = left.bind[t]
  BY <1>0, <1>1, <1>3 DEF RoomType
<1>5. L \cap linked' = M
  BY <1>0
<1>6. Losing(L)
  BY <1>0, <1>1, <1>3, <1>4, <1>5 DEF Losing, Closing
<1>7. Settled(room, room')
  BY <1>1, <1>3 DEF Settled
<1> QED BY <1>6, <1>7

LEMMA RefuseLoses ==
  ASSUME IInv, NEW L, NEW s \in Socket, Refuse(s)
  PROVE  Losing(L) /\ Settled(room, room')
<1>1. room'.bind = room.bind /\ room'.seat = room.seat
  BY DEF Refuse, IInv, RoomOK, RoomType
<1> QED BY <1>1 DEF Losing, Settled

LEMMA LogonLoses ==
  ASSUME IInv, NEW L \in SUBSET linked, NEW s \in Socket, NEW u \in Users,
         NEW p \in BOOLEAN, OnTCPNetworkSubMBLogonVisitor(s, u, p)
  PROVE  Losing(L) /\ Settled(room, room')
<1>0. RoomOK(room) /\ room \in RoomType /\ linked \subseteq Socket
  BY DEF IInv, RoomOK, TypeOK
<1>1. CASE Refuse(s)
  BY <1>1, RefuseLoses
<1>2. CASE room.map[u] # NoItem
           /\ room' = SwitchUserItemConnect(room, room.map[u], s)
  <2>1. Object(room, room.map[u])
    BY <1>0, <1>2, PointersOK
  <2>2. Closing(room, room', L) /\ room'.seat = room.seat
    BY <1>0, <1>2, <2>1, SwitchCloses
  <2> QED BY <2>2 DEF Closing, Losing, Settled
<1>3. CASE \E i \in Allocatable(room) : room' = InsertUserItem(room, i, u, s)
  <2>1. PICK i \in Allocatable(room) : room' = InsertUserItem(room, i, u, s)
    BY <1>3
  <2>2. i \in Items /\ i # NoItem
    BY <1>0, RoomAssumption DEF Allocatable, RoomType
  <2>3. room'.bind = [room.bind EXCEPT ![s] = i] /\ room'.seat = room.seat
    BY <1>0, <2>1, <2>2 DEF InsertUserItem, RoomType
  <2>4. \A t \in Socket : room'.bind[t] = NoItem => room.bind[t] = NoItem
    BY <1>0, <2>2, <2>3 DEF RoomType
  <2> QED BY <1>0, <2>3, <2>4 DEF Losing, Settled
<1> QED BY <1>1, <1>2, <1>3 DEF OnTCPNetworkSubMBLogonVisitor

LEMMA SitDownLoses ==
  ASSUME IInv, NEW L \in SUBSET linked, 0 \in L => ZeroIsSafe,
         NEW s \in Socket, NEW c \in Chair, OnTCPNetworkSubUserSitDown(s, c)
  PROVE  Losing(L) /\ Settled(room, room')
<1> DEFINE i == room.bind[s]
           stood == PerformStandUpAction(room, i)
           found == NullChairs(stood)
           chair == IF found = {} THEN c ELSE CHOOSE d \in found : TRUE
<1>0. RoomOK(room) /\ room \in RoomType /\ linked \subseteq Socket
  BY DEF IInv, RoomOK, TypeOK
<1>1. CASE Refuse(s)
  BY <1>1, RefuseLoses
<1>2. CASE room' = room
  BY <1>2 DEF Losing, Settled
<1>3. CASE i # NoItem /\ room' = PerformSitDownAction(stood, chair, i)
  <2>1. Object(room, i)
    BY <1>0, <1>3, PointersOK
  <2>2. 0 \in L /\ room.status[i] = "US_OFFLINE" => room.index[i] # 0
    BY <1>3 DEF ZeroIsSafe
  <2>3. Closing(room, stood, L) /\ Settled(room, stood)
    BY <1>0, <2>1, <2>2, StandUpCloses
  <2>4. RoomOK(stood) /\ Object(stood, i)
    BY <1>0, <2>1, StandUpOK DEF Keeps, Object
  <2>5. chair \in Chair
    BY DEF NullChairs
  <2> HIDE DEF stood, chair, i
  <2>6. /\ Closing(stood, room', L)
        /\ \A d \in Chair : stood.seat[d] # NoItem => room'.seat[d] = stood.seat[d]
    BY <1>0, <1>3, <2>4, <2>5, SitDownCloses
  <2>7. Closing(room, room', L)
    BY <2>3, <2>6, ClosingTwice
  <2>8. Settled(room, room')
    BY <2>3, <2>6 DEF Settled, Playing
  <2> QED BY <2>7, <2>8 DEF Closing, Losing
<1> QED BY <1>1, <1>2, <1>3 DEF OnTCPNetworkSubUserSitDown

LEMMA StandUpLoses ==
  ASSUME IInv, NEW L \in SUBSET linked, 0 \in L => ZeroIsSafe,
         NEW s \in Socket, NEW f \in BOOLEAN, OnTCPNetworkSubUserStandUp(s, f)
  PROVE  Losing(L) /\ Settled(room, room')
<1> DEFINE i == room.bind[s]
<1>0. RoomOK(room) /\ linked \subseteq Socket
  BY DEF IInv, TypeOK
<1>1. CASE Refuse(s)
  BY <1>1, RefuseLoses
<1>2. CASE room' = room
  BY <1>2 DEF Losing, Settled
<1>3. CASE i # NoItem /\ room' = PerformStandUpAction(room, i)
  <2>1. Object(room, i)
    BY <1>0, <1>3, PointersOK
  <2>2. 0 \in L /\ room.status[i] = "US_OFFLINE" => room.index[i] # 0
    BY <1>3 DEF ZeroIsSafe
  <2> HIDE DEF i
  <2>3. Closing(room, room', L) /\ Settled(room, room')
    BY <1>0, <1>3, <2>1, <2>2, StandUpCloses
  <2> QED BY <2>3 DEF Closing, Losing
<1> QED BY <1>1, <1>2, <1>3 DEF OnTCPNetworkSubUserStandUp

\* The loops run between two rounds: the bets are settled already.
LEMMA LoopSettles ==
  ASSUME NEW q, pc # "idle"
  PROVE  Settled(room, q)
BY DEF Settled, Playing, Started

LEMMA ConcludeSeatLoses ==
  ASSUME IInv, NEW L \in SUBSET linked, 0 \in L => ZeroIsSafe, ConcludeSeat
  PROVE  Losing(L) /\ Settled(room, room')
<1> DEFINE i == room.seat[at]
           q == SetUserStatus(room, i, "US_NULL", at)
<1>0. RoomOK(room) /\ linked \subseteq Socket /\ at \in Chair
  BY DEF IInv, TypeOK
<1>1. Settled(room, room')
  BY LoopSettles DEF ConcludeSeat, Advance
<1>2. CASE i = NoItem
  BY <1>1, <1>2 DEF ConcludeSeat, Losing
<1>3. CASE i # NoItem
  <2>1. Object(room, i)
    BY <1>0, <1>3, PointersOK
  <2>2. 0 \in L => /\ room.status[i] # "US_NULL"
                   /\ room.status[i] = "US_OFFLINE" => room.index[i] # 0
    BY <1>0, <1>3 DEF ZeroIsSafe
  <2>3. \/ room' = PerformStandUpAction(room, i)
        \/ room.status[i] = "US_NULL" /\ room' = PerformStandUpAction(q, i)
        \/ room' = SetUserStatus(room, i, "US_SIT", at)
    BY <1>3 DEF ConcludeSeat
  <2> HIDE DEF i
  <2>4. CASE room' = PerformStandUpAction(room, i)
    <3>1. Closing(room, room', L)
      BY <1>0, <2>1, <2>2, <2>4, StandUpCloses
    <3> QED BY <1>1, <3>1 DEF Closing, Losing
  <2>5. CASE room.status[i] = "US_NULL" /\ room' = PerformStandUpAction(q, i)
    <3>1. 0 \notin L
      BY <2>2, <2>5
    <3>2. Closing(room, q, L)
      BY <1>0, <2>1, <3>1, StatusCloses DEF Status
    <3>3. RoomOK(q) /\ Object(q, i)
      BY <1>0, <2>1, StatusOK DEF Keeps, Object, Status
    <3> HIDE DEF q
    <3>4. Closing(q, room', L)
      BY <1>0, <2>5, <3>1, <3>3, StandUpCloses
    <3>5. Closing(room, room', L)
      BY <3>2, <3>4, ClosingTwice
    <3> QED BY <1>1, <3>5 DEF Closing, Losing
  <2>6. CASE room' = SetUserStatus(room, i, "US_SIT", at)
    <3>1. Closing(room, room', L)
      BY <1>0, <2>1, <2>6, StatusCloses DEF Status
    <3> QED BY <1>1, <3>1 DEF Closing, Losing
  <2> QED BY <2>3, <2>4, <2>5, <2>6
<1> QED BY <1>2, <1>3

LEMMA KickSeatLoses ==
  ASSUME IInv, NEW L \in SUBSET linked, 0 \in L => ZeroIsSafe,
         NEW below \in BOOLEAN, KickSeat(below)
  PROVE  Losing(L) /\ Settled(room, room')
<1> DEFINE i == room.seat[at]
<1>0. RoomOK(room) /\ linked \subseteq Socket /\ at \in Chair
  BY DEF IInv, TypeOK
<1>1. Settled(room, room')
  BY LoopSettles DEF KickSeat, Advance
<1>2. CASE room' = room
  BY <1>1, <1>2 DEF Losing
<1>3. CASE i # NoItem /\ room' = PerformStandUpAction(room, i)
  <2>1. Object(room, i)
    BY <1>0, <1>3, PointersOK
  <2>2. 0 \in L /\ room.status[i] = "US_OFFLINE" => room.index[i] # 0
    BY <1>0, <1>3 DEF ZeroIsSafe
  <2> HIDE DEF i
  <2>3. Closing(room, room', L)
    BY <1>0, <1>3, <2>1, <2>2, StandUpCloses
  <2> QED BY <1>1, <2>3 DEF Closing, Losing
<1> QED BY <1>2, <1>3 DEF KickSeat

LEMMA StartSeatLoses ==
  ASSUME IInv, NEW L \in SUBSET linked, StartSeat
  PROVE  Losing(L) /\ Settled(room, room')
<1> DEFINE i == room.seat[at]
<1>0. RoomOK(room) /\ linked \subseteq Socket /\ at \in Chair
  BY DEF IInv, TypeOK
<1>1. Settled(room, room')
  BY LoopSettles DEF StartSeat, Advance
<1>2. CASE room' = room
  BY <1>1, <1>2 DEF Losing
<1>3. CASE i # NoItem /\ room' = SetUserStatus(room, i, "US_PLAYING", at)
  <2>1. Object(room, i)
    BY <1>0, <1>3, PointersOK
  <2> HIDE DEF i
  <2>2. Closing(room, room', L)
    BY <1>0, <1>3, <2>1, StatusCloses DEF Status
  <2> QED BY <1>1, <2>2 DEF Closing, Losing
<1> QED BY <1>2, <1>3 DEF StartSeat

LEMMA NextLoses ==
  ASSUME IInv, [Next]_vars, NEW L \in SUBSET linked, 0 \in L => ZeroIsSafe
  PROVE  Losing(L) /\ Settled(room, room')
<1>1. ASSUME room' = room PROVE Losing(L) /\ Settled(room, room')
  BY <1>1 DEF Losing, Settled
<1>2. CASE UNCHANGED vars
  BY <1>1, <1>2 DEF vars
<1>3. ASSUME NEW s \in Socket, OnEventTCPNetworkBind(s)
      PROVE  Losing(L) /\ Settled(room, room')
  BY <1>1, <1>3 DEF OnEventTCPNetworkBind
<1>4. ASSUME NEW s \in Socket, NEW a \in SUBSET Areas, OnGameMessage(s, a)
      PROVE  Losing(L) /\ Settled(room, room')
  BY <1>1, <1>4 DEF OnGameMessage
<1>5. CASE OnTimerPlaceJetton \/ OnTimerGameEnd
  BY <1>1, <1>5 DEF OnTimerPlaceJetton, OnTimerGameEnd
<1> QED
  BY <1>2, <1>3, <1>4, <1>5, ShutLoses, LogonLoses, SitDownLoses, StandUpLoses,
     ConcludeSeatLoses, KickSeatLoses, StartSeatLoses DEF Next, Round

-----------------------------------------------------------------------------
(* The theorems                                                            *)

\* The fields of the room, the objects and the loops stay within their types
\* whatever the clients, the options and the timers do.
THEOREM TypeCorrect == Spec => []TypeOK
<1>1. IInv => TypeOK
  BY DEF IInv
<1> QED BY <1>1, InitIInv, NextIInv, PTL DEF Spec

\* DeleteUserItem and InsertUserItem move whole objects between the user map
\* and the free list: an object is never in both, nor registered under another
\* user's id, even when a second logon has left an object behind.
THEOREM AccountingHolds == Spec => []ItemAccounting
<1>1. IInv => ItemAccounting
  BY DEF IInv, RoomOK, ItemAccounting
<1> QED BY <1>1, InitIInv, NextIInv, PTL DEF Spec

\* Only a user's second logon makes the room lose an object, and whatever is
\* removed, by whichever pointer, is afterwards as much registered or free as
\* before: DeleteUserItem frees what the map holds, which need not be what it is
\* given. For every option, with clients that log on as often as they like.
THEOREM ObjectsAreLostToLogons == Spec => LostOnlyToSecondLogon
<1> DEFINE A == \A i \in Items : room.user[i] # NoUser =>
                  /\ i \in Kept(room') => i \in Kept(room)
                  /\ i \in Kept(room) \ Kept(room') =>
                       room.map[room.user[i]] = i /\ room'.map[room.user[i]] # NoItem
<1>1. IInv /\ [Next]_vars => [A]_vars
  BY NextCarries DEF OnlyReplaced
<1> HIDE DEF A
<1>2. Spec => [][A]_vars
  BY <1>1, InitIInv, NextIInv, PTL DEF Spec
<1> QED BY <1>2 DEF LostOnlyToSecondLogon, A

\* With the trustee option a player with a bet on the chair keeps the chair while
\* the round runs, whatever this player and the others do: what
\* OnEventGetBetStatus reads past the chair's own row can only keep more.
THEOREM PlayersKeepTheirSeats ==
  ASSUME OffLineTrustee
  PROVE  Spec => BettorKeepsSeat
<1> DEFINE A == \A c \in Chair :
                  LET i == room.seat[c]
                  IN  /\ Started /\ i # NoItem /\ bet[c] # {}
                      /\ room.status[i] \in {"US_PLAYING", "US_OFFLINE"}
                      => room'.seat[c] = i
<1>1. ASSUME IInv, [Next]_vars PROVE A
  <2>1. Settled(room, room')
    <3>1. PICK L : L = {}
      OBVIOUS
    <3> QED BY <1>1, <3>1, NextLoses
  <2> QED BY <2>1 DEF Settled, Playing
<1>2. IInv /\ [Next]_vars => [A]_vars
  BY <1>1
<1> HIDE DEF A
<1>3. Spec => [][A]_vars
  BY <1>2, InitIInv, NextIInv, PTL DEF Spec
<1> QED BY <1>3 DEF BettorKeepsSeat, A

\* A handler that takes a connection from its user asks for it to be closed,
\* unless it is connection 0, which LeaveConnection takes for no connection.
THEOREM TheEvictedAreShutDown == Spec => EvictedIsShutDownButZero
<1> DEFINE A == \A s \in (linked \cap linked') \ {0} :
                  room.bind[s] # NoItem /\ room'.bind[s] = NoItem => s \in room'.shut
<1>1. ASSUME IInv, [Next]_vars PROVE A
  <2>1. PICK L : L = linked \ {0}
    OBVIOUS
  <2>2. Losing(L)
    BY <1>1, <2>1, NextLoses
  <2> QED BY <2>1, <2>2 DEF Losing
<1>2. IInv /\ [Next]_vars => [A]_vars
  BY <1>1
<1> HIDE DEF A
<1>3. Spec => [][A]_vars
  BY <1>2, InitIInv, NextIInv, PTL DEF Spec
<1> QED BY <1>3 DEF EvictedIsShutDownButZero, A

-----------------------------------------------------------------------------
(***************************************************************************)
(* Where the users are: connections, chairs and statuses agree.  It takes  *)
(* clients that do not log on twice and a room without the trustee option, *)
(* with which a user may come to sit on two chairs.                        *)
(*                                                                         *)
(* The functions that move a user break the agreement and restore it, so   *)
(* each has a lemma that says which fields it changes, and the handlers'   *)
(* lemmas look at what is left of the room at their end.                   *)
(***************************************************************************)

\* Object i is registered.
Here(r, i) == Object(r, i) /\ r.map[r.user[i]] = i

\* The connections that are open being L, who a connection or a chair names is
\* registered and names it ...
Named(r, L) ==
  /\ \A s \in Socket : r.bind[s] # NoItem =>
       s \in L /\ Here(r, r.bind[s]) /\ r.index[r.bind[s]] = s
  /\ \A c \in Chair : r.seat[c] # NoItem =>
       Here(r, r.seat[c]) /\ r.chair[r.seat[c]] = c

\* ... and who is registered is named by the connection and the chair that the
\* object names, and has the status that goes with them.
Placed(r, i) ==
  /\ r.index[i] # NoBind => r.bind[r.index[i]] = i
  /\ r.chair[i] # NoChair => r.seat[r.chair[i]] = i
  /\ r.status[i] # "US_NULL"
  /\ r.status[i] = "US_FREE" <=> r.chair[i] = NoChair
  /\ r.status[i] = "US_OFFLINE" <=> r.index[i] = NoBind

Places(r, L) == Named(r, L) /\ \A i \in Items : Here(r, i) => Placed(r, i)

LEMMA LiveIsHere ==
  ASSUME NEW r, RoomOK(r), NEW i
  PROVE  i \in Live(r) <=> Here(r, i)
<1>1. ASSUME i \in Live(r) PROVE Here(r, i)
  <2>1. PICK u \in Users : r.map[u] = i /\ i # NoItem
    BY <1>1 DEF Live
  <2> QED BY <2>1 DEF RoomOK, RoomType, Accounting, Here, Object
<1>2. ASSUME Here(r, i) PROVE i \in Live(r)
  BY <1>2, RoomAssumption DEF Here, Object, Live
<1> QED BY <1>1, <1>2

LEMMA PlacesAreConsistent ==
  ASSUME RoomOK(room)
  PROVE  Places(room, linked) <=> BindConsistent /\ SeatConsistent /\ StatusConsistent
<1>1. \A i : i \in Live(room) <=> Here(room, i)
  BY LiveIsHere
<1>2. \A i : Here(room, i) => i \in Items
  BY DEF Here, Object
<1> QED BY <1>1, <1>2 DEF Places, Named, Placed, BindConsistent, SeatConsistent, StatusConsistent

-----------------------------------------------------------------------------
(* What the functions change                                               *)

\* A status that is not US_NULL: two fields of the object
LEMMA StatusFields ==
  ASSUME NEW r \in RoomType, NEW i \in Items,
         NEW v \in Status \ {"US_NULL"}, NEW c \in Chair \cup {NoChair}
  PROVE  LET q == SetUserStatus(r, i, v, c) IN
         /\ q \in RoomType
         /\ q.bind = r.bind /\ q.map = r.map /\ q.seat = r.seat
         /\ q.user = r.user /\ q.index = r.index
         /\ q.status = [r.status EXCEPT ![i] = v] /\ q.chair = [r.chair EXCEPT ![i] = c]
<1> DEFINE q1 == [r EXCEPT !.status[i] = v]
           q2 == [q1 EXCEPT !.chair[i] = c]
<1>1. q1 \in RoomType /\ q1 = [bind |-> r.bind, shut |-> r.shut,
         map |-> r.map, free |-> r.free, seat |-> r.seat, user |-> r.user,
         status |-> [r.status EXCEPT ![i] = v], chair |-> r.chair, index |-> r.index]
  BY SetStatusField
<1> HIDE DEF q1
<1>2. q2 \in RoomType /\ q2 = [bind |-> q1.bind, shut |-> q1.shut,
         map |-> q1.map, free |-> q1.free, seat |-> q1.seat, user |-> q1.user,
         status |-> q1.status, chair |-> [q1.chair EXCEPT ![i] = c],
         index |-> q1.index]
  BY <1>1, SetChair
<1> HIDE DEF q2
<1>3. SetUserStatus(r, i, v, c) = q2
  BY DEF SetUserStatus, q1, q2
<1> QED BY <1>1, <1>2, <1>3

\* A registered object's removal
LEMMA DeleteFields ==
  ASSUME NEW r \in RoomType, NEW i, Here(r, i)
  PROVE  LET q == DeleteUserItem(r, i) IN
         /\ q \in RoomType
         /\ q.map = [r.map EXCEPT ![r.user[i]] = NoItem]
         /\ q.bind = r.bind /\ q.seat = r.seat /\ q.user = r.user
         /\ q.status = r.status /\ q.chair = r.chair /\ q.index = r.index
<1> DEFINE u == r.user[i]
           free == r.free \cup {r.map[u]}
           none == NoItem
           q1 == [r EXCEPT !.free = free]
           q2 == [q1 EXCEPT !.map[u] = none]
<1>1. u \in Users /\ r.map[u] # NoItem /\ free \in SUBSET Items
      /\ none \in Items \cup {NoItem}
  BY RoomAssumption DEF Here, Object, RoomType
<1>4. DeleteUserItem(r, i) = q2
  BY <1>1 DEF DeleteUserItem
<1> HIDE DEF u, free, none
<1>2. q1 \in RoomType /\ q1 = [bind |-> r.bind, shut |-> r.shut, map |-> r.map,
         free |-> free, seat |-> r.seat, user |-> r.user, status |-> r.status,
         chair |-> r.chair, index |-> r.index]
  BY <1>1, SetFree
<1> HIDE DEF q1
<1>3. q2 \in RoomType /\ q2 = [bind |-> q1.bind, shut |-> q1.shut,
         map |-> [q1.map EXCEPT ![u] = none],
         free |-> q1.free, seat |-> q1.seat, user |-> q1.user, status |-> q1.status,
         chair |-> q1.chair, index |-> q1.index]
  BY <1>1, <1>2, SetMap
<1> HIDE DEF q2
<1> QED BY <1>2, <1>3, <1>4 DEF u, none

\* The slot that names the object is cleared, if it is the one the object names.
LEMMA LeaveFields ==
  ASSUME NEW r \in RoomType, NEW i \in Items
  PROVE  LET q == LeaveConnection(r, i) IN
         /\ q \in RoomType
         /\ \A s \in Socket : q.bind[s] = IF s = r.index[i] /\ r.bind[s] = i
                                          THEN NoItem ELSE r.bind[s]
         /\ q.map = r.map /\ q.seat = r.seat /\ q.user = r.user
         /\ q.status = r.status /\ q.chair = r.chair /\ q.index = r.index
<1> DEFINE s == r.index[i]
           holder == IF r.bind[s] = i THEN NoItem ELSE r.bind[s]
           shut == IF s # 0 /\ s \in linked THEN r.shut \cup {s} ELSE r.shut
           q1 == [r EXCEPT !.bind[s] = holder]
           q2 == [q1 EXCEPT !.shut = shut]
<1>1. CASE s \notin Socket
  BY <1>1 DEF LeaveConnection
<1>2. CASE s \in Socket
  <2>1. holder \in Items \cup {NoItem} /\ shut \in SUBSET Socket
    BY <1>2 DEF RoomType
  <2>4. LeaveConnection(r, i) = q2
    BY <1>2 DEF LeaveConnection
  <2> HIDE DEF holder, shut, s
  <2>2. q1 \in RoomType /\ q1 = [bind |-> [r.bind EXCEPT ![s] = holder],
           shut |-> r.shut, map |-> r.map, free |-> r.free, seat |-> r.seat,
           user |-> r.user, status |-> r.status, chair |-> r.chair, index |-> r.index]
    BY <1>2, <2>1, SetBind
  <2> HIDE DEF q1
  <2>3. q2 \in RoomType /\ q2 = [bind |-> q1.bind, shut |-> shut,
           map |-> q1.map, free |-> q1.free, seat |-> q1.seat, user |-> q1.user,
           status |-> q1.status, chair |-> q1.chair, index |-> q1.index]
    BY <2>1, <2>2, SetShut
  <2> HIDE DEF q2
  <2>5. \A t \in Socket : q2.bind[t] = IF t = s /\ r.bind[t] = i THEN NoItem ELSE r.bind[t]
    BY <1>2, <2>2, <2>3 DEF holder, RoomType
  <2> QED BY <2>2, <2>3, <2>4, <2>5 DEF s
<1> QED BY <1>1, <1>2

\* US_NULL: the object is taken off its connection and out of the map; its chair
\* is cleared by those who call.
LEMMA NullFields ==
  ASSUME NEW r \in RoomType, NEW i, Here(r, i), NEW c \in Chair \cup {NoChair}
  PROVE  LET q == SetUserStatus(r, i, "US_NULL", c) IN
         /\ q \in RoomType
         /\ \A s \in Socket : q.bind[s] = IF s = r.index[i] /\ r.bind[s] = i
                                          THEN NoItem ELSE r.bind[s]
         /\ q.map = [r.map EXCEPT ![r.user[i]] = NoItem]
         /\ q.seat = r.seat /\ q.user = r.user /\ q.index = r.index
         /\ \A j \in Items \ {i} : q.status[j] = r.status[j] /\ q.chair[j] = r.chair[j]
<1> DEFINE q1 == [r EXCEPT !.status[i] = "US_NULL"]
           q2 == [q1 EXCEPT !.chair[i] = c]
           q3 == LeaveConnection(q2, i)
<1>0. i \in Items
  BY DEF Here, Object
<1>1. q1 \in RoomType /\ q1 = [bind |-> r.bind, shut |-> r.shut,
         map |-> r.map, free |-> r.free, seat |-> r.seat, user |-> r.user,
         status |-> [r.status EXCEPT ![i] = "US_NULL"], chair |-> r.chair,
         index |-> r.index]
  BY <1>0, SetStatusField DEF Status
<1>5. SetUserStatus(r, i, "US_NULL", c) = DeleteUserItem(q3, i)
  BY DEF SetUserStatus
<1> HIDE DEF q1
<1>2. q2 \in RoomType /\ q2 = [bind |-> q1.bind, shut |-> q1.shut,
         map |-> q1.map, free |-> q1.free, seat |-> q1.seat, user |-> q1.user,
         status |-> q1.status, chair |-> [q1.chair EXCEPT ![i] = c],
         index |-> q1.index]
  BY <1>0, <1>1, SetChair
<1> HIDE DEF q2
<1>3. /\ q3 \in RoomType
      /\ \A s \in Socket : q3.bind[s] = IF s = q2.index[i] /\ q2.bind[s] = i
                                        THEN NoItem ELSE q2.bind[s]
      /\ q3.map = q2.map /\ q3.seat = q2.seat /\ q3.user = q2.user
      /\ q3.status = q2.status /\ q3.chair = q2.chair /\ q3.index = q2.index
  BY <1>0, <1>2, LeaveFields
<1> HIDE DEF q3
<1>4. Here(q3, i)
  BY <1>1, <1>2, <1>3 DEF Here, Object
<1> DEFINE q4 == DeleteUserItem(q3, i)
<1>6. /\ q4 \in RoomType
      /\ q4.map = [q3.map EXCEPT ![q3.user[i]] = NoItem]
      /\ q4.bind = q3.bind /\ q4.seat = q3.seat /\ q4.user = q3.user
      /\ q4.status = q3.status /\ q4.chair = q3.chair /\ q4.index = q3.index
  BY <1>3, <1>4, DeleteFields
<1> HIDE DEF q4
<1>7. /\ q3.map = r.map /\ q3.seat = r.seat /\ q3.user = r.user /\ q3.index = r.index
      /\ q3.status = [r.status EXCEPT ![i] = "US_NULL"]
      /\ q3.chair = [r.chair EXCEPT ![i] = c]
      /\ \A s \in Socket : q3.bind[s] = IF s = r.index[i] /\ r.bind[s] = i
                                        THEN NoItem ELSE r.bind[s]
  BY <1>1, <1>2, <1>3
<1>8. \A j \in Items \ {i} : q3.status[j] = r.status[j] /\ q3.chair[j] = r.chair[j]
  BY <1>7 DEF RoomType
<1>9. SetUserStatus(r, i, "US_NULL", c) = q4
  BY <1>5 DEF q4
<1>10. /\ q4 \in RoomType
       /\ \A s \in Socket : q4.bind[s] = IF s = r.index[i] /\ r.bind[s] = i
                                         THEN NoItem ELSE r.bind[s]
       /\ q4.map = [r.map EXCEPT ![r.user[i]] = NoItem]
       /\ q4.seat = r.seat /\ q4.user = r.user /\ q4.index = r.index
  BY <1>6, <1>7
<1>11. \A j \in Items \ {i} : q4.status[j] = r.status[j] /\ q4.chair[j] = r.chair[j]
  BY <1>6, <1>8
<1> QED BY <1>9, <1>10, <1>11

\* One field of the object and a slot or a chair at a time
LEMMA IndexField ==
  ASSUME NEW r \in RoomType, NEW i \in Items, NEW v \in Socket \cup {NoBind}
  PROVE  LET q == [r EXCEPT !.index[i] = v] IN
         /\ q \in RoomType
         /\ q.bind = r.bind /\ q.map = r.map /\ q.seat = r.seat /\ q.user = r.user
         /\ q.status = r.status /\ q.chair = r.chair /\ q.index = [r.index EXCEPT ![i] = v]
<1> DEFINE q == [r EXCEPT !.index[i] = v]
<1>1. q \in RoomType /\ q = [bind |-> r.bind, shut |-> r.shut, map |-> r.map,
         free |-> r.free, seat |-> r.seat, user |-> r.user, status |-> r.status,
         chair |-> r.chair, index |-> [r.index EXCEPT ![i] = v]]
  BY SetIndex
<1> HIDE DEF q
<1>2. /\ q \in RoomType
      /\ q.bind = r.bind /\ q.map = r.map /\ q.seat = r.seat /\ q.user = r.user
      /\ q.status = r.status /\ q.chair = r.chair /\ q.index = [r.index EXCEPT ![i] = v]
  BY <1>1
<1> QED BY <1>2 DEF q

LEMMA SeatField ==
  ASSUME NEW r \in RoomType, NEW c \in Chair, NEW v \in Items \cup {NoItem}
  PROVE  LET q == [r EXCEPT !.seat[c] = v] IN
         /\ q \in RoomType
         /\ q.bind = r.bind /\ q.map = r.map /\ q.seat = [r.seat EXCEPT ![c] = v]
         /\ q.user = r.user
         /\ q.status = r.status /\ q.chair = r.chair /\ q.index = r.index
<1> DEFINE q == [r EXCEPT !.seat[c] = v]
<1>1. q \in RoomType /\ q = [bind |-> r.bind, shut |-> r.shut, map |-> r.map,
         free |-> r.free, seat |-> [r.seat EXCEPT ![c] = v], user |-> r.user,
         status |-> r.status, chair |-> r.chair, index |-> r.index]
  BY SetSeat
<1> HIDE DEF q
<1>2. /\ q \in RoomType
      /\ q.bind = r.bind /\ q.map = r.map /\ q.seat = [r.seat EXCEPT ![c] = v]
      /\ q.user = r.user
      /\ q.status = r.status /\ q.chair = r.chair /\ q.index = r.index
  BY <1>1
<1> QED BY <1>2 DEF q

-----------------------------------------------------------------------------
(* One user moves                                                          *)

\* From r to q nothing changes but where object i is and what names it, ...
Others(r, q, i) ==
  /\ \A j \in Items \ {i} :
       /\ Here(q, j) <=> Here(r, j)
       /\ q.status[j] = r.status[j] /\ q.chair[j] = r.chair[j] /\ q.index[j] = r.index[j]
  /\ \A s \in Socket : q.bind[s] = r.bind[s] \/ {q.bind[s], r.bind[s]} \subseteq {i, NoItem}
  /\ \A c \in Chair : q.seat[c] = r.seat[c] \/ {q.seat[c], r.seat[c]} \subseteq {i, NoItem}

\* ... and i is where it should be.
Own(q, i) ==
  /\ \A s \in Socket : q.bind[s] = i => Here(q, i) /\ q.index[i] = s
  /\ \A c \in Chair : q.seat[c] = i => Here(q, i) /\ q.chair[i] = c
  /\ Here(q, i) => Placed(q, i)

LEMMA OneMoves ==
  ASSUME NEW r \in RoomType, NEW q \in RoomType, NEW L, NEW M, NEW i \in Items,
         Places(r, L), Others(r, q, i), Own(q, i),
         \A s \in Socket : q.bind[s] # NoItem => s \in M
  PROVE  Places(q, M)
<1>1. ASSUME NEW s \in Socket, q.bind[s] # NoItem
      PROVE  s \in M /\ Here(q, q.bind[s]) /\ q.index[q.bind[s]] = s
  <2>1. CASE q.bind[s] = i
    BY <1>1, <2>1 DEF Own
  <2>2. CASE q.bind[s] # i
    <3>1. q.bind[s] = r.bind[s] /\ q.bind[s] \in Items \ {i}
      BY <1>1, <2>2 DEF Others, RoomType
    <3> QED BY <1>1, <3>1 DEF Others, Places, Named
  <2> QED BY <2>1, <2>2
<1>2. ASSUME NEW c \in Chair, q.seat[c] # NoItem
      PROVE  Here(q, q.seat[c]) /\ q.chair[q.seat[c]] = c
  <2>1. CASE q.seat[c] = i
    BY <1>2, <2>1 DEF Own
  <2>2. CASE q.seat[c] # i
    <3>1. q.seat[c] = r.seat[c] /\ q.seat[c] \in Items \ {i}
      BY <1>2, <2>2 DEF Others, RoomType
    <3> QED BY <1>2, <3>1 DEF Others, Places, Named
  <2> QED BY <2>1, <2>2
<1>3. ASSUME NEW j \in Items, Here(q, j) PROVE Placed(q, j)
  <2>1. CASE j = i
    BY <1>3, <2>1 DEF Own
  <2>2. CASE j # i
    <3>1. /\ q.status[j] = r.status[j] /\ q.chair[j] = r.chair[j] /\ q.index[j] = r.index[j]
          /\ Here(r, j)
      BY <1>3, <2>2 DEF Others
    <3>2. Placed(r, j)
      BY <3>1 DEF Places
    <3>3. r.index[j] \in Socket \cup {NoBind} /\ r.chair[j] \in Chair \cup {NoChair}
          /\ j # NoItem
      BY RoomAssumption DEF RoomType
    <3>4. q.index[j] # NoBind => q.bind[q.index[j]] = j
      BY <2>2, <3>1, <3>2, <3>3 DEF Placed, Others
    <3>5. q.chair[j] # NoChair => q.seat[q.chair[j]] = j
      BY <2>2, <3>1, <3>2, <3>3 DEF Placed, Others
    <3> QED BY <3>1, <3>2, <3>4, <3>5 DEF Placed
  <2> QED BY <2>1, <2>2
<1> QED BY <1>1, <1>2, <1>3 DEF Places, Named

\* The user leaves: out of the map, and nothing names the object.
Without(r, q, i) ==
  /\ q.user = r.user /\ q.map = [r.map EXCEPT ![r.user[i]] = NoItem]
  /\ \A j \in Items \ {i} :
       q.status[j] = r.status[j] /\ q.chair[j] = r.chair[j] /\ q.index[j] = r.index[j]
  /\ \A s \in Socket : q.bind[s] = IF r.bind[s] = i THEN NoItem ELSE r.bind[s]
  /\ \A c \in Chair : q.seat[c] = IF r.seat[c] = i THEN NoItem ELSE r.seat[c]

LEMMA OneGoes ==
  ASSUME NEW r \in RoomType, NEW q \in RoomType, NEW L, NEW M, NEW i,
         Places(r, L), Here(r, i), Without(r, q, i),
         \A s \in Socket : q.bind[s] # NoItem => s \in M
  PROVE  Places(q, M)
<1>1. i \in Items /\ r.user[i] \in Users /\ i # NoItem /\ r.map[r.user[i]] = i
  BY RoomAssumption DEF Here, Object
<1>2. \A j \in Items \ {i} : Here(q, j) <=> Here(r, j)
  BY <1>1, RoomAssumption DEF Without, Here, Object, RoomType
<1>3. ~Here(q, i)
  BY <1>1 DEF Without, Here, Object, RoomType
<1>4. Others(r, q, i)
  BY <1>2 DEF Without, Others
<1>5. Own(q, i)
  BY <1>1, <1>3 DEF Without, Own
<1> QED BY <1>1, <1>4, <1>5, OneMoves

-----------------------------------------------------------------------------
(* The functions, in a room without the trustee option                     *)

\* Standing up clears the chair and leaves the connection alone.
LEMMA StandUpFields ==
  ASSUME ~OffLineTrustee, NEW r \in RoomType, NEW i, Here(r, i),
         r.chair[i] # NoChair, r.seat[r.chair[i]] = i, r.status[i] # "US_OFFLINE"
  PROVE  LET q == PerformStandUpAction(r, i) IN
         /\ q \in RoomType
         /\ q.bind = r.bind /\ q.map = r.map /\ q.user = r.user /\ q.index = r.index
         /\ q.seat = [r.seat EXCEPT ![r.chair[i]] = NoItem]
         /\ q.status = [r.status EXCEPT ![i] = "US_FREE"]
         /\ q.chair = [r.chair EXCEPT ![i] = NoChair]
<1> DEFINE c == r.chair[i]
           none == NoItem
           nowhere == NoChair
           q1 == [r EXCEPT !.seat[c] = none]
           q2 == SetUserStatus(q1, i, "US_FREE", nowhere)
<1>1. /\ i \in Items /\ c \in Chair /\ none \in Items \cup {NoItem}
      /\ "US_FREE" \in Status \ {"US_NULL"} /\ nowhere \in Chair \cup {NoChair}
  BY DEF Here, Object, RoomType, Status
<1>2. PerformStandUpAction(r, i) = q2
  BY DEF PerformStandUpAction
<1> HIDE DEF c, none, nowhere
<1>3. /\ q1 \in RoomType
      /\ q1.bind = r.bind /\ q1.map = r.map /\ q1.seat = [r.seat EXCEPT ![c] = none]
      /\ q1.user = r.user
      /\ q1.status = r.status /\ q1.chair = r.chair /\ q1.index = r.index
  BY <1>1, SeatField
<1> HIDE DEF q1
<1>4. /\ q2 \in RoomType
      /\ q2.bind = q1.bind /\ q2.map = q1.map /\ q2.seat = q1.seat
      /\ q2.user = q1.user /\ q2.index = q1.index
      /\ q2.status = [q1.status EXCEPT ![i] = "US_FREE"]
      /\ q2.chair = [q1.chair EXCEPT ![i] = nowhere]
  BY <1>1, <1>3, StatusFields
<1> HIDE DEF q2
<1>5. /\ q2 \in RoomType
      /\ q2.bind = r.bind /\ q2.map = r.map /\ q2.user = r.user /\ q2.index = r.index
      /\ q2.seat = [r.seat EXCEPT ![c] = none]
      /\ q2.status = [r.status EXCEPT ![i] = "US_FREE"]
      /\ q2.chair = [r.chair EXCEPT ![i] = nowhere]
  BY <1>3, <1>4
<1> QED BY <1>2, <1>5 DEF c, none, nowhere

\* A user that is offline leaves the room when it stands up.
LEMMA StandUpGone ==
  ASSUME ~OffLineTrustee, NEW r \in RoomType, NEW i, Here(r, i),
         r.chair[i] # NoChair, r.seat[r.chair[i]] = i, r.status[i] = "US_OFFLINE"
  PROVE  LET q == PerformStandUpAction(r, i) IN
         /\ q \in RoomType
         /\ \A s \in Socket : q.bind[s] = IF s = r.index[i] /\ r.bind[s] = i
                                          THEN NoItem ELSE r.bind[s]
         /\ q.map = [r.map EXCEPT ![r.user[i]] = NoItem]
         /\ q.seat = [r.seat EXCEPT ![r.chair[i]] = NoItem]
         /\ q.user = r.user /\ q.index = r.index
         /\ \A j \in Items \ {i} : q.status[j] = r.status[j] /\ q.chair[j] = r.chair[j]
<1> DEFINE c == r.chair[i]
           none == NoItem
           nowhere == NoChair
           q1 == [r EXCEPT !.seat[c] = none]
           q2 == SetUserStatus(q1, i, "US_NULL", nowhere)
<1>1. /\ i \in Items /\ c \in Chair /\ none \in Items \cup {NoItem}
      /\ nowhere \in Chair \cup {NoChair}
  BY DEF Here, Object, RoomType
<1>2. PerformStandUpAction(r, i) = q2
  BY DEF PerformStandUpAction
<1> HIDE DEF c, none, nowhere
<1>3. /\ q1 \in RoomType
      /\ q1.bind = r.bind /\ q1.map = r.map /\ q1.seat = [r.seat EXCEPT ![c] = none]
      /\ q1.user = r.user
      /\ q1.status = r.status /\ q1.chair = r.chair /\ q1.index = r.index
  BY <1>1, SeatField
<1> HIDE DEF q1
<1>4. Here(q1, i)
  BY <1>3 DEF Here, Object
<1>5. /\ q2 \in RoomType
      /\ \A s \in Socket : q2.bind[s] = IF s = q1.index[i] /\ q1.bind[s] = i
                                        THEN NoItem ELSE q1.bind[s]
      /\ q2.map = [q1.map EXCEPT ![q1.user[i]] = NoItem]
      /\ q2.seat = q1.seat /\ q2.user = q1.user /\ q2.index = q1.index
      /\ \A j \in Items \ {i} : q2.status[j] = q1.status[j] /\ q2.chair[j] = q1.chair[j]
  BY <1>1, <1>3, <1>4, NullFields
<1> HIDE DEF q2
<1>6. /\ q2 \in RoomType
      /\ \A s \in Socket : q2.bind[s] = IF s = r.index[i] /\ r.bind[s] = i
                                        THEN NoItem ELSE r.bind[s]
      /\ q2.map = [r.map EXCEPT ![r.user[i]] = NoItem]
      /\ q2.seat = [r.seat EXCEPT ![c] = none]
      /\ q2.user = r.user /\ q2.index = r.index
  BY <1>3, <1>5
<1>7. \A j \in Items \ {i} : q2.status[j] = r.status[j] /\ q2.chair[j] = r.chair[j]
  BY <1>3, <1>5
<1> QED BY <1>2, <1>6, <1>7 DEF c, none

LEMMA StandUpPlaces ==
  ASSUME ~OffLineTrustee, NEW r \in RoomType, NEW L, NEW i, Places(r, L), Here(r, i)
  PROVE  LET q == PerformStandUpAction(r, i) IN
         /\ q \in RoomType /\ Places(q, L)
         /\ r.status[i] # "US_OFFLINE" =>
              Here(q, i) /\ q.chair[i] = NoChair /\ q.index[i] = r.index[i]
<1> DEFINE q == PerformStandUpAction(r, i)
<1>0. i \in Items /\ i # NoItem /\ r.chair[i] \in Chair \cup {NoChair}
      /\ r.index[i] \in Socket \cup {NoBind} /\ Placed(r, i)
  BY RoomAssumption DEF Here, Object, RoomType, Places
<1>1. CASE r.chair[i] = NoChair
  <2>1. q = r
    BY <1>1 DEF PerformStandUpAction
  <2> QED BY <1>1, <2>1
<1>2. CASE r.chair[i] # NoChair /\ r.status[i] # "US_OFFLINE"
  <2>1. r.seat[r.chair[i]] = i
    BY <1>0, <1>2 DEF Placed
  <2>2. /\ q \in RoomType
        /\ q.bind = r.bind /\ q.map = r.map /\ q.user = r.user /\ q.index = r.index
        /\ q.seat = [r.seat EXCEPT ![r.chair[i]] = NoItem]
        /\ q.status = [r.status EXCEPT ![i] = "US_FREE"]
        /\ q.chair = [r.chair EXCEPT ![i] = NoChair]
    BY <1>2, <2>1, StandUpFields
  <2> HIDE DEF q
  <2>3. \A j : Here(q, j) <=> Here(r, j)
    BY <2>2 DEF Here, Object
  <2>4. q.status[i] = "US_FREE" /\ q.chair[i] = NoChair
    BY <1>0, <2>2 DEF RoomType
  <2>5. Others(r, q, i)
    BY <1>0, <2>1, <2>2, <2>3 DEF Others, RoomType
  <2>6. \A s \in Socket : r.bind[s] = i => r.index[i] = s
    BY <1>0 DEF Places, Named
  <2>7. \A c \in Chair : q.seat[c] # i
    BY <1>0, <2>2 DEF Places, Named, RoomType
  <2>8. Placed(q, i)
    BY <1>0, <1>2, <2>2, <2>4 DEF Placed
  <2>9. Own(q, i)
    BY <2>2, <2>3, <2>6, <2>7, <2>8 DEF Own
  <2>10. \A s \in Socket : q.bind[s] # NoItem => s \in L
    BY <2>2 DEF Places, Named
  <2>11. Places(q, L)
    BY <1>0, <2>2, <2>5, <2>9, <2>10, OneMoves
  <2> QED BY <2>2, <2>3, <2>4, <2>11 DEF q
<1>3. CASE r.chair[i] # NoChair /\ r.status[i] = "US_OFFLINE"
  <2>1. r.seat[r.chair[i]] = i /\ r.index[i] = NoBind
    BY <1>0, <1>3 DEF Placed
  <2>2. /\ q \in RoomType
        /\ \A s \in Socket : q.bind[s] = IF s = r.index[i] /\ r.bind[s] = i
                                         THEN NoItem ELSE r.bind[s]
        /\ q.map = [r.map EXCEPT ![r.user[i]] = NoItem]
        /\ q.seat = [r.seat EXCEPT ![r.chair[i]] = NoItem]
        /\ q.user = r.user /\ q.index = r.index
        /\ \A j \in Items \ {i} : q.status[j] = r.status[j] /\ q.chair[j] = r.chair[j]
    BY <1>3, <2>1, StandUpGone
  <2> HIDE DEF q
  <2>3. \A s \in Socket : q.bind[s] = IF r.bind[s] = i THEN NoItem ELSE r.bind[s]
    BY <1>0, <2>2 DEF Places, Named
  <2>4. \A c \in Chair : q.seat[c] = IF r.seat[c] = i THEN NoItem ELSE r.seat[c]
    BY <1>0, <2>1, <2>2 DEF Places, Named, RoomType
  <2>5. \A s \in Socket : q.bind[s] # NoItem => s \in L
    BY <2>3 DEF Places, Named
  <2>6. \A j \in Items \ {i} : /\ q.status[j] = r.status[j] /\ q.chair[j] = r.chair[j]
                               /\ q.index[j] = r.index[j]
    BY <2>2
  <2>7. Without(r, q, i)
    BY <2>2, <2>3, <2>4, <2>6 DEF Without
  <2>8. Places(q, L)
    BY <2>2, <2>5, <2>7, OneGoes
  <2> QED BY <1>3, <2>2, <2>8 DEF q
<1> QED BY <1>1, <1>2, <1>3

\* Sitting down, for a user that is connected and on no chair
LEMMA SitDownPlaces ==
  ASSUME NEW r \in RoomType, NEW L, NEW i, NEW c \in Chair,
         Places(r, L), Here(r, i), r.chair[i] = NoChair, r.index[i] # NoBind
  PROVE  LET q == PerformSitDownAction(r, c, i) IN q \in RoomType /\ Places(q, L)
<1> DEFINE q == PerformSitDownAction(r, c, i)
           v == IF Started THEN "US_READY" ELSE "US_PLAYING"
           q1 == [r EXCEPT !.seat[c] = i]
           q2 == SetUserStatus(q1, i, v, c)
<1>0. /\ i \in Items /\ i # NoItem /\ i \in Items \cup {NoItem}
      /\ v \in Status \ {"US_NULL"} /\ v \notin {"US_FREE", "US_OFFLINE"}
      /\ c \in Chair \cup {NoChair} /\ c # NoChair /\ Placed(r, i)
  BY RoomAssumption DEF Here, Object, Status, Places, Chair, NoChair
<1>1. CASE r.seat[c] # NoItem
  BY <1>1 DEF PerformSitDownAction
<1>2. CASE r.seat[c] = NoItem
  <2>1. q = q2
    BY <1>2 DEF PerformSitDownAction
  <2> HIDE DEF q, v
  <2>2. /\ q1 \in RoomType
        /\ q1.bind = r.bind /\ q1.map = r.map /\ q1.seat = [r.seat EXCEPT ![c] = i]
        /\ q1.user = r.user
        /\ q1.status = r.status /\ q1.chair = r.chair /\ q1.index = r.index
    BY <1>0, SeatField
  <2> HIDE DEF q1
  <2>3. /\ q2 \in RoomType
        /\ q2.bind = q1.bind /\ q2.map = q1.map /\ q2.seat = q1.seat
        /\ q2.user = q1.user /\ q2.index = q1.index
        /\ q2.status = [q1.status EXCEPT ![i] = v] /\ q2.chair = [q1.chair EXCEPT ![i] = c]
    BY <1>0, <2>2, StatusFields
  <2> HIDE DEF q2
  <2>4. /\ q2 \in RoomType
        /\ q2.bind = r.bind /\ q2.map = r.map /\ q2.user = r.user /\ q2.index = r.index
        /\ q2.seat = [r.seat EXCEPT ![c] = i]
        /\ q2.status = [r.status EXCEPT ![i] = v] /\ q2.chair = [r.chair EXCEPT ![i] = c]
    BY <2>2, <2>3
  <2>5. \A j : Here(q2, j) <=> Here(r, j)
    BY <2>4 DEF Here, Object
  <2>6. q2.status[i] = v /\ q2.chair[i] = c /\ q2.seat[c] = i
    BY <1>0, <2>4 DEF RoomType
  <2>7. Others(r, q2, i)
    BY <1>0, <1>2, <2>4, <2>5 DEF Others, RoomType
  <2>8. \A s \in Socket : r.bind[s] = i => r.index[i] = s
    BY <1>0 DEF Places, Named
  <2>9. \A d \in Chair : q2.seat[d] = i => d = c
    BY <1>0, <2>4 DEF Places, Named, RoomType, NoChair, Chair
  <2>10. Placed(q2, i)
    BY <1>0, <2>4, <2>6 DEF Placed
  <2>11. Own(q2, i)
    BY <2>4, <2>5, <2>6, <2>8, <2>9, <2>10 DEF Own
  <2>12. \A s \in Socket : q2.bind[s] # NoItem => s \in L
    BY <2>4 DEF Places, Named
  <2>13. Places(q2, L)
    BY <1>0, <2>4, <2>7, <2>11, <2>12, OneMoves
  <2> QED BY <2>1, <2>4, <2>13 DEF q
<1> QED BY <1>1, <1>2

\* The loops of a round give a user on a chair a status of who is connected.
LEMMA StatusPlaces ==
  ASSUME NEW r \in RoomType, NEW L, NEW c \in Chair, NEW v \in {"US_SIT", "US_PLAYING"},
         Places(r, L), r.seat[c] # NoItem, r.status[r.seat[c]] # "US_OFFLINE"
  PROVE  LET q == SetUserStatus(r, r.seat[c], v, c) IN q \in RoomType /\ Places(q, L)
<1> DEFINE i == r.seat[c]
           q == SetUserStatus(r, i, v, c)
<1>0. /\ i \in Items /\ i # NoItem /\ Here(r, i) /\ r.chair[i] = c
      /\ v \in Status \ {"US_NULL"} /\ c \in Chair \cup {NoChair} /\ c # NoChair
      /\ Placed(r, i)
  BY DEF Places, Named, Here, Object, Status, Chair, NoChair
<1>1. r.status[i] # "US_OFFLINE"
  OBVIOUS
<1> HIDE DEF i
<1>2. /\ q \in RoomType
      /\ q.bind = r.bind /\ q.map = r.map /\ q.seat = r.seat
      /\ q.user = r.user /\ q.index = r.index
      /\ q.status = [r.status EXCEPT ![i] = v] /\ q.chair = [r.chair EXCEPT ![i] = c]
  BY <1>0, StatusFields
<1> HIDE DEF q
<1>3. \A j : Here(q, j) <=> Here(r, j)
  BY <1>2 DEF Here, Object
<1>4. q.status[i] = v /\ q.chair[i] = c
  BY <1>0, <1>2 DEF RoomType
<1>5. Others(r, q, i)
  BY <1>0, <1>2, <1>3 DEF Others, RoomType
<1>6. Placed(q, i)
  BY <1>0, <1>1, <1>2, <1>4 DEF Placed
<1>7. Own(q, i)
  BY <1>0, <1>2, <1>3, <1>4, <1>6 DEF Own, Places, Named
<1>8. \A s \in Socket : q.bind[s] # NoItem => s \in L
  BY <1>2 DEF Places, Named
<1>9. Places(q, L)
  BY <1>0, <1>2, <1>5, <1>7, <1>8, OneMoves
<1> QED BY <1>2, <1>9 DEF q, i

\* A second logon moves the user from the old connection to the new one.
LEMMA SwitchFields ==
  ASSUME NEW r \in RoomType, NEW i \in Items, NEW s \in Socket
  PROVE  LET q == SwitchUserItemConnect(r, i, s) IN
         /\ q \in RoomType
         /\ \A t \in Socket :
              q.bind[t] = IF t = s THEN i
                          ELSE IF t = r.index[i] /\ r.bind[t] = i THEN NoItem ELSE r.bind[t]
         /\ q.map = r.map /\ q.seat = r.seat /\ q.user = r.user
         /\ q.index = [r.index EXCEPT ![i] = s] /\ q.chair = r.chair
         /\ q.status = IF r.status[i] = "US_OFFLINE"
                       THEN [r.status EXCEPT ![i] = "US_PLAYING"] ELSE r.status
<1> DEFINE source == r.index[i]
           holder == IF r.bind[source] = i THEN NoItem ELSE r.bind[source]
           shut == r.shut \cup {IF source \in linked THEN source ELSE 0}
           d == IF source \notin Socket THEN r
                ELSE [r EXCEPT !.bind[source] = holder, !.shut = shut]
           a1 == [d EXCEPT !.bind[s] = i]
           a2 == [a1 EXCEPT !.index[i] = s]
           q == SwitchUserItemConnect(r, i, s)
<1>0. /\ i \in Items \cup {NoItem} /\ s \in Socket \cup {NoBind}
      /\ r.chair[i] \in Chair \cup {NoChair}
      /\ "US_PLAYING" \in Status \ {"US_NULL"}
  BY DEF RoomType, Status
<1>1. /\ d \in RoomType
      /\ \A t \in Socket : d.bind[t] = IF t = r.index[i] /\ r.bind[t] = i
                                       THEN NoItem ELSE r.bind[t]
      /\ d.map = r.map /\ d.seat = r.seat /\ d.user = r.user
      /\ d.status = r.status /\ d.chair = r.chair /\ d.index = r.index
  <2>1. CASE source \notin Socket
    BY <2>1
  <2>2. CASE source \in Socket
    <3>1. holder \in Items \cup {NoItem} /\ shut \in SUBSET Socket
      BY <2>2, RoomAssumption DEF RoomType, Socket
    <3> DEFINE e1 == [r EXCEPT !.bind[source] = holder]
               e == [e1 EXCEPT !.shut = shut]
    <3>2. d = e
      BY <2>2
    <3> HIDE DEF holder, shut, source, d
    <3>5. e1 \in RoomType /\ e1 = [bind |-> [r.bind EXCEPT ![source] = holder],
             shut |-> r.shut, map |-> r.map, free |-> r.free, seat |-> r.seat,
             user |-> r.user, status |-> r.status, chair |-> r.chair, index |-> r.index]
      BY <2>2, <3>1, SetBind
    <3> HIDE DEF e1
    <3>6. e \in RoomType /\ e = [bind |-> e1.bind, shut |-> shut,
             map |-> e1.map, free |-> e1.free, seat |-> e1.seat, user |-> e1.user,
             status |-> e1.status, chair |-> e1.chair, index |-> e1.index]
      BY <3>1, <3>5, SetShut
    <3>3. /\ e \in RoomType
          /\ e.bind = [r.bind EXCEPT ![source] = holder] /\ e.map = r.map
          /\ e.seat = r.seat /\ e.user = r.user
          /\ e.status = r.status /\ e.chair = r.chair /\ e.index = r.index
      <4> HIDE DEF e
      <4> QED BY <3>5, <3>6
    <3> HIDE DEF e
    <3>4. \A t \in Socket : e.bind[t] = IF t = source /\ r.bind[t] = i
                                        THEN NoItem ELSE r.bind[t]
      BY <2>2, <3>3 DEF holder, RoomType
    <3> QED BY <3>2, <3>3, <3>4 DEF source
  <2> QED BY <2>1, <2>2
<1>6. q = IF r.status[i] = "US_OFFLINE"
          THEN SetUserStatus(a2, i, "US_PLAYING", r.chair[i]) ELSE a2
  BY DEF SwitchUserItemConnect
<1> HIDE DEF d, q
<1>2. a1 \in RoomType /\ a1 = [bind |-> [d.bind EXCEPT ![s] = i],
         shut |-> d.shut, map |-> d.map, free |-> d.free, seat |-> d.seat,
         user |-> d.user, status |-> d.status, chair |-> d.chair, index |-> d.index]
  BY <1>0, <1>1, SetBind
<1> HIDE DEF a1
<1>3. /\ a2 \in RoomType
      /\ a2.bind = a1.bind /\ a2.map = a1.map /\ a2.seat = a1.seat /\ a2.user = a1.user
      /\ a2.status = a1.status /\ a2.chair = a1.chair
      /\ a2.index = [a1.index EXCEPT ![i] = s]
  BY <1>0, <1>2, IndexField
<1> HIDE DEF a2
<1>4. /\ a2 \in RoomType
      /\ a2.bind = [d.bind EXCEPT ![s] = i] /\ a2.map = r.map /\ a2.seat = r.seat
      /\ a2.user = r.user
      /\ a2.status = r.status /\ a2.chair = r.chair
      /\ a2.index = [r.index EXCEPT ![i] = s]
  BY <1>1, <1>2, <1>3
<1>5. \A t \in Socket :
        a2.bind[t] = IF t = s THEN i
                     ELSE IF t = r.index[i] /\ r.bind[t] = i THEN NoItem ELSE r.bind[t]
  BY <1>1, <1>4 DEF RoomType
<1>7. CASE r.status[i] # "US_OFFLINE"
  BY <1>4, <1>5, <1>6, <1>7 DEF q
<1>8. CASE r.status[i] = "US_OFFLINE"
  <2> DEFINE p == SetUserStatus(a2, i, "US_PLAYING", r.chair[i])
  <2>1. /\ p \in RoomType
        /\ p.bind = a2.bind /\ p.map = a2.map /\ p.seat = a2.seat
        /\ p.user = a2.user /\ p.index = a2.index
        /\ p.status = [a2.status EXCEPT ![i] = "US_PLAYING"]
        /\ p.chair = [a2.chair EXCEPT ![i] = r.chair[i]]
    BY <1>0, <1>4, StatusFields
  <2>2. q = p
    BY <1>6, <1>8
  <2> HIDE DEF p
  <2>3. p.chair = r.chair
    BY <1>4, <2>1 DEF RoomType
  <2>4. /\ q \in RoomType
        /\ \A t \in Socket :
             q.bind[t] = IF t = s THEN i
                         ELSE IF t = r.index[i] /\ r.bind[t] = i THEN NoItem ELSE r.bind[t]
    BY <1>5, <2>1, <2>2
  <2>5. /\ q.map = r.map /\ q.seat = r.seat /\ q.user = r.user
        /\ q.index = [r.index EXCEPT ![i] = s] /\ q.chair = r.chair
        /\ q.status = [r.status EXCEPT ![i] = "US_PLAYING"]
    BY <1>4, <2>1, <2>2, <2>3
  <2> QED BY <1>8, <2>4, <2>5 DEF q
<1> QED BY <1>7, <1>8

LEMMA SwitchPlaces ==
  ASSUME NEW r \in RoomType, NEW L, NEW i, NEW s \in Socket, s \in L,
         Places(r, L), Here(r, i), r.bind[s] = NoItem
  PROVE  Places(SwitchUserItemConnect(r, i, s), L)
<1> DEFINE q == SwitchUserItemConnect(r, i, s)
<1>0. i \in Items /\ i # NoItem /\ Placed(r, i) /\ s # NoBind
  BY RoomAssumption DEF Here, Object, Places, Socket, NoBind
<1>1. /\ q \in RoomType
      /\ \A t \in Socket :
           q.bind[t] = IF t = s THEN i
                       ELSE IF t = r.index[i] /\ r.bind[t] = i THEN NoItem ELSE r.bind[t]
      /\ q.map = r.map /\ q.seat = r.seat /\ q.user = r.user
      /\ q.index = [r.index EXCEPT ![i] = s] /\ q.chair = r.chair
      /\ q.status = IF r.status[i] = "US_OFFLINE"
                    THEN [r.status EXCEPT ![i] = "US_PLAYING"] ELSE r.status
  BY <1>0, SwitchFields
<1> HIDE DEF q
<1>2. \A j : Here(q, j) <=> Here(r, j)
  BY <1>1 DEF Here, Object
<1>3. \A t \in Socket : q.bind[t] = i => t = s
  BY <1>0, <1>1 DEF Places, Named
<1>4. q.index[i] = s /\ q.bind[s] = i
  BY <1>0, <1>1 DEF RoomType
<1>5. Others(r, q, i)
  BY <1>0, <1>1, <1>2 DEF Others, RoomType
<1>6. Placed(q, i)
  <2>1. q.status[i] # "US_NULL" /\ q.status[i] # "US_OFFLINE"
    BY <1>0, <1>1 DEF Placed, RoomType
  <2>2. q.status[i] = "US_FREE" <=> q.chair[i] = NoChair
    BY <1>0, <1>1 DEF Placed, RoomType
  <2>3. q.chair[i] # NoChair => q.seat[q.chair[i]] = i
    BY <1>0, <1>1 DEF Placed
  <2> QED BY <1>0, <1>4, <2>1, <2>2, <2>3 DEF Placed
<1>7. Own(q, i)
  BY <1>0, <1>1, <1>2, <1>3, <1>4, <1>6 DEF Own, Places, Named
<1>8. \A t \in Socket : q.bind[t] # NoItem => t \in L
  BY <1>0, <1>1 DEF Places, Named
<1> QED BY <1>0, <1>1, <1>5, <1>7, <1>8, OneMoves DEF q

\* A first logon takes a free or a new object.
Inserted(r, q, i, u, s) ==
  /\ q \in RoomType
  /\ q.bind = [r.bind EXCEPT ![s] = i] /\ q.map = [r.map EXCEPT ![u] = i]
  /\ q.seat = r.seat /\ q.user = [r.user EXCEPT ![i] = u]
  /\ q.status = [r.status EXCEPT ![i] = "US_FREE"]
  /\ q.chair = [r.chair EXCEPT ![i] = NoChair] /\ q.index = [r.index EXCEPT ![i] = s]

LEMMA InsertFields ==
  ASSUME NEW r \in RoomType, NEW i \in Items, NEW u \in Users, NEW s \in Socket
  PROVE  Inserted(r, InsertUserItem(r, i, u, s), i, u, s)
<1> DEFINE free == r.free \ {i}
           none == NoChair
           standing == "US_FREE"
           q1 == [r EXCEPT !.free = free]
           q2 == [q1 EXCEPT !.map[u] = i]
           q3 == [q2 EXCEPT !.bind[s] = i]
           q4 == [q3 EXCEPT !.user[i] = u]
           q5 == [q4 EXCEPT !.status[i] = standing]
           q6 == [q5 EXCEPT !.chair[i] = none]
           q7 == [q6 EXCEPT !.index[i] = s]
<1>0. /\ free \in SUBSET Items /\ s \in Socket \cup {NoBind} /\ i \in Items \cup {NoItem}
      /\ standing \in Status /\ none \in Chair \cup {NoChair}
      /\ u \in Users \cup {NoUser}
  BY DEF RoomType, Status
<1>8. InsertUserItem(r, i, u, s) = q7
  BY DEF InsertUserItem
<1> HIDE DEF free, none, standing
<1>1. q1 \in RoomType /\ q1 = [bind |-> r.bind, shut |-> r.shut, map |-> r.map,
        free |-> free, seat |-> r.seat, user |-> r.user, status |-> r.status,
        chair |-> r.chair, index |-> r.index]
  BY <1>0, SetFree
<1> HIDE DEF q1
<1>2. q2 \in RoomType /\ q2 = [bind |-> q1.bind, shut |-> q1.shut,
        map |-> [q1.map EXCEPT ![u] = i],
        free |-> q1.free, seat |-> q1.seat, user |-> q1.user, status |-> q1.status,
        chair |-> q1.chair, index |-> q1.index]
  BY <1>0, <1>1, SetMap
<1> HIDE DEF q2
<1>3. q3 \in RoomType /\ q3 = [bind |-> [q2.bind EXCEPT ![s] = i], shut |-> q2.shut,
        map |-> q2.map, free |-> q2.free, seat |-> q2.seat, user |-> q2.user,
        status |-> q2.status, chair |-> q2.chair, index |-> q2.index]
  BY <1>0, <1>2, SetBind
<1> HIDE DEF q3
<1>4. q4 \in RoomType /\ q4 = [bind |-> q3.bind, shut |-> q3.shut,
        map |-> q3.map, free |-> q3.free, seat |-> q3.seat,
        user |-> [q3.user EXCEPT ![i] = u],
        status |-> q3.status, chair |-> q3.chair, index |-> q3.index]
  BY <1>0, <1>3, SetUser
<1> HIDE DEF q4
<1>5. q5 \in RoomType /\ q5 = [bind |-> q4.bind, shut |-> q4.shut,
        map |-> q4.map, free |-> q4.free, seat |-> q4.seat, user |-> q4.user,
        status |-> [q4.status EXCEPT ![i] = standing],
        chair |-> q4.chair, index |-> q4.index]
  BY <1>0, <1>4, SetStatusField
<1> HIDE DEF q5
<1>6. q6 \in RoomType /\ q6 = [bind |-> q5.bind, shut |-> q5.shut,
        map |-> q5.map, free |-> q5.free, seat |-> q5.seat, user |-> q5.user,
        status |-> q5.status, chair |-> [q5.chair EXCEPT ![i] = none],
        index |-> q5.index]
  BY <1>0, <1>5, SetChair
<1> HIDE DEF q6
<1>7. /\ q7 \in RoomType
      /\ q7.bind = q6.bind /\ q7.map = q6.map /\ q7.seat = q6.seat /\ q7.user = q6.user
      /\ q7.status = q6.status /\ q7.chair = q6.chair
      /\ q7.index = [q6.index EXCEPT ![i] = s]
  BY <1>0, <1>6, IndexField
<1> HIDE DEF q7
<1>9. /\ q7 \in RoomType
      /\ q7.bind = [r.bind EXCEPT ![s] = i] /\ q7.map = [r.map EXCEPT ![u] = i]
      /\ q7.seat = r.seat /\ q7.user = [r.user EXCEPT ![i] = u]
      /\ q7.status = [r.status EXCEPT ![i] = standing]
      /\ q7.chair = [r.chair EXCEPT ![i] = none] /\ q7.index = [r.index EXCEPT ![i] = s]
  BY <1>1, <1>2, <1>3, <1>4, <1>5, <1>6, <1>7
<1> QED BY <1>8, <1>9 DEF Inserted, none, standing

LEMMA InsertPlaces ==
  ASSUME NEW r \in RoomType, NEW L, Accounting(r), Places(r, L),
         NEW i \in Items, i \in Allocatable(r), NEW u \in Users, r.map[u] = NoItem,
         NEW s \in Socket, s \in L, r.bind[s] = NoItem
  PROVE  Places(InsertUserItem(r, i, u, s), L)
<1> DEFINE q == InsertUserItem(r, i, u, s)
<1>0. i # NoItem /\ s # NoBind /\ u # NoUser
  BY RoomAssumption DEF Socket, NoBind
<1>10. Inserted(r, q, i, u, s)
  BY InsertFields
<1> HIDE DEF q
<1>1. /\ q \in RoomType
      /\ q.bind = [r.bind EXCEPT ![s] = i] /\ q.map = [r.map EXCEPT ![u] = i]
      /\ q.seat = r.seat /\ q.user = [r.user EXCEPT ![i] = u]
      /\ q.status = [r.status EXCEPT ![i] = "US_FREE"]
      /\ q.chair = [r.chair EXCEPT ![i] = NoChair] /\ q.index = [r.index EXCEPT ![i] = s]
  BY <1>10 DEF Inserted
\* The object is nobody's, so that nothing names it.
<1>2. ~Here(r, i)
  BY <1>0, RoomAssumption DEF Here, Object, Allocatable, Accounting
<1>3. /\ \A t \in Socket : r.bind[t] # i
      /\ \A c \in Chair : r.seat[c] # i
  BY <1>0, <1>2 DEF Places, Named
<1>4. \A j \in Items \ {i} : Here(q, j) <=> Here(r, j)
  BY <1>0, <1>1, RoomAssumption DEF Here, Object, RoomType
<1>5. /\ q.user[i] = u /\ q.map[u] = i /\ q.bind[s] = i
      /\ q.status[i] = "US_FREE" /\ q.chair[i] = NoChair /\ q.index[i] = s
  BY <1>0, <1>1 DEF RoomType
<1>6. Here(q, i) /\ Placed(q, i)
  BY <1>0, <1>5 DEF Here, Object, Placed
<1>7. Others(r, q, i)
  BY <1>0, <1>1, <1>4 DEF Others, RoomType
<1>8. Own(q, i)
  BY <1>0, <1>1, <1>3, <1>5, <1>6 DEF Own, RoomType
<1>9. \A t \in Socket : q.bind[t] # NoItem => t \in L
  BY <1>0, <1>1 DEF Places, Named, RoomType
<1> QED BY <1>0, <1>1, <1>7, <1>8, <1>9, OneMoves DEF q

-----------------------------------------------------------------------------
(* The invariant and its steps                                             *)

PInv == IInv /\ Places(room, linked)

\* A close request changes nothing.
LEMMA RefusePlaces ==
  ASSUME room \in RoomType, Places(room, linked), NEW s \in Socket, Refuse(s)
  PROVE  Places(room', linked)
<1> DEFINE shut == room.shut \cup {s}
           q == [room EXCEPT !.shut = shut]
<1>1. shut \in SUBSET Socket /\ room' = q
  BY DEF RoomType, Refuse
<1> HIDE DEF shut
<1>2. q = [bind |-> room.bind, shut |-> shut,
           map |-> room.map, free |-> room.free, seat |-> room.seat, user |-> room.user,
           status |-> room.status, chair |-> room.chair, index |-> room.index]
  BY <1>1, SetShut
<1> HIDE DEF q
<1>3. /\ q.bind = room.bind /\ q.map = room.map /\ q.seat = room.seat /\ q.user = room.user
      /\ q.status = room.status /\ q.chair = room.chair /\ q.index = room.index
  BY <1>2
<1> QED BY <1>1, <1>3 DEF Places, Named, Placed, Here, Object

LEMMA LogonPlaces ==
  ASSUME ~Relogon, PInv, NEW s \in Socket, NEW u \in Users, NEW p \in BOOLEAN,
         OnTCPNetworkSubMBLogonVisitor(s, u, p)
  PROVE  Places(room, linked)'
<1>1. RoomOK(room) /\ room \in RoomType /\ Places(room, linked)
  BY DEF PInv, IInv, RoomOK
<1>2. linked' = linked /\ s \in linked
  BY DEF OnTCPNetworkSubMBLogonVisitor
<1>3. CASE Refuse(s)
  BY <1>1, <1>2, <1>3, RefusePlaces
<1>4. CASE /\ room.bind[s] = NoItem /\ room.map[u] # NoItem
           /\ room' = SwitchUserItemConnect(room, room.map[u], s)
  <2>1. Here(room, room.map[u])
    BY <1>1, <1>4 DEF RoomOK, Accounting, RoomType, Here, Object
  <2> QED BY <1>1, <1>2, <1>4, <2>1, SwitchPlaces
<1>5. CASE /\ room.bind[s] = NoItem /\ room.map[u] = NoItem
           /\ \E i \in Allocatable(room) : room' = InsertUserItem(room, i, u, s)
  <2>1. PICK i \in Allocatable(room) : room' = InsertUserItem(room, i, u, s)
    BY <1>5
  <2>2. i \in Items /\ Accounting(room)
    BY <1>1 DEF Allocatable, RoomOK, RoomType
  <2> QED BY <1>1, <1>2, <1>5, <2>1, <2>2, InsertPlaces
<1> QED BY <1>3, <1>4, <1>5 DEF OnTCPNetworkSubMBLogonVisitor

LEMMA SitDownStepPlaces ==
  ASSUME ~OffLineTrustee, PInv, NEW s \in Socket, NEW c \in Chair,
         OnTCPNetworkSubUserSitDown(s, c)
  PROVE  Places(room, linked)'
<1> DEFINE i == room.bind[s]
           stood == PerformStandUpAction(room, i)
           found == NullChairs(stood)
           chair == IF found = {} THEN c ELSE CHOOSE d \in found : TRUE
<1>1. room \in RoomType /\ Places(room, linked)
  BY DEF PInv, IInv, RoomOK
<1>2. linked' = linked
  BY DEF OnTCPNetworkSubUserSitDown
<1>3. CASE Refuse(s)
  BY <1>1, <1>2, <1>3, RefusePlaces
<1>4. CASE room' = room
  BY <1>1, <1>2, <1>4
<1>5. CASE i # NoItem /\ room' = PerformSitDownAction(stood, chair, i)
  <2>1. Here(room, i) /\ room.index[i] = s /\ s # NoBind
    BY <1>1, <1>5, RoomAssumption DEF Places, Named, Socket, NoBind
  <2>2. room.status[i] # "US_OFFLINE"
    BY <1>1, <2>1 DEF Places, Placed, Here, Object
  <2>3. chair \in Chair
    BY DEF NullChairs
  <2>4. /\ stood \in RoomType /\ Places(stood, linked)
        /\ Here(stood, i) /\ stood.chair[i] = NoChair /\ stood.index[i] # NoBind
    BY <1>1, <2>1, <2>2, StandUpPlaces
  <2> HIDE DEF stood, chair, i
  <2>5. Places(PerformSitDownAction(stood, chair, i), linked)
    BY <2>3, <2>4, SitDownPlaces
  <2> QED BY <1>2, <1>5, <2>5
<1> QED BY <1>3, <1>4, <1>5 DEF OnTCPNetworkSubUserSitDown

LEMMA StandUpStepPlaces ==
  ASSUME ~OffLineTrustee, PInv, NEW s \in Socket, NEW f \in BOOLEAN,
         OnTCPNetworkSubUserStandUp(s, f)
  PROVE  Places(room, linked)'
<1>1. room \in RoomType /\ Places(room, linked)
  BY DEF PInv, IInv, RoomOK
<1>2. linked' = linked
  BY DEF OnTCPNetworkSubUserStandUp
<1>3. CASE Refuse(s)
  BY <1>1, <1>2, <1>3, RefusePlaces
<1>4. CASE room' = room
  BY <1>1, <1>2, <1>4
<1>5. CASE room.bind[s] # NoItem /\ room' = PerformStandUpAction(room, room.bind[s])
  <2>1. Here(room, room.bind[s])
    BY <1>1, <1>5 DEF Places, Named
  <2> QED BY <1>1, <1>2, <1>5, <2>1, StandUpPlaces
<1> QED BY <1>3, <1>4, <1>5 DEF OnTCPNetworkSubUserStandUp

LEMMA ConcludeSeatPlaces ==
  ASSUME ~OffLineTrustee, PInv, ConcludeSeat
  PROVE  Places(room, linked)'
<1> DEFINE i == room.seat[at]
<1>1. room \in RoomType /\ Places(room, linked) /\ at \in Chair
  BY DEF PInv, IInv, RoomOK, TypeOK
<1>2. linked' = linked
  BY DEF ConcludeSeat, Advance
<1>3. CASE i = NoItem
  BY <1>1, <1>2, <1>3 DEF ConcludeSeat
<1>4. CASE i # NoItem
  <2>1. Here(room, i) /\ room.status[i] # "US_NULL"
    BY <1>1, <1>4 DEF Places, Named, Placed, Here, Object
  <2>2. CASE room.status[i] = "US_OFFLINE"
    <3>1. room' = PerformStandUpAction(room, i)
      BY <1>4, <2>2 DEF ConcludeSeat
    <3> QED BY <1>1, <1>2, <2>1, <3>1, StandUpPlaces
  <2>3. CASE room.status[i] # "US_OFFLINE"
    <3>1. room' = SetUserStatus(room, i, "US_SIT", at)
      BY <1>4, <2>1, <2>3 DEF ConcludeSeat
    <3> QED BY <1>1, <1>2, <1>4, <2>3, <3>1, StatusPlaces
  <2> QED BY <2>2, <2>3
<1> QED BY <1>3, <1>4

LEMMA KickSeatPlaces ==
  ASSUME ~OffLineTrustee, PInv, NEW below \in BOOLEAN, KickSeat(below)
  PROVE  Places(room, linked)'
<1>1. room \in RoomType /\ Places(room, linked) /\ at \in Chair
  BY DEF PInv, IInv, RoomOK, TypeOK
<1>2. linked' = linked
  BY DEF KickSeat, Advance
<1>3. CASE room' = room
  BY <1>1, <1>2, <1>3
<1>4. CASE room.seat[at] # NoItem /\ room' = PerformStandUpAction(room, room.seat[at])
  <2>1. Here(room, room.seat[at])
    BY <1>1, <1>4 DEF Places, Named
  <2> QED BY <1>1, <1>2, <1>4, <2>1, StandUpPlaces
<1> QED BY <1>3, <1>4 DEF KickSeat

LEMMA StartSeatPlaces ==
  ASSUME PInv, StartSeat
  PROVE  Places(room, linked)'
<1> DEFINE i == room.seat[at]
<1>1. room \in RoomType /\ Places(room, linked) /\ at \in Chair
  BY DEF PInv, IInv, RoomOK, TypeOK
<1>2. linked' = linked
  BY DEF StartSeat, Advance
<1>3. CASE room' = room
  BY <1>1, <1>2, <1>3
<1>4. CASE i # NoItem /\ room.status[i] # "US_OFFLINE"
           /\ room' = SetUserStatus(room, i, "US_PLAYING", at)
  BY <1>1, <1>2, <1>4, StatusPlaces
<1> QED BY <1>3, <1>4 DEF StartSeat

\* The object no longer names its connection; the slot no longer names anything.
Detached(r, q, i) ==
  /\ q \in RoomType
  /\ q.bind = r.bind /\ q.map = r.map /\ q.seat = r.seat /\ q.user = r.user
  /\ q.status = r.status /\ q.chair = r.chair /\ q.index = [r.index EXCEPT ![i] = NoBind]

Released(r, q, s) ==
  /\ q.bind = [r.bind EXCEPT ![s] = NoItem] /\ q.map = r.map /\ q.seat = r.seat
  /\ q.user = r.user
  /\ q.status = r.status /\ q.chair = r.chair /\ q.index = r.index

\* A player in a round keeps the chair, and is offline.
LEMMA ShutPlaying ==
  ASSUME NEW r \in RoomType, NEW L, Places(r, L), NEW s \in Socket, NEW i, r.bind[s] = i,
         i # NoItem, r.status[i] = "US_PLAYING", NEW gone, Detached(r, gone, i),
         NEW q \in RoomType, Released(OnEventUserOffLine(gone, i), q, s)
  PROVE  Places(q, L \ {s})
<1> DEFINE offline == "US_OFFLINE"
           left == OnEventUserOffLine(gone, i)
<1>1. /\ i \in Items /\ Here(r, i) /\ r.index[i] = s /\ Placed(r, i)
      /\ r.chair[i] \in Chair \cup {NoChair}
      /\ offline \in Status \ {"US_NULL"}
  BY DEF Places, Named, Here, Object, RoomType, Status
<1>2. /\ q.bind = [left.bind EXCEPT ![s] = NoItem] /\ q.map = left.map
      /\ q.seat = left.seat /\ q.user = left.user
      /\ q.status = left.status /\ q.chair = left.chair /\ q.index = left.index
  BY DEF Released
<1>8. offline = "US_OFFLINE"
  OBVIOUS
<1> HIDE DEF left, offline
<1>3. /\ gone \in RoomType
      /\ gone.bind = r.bind /\ gone.map = r.map /\ gone.seat = r.seat /\ gone.user = r.user
      /\ gone.status = r.status /\ gone.chair = r.chair
      /\ gone.index = [r.index EXCEPT ![i] = NoBind]
  BY DEF Detached
<1> DEFINE p == SetUserStatus(gone, i, offline, r.chair[i])
<1>4. left = p
  BY <1>3, <1>8 DEF left, OnEventUserOffLine
<1>5. /\ p \in RoomType
      /\ p.bind = gone.bind /\ p.map = gone.map /\ p.seat = gone.seat
      /\ p.user = gone.user /\ p.index = gone.index
      /\ p.status = [gone.status EXCEPT ![i] = offline]
      /\ p.chair = [gone.chair EXCEPT ![i] = r.chair[i]]
  BY <1>1, <1>3, StatusFields
<1> HIDE DEF p
<1>6. /\ q.bind = [r.bind EXCEPT ![s] = NoItem] /\ q.map = r.map /\ q.seat = r.seat
      /\ q.user = r.user /\ q.status = [r.status EXCEPT ![i] = offline]
      /\ q.chair = r.chair /\ q.index = [r.index EXCEPT ![i] = NoBind]
  <2>1. p.chair = r.chair
    BY <1>3, <1>5 DEF RoomType
  <2> QED BY <1>2, <1>3, <1>4, <1>5, <2>1
<1>7. \A j : Here(q, j) <=> Here(r, j)
  BY <1>6 DEF Here, Object
<1>9. q.status[i] = "US_OFFLINE" /\ q.index[i] = NoBind
  BY <1>1, <1>6, <1>8 DEF RoomType
<1>10. Others(r, q, i)
  BY <1>1, <1>6, <1>7 DEF Others, RoomType
<1>11. \A t \in Socket : q.bind[t] # i
  BY <1>1, <1>6 DEF Places, Named, RoomType
<1>12. Placed(q, i)
  BY <1>1, <1>6, <1>9 DEF Placed
<1>13. Own(q, i)
  BY <1>1, <1>6, <1>7, <1>11, <1>12 DEF Own, Places, Named
<1>14. \A t \in Socket : q.bind[t] # NoItem => t \in L \ {s}
  BY <1>6 DEF Places, Named, RoomType
<1> QED BY <1>1, <1>10, <1>13, <1>14, OneMoves

\* Whoever else is on a chair gives it up and leaves.
LEMMA ShutSitting ==
  ASSUME ~OffLineTrustee,
         NEW r \in RoomType, NEW L, Places(r, L), NEW s \in Socket, NEW i, r.bind[s] = i,
         i # NoItem, r.chair[i] # NoChair, r.status[i] # "US_PLAYING", NEW gone, Detached(r, gone, i),
         NEW q \in RoomType, Released(OnEventUserOffLine(gone, i), q, s)
  PROVE  Places(q, L \ {s})
<1> DEFINE nowhere == NoChair
           left == OnEventUserOffLine(gone, i)
<1>1. /\ i \in Items /\ Here(r, i) /\ r.index[i] = s /\ Placed(r, i)
      /\ r.chair[i] \in Chair /\ r.seat[r.chair[i]] = i
      /\ nowhere \in Chair \cup {NoChair}
      /\ s # NoBind
  BY RoomAssumption DEF Places, Named, Placed, Here, Object, RoomType, Socket, NoBind
<1>2. /\ q.bind = [left.bind EXCEPT ![s] = NoItem] /\ q.map = left.map
      /\ q.seat = left.seat /\ q.user = left.user
      /\ q.status = left.status /\ q.chair = left.chair /\ q.index = left.index
  BY DEF Released
<1>3. r.status[i] \in {"US_READY", "US_SIT"}
  BY <1>1 DEF RoomType, Status, Placed
<1>8. nowhere = NoChair
  OBVIOUS
<1> HIDE DEF left, nowhere
<1>4. /\ gone \in RoomType
      /\ gone.bind = r.bind /\ gone.map = r.map /\ gone.seat = r.seat /\ gone.user = r.user
      /\ gone.status = r.status /\ gone.chair = r.chair
      /\ gone.index = [r.index EXCEPT ![i] = NoBind]
  BY DEF Detached
<1> DEFINE stood == PerformStandUpAction(gone, i)
           p == SetUserStatus(stood, i, "US_NULL", nowhere)
<1>5. left = p
  BY <1>3, <1>4, <1>8 DEF left, OnEventUserOffLine
<1>6. Here(gone, i) /\ gone.chair[i] # NoChair /\ gone.seat[gone.chair[i]] = i
      /\ gone.status[i] # "US_OFFLINE" /\ gone.chair[i] = r.chair[i]
  BY <1>1, <1>3, <1>4 DEF Here, Object
<1>7. /\ stood \in RoomType
      /\ stood.bind = gone.bind /\ stood.map = gone.map /\ stood.user = gone.user
      /\ stood.index = gone.index
      /\ stood.seat = [gone.seat EXCEPT ![gone.chair[i]] = NoItem]
      /\ stood.status = [gone.status EXCEPT ![i] = "US_FREE"]
      /\ stood.chair = [gone.chair EXCEPT ![i] = NoChair]
  BY <1>4, <1>6, StandUpFields
<1> HIDE DEF stood
<1>9. Here(stood, i)
  BY <1>6, <1>7 DEF Here, Object
<1>10. /\ p \in RoomType
       /\ \A t \in Socket : p.bind[t] = IF t = stood.index[i] /\ stood.bind[t] = i
                                        THEN NoItem ELSE stood.bind[t]
       /\ p.map = [stood.map EXCEPT ![stood.user[i]] = NoItem]
       /\ p.seat = stood.seat /\ p.user = stood.user /\ p.index = stood.index
       /\ \A j \in Items \ {i} : p.status[j] = stood.status[j] /\ p.chair[j] = stood.chair[j]
  <2>1. stood \in RoomType /\ Here(stood, i) /\ nowhere \in Chair \cup {NoChair}
    BY <1>1, <1>7, <1>9
  <2> QED BY <2>1, NullFields
<1> HIDE DEF p
<1>11. q.user = r.user /\ q.map = [r.map EXCEPT ![r.user[i]] = NoItem]
       /\ q.seat = [r.seat EXCEPT ![r.chair[i]] = NoItem]
  BY <1>2, <1>4, <1>5, <1>6, <1>7, <1>10
<1>12. \A j \in Items \ {i} :
         q.status[j] = r.status[j] /\ q.chair[j] = r.chair[j] /\ q.index[j] = r.index[j]
  BY <1>1, <1>2, <1>4, <1>5, <1>7, <1>10 DEF RoomType
<1>13. \A t \in Socket : r.bind[t] = i => t = s
  BY <1>1 DEF Places, Named
<1>14. \A t \in Socket : q.bind[t] = IF r.bind[t] = i THEN NoItem ELSE r.bind[t]
  <2>1. stood.index[i] = NoBind
    BY <1>1, <1>4, <1>7, <1>8 DEF RoomType
  <2>2. \A t \in Socket : p.bind[t] = r.bind[t]
    BY <1>4, <1>7, <1>10, <2>1, RoomAssumption DEF Socket, NoBind
  <2> QED BY <1>2, <1>5, <1>10, <1>13, <2>2 DEF RoomType
<1>15. \A c \in Chair : q.seat[c] = IF r.seat[c] = i THEN NoItem ELSE r.seat[c]
  BY <1>1, <1>11 DEF Places, Named, RoomType
<1>16. Without(r, q, i)
  BY <1>11, <1>12, <1>14, <1>15 DEF Without
<1>17. \A t \in Socket : q.bind[t] # NoItem => t \in L \ {s}
  BY <1>14 DEF Places, Named
<1> QED BY <1>1, <1>16, <1>17, OneGoes

\* Whoever stands leaves.
LEMMA ShutStanding ==
  ASSUME NEW r \in RoomType, NEW L, Places(r, L), NEW s \in Socket, NEW i, r.bind[s] = i,
         i # NoItem, r.chair[i] = NoChair, NEW q \in RoomType,
         Released(SetUserStatus(r, i, "US_NULL", NoChair), q, s)
  PROVE  Places(q, L \ {s})
<1> DEFINE nowhere == NoChair
           left == SetUserStatus(r, i, "US_NULL", nowhere)
<1>1. /\ i \in Items /\ Here(r, i) /\ r.index[i] = s /\ nowhere \in Chair \cup {NoChair}
  BY DEF Places, Named, Here, Object
<1>2. /\ q.bind = [left.bind EXCEPT ![s] = NoItem] /\ q.map = left.map
      /\ q.seat = left.seat /\ q.user = left.user
      /\ q.status = left.status /\ q.chair = left.chair /\ q.index = left.index
  BY DEF Released
<1> HIDE DEF nowhere
<1>3. /\ left \in RoomType
      /\ \A t \in Socket : left.bind[t] = IF t = r.index[i] /\ r.bind[t] = i
                                          THEN NoItem ELSE r.bind[t]
      /\ left.map = [r.map EXCEPT ![r.user[i]] = NoItem]
      /\ left.seat = r.seat /\ left.user = r.user /\ left.index = r.index
      /\ \A j \in Items \ {i} : left.status[j] = r.status[j] /\ left.chair[j] = r.chair[j]
  BY <1>1, NullFields
<1> HIDE DEF left
<1>4. \A t \in Socket : r.bind[t] = i => t = s
  BY <1>1 DEF Places, Named
<1>5. \A t \in Socket : q.bind[t] = IF r.bind[t] = i THEN NoItem ELSE r.bind[t]
  BY <1>1, <1>2, <1>3, <1>4 DEF RoomType
<1>6. \A c \in Chair : r.seat[c] # i
  BY <1>1 DEF Places, Named, Chair, NoChair
<1>7. \A j \in Items \ {i} :
        q.status[j] = r.status[j] /\ q.chair[j] = r.chair[j] /\ q.index[j] = r.index[j]
  BY <1>2, <1>3
<1>8. Without(r, q, i)
  BY <1>2, <1>3, <1>5, <1>6, <1>7 DEF Without
<1>9. \A t \in Socket : q.bind[t] # NoItem => t \in L \ {s}
  BY <1>5 DEF Places, Named
<1> QED BY <1>1, <1>8, <1>9, OneGoes

\* Nobody leaves.
LEMMA ShutUnbound ==
  ASSUME NEW r \in RoomType, NEW L, Places(r, L), NEW s \in Socket, r.bind[s] = NoItem,
         NEW q, Released(r, q, s)
  PROVE  Places(q, L \ {s})
<1>1. \A t \in Socket : q.bind[t] = r.bind[t]
  BY DEF Released, RoomType
<1>2. \A j : Here(q, j) <=> Here(r, j)
  BY DEF Released, Here, Object
<1>3. Named(q, L \ {s})
  BY <1>1, <1>2 DEF Released, Places, Named
<1>4. ASSUME NEW j \in Items, Here(q, j) PROVE Placed(q, j)
  <2>1. Placed(r, j) /\ r.index[j] \in Socket \cup {NoBind}
    BY <1>2, <1>4 DEF Places, RoomType
  <2> QED BY <1>1, <2>1 DEF Released, Placed
<1> QED BY <1>3, <1>4 DEF Places

LEMMA ShutPlaces ==
  ASSUME ~OffLineTrustee, PInv, NEW s \in Socket, OnEventTCPNetworkShut(s)
  PROVE  Places(room, linked)'
<1> DEFINE i == room.bind[s]
           gone == [room EXCEPT !.index[i] = NoBind]
           left == IF i = NoItem THEN room
                   ELSE IF room.chair[i] # NoChair THEN OnEventUserOffLine(gone, i)
                   ELSE SetUserStatus(room, i, "US_NULL", NoChair)
           none == NoItem
           shut == left.shut \ {s}
           q == [left EXCEPT !.bind[s] = none, !.shut = shut]
<1>1. room \in RoomType /\ Places(room, linked) /\ RoomOK(room)
  BY DEF PInv, IInv, RoomOK
<1>2. linked' = linked \ {s} /\ room' = q
  BY DEF OnEventTCPNetworkShut
<1>3. i # NoItem => i \in Items /\ Object(room, i)
  BY <1>1 DEF Places, Named, Here, Object
<1>4. i # NoItem => Detached(room, gone, i)
  <2> DEFINE unbound == NoBind
  <2>1. unbound \in Socket \cup {NoBind} /\ gone = [room EXCEPT !.index[i] = unbound]
    OBVIOUS
  <2> HIDE DEF unbound, gone
  <2>2. i # NoItem =>
        /\ gone \in RoomType
        /\ gone.bind = room.bind /\ gone.map = room.map /\ gone.seat = room.seat
        /\ gone.user = room.user /\ gone.status = room.status /\ gone.chair = room.chair
        /\ gone.index = [room.index EXCEPT ![i] = unbound]
    BY <1>1, <1>3, <2>1, IndexField
  <2> QED BY <2>2 DEF Detached, unbound
<1>5. gone.free = room.free
  BY <1>1 DEF RoomType
<1> HIDE DEF gone
<1>6. left \in RoomType
  <2>1. CASE i = NoItem
    BY <1>1, <2>1
  <2>2. CASE i # NoItem
    <3>1. Keeps(room, gone) /\ Object(gone, i)
      BY <1>1, <1>3, <1>4, <1>5, <2>2, SameUsers DEF Object, Detached
    <3>2. OnEventUserOffLine(gone, i) \in RoomType
      BY <3>1, OffLineOK DEF Keeps, RoomOK
    <3>3. SetUserStatus(room, i, "US_NULL", NoChair) \in RoomType
      BY <1>1, <1>3, <2>2, StatusOK DEF Keeps, RoomOK, Status
    <3> QED BY <2>2, <3>2, <3>3
  <2> QED BY <2>1, <2>2
<1>7. q \in RoomType /\ Released(left, q, s)
  <2>1. none \in Items \cup {NoItem} /\ shut \in SUBSET Socket
    BY <1>6 DEF RoomType
  <2>2. none = NoItem
    OBVIOUS
  <2> HIDE DEF none, shut, left
  <2> DEFINE q1 == [left EXCEPT !.bind[s] = none]
             q2 == [q1 EXCEPT !.shut = shut]
  <2>3. q1 \in RoomType /\ q1 = [bind |-> [left.bind EXCEPT ![s] = none],
           shut |-> left.shut, map |-> left.map, free |-> left.free, seat |-> left.seat,
           user |-> left.user, status |-> left.status, chair |-> left.chair,
           index |-> left.index]
    BY <1>6, <2>1, SetBind
  <2>5. q = q2
    OBVIOUS
  <2> HIDE DEF q1, q
  <2>4. q2 \in RoomType /\ q2 = [bind |-> q1.bind, shut |-> shut,
           map |-> q1.map, free |-> q1.free, seat |-> q1.seat, user |-> q1.user,
           status |-> q1.status, chair |-> q1.chair, index |-> q1.index]
    BY <2>1, <2>3, SetShut
  <2> HIDE DEF q2
  <2> QED BY <2>2, <2>3, <2>4, <2>5 DEF Released
<1> HIDE DEF q
<1>8. CASE i = NoItem
  BY <1>1, <1>2, <1>7, <1>8, ShutUnbound
<1>9. CASE i # NoItem /\ room.chair[i] = NoChair
  BY <1>1, <1>2, <1>7, <1>9, ShutStanding
<1>10. CASE i # NoItem /\ room.chair[i] # NoChair
  <2>1. left = OnEventUserOffLine(gone, i)
    BY <1>10
  <2> HIDE DEF left
  <2>2. CASE room.status[i] = "US_PLAYING"
    BY <1>1, <1>2, <1>4, <1>7, <1>10, <2>1, <2>2, ShutPlaying
  <2>3. CASE room.status[i] # "US_PLAYING"
    BY <1>1, <1>2, <1>4, <1>7, <1>10, <2>1, <2>3, ShutSitting
  <2> QED BY <2>2, <2>3
<1> QED BY <1>8, <1>9, <1>10

LEMMA InitPlaces == Init => Places(room, linked)
<1> SUFFICES ASSUME Init PROVE Places(room, linked)
  OBVIOUS
<1>1. Named(room, linked)
  BY DEF Init, Named
<1>2. \A i : ~Here(room, i)
  BY RoomAssumption DEF Init, Here, Object
<1> QED BY <1>1, <1>2 DEF Places

LEMMA NextPlaces ==
  ASSUME ~Relogon, ~OffLineTrustee, PInv, [Next]_vars
  PROVE  Places(room, linked)'
<1>1. Places(room, linked)
  BY DEF PInv
<1>2. ASSUME room' = room, linked' = linked PROVE Places(room, linked)'
  BY <1>1, <1>2
<1>3. CASE UNCHANGED vars
  BY <1>2, <1>3 DEF vars
<1>4. ASSUME NEW s \in Socket, OnEventTCPNetworkBind(s) PROVE Places(room, linked)'
  BY <1>1, <1>4 DEF OnEventTCPNetworkBind, Places, Named
<1>5. ASSUME NEW s \in Socket, NEW a \in SUBSET Areas, OnGameMessage(s, a)
      PROVE  Places(room, linked)'
  BY <1>2, <1>5 DEF OnGameMessage
<1>6. CASE OnTimerPlaceJetton
  BY <1>2, <1>6 DEF OnTimerPlaceJetton
<1>7. CASE OnTimerGameEnd
  BY <1>2, <1>7 DEF OnTimerGameEnd
<1> QED
  BY <1>3, <1>4, <1>5, <1>6, <1>7, ShutPlaces, LogonPlaces, SitDownStepPlaces,
     StandUpStepPlaces, ConcludeSeatPlaces, KickSeatPlaces, StartSeatPlaces
  DEF Next, Round

LEMMA AlwaysPlaced ==
  ASSUME ~Relogon, ~OffLineTrustee
  PROVE  Spec => []PInv
<1>1. Init => PInv
  BY InitIInv, InitPlaces DEF PInv
<1>2. PInv /\ [Next]_vars => PInv'
  BY NextIInv, NextPlaces DEF PInv
<1> QED BY <1>1, <1>2, PTL DEF Spec

-----------------------------------------------------------------------------
(* The theorems                                                            *)

\* In a room without the trustee option whose clients log on once, connections
\* and users name each other.
THEOREM ConnectionsAgree ==
  ASSUME ~Relogon, ~OffLineTrustee
  PROVE  Spec => []BindConsistent
<1>1. PInv => BindConsistent
  BY PlacesAreConsistent DEF PInv, IInv
<1> QED BY <1>1, AlwaysPlaced, PTL

\* So do chairs and users, ...
THEOREM ChairsAgree ==
  ASSUME ~Relogon, ~OffLineTrustee
  PROVE  Spec => []SeatConsistent
<1>1. PInv => SeatConsistent
  BY PlacesAreConsistent DEF PInv, IInv
<1> QED BY <1>1, AlwaysPlaced, PTL

\* ... and the status of a user says where the user is.
THEOREM StatusesAgree ==
  ASSUME ~Relogon, ~OffLineTrustee
  PROVE  Spec => []StatusConsistent
<1>1. PInv => StatusConsistent
  BY PlacesAreConsistent DEF PInv, IInv
<1> QED BY <1>1, AlwaysPlaced, PTL

\* PerformSitDownAction's assertion that the user has no chair yet
\* (TableFrame.cpp:445) holds as long as the trustee option is off.
THEOREM OneSeatWithoutTrustee ==
  ASSUME ~Relogon, ~OffLineTrustee
  PROVE  Spec => []OneSeatPerUser
<1>1. PInv => OneSeatPerUser
  BY PlacesAreConsistent DEF PInv, IInv, SeatConsistent, OneSeatPerUser
<1> QED BY <1>1, AlwaysPlaced, PTL

\* Here the request is never missing: only who has no connection any more, or
\* whose connection has just ended, is removed.
THEOREM TheEvictedAreShutDownWithoutTrustee ==
  ASSUME ~Relogon, ~OffLineTrustee
  PROVE  Spec => EvictedIsShutDown
<1> DEFINE A == \A s \in linked \cap linked' :
                  room.bind[s] # NoItem /\ room'.bind[s] = NoItem => s \in room'.shut
<1>1. ASSUME PInv, [Next]_vars PROVE A
  <2>1. IInv /\ Places(room, linked)
    BY <1>1 DEF PInv
  <2>2. ZeroIsSafe
    <3>1. \A s \in Socket : s # NoBind
      BY DEF Socket, NoBind
    <3> QED BY <2>1, <3>1 DEF Places, Named, Placed, Here, Object, ZeroIsSafe, NoBind
  <2>3. Losing(linked)
    BY <1>1, <2>1, <2>2, NextLoses
  <2> QED BY <2>3 DEF Losing
<1>2. PInv /\ [Next]_vars => [A]_vars
  BY <1>1
<1> HIDE DEF A
<1>3. Spec => [][A]_vars
  BY <1>2, AlwaysPlaced, PTL DEF Spec
<1> QED BY <1>3 DEF EvictedIsShutDown, A

-----------------------------------------------------------------------------
(***************************************************************************)
(* The end of a round, whatever the options and the clients are.  Every    *)
(* object with a status of the table is on the chair it names: that much   *)
(* of the agreement above survives the trustee option and second logons,   *)
(* and it is why the loops over the chairs find everybody.                 *)
(***************************************************************************)

AtTable == {"US_SIT", "US_READY", "US_PLAYING", "US_OFFLINE"}

Seated(r) == \A i \in Items :
  /\ r.chair[i] # NoChair => r.seat[r.chair[i]] = i
  /\ r.status[i] \in AtTable => r.chair[i] # NoChair

\* From r to q, only i gets another status and chair.
Moved(r, q, i, v, c) ==
  q.status = [r.status EXCEPT ![i] = v] /\ q.chair = [r.chair EXCEPT ![i] = c]

\* No field of the object is lost when it leaves the map.
LEMMA DeleteStays ==
  ASSUME NEW r, RoomOK(r), NEW i, Object(r, i)
  PROVE  LET q == DeleteUserItem(r, i) IN
         q.seat = r.seat /\ q.status = r.status /\ q.chair = r.chair
<1> DEFINE u == r.user[i]
           free == r.free \cup {r.map[u]}
           none == NoItem
           q1 == [r EXCEPT !.free = free]
           q2 == [q1 EXCEPT !.map[u] = none]
<1>0. r \in RoomType /\ u \in Users /\ none \in Items \cup {NoItem}
  BY DEF RoomOK, Object
<1>1. CASE r.map[u] = NoItem
  BY <1>1 DEF DeleteUserItem
<1>2. CASE r.map[u] # NoItem
  <2>1. free \in SUBSET Items
    BY <1>0, <1>2 DEF RoomType
  <2>2. DeleteUserItem(r, i) = q2
    BY <1>2 DEF DeleteUserItem
  <2> HIDE DEF u, free, none
  <2>3. q1 \in RoomType /\ q1 = [bind |-> r.bind, shut |-> r.shut, map |-> r.map,
           free |-> free, seat |-> r.seat, user |-> r.user, status |-> r.status,
           chair |-> r.chair, index |-> r.index]
    BY <1>0, <2>1, SetFree
  <2> HIDE DEF q1
  <2>4. q2 \in RoomType /\ q2 = [bind |-> q1.bind, shut |-> q1.shut,
           map |-> [q1.map EXCEPT ![u] = none],
           free |-> q1.free, seat |-> q1.seat, user |-> q1.user, status |-> q1.status,
           chair |-> q1.chair, index |-> q1.index]
    BY <1>0, <2>3, SetMap
  <2> HIDE DEF q2
  <2> QED BY <2>2, <2>3, <2>4
<1> QED BY <1>1, <1>2

\* SetUserStatus leaves the chairs alone, also when the user leaves the room.
LEMMA StatusMoves ==
  ASSUME NEW r, RoomOK(r), NEW i, Object(r, i),
         NEW v \in Status, NEW c \in Chair \cup {NoChair}
  PROVE  LET q == SetUserStatus(r, i, v, c) IN
         q.seat = r.seat /\ Moved(r, q, i, v, c)
<1> DEFINE q1 == [r EXCEPT !.status[i] = v]
           q2 == [q1 EXCEPT !.chair[i] = c]
<1>0. r \in RoomType /\ i \in Items
  BY DEF RoomOK, Object
<1>1. q1 \in RoomType /\ q1 = [bind |-> r.bind, shut |-> r.shut,
         map |-> r.map, free |-> r.free, seat |-> r.seat, user |-> r.user,
         status |-> [r.status EXCEPT ![i] = v], chair |-> r.chair, index |-> r.index]
  BY <1>0, SetStatusField
<1> HIDE DEF q1
<1>2. q2 \in RoomType /\ q2 = [bind |-> q1.bind, shut |-> q1.shut,
         map |-> q1.map, free |-> q1.free, seat |-> q1.seat, user |-> q1.user,
         status |-> q1.status, chair |-> [q1.chair EXCEPT ![i] = c],
         index |-> q1.index]
  BY <1>0, <1>1, SetChair
<1> HIDE DEF q2
<1>3. q2.seat = r.seat /\ Moved(r, q2, i, v, c)
  BY <1>1, <1>2 DEF Moved
<1>4. CASE v # "US_NULL"
  <2>1. SetUserStatus(r, i, v, c) = q2
    BY <1>4 DEF SetUserStatus, q1, q2
  <2> QED BY <1>3, <2>1
<1>5. CASE v = "US_NULL"
  <2> DEFINE q3 == LeaveConnection(q2, i)
  <2>1. q2.user = r.user /\ q2.map = r.map /\ q2.free = r.free /\ q2.bind = r.bind
    BY <1>1, <1>2
  <2>2. Keeps(r, q2)
    BY <1>2, <1>3, <2>1, SameUsers
  <2>3. RoomOK(q2) /\ Object(q2, i)
    BY <2>1, <2>2 DEF Keeps, Object
  <2>4. RoomOK(q3) /\ Object(q3, i)
    BY <2>3, LeaveOK DEF Keeps, Object
  <2>5. q3.seat = q2.seat /\ q3.status = q2.status /\ q3.chair = q2.chair
    BY <1>0, <1>2, LeaveFields
  <2>6. SetUserStatus(r, i, v, c) = DeleteUserItem(q3, i)
    BY <1>5 DEF SetUserStatus, q1, q2
  <2> HIDE DEF q3
  <2>7. LET q == DeleteUserItem(q3, i) IN
        q.seat = q3.seat /\ q.status = q3.status /\ q.chair = q3.chair
    BY <2>4, DeleteStays
  <2> QED BY <1>3, <2>5, <2>6, <2>7 DEF Moved
<1> QED BY <1>4, <1>5

\* A user put where it sits, or nowhere, or given a status of those who stand,
\* leaves all objects on the chairs they name.
LEMMA StatusSeats ==
  ASSUME NEW r, RoomOK(r), Seated(r), NEW i, Object(r, i),
         NEW v \in Status, NEW c \in Chair \cup {NoChair},
         c # NoChair => r.seat[c] = i,
         v \in AtTable => c # NoChair
  PROVE  Seated(SetUserStatus(r, i, v, c))
<1> DEFINE q == SetUserStatus(r, i, v, c)
<1>1. q.seat = r.seat /\ Moved(r, q, i, v, c)
  BY StatusMoves
<1>2. r \in RoomType /\ i \in Items
  BY DEF RoomOK, Object
<1> HIDE DEF q
<1>3. Seated(q)
  BY <1>1, <1>2 DEF Seated, Moved, RoomType
<1> QED BY <1>3 DEF q

\* What standing up does: nothing; or the trustee keeps the user on the chair; or
\* the chair becomes empty and the user stands or is gone.
LEMMA StandUpMoves ==
  ASSUME NEW r, RoomOK(r), Seated(r), NEW i, Object(r, i)
  PROVE  LET q == PerformStandUpAction(r, i) IN
         \/ q = r /\ r.chair[i] = NoChair
         \/ Started /\ q = SetUserStatus(r, i, "US_OFFLINE", r.chair[i])
              /\ r.chair[i] # NoChair
         \/ /\ r.chair[i] # NoChair /\ q.seat = [r.seat EXCEPT ![r.chair[i]] = NoItem]
            /\ \E v \in {"US_NULL", "US_FREE"} : Moved(r, q, i, v, NoChair)
<1> DEFINE c == r.chair[i]
           none == NoItem
           nowhere == NoChair
           v == IF r.status[i] = "US_OFFLINE" THEN "US_NULL" ELSE "US_FREE"
           q1 == [r EXCEPT !.seat[c] = none]
           q2 == SetUserStatus(q1, i, v, nowhere)
           q == PerformStandUpAction(r, i)
<1>0. r \in RoomType /\ i \in Items /\ c \in Chair \cup {NoChair}
  BY DEF RoomOK, Object, RoomType
<1>1. CASE c = NoChair
  BY <1>1 DEF PerformStandUpAction
<1>2. CASE c # NoChair /\ Started /\ q = SetUserStatus(r, i, "US_OFFLINE", c)
  BY <1>2
<1>3. CASE c # NoChair /\ ~(Started /\ q = SetUserStatus(r, i, "US_OFFLINE", c))
  <2>1. c \in Chair /\ r.seat[c] = i
    BY <1>0, <1>3 DEF Seated
  <2>2. q = q2
    BY <1>3, <2>1 DEF PerformStandUpAction
  <2>3. none \in Items \cup {NoItem} /\ v \in {"US_NULL", "US_FREE"} /\ v \in Status
        /\ nowhere \in Chair \cup {NoChair}
    BY DEF Status
  <2> HIDE DEF c, none, nowhere, v, q
  <2>4. /\ q1 \in RoomType
        /\ q1.bind = r.bind /\ q1.map = r.map /\ q1.seat = [r.seat EXCEPT ![c] = none]
        /\ q1.user = r.user
        /\ q1.status = r.status /\ q1.chair = r.chair /\ q1.index = r.index
    BY <1>0, <2>1, <2>3, SeatField
  <2>5. LET p == [r EXCEPT !.seat[c] = none] IN p.free = r.free
    BY <1>0, <2>1, <2>3, SetSeat
  <2>6. \A d \in Chair : q1.seat[d] # NoItem => q1.seat[d] = r.seat[d]
    BY <1>0, <2>4 DEF RoomType, none
  <2> HIDE DEF q1
  <2>7. Keeps(r, q1)
    BY <2>4, <2>5, <2>6, SameUsers DEF q1
  <2>8. RoomOK(q1) /\ Object(q1, i)
    BY <2>4, <2>7 DEF Keeps, Object
  <2>9. q2.seat = q1.seat /\ Moved(q1, q2, i, v, nowhere)
    BY <2>3, <2>8, StatusMoves
  <2>10. q.seat = [r.seat EXCEPT ![c] = NoItem] /\ Moved(r, q, i, v, NoChair)
    BY <2>2, <2>4, <2>9 DEF Moved, none, nowhere
  <2> QED BY <1>3, <2>3, <2>10 DEF q, c
<1> QED BY <1>1, <1>2, <1>3

LEMMA StandUpSeats ==
  ASSUME NEW r, RoomOK(r), Seated(r), NEW i, Object(r, i)
  PROVE  Seated(PerformStandUpAction(r, i))
<1> DEFINE q == PerformStandUpAction(r, i)
<1>0. r \in RoomType /\ i \in Items /\ r.chair[i] \in Chair \cup {NoChair} /\ i # NoItem
  BY RoomAssumption DEF RoomOK, Object, RoomType
<1>1. CASE q = r
  BY <1>1
<1>2. CASE r.chair[i] # NoChair /\ q = SetUserStatus(r, i, "US_OFFLINE", r.chair[i])
  <2>1. r.seat[r.chair[i]] = i
    BY <1>0, <1>2 DEF Seated
  <2>2. Seated(SetUserStatus(r, i, "US_OFFLINE", r.chair[i]))
    BY <1>0, <1>2, <2>1, StatusSeats DEF Status
  <2> QED BY <1>2, <2>2
<1>3. CASE /\ r.chair[i] # NoChair /\ q.seat = [r.seat EXCEPT ![r.chair[i]] = NoItem]
           /\ \E v \in {"US_NULL", "US_FREE"} : Moved(r, q, i, v, NoChair)
  <2>1. r.seat[r.chair[i]] = i
    BY <1>0, <1>3 DEF Seated
  <2>2. q.status[i] \notin AtTable /\ q.chair[i] = NoChair
    BY <1>0, <1>3 DEF Moved, RoomType, AtTable
  <2>3. ASSUME NEW j \in Items \ {i}
        PROVE  /\ q.chair[j] # NoChair => q.seat[q.chair[j]] = j
               /\ q.status[j] \in AtTable => q.chair[j] # NoChair
    <3>1. q.status[j] = r.status[j] /\ q.chair[j] = r.chair[j]
      BY <1>0, <1>3 DEF Moved, RoomType
    <3>2. r.chair[j] # NoChair => r.seat[r.chair[j]] = j /\ r.chair[j] \in Chair
      BY <1>0 DEF Seated, RoomType
    <3>3. r.chair[j] # NoChair => q.seat[r.chair[j]] = j
      BY <1>0, <1>3, <2>1, <3>2 DEF RoomType
    <3> QED BY <3>1, <3>3 DEF Seated
  <2> QED BY <2>2, <2>3 DEF Seated
<1> QED BY <1>1, <1>2, <1>3, StandUpMoves

\* An empty chair is nobody's: sitting down on it takes it from no one.
LEMMA SitDownSeats ==
  ASSUME NEW r, RoomOK(r), Seated(r), NEW c \in Chair, NEW i, Object(r, i)
  PROVE  Seated(PerformSitDownAction(r, c, i))
<1> DEFINE q == [r EXCEPT !.seat[c] = i]
<1>0. r \in RoomType /\ i \in Items /\ r.user[i] # NoUser /\ NoItem \notin Items
  BY RoomAssumption DEF RoomOK, Object
<1>1. CASE r.seat[c] # NoItem
  BY <1>1 DEF PerformSitDownAction
<1>2. CASE r.seat[c] = NoItem
  <2>1. q \in RoomType /\ q = [bind |-> r.bind, shut |-> r.shut,
           map |-> r.map, free |-> r.free, seat |-> [r.seat EXCEPT ![c] = i],
           user |-> r.user, status |-> r.status, chair |-> r.chair, index |-> r.index]
    BY <1>0, SetSeat
  <2>2. PerformSitDownAction(r, c, i) \in
          {SetUserStatus(q, i, "US_READY", c), SetUserStatus(q, i, "US_PLAYING", c)}
    BY <1>2 DEF PerformSitDownAction
  <2> HIDE DEF q
  <2>3. \A d \in Chair : q.seat[d] # NoItem =>
          q.seat[d] = r.seat[d] \/ r.user[q.seat[d]] # NoUser
    BY <1>0, <2>1 DEF RoomType
  <2>4. Keeps(r, q)
    BY <2>1, <2>3, SameUsers
  <2>5. RoomOK(q) /\ Object(q, i)
    BY <2>4 DEF Keeps, Object
  <2>6. Seated(q) /\ q.seat[c] = i
    BY <1>0, <1>2, <2>1 DEF Seated, RoomType
  <2>7. /\ Seated(SetUserStatus(q, i, "US_READY", c))
        /\ Seated(SetUserStatus(q, i, "US_PLAYING", c))
    <3>1. c # NoChair
      BY DEF Chair, NoChair
    <3> QED BY <2>5, <2>6, <3>1, StatusSeats DEF Status
  <2> QED BY <2>2, <2>7
<1> QED BY <1>1, <1>2

LEMMA OffLineSeats ==
  ASSUME NEW r, RoomOK(r), Seated(r), NEW i, Object(r, i)
  PROVE  Seated(OnEventUserOffLine(r, i))
<1> DEFINE q == PerformStandUpAction(r, i)
<1>0. i \in Items /\ r.chair[i] \in Chair \cup {NoChair}
  BY DEF RoomOK, Object, RoomType
<1>1. CASE r.status[i] \in {"US_PLAYING", "US_OFFLINE"}
  <2>1. r.chair[i] # NoChair /\ r.seat[r.chair[i]] = i
    BY <1>0, <1>1 DEF Seated, AtTable
  <2>2. Seated(SetUserStatus(r, i, "US_OFFLINE", r.chair[i]))
    BY <1>0, <2>1, StatusSeats DEF Status
  <2> QED BY <1>1, <2>2 DEF OnEventUserOffLine
<1>2. CASE r.status[i] \in {"US_READY", "US_SIT"}
  <2>1. RoomOK(q) /\ Object(q, i)
    BY StandUpOK DEF Keeps, Object
  <2>2. Seated(q)
    BY StandUpSeats
  <2>3. OnEventUserOffLine(r, i) = SetUserStatus(q, i, "US_NULL", NoChair)
    BY <1>2 DEF OnEventUserOffLine
  <2> HIDE DEF q
  <2>4. Seated(SetUserStatus(q, i, "US_NULL", NoChair))
    BY <2>1, <2>2, StatusSeats DEF Status, AtTable
  <2> QED BY <2>3, <2>4
<1>3. CASE r.status[i] \notin {"US_PLAYING", "US_OFFLINE", "US_READY", "US_SIT"}
  BY <1>3 DEF OnEventUserOffLine
<1> QED BY <1>1, <1>2, <1>3

\* Where objects sit and what their status is depends on three fields only.
LEMMA SameSeats ==
  ASSUME NEW r, NEW q, Seated(r), q.seat = r.seat, q.status = r.status,
         q.chair = r.chair
  PROVE  Seated(q)
BY DEF Seated

LEMMA SwitchSeats ==
  ASSUME NEW r, RoomOK(r), Seated(r), NEW i \in Items, NEW s \in Socket
  PROVE  Seated(SwitchUserItemConnect(r, i, s))
<1> DEFINE q == SwitchUserItemConnect(r, i, s)
<1>1. r \in RoomType
  BY DEF RoomOK
<1>2. /\ q \in RoomType
      /\ \A t \in Socket :
           q.bind[t] = IF t = s THEN i
                       ELSE IF t = r.index[i] /\ r.bind[t] = i THEN NoItem ELSE r.bind[t]
      /\ q.map = r.map /\ q.seat = r.seat /\ q.user = r.user
      /\ q.index = [r.index EXCEPT ![i] = s] /\ q.chair = r.chair
      /\ q.status = IF r.status[i] = "US_OFFLINE"
                    THEN [r.status EXCEPT ![i] = "US_PLAYING"] ELSE r.status
  BY <1>1, SwitchFields
<1> HIDE DEF q
<1>3. Seated(q)
  BY <1>1, <1>2 DEF Seated, RoomType, AtTable
<1> QED BY <1>3 DEF q

\* A new user, or a second one with the same name, stands.
LEMMA InsertSeats ==
  ASSUME NEW r, RoomOK(r), Seated(r), NEW i \in Allocatable(r),
         NEW u \in Users, NEW s \in Socket
  PROVE  Seated(InsertUserItem(r, i, u, s))
<1> DEFINE q == InsertUserItem(r, i, u, s)
<1>1. r \in RoomType /\ i \in Items
  BY DEF RoomOK, RoomType, Allocatable
<1>2. Inserted(r, q, i, u, s)
  BY <1>1, InsertFields
<1> HIDE DEF q
<1>3. /\ q.seat = r.seat /\ q.status = [r.status EXCEPT ![i] = "US_FREE"]
      /\ q.chair = [r.chair EXCEPT ![i] = NoChair]
  BY <1>2 DEF Inserted
<1>4. Seated(q)
  BY <1>1, <1>3 DEF Seated, RoomType, AtTable
<1> QED BY <1>4 DEF q

-----------------------------------------------------------------------------
(* The handlers                                                            *)

LEMMA RefuseSeats ==
  ASSUME IInv, Seated(room), NEW s \in Socket, Refuse(s)
  PROVE  Seated(room')
<1>1. room \in RoomType
  BY DEF IInv, TypeOK
<1>2. room'.seat = room.seat /\ room'.status = room.status /\ room'.chair = room.chair
  BY <1>1 DEF Refuse, RoomType
<1> QED BY <1>2, SameSeats

LEMMA ShutSeats ==
  ASSUME IInv, Seated(room), NEW s \in Socket, OnEventTCPNetworkShut(s)
  PROVE  Seated(room')
<1> DEFINE i == room.bind[s]
           none == NoBind
           gone == [room EXCEPT !.index[i] = none]
           left == IF i = NoItem THEN room
                   ELSE IF room.chair[i] # NoChair THEN OnEventUserOffLine(gone, i)
                   ELSE SetUserStatus(room, i, "US_NULL", NoChair)
<1>1. RoomOK(room) /\ room \in RoomType
  BY DEF IInv, RoomOK
<1>2. Seated(left) /\ RoomOK(left)
  <2>1. CASE i = NoItem
    BY <1>1, <2>1
  <2>2. CASE i # NoItem
    <3>1. Object(room, i) /\ i \in Items /\ none \in Socket \cup {NoBind}
      BY <1>1, <2>2, PointersOK DEF Object
    <3>2. left \in {OnEventUserOffLine(gone, i), SetUserStatus(room, i, "US_NULL", NoChair)}
      BY <2>2
    <3> HIDE DEF i, none, left
    <3>3. LET q == [room EXCEPT !.index[i] = none] IN
          q \in RoomType /\ q = [bind |-> room.bind, shut |-> room.shut,
            map |-> room.map, free |-> room.free, seat |-> room.seat,
            user |-> room.user, status |-> room.status, chair |-> room.chair,
            index |-> [room.index EXCEPT ![i] = none]]
      BY <1>1, <3>1, SetIndex
    <3>4. gone \in RoomType /\ gone.bind = room.bind /\ gone.seat = room.seat
          /\ gone.user = room.user /\ gone.map = room.map /\ gone.free = room.free
          /\ gone.status = room.status /\ gone.chair = room.chair
      BY <3>3
    <3> HIDE DEF gone
    <3>5. Seated(gone) /\ Keeps(room, gone)
      BY <1>1, <3>4, SameUsers, SameSeats
    <3>6. RoomOK(gone) /\ Object(gone, i)
      BY <3>1, <3>4, <3>5 DEF Keeps, Object
    <3>7. LET q == OnEventUserOffLine(gone, i) IN Seated(q) /\ RoomOK(q)
      BY <3>5, <3>6, OffLineSeats, OffLineOK DEF Keeps
    <3>8. LET q == SetUserStatus(room, i, "US_NULL", NoChair) IN Seated(q) /\ RoomOK(q)
      BY <1>1, <3>1, StatusSeats, StatusOK DEF Status, AtTable, Keeps
    <3> QED BY <3>2, <3>7, <3>8
  <2> QED BY <2>1, <2>2
<1>3. room' = [left EXCEPT !.bind[s] = NoItem, !.shut = @ \ {s}]
  BY DEF OnEventTCPNetworkShut
<1> HIDE DEF left
<1>4. room'.seat = left.seat /\ room'.status = left.status /\ room'.chair = left.chair
  BY <1>2, <1>3 DEF RoomOK, RoomType
<1> QED BY <1>2, <1>4, SameSeats

LEMMA SitDownStepSeats ==
  ASSUME IInv, Seated(room), NEW s \in Socket, NEW c \in Chair,
         OnTCPNetworkSubUserSitDown(s, c)
  PROVE  Seated(room')
<1> DEFINE i == room.bind[s]
           stood == PerformStandUpAction(room, i)
           found == NullChairs(stood)
           chair == IF found = {} THEN c ELSE CHOOSE d \in found : TRUE
<1>1. RoomOK(room)
  BY DEF IInv
<1>2. CASE Refuse(s)
  BY <1>2, RefuseSeats
<1>3. CASE room' = room
  BY <1>3
<1>4. CASE i # NoItem /\ room' = PerformSitDownAction(stood, chair, i)
  <2>1. Object(room, i)
    BY <1>1, <1>4, PointersOK
  <2>2. RoomOK(stood) /\ Object(stood, i)
    BY <1>1, <2>1, StandUpOK DEF Keeps, Object
  <2>3. Seated(stood)
    BY <1>1, <2>1, StandUpSeats
  <2>4. chair \in Chair
    BY DEF NullChairs
  <2> HIDE DEF stood, chair, i
  <2> QED BY <1>4, <2>2, <2>3, <2>4, SitDownSeats
<1> QED BY <1>2, <1>3, <1>4 DEF OnTCPNetworkSubUserSitDown

LEMMA LogonSeats ==
  ASSUME IInv, Seated(room), NEW s \in Socket, NEW u \in Users, NEW p \in BOOLEAN,
         OnTCPNetworkSubMBLogonVisitor(s, u, p)
  PROVE  Seated(room')
<1>1. RoomOK(room)
  BY DEF IInv
<1>2. CASE Refuse(s)
  BY <1>2, RefuseSeats
<1>3. CASE room.map[u] # NoItem /\ room' = SwitchUserItemConnect(room, room.map[u], s)
  <2>1. room.map[u] \in Items
    BY <1>1, <1>3, PointersOK DEF Object
  <2> QED BY <1>1, <1>3, <2>1, SwitchSeats
<1>4. CASE \E i \in Allocatable(room) : room' = InsertUserItem(room, i, u, s)
  BY <1>1, <1>4, InsertSeats
<1> QED BY <1>2, <1>3, <1>4 DEF OnTCPNetworkSubMBLogonVisitor

LEMMA StandUpStepSeats ==
  ASSUME IInv, Seated(room), NEW s \in Socket, NEW f \in BOOLEAN,
         OnTCPNetworkSubUserStandUp(s, f)
  PROVE  Seated(room')
<1>1. RoomOK(room)
  BY DEF IInv
<1>2. CASE Refuse(s)
  BY <1>2, RefuseSeats
<1>3. CASE room' = room
  BY <1>3
<1>4. CASE room.bind[s] # NoItem /\ room' = PerformStandUpAction(room, room.bind[s])
  <2>1. Object(room, room.bind[s])
    BY <1>1, <1>4, PointersOK
  <2> QED BY <1>1, <1>4, <2>1, StandUpSeats
<1> QED BY <1>2, <1>3, <1>4 DEF OnTCPNetworkSubUserStandUp

-----------------------------------------------------------------------------
(* The loops over the chairs                                               *)

\* Of the chairs C, none is taken by a user that is offline; all are by players.
NoneOffLine(r, C) ==
  \A c \in C : r.seat[c] # NoItem => r.status[r.seat[c]] # "US_OFFLINE"
AllPlaying(r, C) ==
  \A c \in C : r.seat[c] # NoItem => r.status[r.seat[c]] = "US_PLAYING"

\* What the loops have done up to the chair they are at
Passed ==
  /\ pc = "conclude" => NoneOffLine(room, 0 .. at - 1)
  /\ pc \in {"kick", "start"} => NoneOffLine(room, Chair)
  /\ pc = "start" => AllPlaying(room, 0 .. at - 1)

\* From r to q, chairs are left but not taken, and only i changes its status.
Leaves(r, q, i) ==
  /\ \A c \in Chair : q.seat[c] \in {r.seat[c], NoItem}
  /\ \A j \in Items \ {i} : q.status[j] = r.status[j]

LEMMA StillNone ==
  ASSUME NEW r \in RoomType, NEW q \in RoomType, NEW i \in Items, Leaves(r, q, i),
         q.status[i] # "US_OFFLINE", NEW C \in SUBSET Chair, NoneOffLine(r, C)
  PROVE  NoneOffLine(q, C \cup {c \in Chair : r.seat[c] = i})
<1> SUFFICES ASSUME NEW c \in C \cup {d \in Chair : r.seat[d] = i}, q.seat[c] # NoItem
             PROVE  q.status[q.seat[c]] # "US_OFFLINE"
  BY DEF NoneOffLine
<1>1. c \in Chair /\ q.seat[c] = r.seat[c] /\ r.seat[c] \in Items
  BY DEF Leaves, RoomType
<1>2. CASE r.seat[c] = i
  BY <1>1, <1>2
<1>3. CASE r.seat[c] # i
  BY <1>1, <1>3 DEF Leaves, NoneOffLine
<1> QED BY <1>2, <1>3

\* While the handler runs, the trustee keeps nobody on a chair: who stands up is
\* not offline.
LEMMA StandUpLeaves ==
  ASSUME ~Started, NEW r, RoomOK(r), Seated(r), NEW i, Object(r, i)
  PROVE  LET q == PerformStandUpAction(r, i) IN
         Leaves(r, q, i) /\ q.status[i] # "US_OFFLINE"
<1> DEFINE q == PerformStandUpAction(r, i)
<1>0. r \in RoomType /\ i \in Items
  BY DEF RoomOK, Object
<1>1. CASE q = r /\ r.chair[i] = NoChair
  BY <1>0, <1>1 DEF Leaves, Seated, AtTable
<1>2. CASE /\ r.chair[i] # NoChair /\ q.seat = [r.seat EXCEPT ![r.chair[i]] = NoItem]
           /\ \E v \in {"US_NULL", "US_FREE"} : Moved(r, q, i, v, NoChair)
  <2>1. PICK v \in {"US_NULL", "US_FREE"} : Moved(r, q, i, v, NoChair)
    BY <1>2
  <2> HIDE DEF q
  <2>2. \A c \in Chair : q.seat[c] \in {r.seat[c], NoItem}
    BY <1>0, <1>2 DEF RoomType
  <2>3. q.status = [r.status EXCEPT ![i] = v] /\ v # "US_OFFLINE"
    BY <2>1 DEF Moved
  <2>4. q.status[i] # "US_OFFLINE" /\ \A j \in Items \ {i} : q.status[j] = r.status[j]
    BY <1>0, <2>3 DEF RoomType
  <2>5. Leaves(r, q, i) /\ q.status[i] # "US_OFFLINE"
    BY <2>2, <2>4 DEF Leaves
  <2> QED BY <2>5 DEF q
<1> QED BY <1>1, <1>2, StandUpMoves

LEMMA StatusLeaves ==
  ASSUME NEW r, RoomOK(r), NEW i, Object(r, i),
         NEW v \in Status, NEW c \in Chair \cup {NoChair}
  PROVE  LET q == SetUserStatus(r, i, v, c) IN
         Leaves(r, q, i) /\ q.status[i] = v /\ q.seat = r.seat
<1> DEFINE q == SetUserStatus(r, i, v, c)
<1>1. q.seat = r.seat /\ Moved(r, q, i, v, c)
  BY StatusMoves
<1>2. r \in RoomType /\ i \in Items
  BY DEF RoomOK, Object
<1> HIDE DEF q
<1>3. Leaves(r, q, i) /\ q.status[i] = v /\ q.seat = r.seat
  BY <1>1, <1>2 DEF Leaves, Moved, RoomType
<1> QED BY <1>3 DEF q

\* A loop that is not at the last chair goes to the next; all chairs are behind it
\* otherwise.
LEMMA LoopsOver ==
  ASSUME at \in Chair, NEW loop, NEW following, Advance(loop, following)
  PROVE  /\ pc = loop /\ at \in Nat /\ at' \in Chair
         /\ \/ pc' = loop /\ at' = at + 1 /\ at' \in Chair /\ 0 .. at' - 1 = 0 .. at
            \/ pc' = following /\ at' = 0 /\ 0 .. at = Chair
BY RoomAssumption DEF Advance, Chair

LEMMA ConcludeSeatPasses ==
  ASSUME IInv, Seated(room), Passed, ConcludeSeat
  PROVE  Seated(room') /\ Passed'
<1> DEFINE i == room.seat[at]
           q == SetUserStatus(room, i, "US_NULL", at)
           C == 0 .. at - 1
<1>0. RoomOK(room) /\ room \in RoomType /\ at \in Chair
  BY DEF IInv, TypeOK, RoomOK
<1>1. Advance("conclude", IF EnterLimit THEN "kick" ELSE "start")
  BY DEF ConcludeSeat
<1>2. pc = "conclude" /\ at \in Nat /\ C \in SUBSET Chair /\ at # NoChair
  BY <1>0, <1>1, RoomAssumption DEF Advance, Chair, NoChair
<1>3. ~Started /\ NoneOffLine(room, C)
  BY <1>2 DEF Started, Passed
<1>4. room' \in RoomType
  <2>1. IInv'
    BY ConcludeSeatStep
  <2> QED BY <2>1 DEF IInv, TypeOK
<1>5. Seated(room') /\ NoneOffLine(room', C \cup {at})
  <2>1. CASE i = NoItem
    <3>1. room' = room
      BY <2>1 DEF ConcludeSeat
    <3> QED BY <1>3, <2>1, <3>1 DEF NoneOffLine
  <2>2. CASE i # NoItem
    <3>1. Object(room, i) /\ i \in Items /\ room.seat[at] = i
      BY <1>0, <2>2, PointersOK DEF Object
    <3>2. \/ room' = PerformStandUpAction(room, i)
          \/ room' = PerformStandUpAction(q, i)
          \/ room' = SetUserStatus(room, i, "US_SIT", at)
      BY <2>2 DEF ConcludeSeat
    <3> HIDE DEF i
    <3>6. Seated(room') /\ Leaves(room, room', i) /\ room'.status[i] # "US_OFFLINE"
      <4>1. CASE room' = PerformStandUpAction(room, i)
        <5>1. Leaves(room, room', i) /\ room'.status[i] # "US_OFFLINE"
          BY <1>0, <1>3, <3>1, <4>1, StandUpLeaves
        <5>2. Seated(room')
          BY <1>0, <3>1, <4>1, StandUpSeats
        <5> QED BY <5>1, <5>2
      <4>2. CASE room' = PerformStandUpAction(q, i)
        <5>1. RoomOK(q) /\ Object(q, i)
          BY <1>0, <3>1, StatusOK DEF Keeps, Object, Status
        <5>2. Seated(q)
          BY <1>0, <3>1, StatusSeats DEF Status, AtTable
        <5>3. Leaves(room, q, i) /\ q.status[i] # "US_OFFLINE"
          BY <1>0, <3>1, StatusLeaves DEF Status
        <5> HIDE DEF q
        <5>4. Leaves(q, room', i) /\ room'.status[i] # "US_OFFLINE"
          BY <1>3, <4>2, <5>1, <5>2, StandUpLeaves
        <5>5. Seated(room')
          BY <4>2, <5>1, <5>2, StandUpSeats
        <5>6. Leaves(room, room', i)
          BY <5>3, <5>4 DEF Leaves
        <5> QED BY <5>4, <5>5, <5>6
      <4>3. CASE room' = SetUserStatus(room, i, "US_SIT", at)
        <5>1. Leaves(room, room', i) /\ room'.status[i] # "US_OFFLINE"
          BY <1>0, <3>1, <4>3, StatusLeaves DEF Status
        <5>2. Seated(room')
          BY <1>0, <1>2, <3>1, <4>3, StatusSeats DEF Status
        <5> QED BY <5>1, <5>2
      <4> QED BY <3>2, <4>1, <4>2, <4>3
    <3>7. NoneOffLine(room', C \cup {c \in Chair : room.seat[c] = i})
      BY <1>0, <1>2, <1>3, <1>4, <3>1, <3>6, StillNone
    <3> QED BY <1>0, <3>1, <3>6, <3>7 DEF NoneOffLine
  <2> QED BY <2>1, <2>2
<1>6. C \cup {at} = 0 .. at
  BY <1>2
<1>7. NoneOffLine(room', 0 .. at)
  BY <1>5, <1>6
<1>8. CASE pc' = "conclude" /\ 0 .. at' - 1 = 0 .. at
  <2>1. NoneOffLine(room', 0 .. at' - 1)
    BY <1>7, <1>8
  <2> QED BY <1>5, <1>8, <2>1 DEF Passed
<1>9. CASE pc' \in {"kick", "start"} /\ at' = 0 /\ 0 .. at = Chair
  <2>1. NoneOffLine(room', Chair)
    BY <1>7, <1>9
  <2>2. AllPlaying(room', 0 .. at' - 1)
    BY <1>9 DEF AllPlaying
  <2>3. pc' # "conclude"
    BY <1>9
  <2> QED BY <1>5, <2>1, <2>2, <2>3 DEF Passed
<1> QED BY <1>0, <1>1, <1>5, <1>8, <1>9, LoopsOver

LEMMA KickSeatPasses ==
  ASSUME IInv, Seated(room), Passed, NEW below \in BOOLEAN, KickSeat(below)
  PROVE  Seated(room') /\ Passed'
<1> DEFINE i == room.seat[at]
<1>0. RoomOK(room) /\ room \in RoomType /\ at \in Chair
  BY DEF IInv, TypeOK, RoomOK
<1>1. Advance("kick", "start") /\ pc = "kick"
  BY DEF KickSeat, Advance
<1>2. ~Started /\ NoneOffLine(room, Chair)
  BY <1>1 DEF Started, Passed
<1>3. room' \in RoomType
  <2>1. IInv'
    BY KickSeatStep
  <2> QED BY <2>1 DEF IInv, TypeOK
<1>4. Seated(room') /\ NoneOffLine(room', Chair)
  <2>1. CASE room' = room
    BY <1>2, <2>1
  <2>2. CASE i # NoItem /\ room' = PerformStandUpAction(room, i)
    <3>1. Object(room, i) /\ i \in Items
      BY <1>0, <2>2, PointersOK DEF Object
    <3> HIDE DEF i
    <3>2. Leaves(room, room', i) /\ room'.status[i] # "US_OFFLINE"
      BY <1>0, <1>2, <2>2, <3>1, StandUpLeaves
    <3>3. Seated(room')
      BY <1>0, <2>2, <3>1, StandUpSeats
    <3>4. NoneOffLine(room', Chair \cup {c \in Chair : room.seat[c] = i})
      BY <1>0, <1>2, <1>3, <3>1, <3>2, StillNone
    <3> QED BY <3>3, <3>4 DEF NoneOffLine
  <2> QED BY <2>1, <2>2 DEF KickSeat
<1>5. AllPlaying(room', 0 .. at' - 1) \/ pc' # "start"
  <2>1. CASE at' = 0
    BY <2>1 DEF AllPlaying
  <2> QED BY <1>0, <1>1, <2>1, LoopsOver
<1>6. pc' \in {"kick", "start"}
  BY <1>0, <1>1, LoopsOver
<1> QED BY <1>4, <1>5, <1>6 DEF Passed, NoneOffLine, AllPlaying

\* The last loop leaves only players at the table.
LEMMA StartSeatPasses ==
  ASSUME IInv, Seated(room), Passed, StartSeat
  PROVE  /\ Seated(room') /\ Passed'
         /\ pc' = "idle" => AllPlaying(room', Chair)
<1> DEFINE i == room.seat[at]
           C == 0 .. at - 1
<1>0. RoomOK(room) /\ room \in RoomType /\ at \in Chair
  BY DEF IInv, TypeOK, RoomOK
<1>1. Advance("start", "idle") /\ pc = "start"
  BY DEF StartSeat, Advance
<1>2. at \in Nat /\ C \in SUBSET Chair /\ at # NoChair
  BY <1>0, RoomAssumption DEF Chair, NoChair
<1>3. NoneOffLine(room, Chair) /\ AllPlaying(room, C)
  BY <1>1 DEF Passed, NoneOffLine, AllPlaying
<1>4. room' \in RoomType
  <2>1. IInv'
    BY StartSeatStep
  <2> QED BY <2>1 DEF IInv, TypeOK
<1>5. Seated(room') /\ NoneOffLine(room', Chair) /\ AllPlaying(room', C \cup {at})
  <2>1. CASE i = NoItem \/ room.status[i] = "US_PLAYING"
    <3>1. room' = room
      BY <2>1 DEF StartSeat
    <3> QED BY <1>3, <2>1, <3>1 DEF AllPlaying
  <2>2. CASE i # NoItem /\ room.status[i] # "US_PLAYING"
    <3>1. Object(room, i) /\ i \in Items /\ room.seat[at] = i
      BY <1>0, <2>2, PointersOK DEF Object
    <3>2. room.status[i] # "US_OFFLINE"
      BY <1>0, <1>3, <2>2 DEF NoneOffLine
    <3>3. room' = SetUserStatus(room, i, "US_PLAYING", at)
      BY <2>2, <3>2 DEF StartSeat
    <3> HIDE DEF i
    <3>4. Leaves(room, room', i) /\ room'.status[i] = "US_PLAYING" /\ room'.seat = room.seat
      BY <1>0, <3>1, <3>3, StatusLeaves DEF Status
    <3>5. Seated(room')
      BY <1>0, <1>2, <3>1, <3>3, StatusSeats DEF Status
    <3>6. NoneOffLine(room', Chair \cup {c \in Chair : room.seat[c] = i})
      BY <1>0, <1>3, <1>4, <3>1, <3>4, StillNone
    <3>7. ASSUME NEW c \in C \cup {at}, room'.seat[c] # NoItem
          PROVE  room'.status[room'.seat[c]] = "US_PLAYING"
      <4>1. c \in Chair /\ room.seat[c] \in Items
        BY <1>0, <1>2, <3>4, <3>7 DEF RoomType
      <4>2. CASE room.seat[c] = i
        BY <3>4, <4>2
      <4>3. CASE room.seat[c] # i
        BY <1>3, <3>1, <3>4, <3>7, <4>1, <4>3 DEF Leaves, AllPlaying
      <4> QED BY <4>2, <4>3
    <3> QED BY <3>5, <3>6, <3>7 DEF NoneOffLine, AllPlaying
  <2> QED BY <2>1, <2>2
<1>6. C \cup {at} = 0 .. at
  BY <1>2
<1>7. AllPlaying(room', 0 .. at)
  BY <1>5, <1>6
<1>8. CASE pc' = "start" /\ 0 .. at' - 1 = 0 .. at
  BY <1>5, <1>7, <1>8 DEF Passed, NoneOffLine, AllPlaying
<1>9. CASE pc' = "idle" /\ 0 .. at = Chair
  BY <1>5, <1>7, <1>9 DEF Passed, NoneOffLine, AllPlaying
<1> QED BY <1>0, <1>1, <1>5, <1>8, <1>9, LoopsOver

-----------------------------------------------------------------------------
(* The handler's end                                                       *)

SInv == IInv /\ Seated(room) /\ Passed

\* The steps the GAME_END handler has yet to take
EndOfRound ==
  IF pc = "conclude" THEN 3 * ChairCount - at
  ELSE IF pc = "kick" THEN 2 * ChairCount - at
  ELSE IF pc = "start" THEN ChairCount - at ELSE 0

LEMMA InitSInv == Init => SInv
<1> SUFFICES ASSUME Init PROVE SInv
  OBVIOUS
<1>1. Seated(room)
  BY DEF Init, Seated, AtTable
<1>2. Passed
  BY DEF Init, Passed
<1> QED BY <1>1, <1>2, InitIInv DEF SInv

LEMMA NextSInv == SInv /\ [Next]_vars => SInv'
<1> SUFFICES ASSUME SInv, [Next]_vars PROVE Seated(room') /\ Passed'
  BY NextIInv DEF SInv
<1>0. IInv /\ Seated(room) /\ Passed
  BY DEF SInv
<1>1. ASSUME pc' = "idle", Seated(room') PROVE Seated(room') /\ Passed'
  BY <1>1 DEF Passed
<1>2. CASE UNCHANGED vars
  BY <1>0, <1>2 DEF vars, Passed, NoneOffLine, AllPlaying
<1>3. ASSUME NEW s \in Socket, OnEventTCPNetworkBind(s) PROVE Seated(room') /\ Passed'
  BY <1>0, <1>1, <1>3 DEF OnEventTCPNetworkBind
<1>4. ASSUME NEW s \in Socket, OnEventTCPNetworkShut(s) PROVE Seated(room') /\ Passed'
  BY <1>0, <1>1, <1>4, ShutSeats DEF OnEventTCPNetworkShut
<1>5. ASSUME NEW s \in Socket, NEW u \in Users, NEW p \in BOOLEAN,
             OnTCPNetworkSubMBLogonVisitor(s, u, p)
      PROVE  Seated(room') /\ Passed'
  BY <1>0, <1>1, <1>5, LogonSeats DEF OnTCPNetworkSubMBLogonVisitor
<1>6. ASSUME NEW s \in Socket, NEW c \in Chair, OnTCPNetworkSubUserSitDown(s, c)
      PROVE  Seated(room') /\ Passed'
  BY <1>0, <1>1, <1>6, SitDownStepSeats DEF OnTCPNetworkSubUserSitDown
<1>7. ASSUME NEW s \in Socket, NEW f \in BOOLEAN, OnTCPNetworkSubUserStandUp(s, f)
      PROVE  Seated(room') /\ Passed'
  BY <1>0, <1>1, <1>7, StandUpStepSeats DEF OnTCPNetworkSubUserStandUp
<1>8. ASSUME NEW s \in Socket, NEW a \in SUBSET Areas, OnGameMessage(s, a)
      PROVE  Seated(room') /\ Passed'
  BY <1>0, <1>1, <1>8 DEF OnGameMessage
<1>9. CASE OnTimerPlaceJetton
  BY <1>0, <1>1, <1>9 DEF OnTimerPlaceJetton
<1>10. CASE OnTimerGameEnd
  <2>1. room' = room /\ pc' = "conclude" /\ at' = 0
    BY <1>10 DEF OnTimerGameEnd
  <2>2. NoneOffLine(room', 0 .. at' - 1)
    BY <2>1 DEF NoneOffLine
  <2> QED BY <1>0, <2>1, <2>2 DEF Passed
<1>11. CASE ConcludeSeat
  BY <1>0, <1>11, ConcludeSeatPasses
<1>12. ASSUME NEW below \in BOOLEAN, KickSeat(below) PROVE Seated(room') /\ Passed'
  BY <1>0, <1>12, KickSeatPasses
<1>13. CASE StartSeat
  BY <1>0, <1>13, StartSeatPasses
<1> QED
  BY <1>2, <1>3, <1>4, <1>5, <1>6, <1>7, <1>8, <1>9, <1>10, <1>11, <1>12, <1>13
  DEF Next, Round

\* Once GAME_END has begun no other handler runs, and every step brings its end
\* nearer.
LEMMA HandlerNearsItsEnd ==
  ASSUME SInv, Next, pc # "idle"
  PROVE  EndOfRound' \in 0 .. EndOfRound - 1
<1>1. at \in Chair /\ ChairCount \in Nat \ {0}
  BY RoomAssumption DEF SInv, IInv, TypeOK
<1>2. \/ Advance("conclude", IF EnterLimit THEN "kick" ELSE "start")
      \/ Advance("kick", "start")
      \/ Advance("start", "idle")
  BY DEF Next, Round, ConcludeSeat, KickSeat, StartSeat, OnEventTCPNetworkBind,
     OnEventTCPNetworkShut, OnTCPNetworkSubMBLogonVisitor, OnTCPNetworkSubUserSitDown,
     OnTCPNetworkSubUserStandUp, OnGameMessage, OnTimerPlaceJetton, OnTimerGameEnd
<1> QED BY <1>1, <1>2 DEF Advance, EndOfRound, Chair

\* Nobody that is registered, or was, is left waiting or offline.
LEMMA HandlerLeavesPlayers ==
  ASSUME SInv, Next, pc = "start", pc' = "idle"
  PROVE  \A i \in Items : room'.status[i] \notin {"US_OFFLINE", "US_READY", "US_SIT"}
<1>1. StartSeat
  BY DEF Next, Round, ConcludeSeat, KickSeat, Advance, OnEventTCPNetworkBind,
     OnEventTCPNetworkShut, OnTCPNetworkSubMBLogonVisitor, OnTCPNetworkSubUserSitDown,
     OnTCPNetworkSubUserStandUp, OnGameMessage, OnTimerPlaceJetton, OnTimerGameEnd
<1>2. Seated(room') /\ AllPlaying(room', Chair)
  BY <1>1, StartSeatPasses DEF SInv
<1>3. room' \in RoomType
  <2>1. IInv'
    BY <1>1, StartSeatStep DEF SInv
  <2> QED BY <2>1 DEF IInv, TypeOK
<1> SUFFICES ASSUME NEW i \in Items, room'.status[i] \in AtTable
             PROVE  room'.status[i] = "US_PLAYING"
  BY DEF AtTable
<1>4. room'.chair[i] \in Chair /\ room'.seat[room'.chair[i]] = i
  BY <1>2, <1>3 DEF Seated, RoomType
<1> QED BY <1>2, <1>4, RoomAssumption DEF AllPlaying

\* ConcludeGame resolves all who are offline: StartGame meets none.
NoneOffLineAtStart ==
  pc \in {"kick", "start"} => \A i \in Items : room.status[i] # "US_OFFLINE"

\* No other handler runs before GAME_END's is done, and each step brings that nearer.
HandlerEnds == pc # "idle" => EndOfRound' \in 0 .. EndOfRound - 1

\* When it is done, nobody is offline or waits to play.
LeavesNobodyWaiting ==
  pc = "start" /\ pc' = "idle" =>
    \A i \in Items : room'.status[i] \notin {"US_OFFLINE", "US_READY", "US_SIT"}

\* The safety under OfflineIsResolved and SitterPlays, for all options and for
\* clients that log on again: what happened on the chairs during a round, the loops
\* of ConcludeGame and StartGame find, and their handler comes to its end.
THEOREM RoundsResolveEverybody ==
  Spec => /\ []NoneOffLineAtStart
          /\ [][HandlerEnds]_vars
          /\ [][LeavesNobodyWaiting]_vars
<1>1. SInv => NoneOffLineAtStart
  <2> SUFFICES ASSUME SInv, pc \in {"kick", "start"},
                      NEW i \in Items, room.status[i] = "US_OFFLINE"
               PROVE  FALSE
    BY DEF NoneOffLineAtStart
  <2>1. room \in RoomType /\ Seated(room) /\ NoneOffLine(room, Chair)
    BY DEF SInv, IInv, TypeOK, Passed
  <2>2. room.chair[i] \in Chair /\ room.seat[room.chair[i]] = i
    BY <2>1 DEF Seated, AtTable, RoomType
  <2> QED BY <2>1, <2>2, RoomAssumption DEF NoneOffLine
<1>2. SInv /\ [Next]_vars => [HandlerEnds]_vars
  BY HandlerNearsItsEnd DEF HandlerEnds
<1>3. SInv /\ [Next]_vars => [LeavesNobodyWaiting]_vars
  BY HandlerLeavesPlayers DEF LeavesNobodyWaiting
<1> QED BY <1>1, <1>2, <1>3, InitSInv, NextSInv, PTL DEF Spec

=============================================================================
