--------------------- MODULE CorrespondDirectoryProofs ---------------------
(***************************************************************************)
(* The directory, for any number of game servers, users, connections and   *)
(* faults, whatever unwritten bind parameters say: registrations and       *)
(* connections agree as far as these let them, who is asked for its users  *)
(* and who waits is exact, users are in rooms that live, and the logon     *)
(* server's list follows what it is told.                                  *)
(***************************************************************************)
EXTENDS CorrespondDirectory, FiniteSetTheorems, SequenceTheorems, TLAPS

IsGame(k) == k \in allowed /\ bind[k].kind = "game"

\* Connections and what is registered on them
Bound ==
  /\ \A k \in Indexes : conn[k] = "free" => k \notin allowed /\ bind[k] \in {Unbound, Unwritten}
  /\ \A k \in allowed : \/ bind[k] = Plaza(k)
                        \/ bind[k] = Game(bind[k].service) /\ bind[k].service \in Servers
  /\ \A s \in rooms : \E k \in Indexes : IsGame(k) /\ bind[k].service = s
  /\ \A k \in Indexes : IsGame(k) /\ bind[k] \notin astray => bind[k].service \in rooms
  /\ \A j, k \in Indexes :
       IsGame(j) /\ IsGame(k) /\ bind[j] = bind[k] /\ bind[k] \notin astray => j = k
  /\ \A k \in logons : k \in allowed /\ bind[k] = Plaza(k)
  /\ \A k \in allowed : bind[k] = Plaza(k) /\ bind[k] \notin astray => k \in logons

\* Other assertions fail only where memory that nobody wrote to claims something.
Asserting ==
  \/ asserted \subseteq {"enter", "leave"}
  \/ astray # {} \/ \E k \in Indexes \ allowed : bind[k].kind \in {"game", "plaza"}

\* The other servers' links: each its own, and registered, if at all, by its server
Linked ==
  /\ \A s \in Servers : link[s] # None =>
       /\ conn[link[s]] = "open" /\ link[s] # logonLink
       /\ IsGame(link[s]) => bind[link[s]].service = s
  /\ \A s, t \in Servers : link[s] # None /\ link[s] = link[t] => s = t
  /\ logonLink # None => conn[logonLink] = "open"

\* CollectIsExact, without the count
Collecting ==
  /\ IsInjective(waiting) /\ collect \notin Range(waiting)
  /\ collect = None => waiting = <<>>
  /\ \A k \in Indexes : IsGame(k) <=> k = collect \/ k \in Range(waiting)

\* An item that names a room is found, and the room is there.
Living ==
  \A k \in DOMAIN items : \A s \in Servers :
    items[k][s] > 0 => s \in rooms /\ k \in Range(users)

\* From message j on, room s is not spoken of otherwise than by op.
Only(s, op, j) ==
  \A l \in DOMAIN inbox : l >= j /\ s \in inbox[l].rooms => inbox[l].op = op

\* The list says op of room s, or will when the messages are handled.
Settled(s, op) ==
  \/ \E j \in DOMAIN inbox : s \in inbox[j].rooms /\ Only(s, op, j)
  \/ Only(s, op, 1) /\ (s \in list <=> op = "insert")

Listing ==
  logonLink # None =>
    \A s \in Servers : \A op \in {"insert", "remove"} : since[s] = op => Settled(s, op)

DInv ==
  /\ TypeOK /\ Asserting
  /\ Bound /\ Linked /\ Collecting /\ Living /\ Listing

-----------------------------------------------------------------------------
(* Bind parameters, sequences and sets                                     *)

LEMMA Says ==
  /\ \A s : Game(s).kind = "game" /\ Game(s).service = s
  /\ \A k : Plaza(k).kind = "plaza" /\ Plaza(k).service = k
  /\ Unbound.kind = "none" /\ Unwritten.kind = "unwritten"
  /\ \A b \in Params : /\ b.kind = "game" => b = Game(b.service) /\ b.service \in RoomIds
                       /\ b.kind = "plaza" => b = Plaza(b.service)
BY DEF Game, Plaza, Unbound, Unwritten, Params, Memory, RoomIds

LEMMA GameIs ==
  ASSUME Bound, NEW k \in allowed
  PROVE  /\ IsGame(k) => bind[k] = Game(bind[k].service) /\ bind[k].service \in Servers
         /\ ~IsGame(k) => bind[k] = Plaza(k)
BY Says DEF Bound, IsGame

LEMMA FrontLast ==
  ASSUME NEW S, NEW s \in Seq(S), IsInjective(s), s # <<>>
  PROVE  /\ Last(s) \in S /\ Front(s) \in Seq(S) /\ IsInjective(Front(s))
         /\ Range(s) = Range(Front(s)) \cup {Last(s)} /\ Last(s) \notin Range(Front(s))
<1> DEFINE t == Front(s)
           n == Len(s)
<1>1. n \in Nat /\ n > 0 /\ DOMAIN s = 1 .. n /\ \A k \in 1 .. n : s[k] \in S
  OBVIOUS
<1>2. t \in Seq(S) /\ Len(t) = n - 1 /\ DOMAIN t = 1 .. n - 1 /\ \A k \in 1 .. n - 1 : t[k] = s[k]
  <2>1. \A k \in 1 .. n - 1 : s[k] \in S
    BY <1>1
  <2>2. /\ SubSeq(s, 1, n - 1) \in Seq(S)
        /\ Len(SubSeq(s, 1, n - 1)) = IF 1 <= n - 1 THEN n - 1 - 1 + 1 ELSE 0
        /\ \A i \in 1 .. n - 1 - 1 + 1 : SubSeq(s, 1, n - 1)[i] = s[1 + i - 1]
    BY <1>1, <2>1, SubSeqProperties
  <2>3. t = SubSeq(s, 1, n - 1)
    BY DEF Front
  <2> HIDE DEF t
  <2>4. t \in Seq(S) /\ Len(t) = n - 1 /\ \A i \in 1 .. n - 1 : t[i] = s[i]
    <3>1. n - 1 - 1 + 1 = n - 1 /\ \A i \in 1 .. n - 1 : 1 + i - 1 = i
      BY <1>1
    <3>2. (IF 1 <= n - 1 THEN n - 1 - 1 + 1 ELSE 0) = n - 1
      BY <1>1
    <3> QED BY <2>2, <2>3, <3>1, <3>2
  <2> QED BY <2>4
<1>3. Last(s) = s[n]
  BY DEF Last
<1> HIDE DEF t, n
<1>4. \A j, k \in 1 .. n : s[j] = s[k] => j = k
  BY <1>1 DEF IsInjective
<1>5. 1 .. n = (1 .. n - 1) \cup {n} /\ n \notin 1 .. n - 1
  BY <1>1
<1>6. IsInjective(t)
  BY <1>2, <1>4, <1>5 DEF IsInjective
<1>7. Range(s) = Range(t) \cup {s[n]}
  BY <1>1, <1>2, <1>5 DEF Range
<1>8. s[n] \notin Range(t)
  BY <1>2, <1>4, <1>5 DEF Range
<1> QED BY <1>1, <1>2, <1>3, <1>5, <1>6, <1>7, <1>8 DEF t

LEMMA PutLast ==
  ASSUME NEW S, NEW s \in Seq(S), IsInjective(s), NEW i \in S, i \notin Range(s)
  PROVE  /\ Append(s, i) \in Seq(S) /\ IsInjective(Append(s, i))
         /\ Range(Append(s, i)) = Range(s) \cup {i}
<1> DEFINE t == Append(s, i)
           n == Len(s) + 1
<1>1. /\ Len(s) \in Nat /\ DOMAIN s = 1 .. Len(s) /\ t \in Seq(S)
      /\ DOMAIN t = 1 .. n /\ t[n] = i /\ \A k \in 1 .. Len(s) : t[k] = s[k]
  OBVIOUS
<1>2. 1 .. n = (1 .. Len(s)) \cup {n} /\ n \notin 1 .. Len(s)
  BY <1>1
<1> HIDE DEF t, n
<1>3. \A k \in 1 .. Len(s) : s[k] # i
  BY <1>1 DEF Range
<1>4. IsInjective(t)
  <2>1. \A j, k \in 1 .. Len(s) : s[j] = s[k] => j = k
    BY <1>1 DEF IsInjective
  <2>2. \A j, k \in (1 .. Len(s)) \cup {n} : t[j] = t[k] => j = k
    BY <1>1, <1>3, <2>1
  <2> QED BY <1>1, <1>2, <2>2 DEF IsInjective
<1>5. Range(t) = Range(s) \cup {i}
  BY <1>1, <1>2 DEF Range
<1> QED BY <1>1, <1>4, <1>5 DEF t

\* One of those that wait is taken out, wherever it stands.
LEMMA TakenOut ==
  ASSUME NEW S, NEW s \in Seq(S), IsInjective(s), NEW e
  PROVE  /\ RemoveFirst(s, e) \in Seq(S) /\ IsInjective(RemoveFirst(s, e))
         /\ Range(RemoveFirst(s, e)) = Range(s) \ {e}
<1>1. Len(s) \in Nat /\ DOMAIN s = 1 .. Len(s) /\ \A k \in 1 .. Len(s) : s[k] \in S
  OBVIOUS
<1>2. \A j, k \in 1 .. Len(s) : s[j] = s[k] => j = k
  BY <1>1 DEF IsInjective
<1>3. CASE ~ \E k \in 1 .. Len(s) : s[k] = e
  <2>1. e \notin Range(s)
    BY <1>1, <1>3 DEF Range
  <2>2. RemoveFirst(s, e) = s
    BY <1>3 DEF RemoveFirst
  <2> QED BY <2>1, <2>2
<1>4. ASSUME NEW p \in 1 .. Len(s), s[p] = e
      PROVE  /\ RemoveFirst(s, e) \in Seq(S) /\ IsInjective(RemoveFirst(s, e))
             /\ Range(RemoveFirst(s, e)) = Range(s) \ {e}
  <2> DEFINE n == Len(s)
             a == SubSeq(s, 1, p - 1)
             b == SubSeq(s, p + 1, n)
             t == a \o b
  <2>1. SelectInSeq(s, LAMBDA v : v = e) = p
    <3>1. {i \in 1 .. Len(s) : s[i] = e} = {p}
      BY <1>2, <1>4
    <3>2. Min({p}) = p
      <4>1. \A y \in {p} : p =< y
        BY <1>1
      <4> QED BY <4>1 DEF Min
    <3> QED BY <3>1, <3>2 DEF SelectInSeq
  <2>2. RemoveFirst(s, e) = t
    BY <1>4, <2>1 DEF RemoveFirst, RemoveAt
  <2>3. a \in Seq(S) /\ Len(a) = p - 1 /\ \A k \in 1 .. p - 1 : a[k] = s[k]
    <3>1. \A k \in 1 .. p - 1 : s[k] \in S
      BY <1>1
    <3>2. /\ a \in Seq(S) /\ Len(a) = IF 1 <= p - 1 THEN p - 1 - 1 + 1 ELSE 0
          /\ \A k \in 1 .. p - 1 - 1 + 1 : a[k] = s[1 + k - 1]
      BY <1>1, <3>1, SubSeqProperties
    <3> HIDE DEF a
    <3>3. p - 1 - 1 + 1 = p - 1 /\ \A k \in 1 .. p - 1 : 1 + k - 1 = k
      BY <1>1
    <3>4. (IF 1 <= p - 1 THEN p - 1 - 1 + 1 ELSE 0) = p - 1
      BY <1>1
    <3> QED BY <3>2, <3>3, <3>4
  <2>4. b \in Seq(S) /\ Len(b) = n - p /\ \A k \in 1 .. n - p : b[k] = s[p + k]
    <3>1. \A k \in p + 1 .. n : s[k] \in S
      BY <1>1
    <3>2. /\ b \in Seq(S) /\ Len(b) = IF p + 1 <= n THEN n - (p + 1) + 1 ELSE 0
          /\ \A k \in 1 .. n - (p + 1) + 1 : b[k] = s[p + 1 + k - 1]
      BY <1>1, <3>1, SubSeqProperties
    <3> HIDE DEF b
    <3>3. n - (p + 1) + 1 = n - p /\ \A k \in 1 .. n - p : p + 1 + k - 1 = p + k
      BY <1>1
    <3>4. (IF p + 1 <= n THEN n - (p + 1) + 1 ELSE 0) = n - p
      <4>1. n \in Nat /\ p \in 1 .. n
        BY <1>1
      <4> HIDE DEF n
      <4>2. p + 1 <= n \/ p = n
        BY <4>1
      <4> QED BY <4>1, <4>2
    <3> QED BY <3>2, <3>3, <3>4
  <2>5. n \in Nat /\ p \in 1 .. n
    BY <1>1
  <2> HIDE DEF a, b, n
  <2>6. /\ t \in Seq(S) /\ Len(t) = n - 1
        /\ \A k \in 1 .. n - 1 : t[k] = IF k < p THEN s[k] ELSE s[k + 1]
    <3>1. /\ t \in Seq(S) /\ Len(t) = Len(a) + Len(b)
          /\ \A k \in 1 .. Len(a) + Len(b) :
               t[k] = IF k <= Len(a) THEN a[k] ELSE b[k - Len(a)]
      BY <2>3, <2>4, ConcatProperties
    <3> HIDE DEF t
    <3>2. Len(a) + Len(b) = n - 1
      BY <2>3, <2>4, <2>5
    <3>3. ASSUME NEW k \in 1 .. n - 1 PROVE t[k] = IF k < p THEN s[k] ELSE s[k + 1]
      <4>1. CASE k < p
        <5>1. k <= Len(a) /\ k \in 1 .. p - 1
          BY <2>3, <2>5, <4>1
        <5> QED BY <2>3, <3>1, <3>2, <4>1, <5>1
      <4>2. CASE ~(k < p)
        <5>1. ~(k <= Len(a)) /\ k - Len(a) \in 1 .. n - p /\ p + (k - Len(a)) = k + 1
          BY <2>3, <2>5, <4>2
        <5> QED BY <2>4, <3>1, <3>2, <4>2, <5>1
      <4> QED BY <4>1, <4>2
    <3> QED BY <3>1, <3>2, <3>3
  <2> HIDE DEF t
  <2>7. DOMAIN t = 1 .. n - 1
    BY <2>6
  <2>8. \A k \in 1 .. n - 1 : \E j \in 1 .. n : j # p /\ t[k] = s[j]
        /\ j = (IF k < p THEN k ELSE k + 1)
    BY <2>5, <2>6
  <2>9. IsInjective(t)
    <3>1. ASSUME NEW j \in 1 .. n - 1, NEW k \in 1 .. n - 1, t[j] = t[k] PROVE j = k
      <4>1. (IF j < p THEN j ELSE j + 1) = (IF k < p THEN k ELSE k + 1)
        BY <1>2, <2>8, <3>1 DEF n
      <4> QED BY <2>5, <4>1
    <3> QED BY <2>7, <3>1 DEF IsInjective
  <2>10. ASSUME NEW x \in Range(t) PROVE x \in Range(s) /\ x # e
    <3>1. PICK k \in 1 .. n - 1 : x = t[k]
      BY <2>7, <2>10 DEF Range
    <3>2. PICK j \in 1 .. n : j # p /\ x = s[j]
      BY <2>8, <3>1
    <3> QED BY <1>1, <1>2, <1>4, <3>2 DEF Range, n
  <2>11. ASSUME NEW x \in Range(s), x # e PROVE x \in Range(t)
    <3>1. PICK j \in 1 .. n : x = s[j]
      BY <1>1, <2>11 DEF Range, n
    <3>2. j # p
      BY <1>4, <2>11, <3>1
    <3>3. CASE j < p
      <4>1. j \in 1 .. n - 1
        BY <2>5, <3>3
      <4> QED BY <2>6, <2>7, <3>1, <3>3, <4>1 DEF Range
    <3>4. CASE j > p
      <4>1. j - 1 \in 1 .. n - 1 /\ ~(j - 1 < p) /\ (j - 1) + 1 = j
        BY <2>5, <3>4
      <4>2. t[j - 1] = x
        BY <2>6, <3>1, <4>1
      <4> QED BY <2>7, <4>1, <4>2 DEF Range
    <3> QED BY <2>5, <3>2, <3>3, <3>4
  <2> QED BY <2>2, <2>6, <2>9, <2>10, <2>11
<1> QED BY <1>3, <1>4

LEMMA Counted ==
  ASSUME NEW S, NEW s \in Seq(S), IsInjective(s)
  PROVE  IsFiniteSet(Range(s)) /\ Cardinality(Range(s)) = Len(s)
<1>1. Len(s) \in Nat /\ s \in [1 .. Len(s) -> Range(s)]
      /\ \A x \in Range(s) : \E k \in 1 .. Len(s) : s[k] = x
  BY DEF Range
<1>2. s \in Bijection(1 .. Len(s), Range(s))
  BY <1>1 DEF Bijection, Injection, Surjection
<1>3. ExistsBijection(1 .. Len(s), Range(s))
  BY <1>2 DEF ExistsBijection
<1>4. IsFiniteSet(Range(s))
  BY <1>1, <1>3, FS_NatBijection
<1> QED BY <1>1, <1>3, <1>4, FS_CountingElements

\* A set of game servers has a highest number.
LEMMA MaxIsIn ==
  ASSUME NEW R \in SUBSET Servers, R # {}
  PROVE  Max(R) \in R
<1> DEFINE HasMax(T) == \E x \in T : \A y \in T : x >= y
           Bad == {T \in SUBSET Servers : T # {} /\ ~HasMax(T)}
<1>1. Servers \subseteq Nat /\ IsFiniteSet(Servers)
  BY DirectoryAssumption
<1>2. IsWellFoundedOn(StrictSubsetOrdering(Servers), SUBSET Servers)
  <2>1. FiniteSubsetsOf(Servers) = SUBSET Servers
    BY <1>1, FS_FiniteSubsetsOfFinite
  <2> QED BY <2>1, FS_StrictSubsetOrderingWellFounded
<1>3. Bad = {}
  <2> SUFFICES ASSUME Bad # {} PROVE FALSE
    OBVIOUS
  <2>1. Bad \subseteq SUBSET Servers
    OBVIOUS
  <2> HIDE DEF Bad
  <2>2. PICK T \in Bad : \A U \in Bad : <<U, T>> \notin StrictSubsetOrdering(Servers)
    BY <1>2, <2>1, WFMin
  <2>3. T \in SUBSET Servers /\ T # {} /\ ~HasMax(T)
    BY <2>2 DEF Bad
  <2>4. PICK x \in T : TRUE
    BY <2>3
  <2> DEFINE U == T \ {x}
  <2>5. <<U, T>> \in StrictSubsetOrdering(Servers)
    BY <2>3, <2>4 DEF StrictSubsetOrdering
  <2>6. U \notin Bad
    BY <2>2, <2>5
  <2>7. U \in SUBSET Servers
    BY <2>3
  <2>8. U = {} \/ HasMax(U)
    BY <2>6, <2>7 DEF Bad
  <2>9. \A y \in T : y \in Nat
    BY <1>1, <2>3
  <2>10. CASE U = {}
    <3>1. \A y \in T : y = x
      BY <2>10
    <3>2. \A y \in T : x >= y
      BY <2>4, <2>9, <3>1
    <3> QED BY <2>3, <2>4, <3>2
  <2>11. CASE HasMax(U)
    <3>1. PICK m \in U : \A y \in U : m >= y
      BY <2>11
    <3>2. m \in T /\ m \in Nat /\ x \in Nat
      BY <2>9, <3>1
    <3>3. CASE m >= x
      <4>1. \A y \in T : m >= y
        BY <3>1, <3>3
      <4> QED BY <2>3, <3>2, <4>1
    <3>4. CASE ~(m >= x)
      <4>1. \A y \in T : x >= y
        <5>1. ASSUME NEW y \in T, y # x PROVE x >= y
          <6>1. m >= y /\ y \in Nat
            BY <2>9, <3>1, <5>1
          <6> QED BY <3>2, <3>4, <6>1
        <5>2. x >= x
          BY <3>2
        <5> QED BY <5>1, <5>2
      <4> QED BY <2>3, <4>1
    <3> QED BY <3>3, <3>4
  <2> QED BY <2>8, <2>10, <2>11
<1>4. HasMax(R)
  BY <1>3
<1> QED BY <1>4 DEF Max

-----------------------------------------------------------------------------
(* What is sent to the logon server                                        *)

Inbox == inbox \in Seq([op : {"insert", "remove"}, rooms : SUBSET RoomIds])

LEMMA BatchIsSent ==
  ASSUME TypeOK, Listing, NEW op \in {"insert", "remove"}, NEW s \in RoomIds,
         SendDataBatch(op, s), UNCHANGED <<logonLink, list>>
  PROVE  Inbox' /\ since' \in [Servers -> {"none", "insert", "remove"}] /\ Listing'
<1> DEFINE m == Room(op, s)
<1>1. Inbox /\ since \in [Servers -> {"none", "insert", "remove"}]
  BY DEF TypeOK, Inbox
<1>2. CASE UNCHANGED <<inbox, since>>
  BY <1>1, <1>2 DEF Inbox, Listing, Settled, Only
<1>3. CASE inbox' = Append(inbox, m) /\ since' = [t \in Servers |-> IF t = s THEN op ELSE since[t]]
  <2>1. m \in [op : {"insert", "remove"}, rooms : SUBSET RoomIds]
        /\ m.op = op /\ m.rooms = {s}
    BY DEF Room
  <2> HIDE DEF m
  <2>2. Inbox' /\ since' \in [Servers -> {"none", "insert", "remove"}]
    BY <1>1, <1>3, <2>1 DEF Inbox
  <2> PICK n \in Nat : n = Len(inbox) + 1
    BY <1>1 DEF Inbox
  <2>3. /\ Len(inbox) \in Nat /\ DOMAIN inbox = 1 .. Len(inbox) /\ DOMAIN inbox' = 1 .. n
        /\ inbox'[n] = m /\ \A l \in 1 .. Len(inbox) : inbox'[l] = inbox[l]
    BY <1>1, <1>3 DEF Inbox
  <2>4. 1 .. n = (1 .. Len(inbox)) \cup {n} /\ n \in 1 .. n
    BY <2>3
  <2>5. \A l \in 1 .. n : l >= n => l = n
    BY <2>3
  <2>6. Settled(s, op)'
    <3>1. Only(s, op, n)'
      BY <2>1, <2>3, <2>5 DEF Only
    <3> QED BY <2>1, <2>3, <2>4, <3>1 DEF Settled, Only
  <2>7. ASSUME NEW t \in Servers, t # s, NEW o, Settled(t, o)
        PROVE  Settled(t, o)'
    <3>1. ASSUME NEW j, Only(t, o, j) PROVE Only(t, o, j)'
      <4>1. ASSUME NEW l \in 1 .. n, l >= j, t \in inbox'[l].rooms
            PROVE  inbox'[l].op = o
        BY <2>1, <2>3, <2>4, <2>7, <3>1, <4>1 DEF Only
      <4> QED BY <2>3, <4>1 DEF Only
    <3>2. CASE \E j \in DOMAIN inbox : t \in inbox[j].rooms /\ Only(t, o, j)
      <4>1. PICK j \in 1 .. Len(inbox) : t \in inbox[j].rooms /\ Only(t, o, j)
        BY <2>3, <3>2
      <4>2. j \in 1 .. n /\ t \in inbox'[j].rooms
        BY <2>3, <2>4, <4>1
      <4>3. Only(t, o, j)'
        BY <3>1, <4>1
      <4> QED BY <2>3, <4>2, <4>3 DEF Settled, Only
    <3>3. CASE Only(t, o, 1) /\ (t \in list <=> o = "insert")
      <4>1. Only(t, o, 1)'
        BY <3>1, <3>3
      <4> QED BY <3>3, <4>1 DEF Settled, Only
    <3> QED BY <2>7, <3>2, <3>3 DEF Settled
  <2>8. ASSUME logonLink' # None, NEW t \in Servers, NEW o \in {"insert", "remove"}, since'[t] = o
        PROVE  Settled(t, o)'
    <3>1. CASE t # s
      <4>1. since[t] = o /\ logonLink # None
        BY <1>1, <1>3, <2>8, <3>1
      <4>2. Settled(t, o)
        BY <4>1 DEF Listing
      <4> QED BY <2>7, <3>1, <4>2
    <3>2. CASE t = s
      <4>1. o = op
        BY <1>1, <1>3, <2>8, <3>2
      <4> QED BY <2>6, <3>2, <4>1
    <3> QED BY <3>1, <3>2
  <2> QED BY <2>2, <2>8 DEF Listing
<1> QED BY <1>2, <1>3 DEF SendDataBatch

-----------------------------------------------------------------------------
(* CGlobalInfoManager                                                      *)

\* The types of the directory's own variables
Managed ==
  /\ rooms \subseteq Servers
  /\ DOMAIN users \subseteq Users /\ \A u \in DOMAIN users : users[u] \in 1 .. Len(items)
  /\ items \in Seq([Servers -> Nat]) /\ free \in Seq(1 .. Len(items))

LEMMA DeleteRoomItemKeeps ==
  ASSUME Managed, Living, NEW s \in rooms, DeleteRoomItem(s)
  PROVE  Managed' /\ Living' /\ rooms' = rooms \ {s}
<1>1. /\ rooms' = rooms \ {s} /\ free' = free
      /\ items' = [k \in DOMAIN items |->
           IF k \in Range(users) THEN [items[k] EXCEPT ![s] = 0] ELSE items[k]]
      /\ users' = [u \in {v \in DOMAIN users : ~(Names(users[v]) \subseteq {s})} |-> users[u]]
  BY DEF DeleteRoomItem
<1>2. Len(items) \in Nat /\ DOMAIN items = 1 .. Len(items)
      /\ \A k \in 1 .. Len(items) : items[k] \in [Servers -> Nat]
  BY DEF Managed
<1>3. s \in Servers
  BY DEF Managed
<1>4. ASSUME NEW k \in 1 .. Len(items)
      PROVE  /\ items'[k] \in [Servers -> Nat]
             /\ \A t \in Servers : items'[k][t] > 0 =>
                  items[k][t] > 0 /\ (k \in Range(users) => t # s)
  <2>1. CASE k \in Range(users)
    <3> DEFINE zero == 0
    <3>1. items'[k] = [items[k] EXCEPT ![s] = zero] /\ zero \in Nat /\ ~(zero > 0)
      BY <1>1, <1>2, <2>1
    <3> HIDE DEF zero
    <3>2. items[k] \in [Servers -> Nat]
      BY <1>2
    <3> QED BY <1>3, <3>1, <3>2
  <2>2. CASE k \notin Range(users)
    BY <1>1, <1>2, <2>2
  <2> QED BY <2>1, <2>2
<1>5. DOMAIN items' = 1 .. Len(items)
  BY <1>1, <1>2
<1>6. items' \in Seq([Servers -> Nat]) /\ Len(items') = Len(items)
  <2>1. items' = [k \in 1 .. Len(items) |-> items'[k]]
    BY <1>1, <1>2
  <2>2. items' \in [1 .. Len(items) -> [Servers -> Nat]]
    BY <1>4, <2>1
  <2>3. items' \in Seq([Servers -> Nat])
    BY <1>2, <2>2, SeqDef
  <2>4. Len(items') \in Nat /\ DOMAIN items' = 1 .. Len(items')
    BY <2>3
  <2>5. Len(items') = Len(items)
    BY <1>2, <1>5, <2>4
  <2> QED BY <2>3, <2>5
<1>7. DOMAIN users' \subseteq DOMAIN users /\ \A u \in DOMAIN users' : users'[u] = users[u]
  BY <1>1
<1>8. Managed'
  BY <1>1, <1>6, <1>7 DEF Managed
<1>9. ASSUME NEW k \in 1 .. Len(items), NEW t \in Servers, items'[k][t] > 0
      PROVE  t \in rooms' /\ k \in Range(users')
  <2>1. items[k][t] > 0 /\ t \in rooms /\ k \in Range(users)
    BY <1>2, <1>4, <1>9 DEF Living
  <2>2. t # s
    BY <1>4, <1>9, <2>1
  <2>3. PICK u \in DOMAIN users : users[u] = k
    BY <2>1 DEF Range
  <2>4. t \in Names(users[u])
    BY <2>1, <2>3 DEF Names
  <2>5. u \in DOMAIN users' /\ users'[u] = k
    BY <1>1, <2>2, <2>3, <2>4
  <2> QED BY <1>1, <2>1, <2>2, <2>5 DEF Range
<1> QED BY <1>1, <1>5, <1>8, <1>9 DEF Living

LEMMA ActiveUserItemKeeps ==
  ASSUME Managed, Living, NEW s \in rooms, NEW u \in Users, ActiveUserItem(u, s)
  PROVE  Managed' /\ Living' /\ rooms' = rooms /\ asserted' \subseteq {"enter", "leave"}
<1> DEFINE k == IF u \in DOMAIN users THEN users[u]
                ELSE IF free = <<>> THEN Len(items) + 1 ELSE Last(free)
<1>1. Len(items) \in Nat /\ DOMAIN items = 1 .. Len(items)
      /\ \A j \in 1 .. Len(items) : items[j] \in [Servers -> Nat]
  BY DEF Managed
<1>2. s \in Servers
  BY DEF Managed
<1>3. k \in 1 .. Len(items) + 1 /\ (k = Len(items) + 1 => u \notin DOMAIN users)
      /\ (free # <<>> => Front(free) \in Seq(1 .. Len(items)))
  <2>1. CASE free = <<>>
    BY <1>1, <2>1 DEF Managed
  <2>2. CASE free # <<>>
    <3>1. free \in Seq(1 .. Len(items)) /\ Len(free) \in Nat /\ Len(free) > 0
      BY <2>2 DEF Managed
    <3>2. \A j \in 1 .. Len(free) : free[j] \in 1 .. Len(items)
      BY <3>1
    <3>3. Last(free) \in 1 .. Len(items)
      BY <3>1, <3>2 DEF Last
    <3>4. Front(free) \in Seq(1 .. Len(items))
      <4>1. \A j \in 1 .. Len(free) - 1 : free[j] \in 1 .. Len(items)
        BY <3>1, <3>2
      <4>2. Len(free) - 1 \in Int /\ 1 \in Int
        BY <3>1
      <4> QED BY <4>1, <4>2, SubSeqProperties DEF Front
    <3>5. u \in DOMAIN users => users[u] \in 1 .. Len(items)
      BY DEF Managed
    <3> QED BY <1>1, <2>2, <3>3, <3>4, <3>5
  <2> QED BY <2>1, <2>2
<1>4. CASE UNCHANGED manager /\ asserted' \subseteq {"enter", "leave"}
  BY <1>4 DEF manager, Managed, Living
<1>5. CASE /\ asserted' = {} /\ UNCHANGED rooms
           /\ free' = IF u \in DOMAIN users \/ free = <<>> THEN free ELSE Front(free)
           /\ users' = [v \in DOMAIN users \cup {u} |-> IF v = u THEN k ELSE users[v]]
           /\ items' = IF k = Len(items) + 1
                       THEN Append(items, [t \in Servers |-> IF t = s THEN 1 ELSE 0])
                       ELSE [items EXCEPT ![k][s] = @ + 1]
  <2>1. k \in 1 .. Len(items) + 1
    BY <1>3
  <2>2. free' \in Seq(1 .. Len(items))
    BY <1>3, <1>5 DEF Managed
  <2>3. users' = [v \in DOMAIN users \cup {u} |-> IF v = u THEN k ELSE users[v]]
    BY <1>5
  <2>4. u \in DOMAIN users => k = users[u]
    OBVIOUS
  <2> HIDE DEF k
  <2>5. \A j \in Range(users) \cup {k} : j \in Range(users')
    <3>1. u \in DOMAIN users' /\ users'[u] = k
      BY <2>3
    <3>2. ASSUME NEW v \in DOMAIN users PROVE v \in DOMAIN users' /\ users'[v] = users[v]
      BY <2>3, <2>4
    <3> QED BY <3>1, <3>2 DEF Range
  <2>6. CASE k = Len(items) + 1
    <3> DEFINE e == [t \in Servers |-> IF t = s THEN 1 ELSE 0]
    <3>1. items' = Append(items, e)
      BY <1>5, <2>6
    <3>2. e \in [Servers -> Nat] /\ \A t \in Servers : e[t] > 0 => t = s
      OBVIOUS
    <3> HIDE DEF e
    <3>3. /\ items' \in Seq([Servers -> Nat]) /\ Len(items') = k
          /\ items'[k] = e /\ \A j \in 1 .. Len(items) : items'[j] = items[j]
      BY <2>6, <3>1, <3>2 DEF Managed
    <3>4. 1 .. k = (1 .. Len(items)) \cup {k} /\ DOMAIN items' = 1 .. k
      BY <1>1, <2>6, <3>3
    <3>5. Managed'
      <4>1. 1 .. Len(items) \subseteq 1 .. k
        BY <3>4
      <4>2. free' \in Seq(1 .. k)
        BY <2>2, <4>1, SeqMonotonic
      <4>3. \A v \in DOMAIN users' : users'[v] \in 1 .. k
        BY <2>3, <3>4 DEF Managed
      <4>4. DOMAIN users' \subseteq Users
        BY <2>3 DEF Managed
      <4> QED BY <1>5, <3>3, <4>2, <4>3, <4>4 DEF Managed
    <3>6. ASSUME NEW j \in 1 .. k, NEW t \in Servers, items'[j][t] > 0
          PROVE  t \in rooms' /\ j \in Range(users')
      <4>1. CASE j = k
        BY <1>5, <2>5, <3>2, <3>3, <3>6, <4>1
      <4>2. CASE j # k
        <5>1. j \in 1 .. Len(items) /\ items[j][t] > 0
          BY <3>3, <3>4, <3>6, <4>2
        <5>2. t \in rooms /\ j \in Range(users)
          BY <1>1, <5>1 DEF Living
        <5> QED BY <1>5, <2>5, <5>2
      <4> QED BY <4>1, <4>2
    <3> QED BY <1>5, <3>4, <3>5, <3>6 DEF Living
  <2>7. CASE k # Len(items) + 1
    <3>1. k \in 1 .. Len(items)
      BY <1>1, <2>1, <2>7
    <3> DEFINE n == items[k][s] + 1
               e == [items[k] EXCEPT ![s] = n]
    <3>2. items' = [items EXCEPT ![k] = e]
      BY <1>5, <2>7
    <3>3. items[k] \in [Servers -> Nat] /\ n \in Nat
      BY <1>1, <1>2, <3>1
    <3> HIDE DEF n
    <3>4. e \in [Servers -> Nat] /\ \A t \in Servers : t # s => e[t] = items[k][t]
      BY <3>3
    <3> HIDE DEF e
    <3>5. /\ items' \in Seq([Servers -> Nat]) /\ Len(items') = Len(items)
          /\ \A j \in 1 .. Len(items) : items'[j] = IF j = k THEN e ELSE items[j]
      BY <3>1, <3>2, <3>4, ExceptSeq DEF Managed
    <3>6. DOMAIN items' = 1 .. Len(items)
      BY <3>5
    <3>7. Managed'
      <4>1. \A v \in DOMAIN users' : users'[v] \in 1 .. Len(items)
        BY <2>3, <3>1 DEF Managed
      <4>2. DOMAIN users' \subseteq Users
        BY <2>3 DEF Managed
      <4> QED BY <1>5, <2>2, <3>5, <4>1, <4>2 DEF Managed
    <3>8. ASSUME NEW j \in 1 .. Len(items), NEW t \in Servers, items'[j][t] > 0
          PROVE  t \in rooms' /\ j \in Range(users')
      <4>1. CASE j = k /\ t = s
        BY <1>5, <2>5, <4>1
      <4>2. CASE ~(j = k /\ t = s)
        <5>1. items[j][t] > 0
          BY <3>4, <3>5, <3>8, <4>2
        <5>2. t \in rooms /\ j \in Range(users)
          BY <1>1, <5>1 DEF Living
        <5> QED BY <1>5, <2>5, <5>2
      <4> QED BY <4>1, <4>2
    <3> QED BY <1>5, <3>6, <3>7, <3>8 DEF Living
  <2> QED BY <2>6, <2>7
<1> QED BY <1>4, <1>5 DEF ActiveUserItem

LEMMA DeleteUserItemKeeps ==
  ASSUME Managed, Living, NEW s, NEW u \in Users, DeleteUserItem(u, s)
  PROVE  Managed' /\ Living' /\ rooms' = rooms /\ asserted' \subseteq {"enter", "leave"}
<1> DEFINE k == users[u]
<1>1. CASE u \notin DOMAIN users
  BY <1>1 DEF DeleteUserItem, manager, Managed, Living
<1>2. CASE u \in DOMAIN users
  <2>1. s \notin Names(k) \ rooms
    <3>1. k \in DOMAIN items
      BY <1>2 DEF Managed
    <3> QED BY <3>1 DEF Names, Living
  <2>2. /\ asserted' = {} /\ UNCHANGED <<rooms, users>>
        /\ items' = [items EXCEPT ![k] = [t \in Servers |-> IF t = s THEN 0 ELSE @[t]]]
        /\ free' = IF Names(k) \subseteq {s} THEN Append(free, k) ELSE free
    BY <1>2, <2>1 DEF DeleteUserItem
  <2>3. Len(items) \in Nat /\ DOMAIN items = 1 .. Len(items) /\ k \in 1 .. Len(items)
        /\ items[k] \in [Servers -> Nat]
    BY <1>2 DEF Managed
  <2> DEFINE zero == 0
             e == [t \in Servers |-> IF t = s THEN zero ELSE items[k][t]]
  <2>4. items' = [items EXCEPT ![k] = e] /\ zero \in Nat /\ ~(zero > 0)
    BY <2>2
  <2> HIDE DEF k, zero
  <2>5. e \in [Servers -> Nat] /\ \A t \in Servers : e[t] > 0 => items[k][t] > 0
    BY <2>3, <2>4
  <2> HIDE DEF e
  <2>6. /\ items' \in Seq([Servers -> Nat]) /\ Len(items') = Len(items)
        /\ \A j \in 1 .. Len(items) : items'[j] = IF j = k THEN e ELSE items[j]
    BY <2>3, <2>4, <2>5, ExceptSeq DEF Managed
  <2>7. free' \in Seq(1 .. Len(items))
    <3> DEFINE I == 1 .. Len(items)
    <3>1. free \in Seq(I) /\ k \in I
      BY <2>3 DEF Managed
    <3>2. free' = Append(free, k) \/ free' = free
      BY <2>2
    <3> HIDE DEF I
    <3>3. Append(free, k) \in Seq(I)
      BY <3>1
    <3>4. free' \in Seq(I)
      BY <3>1, <3>2, <3>3
    <3> QED BY <3>4 DEF I
  <2>8. Managed'
    BY <2>2, <2>6, <2>7 DEF Managed
  <2>9. ASSUME NEW j \in 1 .. Len(items), NEW t \in Servers, items'[j][t] > 0
        PROVE  t \in rooms' /\ j \in Range(users')
    <3>1. items[j][t] > 0
      BY <2>5, <2>6, <2>9
    <3> QED BY <2>2, <2>3, <3>1 DEF Living
  <2>10. DOMAIN items' = 1 .. Len(items)
    BY <2>6
  <2> QED BY <2>2, <2>8, <2>9, <2>10 DEF Living
<1> QED BY <1>1, <1>2

-----------------------------------------------------------------------------
(* Connections and processes                                               *)

LEMMA FreeIndexIsFree ==
  ASSUME \E k \in Indexes : conn[k] = "free"
  PROVE  FreeIndex \in Indexes /\ conn[FreeIndex] = "free"
BY DEF FreeIndex

LEMMA ConnectKeeps ==
  ASSUME DInv, NEW s \in Servers, Connect(s)
  PROVE  DInv'
<1> DEFINE k == FreeIndex
<1>1. k \in Indexes /\ conn[k] = "free" /\ k # None /\ link[s] = None
  BY FreeIndexIsFree, DirectoryAssumption DEF Connect
<1>2. /\ link' = [link EXCEPT ![s] = k] /\ conn' = [conn EXCEPT ![k] = "open"]
      /\ \E b \in Found(k) : bind' = [bind EXCEPT ![k] = b]
      /\ asserted' = {} /\ UNCHANGED <<manager, logons, collect, waiting, allowed, astray>>
      /\ UNCHANGED <<retired, inside, logon, visits, faults>>
  BY DEF Connect
<1> HIDE DEF k
<1>3. TypeOK /\ Bound /\ Linked /\ Collecting /\ Living /\ Listing
  BY DEF DInv
<1>4. /\ conn \in [Indexes -> {"free", "open", "lost"}] /\ link \in [Servers -> Indexes \cup {None}]
      /\ bind \in [Indexes -> Params] /\ allowed \subseteq Indexes /\ k \notin allowed
  BY <1>1, <1>3 DEF TypeOK, Bound
<1>5. bind' \in [Indexes -> Params] /\ \A j \in allowed : bind'[j] = bind[j]
  <2>1. PICK b \in Found(k) : bind' = [bind EXCEPT ![k] = b]
    BY <1>2
  <2>2. b \in Params
    BY <1>1, <1>4 DEF Found, Params
  <2> QED BY <1>4, <2>1, <2>2
<1>6. /\ \A j \in Indexes : IsGame(j)' <=> IsGame(j)
      /\ UNCHANGED <<rooms, users, items, free, logons, collect, waiting>>
      /\ UNCHANGED <<allowed, astray, logonLink>>
  BY <1>2, <1>5 DEF IsGame, manager, logon
<1>7. TypeOK' /\ Asserting'
  BY <1>1, <1>2, <1>3, <1>4, <1>5 DEF TypeOK, Asserting, manager, logon
<1>8. Bound'
  <2>1. \A j \in Indexes : conn'[j] = "free" =>
          j \notin allowed' /\ bind'[j] \in {Unbound, Unwritten}
    <3>1. \A j \in Indexes : j # k => conn'[j] = conn[j] /\ bind'[j] = bind[j]
      BY <1>2, <1>4
    <3>2. conn'[k] # "free"
      BY <1>1, <1>2, <1>4
    <3> QED BY <1>3, <1>6, <3>1, <3>2 DEF Bound
  <2>2. \A j \in Indexes : IsGame(j) => j \in allowed
    BY DEF IsGame
  <2> QED BY <1>3, <1>4, <1>5, <1>6, <2>1, <2>2 DEF Bound
<1>9. Linked'
  <2>1. ~IsGame(k) /\ k # logonLink
    BY <1>1, <1>3, <1>4 DEF IsGame, Linked
  <2>2. \A t \in Servers : link[t] # None => link[t] # k /\ link[t] \in Indexes
    BY <1>1, <1>3, <1>4 DEF Linked
  <2>3. \A t \in Servers : link'[t] = IF t = s THEN k ELSE link[t]
    BY <1>2, <1>4
  <2>4. conn'[k] = "open" /\ \A j \in Indexes : j # k => conn'[j] = conn[j]
    BY <1>1, <1>2, <1>4
  <2>5. ASSUME NEW t \in Servers, link'[t] # None
        PROVE  /\ conn'[link'[t]] = "open" /\ link'[t] # logonLink'
               /\ link'[t] \in allowed' /\ bind'[link'[t]].kind = "game" =>
                    bind'[link'[t]].service = t
    <3>1. CASE t = s
      BY <1>1, <1>4, <1>6, <2>1, <2>3, <2>4, <3>1
    <3>2. CASE t # s
      <4>1. link'[t] = link[t] /\ link[t] \in Indexes /\ link[t] # k
        BY <2>2, <2>3, <2>5, <3>2
      <4>2. /\ link[t] # logonLink /\ conn[link[t]] = "open"
            /\ link[t] \in allowed /\ bind[link[t]].kind = "game" => bind[link[t]].service = t
        BY <1>3, <2>5, <4>1 DEF Linked, IsGame
      <4> QED BY <1>5, <1>6, <2>4, <4>1, <4>2
    <3> QED BY <3>1, <3>2
  <2>6. \A t, v \in Servers : link'[t] # None /\ link'[t] = link'[v] => t = v
    BY <1>1, <1>3, <2>2, <2>3 DEF Linked
  <2>7. logonLink' # None => conn'[logonLink'] = "open"
    BY <1>3, <1>6, <2>1, <2>4 DEF Linked, TypeOK
  <2> QED BY <2>5, <2>6, <2>7 DEF Linked, IsGame
<1>10. Collecting' /\ Living' /\ Listing'
  <2>1. UNCHANGED <<inbox, list, since>>
    BY <1>2 DEF logon
  <2>2. \A j \in Indexes : bind'[j].kind = "game" /\ j \in allowed' <=> IsGame(j)
    BY <1>6 DEF IsGame
  <2> QED BY <1>3, <1>6, <2>1, <2>2 DEF Collecting, IsGame, Living, Listing, Settled, Only
<1> QED BY <1>7, <1>8, <1>9, <1>10 DEF DInv

\* The connection of game server s ends on its side.
LEMMA Unlinked ==
  ASSUME TypeOK, Bound, Linked, NEW s \in Servers, link[s] # None,
         conn' = [conn EXCEPT ![link[s]] = "lost"], link' = [link EXCEPT ![s] = None],
         UNCHANGED <<bind, rooms, logons, allowed, astray, logonLink>>
  PROVE  /\ conn' \in [Indexes -> {"free", "open", "lost"}]
         /\ link' \in [Servers -> Indexes \cup {None}] /\ Bound' /\ Linked'
<1> DEFINE k == link[s]
<1>1. conn \in [Indexes -> {"free", "open", "lost"}] /\ link \in [Servers -> Indexes \cup {None}]
      /\ k \in Indexes
  BY DEF TypeOK
<1>2. conn' = [conn EXCEPT ![k] = "lost"] /\ k # None /\ k # logonLink
  BY DEF Linked
<1>3. \A t \in Servers : link[t] = k => t = s
  BY <1>2 DEF Linked
<1> HIDE DEF k
<1>4. Bound'
  BY <1>1, <1>2 DEF Bound, IsGame
<1>5. Linked'
  BY <1>1, <1>2, <1>3 DEF Linked, IsGame
<1> QED BY <1>1, <1>2, <1>4, <1>5

LEMMA LinkLostKeeps ==
  ASSUME DInv, NEW s \in Servers, LinkLost(s)
  PROVE  DInv'
<1>1. TypeOK /\ Bound /\ Linked /\ Collecting /\ Living /\ Listing
  BY DEF DInv
<1>2. /\ faults < MaxFaults /\ faults' = faults + 1 /\ link[s] # None
      /\ conn' = [conn EXCEPT ![link[s]] = "lost"] /\ link' = [link EXCEPT ![s] = None]
      /\ inside' \in {inside, [inside EXCEPT ![s] = {}]}
      /\ asserted' = {} /\ UNCHANGED <<server, retired, logon, visits>>
  BY DEF LinkLost
<1>3. /\ conn' \in [Indexes -> {"free", "open", "lost"}]
      /\ link' \in [Servers -> Indexes \cup {None}] /\ Bound' /\ Linked'
  BY <1>1, <1>2, Unlinked DEF server, manager, logon
<1>4. inside' \in [Servers -> SUBSET Users] /\ faults' \in 0 .. MaxFaults
  <2>1. inside \in [Servers -> SUBSET Users] /\ faults \in 0 .. MaxFaults /\ MaxFaults \in Nat
    BY <1>1, DirectoryAssumption DEF TypeOK
  <2>2. faults' \in 0 .. MaxFaults
    BY <1>2, <2>1
  <2> QED BY <1>2, <2>1, <2>2
<1>5. TypeOK' /\ Asserting'
  BY <1>1, <1>2, <1>3, <1>4 DEF TypeOK, Asserting, server, manager, logon
<1>6. Collecting' /\ Living' /\ Listing'
  BY <1>1, <1>2 DEF Collecting, IsGame, Living, Listing, Settled, Only, server, manager, logon
<1> QED BY <1>3, <1>5, <1>6 DEF DInv

\* The state in which the correspond server starts
Empty ==
  /\ bind = [k \in Indexes |-> Unwritten] /\ rooms = {} /\ logons = {}
  /\ users = [u \in {} |-> 0] /\ items = <<>> /\ free = <<>>
  /\ collect = None /\ waiting = <<>> /\ allowed = {} /\ astray = {}
  /\ asserted = {}
  /\ conn = [k \in Indexes |-> "free"]
  /\ link = [s \in Servers |-> None] /\ logonLink = None

Exact ==
  /\ Bound /\ Linked /\ Collecting /\ Living /\ Listing /\ Managed
  /\ bind \in [Indexes -> Params] /\ astray \subseteq Params
  /\ logons \cup allowed \subseteq Indexes
  /\ collect \in Indexes \cup {None} /\ waiting \in Seq(Indexes)
  /\ conn \in [Indexes -> {"free", "open", "lost"}]
  /\ link \in [Servers -> Indexes \cup {None}] /\ logonLink \in Indexes \cup {None}
  /\ asserted = {}

LEMMA EmptyIsExact == Empty => Exact
<1> SUFFICES ASSUME Empty PROVE Exact
  OBVIOUS
<1> USE DEF Empty
<1>1. \A k \in Indexes : ~IsGame(k) /\ k \notin allowed /\ bind[k] = Unwritten
  BY DEF IsGame
<1>2. Bound
  BY <1>1 DEF Bound
<1>3. Linked /\ Listing
  BY DEF Linked, Listing
<1>4. Range(waiting) = {} /\ IsInjective(waiting)
  BY DEF Range, IsInjective
<1>5. Collecting
  <2>1. \A k \in Indexes : k # collect
    BY DirectoryAssumption
  <2> QED BY <1>1, <1>4, <2>1 DEF Collecting
<1>6. Living
  BY DEF Living
<1>7. Managed
  <2>1. DOMAIN users = {} /\ Len(items) = 0
    OBVIOUS
  <2> QED BY <2>1 DEF Managed
<1> QED BY <1>2, <1>3, <1>5, <1>6, <1>7 DEF Params, Exact

LEMMA RestartKeeps ==
  ASSUME DInv, Restart
  PROVE  DInv'
<1>1. TypeOK
  BY DEF DInv
<1>2. /\ faults < MaxFaults /\ faults' = faults + 1
      /\ bind' = [k \in Indexes |-> Unwritten] /\ rooms' = {} /\ logons' = {}
      /\ users' = [u \in {} |-> 0] /\ items' = <<>> /\ free' = <<>>
      /\ collect' = None /\ waiting' = <<>> /\ allowed' = {} /\ astray' = {}
      /\ conn' = [k \in Indexes |-> "free"]
      /\ link' = [s \in Servers |-> None] /\ logonLink' = None /\ asserted' = {}
      /\ UNCHANGED <<retired, inside, inbox, list, since, visits>>
  BY DEF Restart
<1>3. Exact'
  <2>1. Empty'
    BY <1>2 DEF Empty
  <2> QED BY <2>1, EmptyIsExact, PTL
<1>4. faults' \in 0 .. MaxFaults
  BY <1>1, <1>2, DirectoryAssumption DEF TypeOK
<1>5. TypeOK' /\ Asserting'
  BY <1>1, <1>2, <1>3, <1>4 DEF TypeOK, Managed, Exact, Asserting
<1> QED BY <1>3, <1>5 DEF DInv, Exact

LEMMA InitIsExact == Init => DInv
<1> SUFFICES ASSUME Init PROVE DInv
  OBVIOUS
<1>1. Exact
  BY EmptyIsExact DEF Init, Empty
<1>2. 0 \in 0 .. MaxVisits /\ 0 \in 0 .. MaxFaults
  BY DirectoryAssumption
<1>3. TypeOK
  BY <1>1, <1>2 DEF Init, TypeOK, Exact, Managed
<1> QED BY <1>1, <1>3 DEF DInv, Exact, Asserting

\* The logon server loses its connection, and messages with it.
LEMMA LogonLinkLostKeeps ==
  ASSUME DInv, LogonLinkLost
  PROVE  DInv'
<1> DEFINE k == logonLink
<1>1. TypeOK /\ Bound /\ Linked /\ Collecting /\ Living /\ Listing
  BY DEF DInv
<1>2. /\ faults < MaxFaults /\ faults' = faults + 1 /\ k # None
      /\ conn' = [conn EXCEPT ![k] = "lost"] /\ logonLink' = None
      /\ \/ \E n \in 0 .. Len(inbox) : inbox' = SubSeq(inbox, 1, n) /\ UNCHANGED list
         \/ inbox' = <<>> /\ list' = {}
      /\ asserted' = {} /\ UNCHANGED <<server, game, since, visits>>
  BY DEF LogonLinkLost
<1>3. k \in Indexes /\ conn \in [Indexes -> {"free", "open", "lost"}]
      /\ \A s \in Servers : link[s] # None => link[s] # k
  BY <1>1, <1>2 DEF TypeOK, Linked
<1>4. inbox' \in Seq([op : {"insert", "remove"}, rooms : SUBSET RoomIds])
      /\ list' \subseteq RoomIds
  <2> DEFINE M == [op : {"insert", "remove"}, rooms : SUBSET (RoomIds)]
  <2>1. inbox \in Seq(M) /\ list \subseteq RoomIds
    BY <1>1 DEF TypeOK
  <2> HIDE DEF M
  <2>2. ASSUME NEW n \in 0 .. Len(inbox) PROVE SubSeq(inbox, 1, n) \in Seq(M)
    <3>1. Len(inbox) \in Nat /\ n \in Int /\ 1 \in Int
      BY <2>1
    <3>2. \A i \in 1 .. n : inbox[i] \in M
      BY <2>1, <3>1
    <3> QED BY <3>1, <3>2, SubSeqProperties
  <2>3. inbox' \in Seq(M)
    <3>1. inbox' = <<>> \/ \E n \in 0 .. Len(inbox) : inbox' = SubSeq(inbox, 1, n)
      BY <1>2
    <3>2. <<>> \in Seq(M)
      OBVIOUS
    <3> QED BY <2>2, <3>1, <3>2
  <2> QED BY <1>2, <2>1, <2>3 DEF M
<1>5. faults' \in 0 .. MaxFaults
  BY <1>1, <1>2, DirectoryAssumption DEF TypeOK
<1>6. UNCHANGED <<bind, rooms, users, items, free, logons, collect, waiting, allowed, astray, link>>
  BY <1>2 DEF server, manager, game
<1> HIDE DEF k
<1>7. TypeOK' /\ Asserting'
  BY <1>1, <1>2, <1>3, <1>4, <1>5 DEF TypeOK, Asserting, server, manager, game
<1>8. Bound'
  BY <1>1, <1>2, <1>3, <1>6 DEF Bound, IsGame
<1>9. Linked'
  BY <1>1, <1>2, <1>3, <1>6 DEF Linked, IsGame, TypeOK
<1>10. Collecting' /\ Living' /\ Listing'
  BY <1>1, <1>2, <1>6 DEF Collecting, IsGame, Living, Listing
<1> QED BY <1>7, <1>8, <1>9, <1>10 DEF DInv

\* The logon server handles a message.
LEMMA ListingIsKept ==
  ASSUME Inbox, Listing, inbox # <<>>, inbox' = Tail(inbox),
         list' = IF Head(inbox).op = "insert" THEN list \cup Head(inbox).rooms
                 ELSE list \ Head(inbox).rooms,
         UNCHANGED <<logonLink, since>>
  PROVE  Inbox' /\ Listing'
<1> DEFINE M == [op : {"insert", "remove"}, rooms : SUBSET RoomIds]
<1> PICK m : m = Head(inbox)
  OBVIOUS
<1>1. inbox \in Seq(M) /\ \A x \in M : x.op \in {"insert", "remove"}
  BY DEF Inbox
<1> HIDE DEF M
<1>2. Len(inbox) \in Nat /\ Len(inbox) > 0 /\ DOMAIN inbox = 1 .. Len(inbox)
  BY <1>1
<1>3. m = inbox[1] /\ m \in M
  BY <1>1, <1>2
<1>5. /\ Len(inbox) \in Nat /\ Len(inbox) > 0 /\ DOMAIN inbox = 1 .. Len(inbox)
      /\ m = inbox[1] /\ m.op \in {"insert", "remove"}
  BY <1>1, <1>2, <1>3
<1>4. Len(inbox) - 1 \in Nat
  BY <1>2
<1> PICK n \in Nat : n = Len(inbox) - 1
  BY <1>4
<1>6. /\ Inbox' /\ DOMAIN inbox' = 1 .. n /\ \A l \in 1 .. n : inbox'[l] = inbox[l + 1]
  <2>1. /\ Tail(inbox) \in Seq(M) /\ Len(Tail(inbox)) = n
        /\ \A l \in 1 .. n : Tail(inbox)[l] = inbox[l + 1]
    BY <1>1, <1>2, HeadTailProperties
  <2> QED BY <2>1 DEF Inbox, M
<1>7. \A l \in 1 .. n : l + 1 \in 1 .. Len(inbox) /\ l + 1 >= 1
  BY <1>5
<1>8. ASSUME NEW s, NEW op, NEW j \in 1 .. Len(inbox), NEW i \in Nat, i + 1 >= j, Only(s, op, j)
      PROVE  Only(s, op, i)'
  <2>1. ASSUME NEW l \in 1 .. n, l >= i, s \in inbox'[l].rooms PROVE inbox'[l].op = op
    <3>1. l + 1 \in 1 .. Len(inbox) /\ l + 1 >= j
      BY <1>5, <1>8, <2>1
    <3>2. s \in inbox[l + 1].rooms /\ inbox'[l] = inbox[l + 1]
      BY <1>6, <2>1
    <3>3. inbox[l + 1].op = op
      BY <1>5, <1>8, <3>1, <3>2 DEF Only
    <3> QED BY <3>2, <3>3
  <2> QED BY <1>6, <2>1 DEF Only
<1>9. ASSUME NEW s \in Servers, NEW op \in {"insert", "remove"}, Settled(s, op)
      PROVE  Settled(s, op)'
  <2>1. ASSUME Only(s, op, 1), s \in m.rooms \/ (s \in list <=> op = "insert")
        PROVE  Settled(s, op)'
    <3>1. Only(s, op, 1)'
      <4>1. 1 \in 1 .. Len(inbox) /\ 1 \in Nat /\ 1 + 1 >= 1
        BY <1>5
      <4> QED BY <1>8, <2>1, <4>1
    <3>2. s \in m.rooms => m.op = op
      BY <1>5, <2>1 DEF Only
    <3>3. s \in list' <=> op = "insert"
      BY <1>5, <2>1, <3>2
    <3> QED BY <3>1, <3>3 DEF Settled, Only
  <2>2. ASSUME NEW j \in 1 .. Len(inbox), s \in inbox[j].rooms, Only(s, op, j)
        PROVE  Settled(s, op)'
    <3>1. CASE j = 1
      BY <1>5, <2>1, <2>2, <3>1
    <3>2. CASE j # 1
      <4> PICK i \in Nat : i = j - 1
        BY <1>5
      <4>1. i \in 1 .. n /\ i + 1 = j /\ i + 1 >= j
        BY <1>5, <3>2
      <4>2. Only(s, op, i)'
        BY <1>8, <2>2, <4>1
      <4>3. s \in inbox'[i].rooms
        BY <1>6, <2>2, <4>1
      <4> QED BY <1>6, <4>1, <4>2, <4>3 DEF Settled, Only
    <3> QED BY <3>1, <3>2
  <2> QED BY <1>5, <1>9, <2>1, <2>2 DEF Settled
<1>10. ASSUME logonLink' # None, NEW s \in Servers, NEW op \in {"insert", "remove"}, since'[s] = op
      PROVE  Settled(s, op)'
  <2>1. Settled(s, op)
    BY <1>10 DEF Listing
  <2> QED BY <1>9, <2>1
<1> QED BY <1>6, <1>10 DEF Listing

LEMMA OnTCPSocketMainServiceInfoKeeps ==
  ASSUME DInv, OnTCPSocketMainServiceInfo
  PROVE  DInv'
<1>1. TypeOK /\ Bound /\ Linked /\ Collecting /\ Living /\ Listing
  BY DEF DInv
<1>2. /\ inbox # <<>> /\ inbox' = Tail(inbox)
      /\ list' = IF Head(inbox).op = "insert" THEN list \cup Head(inbox).rooms
                 ELSE list \ Head(inbox).rooms
      /\ asserted' = {} /\ UNCHANGED <<server, conn, game, logonLink, since, visits, faults>>
  BY DEF OnTCPSocketMainServiceInfo
<1>3. Inbox
  BY <1>1 DEF TypeOK, Inbox
<1>4. Inbox' /\ Listing'
  BY <1>1, <1>2, <1>3, ListingIsKept
<1>5. list' \subseteq RoomIds
  <2>1. Head(inbox).rooms \subseteq RoomIds /\ list \subseteq RoomIds
    <3> DEFINE M == [op : {"insert", "remove"}, rooms : SUBSET (RoomIds)]
    <3>1. inbox \in Seq(M) /\ \A x \in M : x.rooms \subseteq RoomIds
      BY <1>3 DEF Inbox
    <3> HIDE DEF M
    <3>2. Head(inbox) \in M
      BY <1>2, <3>1
    <3> QED BY <1>1, <3>1, <3>2 DEF TypeOK
  <2> QED BY <1>2, <2>1
<1>6. TypeOK' /\ Asserting'
  BY <1>1, <1>2, <1>4, <1>5 DEF TypeOK, Asserting, server, manager, game, Inbox
<1>7. Bound' /\ Linked' /\ Collecting' /\ Living'
  BY <1>1, <1>2 DEF Bound, Linked, Collecting, IsGame, Living, server, manager, game
<1> QED BY <1>4, <1>6, <1>7 DEF DInv

-----------------------------------------------------------------------------
(* CAttemperEngineSink                                                     *)

LEMMA OnRegisterRoomKeeps ==
  ASSUME DInv, NEW s \in Servers, OnRegisterRoom(s)
  PROVE  DInv'
<1> DEFINE k == link[s]
           b == Game(s)
<1>1. TypeOK /\ Bound /\ Linked /\ Collecting /\ Living /\ Listing
  BY DEF DInv
<1>2. /\ k # None /\ k \notin allowed
      /\ UNCHANGED <<inside, logonLink, list, visits, faults>>
  BY DEF OnRegisterRoom
<1>3. k \in Indexes /\ conn[k] = "open" /\ k # logonLink /\ ~IsGame(k)
  BY <1>1, <1>2 DEF TypeOK, Linked, IsGame
<1>4. CASE s \in rooms
  <2>1. /\ conn' = [conn EXCEPT ![k] = "lost"]
        /\ link' = [link EXCEPT ![s] = None] /\ retired' = retired \cup {s}
        /\ asserted' = {} /\ UNCHANGED <<server, inbox, since>>
    BY <1>4 DEF OnRegisterRoom
  <2>2. /\ conn' \in [Indexes -> {"free", "open", "lost"}]
        /\ link' \in [Servers -> Indexes \cup {None}] /\ Bound' /\ Linked'
    BY <1>1, <1>2, <2>1, Unlinked DEF server, manager
  <2>3. TypeOK' /\ Asserting'
    BY <1>1, <1>2, <2>1, <2>2 DEF TypeOK, Asserting, server, manager
  <2>4. Collecting' /\ Living' /\ Listing'
    BY <1>1, <1>2, <2>1
       DEF Collecting, IsGame, Living, Listing, Settled, Only, server, manager
  <2> QED BY <2>2, <2>3, <2>4 DEF DInv
<1>5. CASE s \notin rooms
  <2>1. /\ bind' = [bind EXCEPT ![k] = b] /\ rooms' = rooms \cup {s} /\ asserted' = {}
        /\ SendDataBatch("insert", s) /\ allowed' = allowed \cup {k}
        /\ IF collect = None THEN collect' = k /\ UNCHANGED waiting
                             ELSE waiting' = Append(waiting, k) /\ UNCHANGED collect
        /\ UNCHANGED <<users, items, free, logons, conn, link, retired, astray>>
    BY <1>5 DEF OnRegisterRoom
  <2>2. bind' \in [Indexes -> Params]
    <3>1. b \in Params
      BY DEF Params
    <3> HIDE DEF b
    <3> QED BY <1>1, <2>1, <3>1 DEF TypeOK
  <2>3. bind'[k] = b /\ \A j \in Indexes : j # k => bind'[j] = bind[j]
    BY <1>1, <1>3, <2>1 DEF TypeOK
  <2>4. b.kind = "game" /\ b.service = s /\ b # Plaza(k)
    BY Says
  <2> HIDE DEF b, k
  <2>5. Inbox' /\ since' \in [Servers -> {"none", "insert", "remove"}] /\ Listing'
    BY <1>1, <1>2, <2>1, BatchIsSent DEF RoomIds
  <2>6. \A j \in Indexes : IsGame(j) => j # k /\ (bind[j] = b => bind[j] \in astray)
    BY <1>1, <1>3, <1>5, <2>4 DEF Bound
  <2>7. \A j \in Indexes : j \in allowed' /\ bind'[j].kind = "game" <=> j = k \/ IsGame(j)
    BY <1>3, <2>1, <2>3, <2>4 DEF IsGame
  <2>8. Bound'
    <3>1. \A j \in Indexes : conn'[j] = "free" =>
            j \notin allowed' /\ bind'[j] \in {Unbound, Unwritten}
      BY <1>1, <1>3, <2>1, <2>3 DEF Bound
    <3>2. \A j \in allowed' : \/ bind'[j] = Plaza(j)
                              \/ bind'[j] = Game(bind'[j].service) /\ bind'[j].service \in Servers
      <4>1. \A j \in allowed : j # k /\ j \in Indexes
        BY <1>1, <1>2 DEF TypeOK
      <4> QED BY <1>1, <2>1, <2>3, <2>4, <4>1 DEF Bound, b
    <3>3. ASSUME NEW v \in rooms'
          PROVE  \E j \in Indexes : /\ j \in allowed' /\ bind'[j].kind = "game"
                                    /\ bind'[j].service = v
      <4>1. CASE v = s
        BY <1>3, <2>3, <2>4, <2>7, <4>1
      <4>2. CASE v # s
        <5>1. PICK j \in Indexes : IsGame(j) /\ bind[j].service = v
          BY <1>1, <2>1, <4>2 DEF Bound
        <5> QED BY <2>3, <2>6, <2>7, <5>1
      <4> QED BY <4>1, <4>2
    <3>4. \A j \in Indexes : (j = k \/ IsGame(j)) /\ bind'[j] \notin astray =>
            bind'[j].service \in rooms'
      BY <1>1, <2>1, <2>3, <2>4, <2>6 DEF Bound
    <3>5. ASSUME NEW i \in Indexes, NEW j \in Indexes, i = k \/ IsGame(i), j = k \/ IsGame(j),
                 bind'[i] = bind'[j], bind'[j] \notin astray
          PROVE  i = j
      <4>1. CASE i # k /\ j # k
        BY <1>1, <2>3, <3>5, <4>1 DEF Bound
      <4>2. CASE i = k /\ j # k
        BY <2>3, <2>6, <3>5, <4>2
      <4>3. CASE i # k /\ j = k
        BY <2>3, <2>6, <3>5, <4>3
      <4> QED BY <4>1, <4>2, <4>3
    <3>6. \A j \in logons' : j \in allowed' /\ bind'[j] = Plaza(j)
      <4>1. \A j \in logons : j # k /\ j \in Indexes
        BY <1>1, <1>2 DEF Bound, TypeOK
      <4> QED BY <1>1, <2>1, <2>3, <4>1 DEF Bound
    <3>7. \A j \in allowed' : bind'[j] = Plaza(j) /\ bind'[j] \notin astray => j \in logons'
      <4>1. \A j \in allowed : j # k /\ j \in Indexes
        BY <1>1, <1>2 DEF TypeOK
      <4> QED BY <1>1, <2>1, <2>3, <2>4, <4>1 DEF Bound
    <3> QED BY <2>1, <2>7, <3>1, <3>2, <3>3, <3>4, <3>5, <3>6, <3>7 DEF Bound, IsGame
  <2>9. Linked'
    <3>1. ASSUME NEW t \in Servers, link[t] # None, link[t] \in allowed',
                 bind'[link[t]].kind = "game"
          PROVE  bind'[link[t]].service = t
      <4>1. link[t] \in Indexes
        BY <1>1, <3>1 DEF TypeOK
      <4>2. CASE link[t] = k
        <5>1. t = s
          BY <1>1, <1>2, <4>2 DEF Linked, k
        <5> QED BY <2>3, <2>4, <4>2, <5>1
      <4>3. CASE link[t] # k
        BY <1>1, <2>3, <2>7, <3>1, <4>1, <4>3 DEF Linked
      <4> QED BY <4>2, <4>3
    <3> QED BY <1>1, <1>2, <2>1, <3>1 DEF Linked, IsGame
  <2>10. Collecting' /\ waiting' \in Seq(Indexes) /\ collect' \in Indexes \cup {None}
    <3>1. waiting \in Seq(Indexes) /\ collect \in Indexes \cup {None}
      BY <1>1 DEF TypeOK
    <3>2. IsInjective(waiting) /\ collect \notin Range(waiting)
          /\ (collect = None => waiting = <<>>)
          /\ \A j \in Indexes : IsGame(j) <=> j = collect \/ j \in Range(waiting)
      BY <1>1 DEF Collecting
    <3>3. CASE collect = None
      <4>1. collect' = k /\ waiting' = waiting /\ Range(waiting) = {}
        BY <2>1, <3>2, <3>3 DEF Range
      <4>2. \A j \in Indexes : j = k \/ IsGame(j) <=> j = collect' \/ j \in Range(waiting')
        BY <2>7, <3>2, <3>3, <4>1, DirectoryAssumption
      <4> QED BY <1>2, <1>3, <2>7, <3>1, <3>2, <4>1, <4>2 DEF Collecting, IsGame
    <3>4. CASE collect # None
      <4>1. waiting' = Append(waiting, k) /\ collect' = collect
        BY <2>1, <3>4
      <4>2. k \notin Range(waiting) /\ k # collect
        BY <1>3, <3>2
      <4>3. /\ Append(waiting, k) \in Seq(Indexes) /\ IsInjective(Append(waiting, k))
            /\ Range(Append(waiting, k)) = Range(waiting) \cup {k}
        BY <1>3, <3>1, <3>2, <4>2, PutLast
      <4>4. \A j \in Indexes : j = k \/ IsGame(j) <=> j = collect' \/ j \in Range(waiting')
        BY <2>7, <3>2, <4>1, <4>3
      <4> QED BY <2>7, <3>1, <3>2, <3>4, <4>1, <4>2, <4>3, <4>4 DEF Collecting, IsGame
    <3> QED BY <3>3, <3>4
  <2>11. Living'
    BY <1>1, <2>1 DEF Living
  <2>12. TypeOK' /\ Asserting'
    BY <1>1, <1>2, <1>3, <2>1, <2>2, <2>5, <2>10 DEF TypeOK, Asserting, Inbox
  <2> QED BY <2>5, <2>8, <2>9, <2>10, <2>11, <2>12 DEF DInv
<1> QED BY <1>4, <1>5

LEMMA OnRegisterLogonKeeps ==
  ASSUME DInv, OnRegisterLogon
  PROVE  DInv'
<1> DEFINE k == FreeIndex
           b == Plaza(k)
<1>1. TypeOK /\ Bound /\ Linked /\ Collecting /\ Living /\ Listing
  BY DEF DInv
<1>2. /\ conn' = [conn EXCEPT ![k] = "open"] /\ logonLink' = k
      /\ bind' = [bind EXCEPT ![k] = b]
      /\ asserted' = IF k \in logons THEN {"logon"} ELSE {}
      /\ logons' = logons \cup {k}
      /\ \E entries \in RoomList : inbox' = Append(inbox, [op |-> "insert", rooms |-> entries])
      /\ allowed' = allowed \cup {k}
      /\ since' = [s \in Servers |-> "none"]
      /\ UNCHANGED <<manager, collect, waiting, astray, game, list, visits, faults>>
  BY DEF OnRegisterLogon
<1>3. k \in Indexes /\ conn[k] = "free"
  BY FreeIndexIsFree DEF OnRegisterLogon
<1> HIDE DEF k
<1>4. conn \in [Indexes -> {"free", "open", "lost"}] /\ k \notin allowed
      /\ \A j \in allowed : j # k /\ j \in Indexes
  BY <1>1, <1>3 DEF TypeOK, Bound
<1>5. /\ bind' \in [Indexes -> Params]
      /\ bind'[k] = b /\ \A j \in Indexes : j # k => bind'[j] = bind[j]
  <2>1. b \in Params
    BY <1>3 DEF Params
  <2> HIDE DEF b
  <2> QED BY <1>1, <1>2, <1>3, <2>1 DEF TypeOK
<1>6. b.kind = "plaza" /\ b = Plaza(k)
  BY Says
<1> HIDE DEF b
<1>7. \A j \in Indexes : j \in allowed' /\ bind'[j].kind = "game" <=> IsGame(j)
  BY <1>2, <1>4, <1>5, <1>6 DEF IsGame
<1>8. \A j \in Indexes : IsGame(j) => j # k
  BY <1>4 DEF IsGame
<1>9. Inbox'
  <2> DEFINE M == [op : {"insert", "remove"}, rooms : SUBSET RoomIds]
  <2>1. PICK entries \in RoomList : inbox' = Append(inbox, [op |-> "insert", rooms |-> entries])
    BY <1>2
  <2>2. entries \subseteq RoomIds
    <3>1. rooms \in SUBSET Servers
      BY <1>1 DEF TypeOK
    <3>2. CASE rooms = {}
      BY <2>1, <3>2 DEF RoomList
    <3>3. CASE rooms # {}
      <4>1. \E junk \in SUBSET (Servers \cup {Junk}) : entries = {Max(rooms)} \cup junk
        BY <2>1, <3>3 DEF RoomList
      <4>2. Max(rooms) \in rooms
        BY <3>1, <3>3, MaxIsIn
      <4> QED BY <3>1, <4>1, <4>2 DEF RoomIds
    <3> QED BY <3>2, <3>3
  <2>3. [op |-> "insert", rooms |-> entries] \in M /\ inbox \in Seq(M)
    BY <1>1, <2>2 DEF TypeOK
  <2> HIDE DEF M
  <2>4. inbox' \in Seq(M)
    BY <2>1, <2>3
  <2> QED BY <2>4 DEF Inbox, M
<1>10. k \notin logons
  BY <1>1, <1>4 DEF Bound
<1>11. Bound'
  <2>1. \A j \in Indexes : conn'[j] = "free" =>
          j \notin allowed' /\ bind'[j] \in {Unbound, Unwritten}
    BY <1>1, <1>2, <1>3, <1>4, <1>5 DEF Bound
  <2>2. rooms' = rooms /\ astray' = astray
    BY <1>2 DEF manager
  <2>3. \A j \in allowed' : \/ bind'[j] = Plaza(j)
                            \/ bind'[j] = Game(bind'[j].service) /\ bind'[j].service \in Servers
    BY <1>1, <1>2, <1>4, <1>5, <1>6 DEF Bound
  <2>4. \A v \in rooms' : \E j \in Indexes : IsGame(j) /\ bind'[j].service = v
    BY <1>1, <1>5, <1>8, <2>2 DEF Bound
  <2>5. \A j \in Indexes : IsGame(j) /\ bind'[j] \notin astray' => bind'[j].service \in rooms'
    BY <1>1, <1>5, <1>8, <2>2 DEF Bound
  <2>6. \A i, j \in Indexes :
          IsGame(i) /\ IsGame(j) /\ bind'[i] = bind'[j] /\ bind'[j] \notin astray' => i = j
    BY <1>1, <1>5, <1>8, <2>2 DEF Bound
  <2>7. \A j \in logons' : j \in allowed' /\ bind'[j] = Plaza(j)
    BY <1>1, <1>2, <1>4, <1>5, <1>6 DEF Bound
  <2>8. \A j \in allowed' : bind'[j] = Plaza(j) /\ bind'[j] \notin astray' => j \in logons'
    BY <1>1, <1>2, <1>4, <1>5, <2>2 DEF Bound
  <2> QED BY <1>7, <2>1, <2>3, <2>4, <2>5, <2>6, <2>7, <2>8 DEF Bound, IsGame
<1>12. Linked'
  <2>1. \A t \in Servers : link[t] # None => link[t] \in Indexes /\ link[t] # k
    BY <1>1, <1>3 DEF Linked, TypeOK
  <2>2. link' = link
    BY <1>2 DEF game
  <2>3. conn'[k] = "open" /\ \A j \in Indexes : j # k => conn'[j] = conn[j]
    BY <1>2, <1>3, <1>4
  <2> QED BY <1>1, <1>2, <1>5, <1>7, <2>1, <2>2, <2>3 DEF Linked, IsGame
<1>13. Collecting'
  BY <1>1, <1>2, <1>7 DEF Collecting, IsGame
<1>14. Living' /\ Listing'
  <2>1. \A s \in Servers : since'[s] = "none"
    BY <1>2
  <2> QED BY <1>1, <1>2, <2>1 DEF Living, Listing, manager
<1>15. asserted' = {}
  BY <1>2, <1>10
<1>16. TypeOK' /\ Asserting'
  BY <1>1, <1>2, <1>3, <1>4, <1>5, <1>9, <1>15 DEF TypeOK, Asserting, Inbox, manager, game
<1> QED BY <1>11, <1>12, <1>13, <1>14, <1>15, <1>16 DEF DInv

\* Who is asked, and who waits, after the connection on index k has gone
LEMMA LeaveCollectKeeps ==
  ASSUME TypeOK, Collecting, NEW k \in Indexes, LeaveCollect(k),
         \A j \in Indexes : j \in allowed' /\ bind'[j].kind = "game" <=> j # k /\ IsGame(j)
  PROVE  Collecting' /\ waiting' \in Seq(Indexes) /\ collect' \in Indexes \cup {None}
<1>1. waiting \in Seq(Indexes) /\ collect \in Indexes \cup {None} /\ k # None
  BY DirectoryAssumption DEF TypeOK
<1>2. IsInjective(waiting) /\ collect \notin Range(waiting)
      /\ (collect = None => waiting = <<>>)
      /\ \A j \in Indexes : IsGame(j) <=> j = collect \/ j \in Range(waiting)
  BY DEF Collecting
<1>3. CASE k = collect /\ waiting = <<>>
  <2>1. collect' = None /\ waiting' = waiting /\ Range(waiting) = {}
    BY <1>3 DEF LeaveCollect, Range
  <2>2. \A j \in Indexes : j # k /\ IsGame(j) <=> j = collect' \/ j \in Range(waiting')
    BY <1>2, <1>3, <2>1, DirectoryAssumption
  <2> QED BY <1>1, <1>2, <1>3, <2>1, <2>2 DEF Collecting, IsGame
<1>4. CASE k = collect /\ waiting # <<>>
  <2>1. collect' = Last(waiting) /\ waiting' = Front(waiting)
    BY <1>4 DEF LeaveCollect
  <2>2. /\ Last(waiting) \in Indexes /\ Front(waiting) \in Seq(Indexes)
        /\ IsInjective(Front(waiting))
        /\ Range(waiting) = Range(Front(waiting)) \cup {Last(waiting)}
        /\ Last(waiting) \notin Range(Front(waiting))
    BY <1>1, <1>2, <1>4, FrontLast
  <2>3. collect' # None
    BY <2>1, <2>2, DirectoryAssumption
  <2>4. \A j \in Indexes : j # k /\ IsGame(j) <=> j = collect' \/ j \in Range(waiting')
    BY <1>2, <1>4, <2>1, <2>2
  <2> QED BY <2>1, <2>2, <2>3, <2>4 DEF Collecting, IsGame
<1>5. CASE k # collect
  <2>1. waiting' = RemoveFirst(waiting, k) /\ collect' = collect
    BY <1>5 DEF LeaveCollect
  <2>2. /\ RemoveFirst(waiting, k) \in Seq(Indexes) /\ IsInjective(RemoveFirst(waiting, k))
        /\ Range(RemoveFirst(waiting, k)) = Range(waiting) \ {k}
    BY <1>1, <1>2, TakenOut
  <2>3. collect = None => waiting' = <<>>
    <3>1. SUFFICES ASSUME collect = None PROVE waiting' = <<>>
      OBVIOUS
    <3>2. Range(waiting') = {}
      BY <1>2, <2>1, <2>2, <3>1 DEF Range
    <3>3. waiting' \in Seq(Indexes) /\ 1 \notin DOMAIN waiting'
      BY <2>1, <2>2, <3>2 DEF Range
    <3> QED BY <3>3
  <2>4. \A j \in Indexes : j # k /\ IsGame(j) <=> j = collect' \/ j \in Range(waiting')
    BY <1>2, <1>5, <2>1, <2>2
  <2> QED BY <1>1, <1>2, <2>1, <2>2, <2>3, <2>4 DEF Collecting, IsGame
<1> QED BY <1>3, <1>4, <1>5

LEMMA OnEventTCPNetworkShutKeeps ==
  ASSUME DInv, NEW k \in Indexes, OnEventTCPNetworkShut(k)
  PROVE  DInv'
<1> DEFINE b == bind[k]
           s == b.service
<1>1. TypeOK /\ Bound /\ Linked /\ Collecting /\ Living /\ Listing
  BY DEF DInv
<1>2. /\ conn[k] = "lost" /\ conn' = [conn EXCEPT ![k] = "free"]
      /\ allowed' = allowed \ {k}
      /\ IF b.kind = "game"
         THEN LeaveCollect(k) /\ SendDataBatch("remove", s) /\ DeleteRoomItem(s)
         ELSE UNCHANGED <<collect, waiting, inbox, since, manager>>
      /\ logons' = IF b.kind = "plaza" THEN logons \ {s} ELSE logons
      /\ asserted' = IF \/ b.kind = "game" /\ s \notin rooms
                        \/ b.kind = "plaza" /\ s \notin logons
                     THEN {"delete"} ELSE {}
      /\ astray' = IF k \notin allowed /\ b.kind # "none" THEN astray \cup {b} ELSE astray
      /\ bind' = [bind EXCEPT ![k] = Unbound]
      /\ UNCHANGED <<game, logonLink, list, visits, faults>>
  BY DEF OnEventTCPNetworkShut, Conclude
<1>3. /\ bind' \in [Indexes -> Params] /\ bind'[k] = Unbound
      /\ \A j \in Indexes : j # k => bind'[j] = bind[j]
  BY <1>1, <1>2 DEF TypeOK, Params, Memory
<1>4. /\ conn' \in [Indexes -> {"free", "open", "lost"}] /\ conn'[k] = "free"
      /\ \A j \in Indexes : j # k => conn'[j] = conn[j]
  BY <1>1, <1>2 DEF TypeOK
<1>5. \A j \in Indexes : j \in allowed' /\ bind'[j].kind = "game" <=> j # k /\ IsGame(j)
  BY <1>2, <1>3 DEF IsGame
<1>6. /\ b \in Params /\ astray' \subseteq Params /\ astray \subseteq astray'
      /\ b.kind = "game" => b = Game(s) /\ s \in RoomIds
      /\ b.kind = "plaza" => b = Plaza(s)
      /\ k \notin allowed /\ b.kind \in {"game", "plaza"} => b \in astray'
  BY <1>1, <1>2, Says DEF TypeOK
<1>7. /\ Managed /\ Inbox /\ allowed \subseteq Indexes
      /\ b.kind = "game" /\ k \in allowed => IsGame(k)
      /\ b.kind = "plaza" /\ k \in allowed => s = k
  BY <1>1, <1>6, Says DEF TypeOK, Managed, Inbox, IsGame, Bound
<1>8. /\ Collecting' /\ waiting' \in Seq(Indexes) /\ collect' \in Indexes \cup {None}
      /\ Managed' /\ Living' /\ rooms' = rooms \ (IF b.kind = "game" THEN {s} ELSE {})
      /\ Inbox' /\ since' \in [Servers -> {"none", "insert", "remove"}] /\ Listing'
  <2>1. CASE b.kind = "game"
    <3>1. LeaveCollect(k) /\ SendDataBatch("remove", s) /\ DeleteRoomItem(s) /\ s \in RoomIds
          /\ UNCHANGED <<logonLink, list>>
      BY <1>2, <1>6, <2>1
    <3> HIDE DEF s, b
    <3>2. Collecting' /\ waiting' \in Seq(Indexes) /\ collect' \in Indexes \cup {None}
      BY <1>1, <1>5, <3>1, LeaveCollectKeeps
    <3>3. Managed' /\ Living' /\ rooms' = rooms \ {s}
      <4>1. CASE s \in rooms
        BY <1>1, <1>7, <3>1, <4>1, DeleteRoomItemKeeps
      <4>2. CASE s \notin rooms
        BY <1>1, <1>7, <3>1, <4>2 DEF DeleteRoomItem, manager, Managed, Living
      <4> QED BY <4>1, <4>2
    <3>4. Inbox' /\ since' \in [Servers -> {"none", "insert", "remove"}] /\ Listing'
      BY <1>1, <3>1, BatchIsSent
    <3> QED BY <2>1, <3>2, <3>3, <3>4
  <2>2. CASE b.kind # "game"
    <3>1. UNCHANGED <<collect, waiting, inbox, since, manager, logonLink, list>> /\ ~IsGame(k)
      BY <1>2, <2>2 DEF IsGame
    <3>2. Collecting'
      BY <1>1, <1>5, <3>1 DEF Collecting, IsGame
    <3>3. Managed' /\ Living' /\ rooms' = rooms
      BY <1>1, <1>7, <3>1 DEF Managed, Living, manager
    <3>4. Inbox' /\ Listing'
      BY <1>1, <1>7, <3>1 DEF Inbox, Listing, Settled, Only
    <3> QED BY <1>1, <2>2, <3>1, <3>2, <3>3, <3>4 DEF TypeOK
  <2> QED BY <2>1, <2>2
<1> HIDE DEF b, s
<1>9. Linked'
  <2>1. \A v \in Servers : link[v] # None => link[v] \in Indexes /\ link[v] # k
    BY <1>1, <1>2 DEF TypeOK, Linked
  <2>2. link' = link /\ logonLink' = logonLink
    BY <1>2 DEF game
  <2>3. logonLink # None => logonLink \in Indexes /\ logonLink # k
    BY <1>1, <1>2 DEF TypeOK, Linked
  <2> QED BY <1>1, <1>3, <1>4, <1>5, <2>1, <2>2, <2>3 DEF Linked, IsGame
<1>10. Bound'
  <2>1. \A j \in Indexes : conn'[j] = "free" =>
          j \notin allowed' /\ bind'[j] \in {Unbound, Unwritten}
    BY <1>1, <1>2, <1>3, <1>4 DEF Bound
  <2>2. \A j \in allowed' : j # k /\ j \in allowed /\ j \in Indexes /\ bind'[j] = bind[j]
    BY <1>2, <1>3, <1>7
  <2>3. \A j \in allowed' : \/ bind'[j] = Plaza(j)
                            \/ bind'[j] = Game(bind'[j].service) /\ bind'[j].service \in Servers
    BY <1>1, <2>2 DEF Bound
  <2>4. ASSUME NEW v \in rooms'
        PROVE  \E j \in Indexes : j # k /\ IsGame(j) /\ bind'[j].service = v
    <3>1. v \in rooms /\ (b.kind = "game" => v # s)
      BY <1>8, <2>4
    <3>2. PICK j \in Indexes : IsGame(j) /\ bind[j].service = v
      BY <1>1, <3>1 DEF Bound
    <3>3. j # k
      BY <3>1, <3>2 DEF b, s, IsGame
    <3> QED BY <1>3, <3>2, <3>3
  <2>5. ASSUME NEW j \in Indexes, j # k, IsGame(j), bind'[j] \notin astray'
        PROVE  bind'[j].service \in rooms'
    <3>1. /\ bind'[j] = bind[j] /\ bind[j] \notin astray' /\ bind[j] \notin astray
          /\ bind[j].service \in rooms /\ bind[j] = Game(bind[j].service)
      BY <1>1, <1>3, <1>6, <2>5, GameIs DEF Bound, IsGame
    <3>2. ASSUME b.kind = "game", s = bind[j].service PROVE FALSE
      <4>1. b = bind[j]
        BY <1>6, <3>1, <3>2
      <4>2. k \in allowed
        BY <1>6, <3>1, <3>2, <4>1
      <4> QED BY <1>1, <1>7, <2>5, <3>1, <3>2, <4>1, <4>2 DEF Bound, b
    <3> QED BY <1>8, <3>1, <3>2
  <2>6. \A i, j \in Indexes : i # k /\ IsGame(i) /\ j # k /\ IsGame(j)
          /\ bind'[i] = bind'[j] /\ bind'[j] \notin astray' => i = j
    BY <1>1, <1>3, <1>6 DEF Bound
  <2>7. ASSUME NEW j \in logons' PROVE j \in allowed' /\ bind'[j] = Plaza(j)
    <3>1. j \in logons /\ j \in allowed /\ bind[j] = Plaza(j) /\ (b.kind = "plaza" => j # s)
      BY <1>1, <1>2, <2>7 DEF Bound, b, s
    <3>2. j # k
      BY <3>1, Says DEF b, s
    <3> QED BY <1>2, <1>3, <1>7, <3>1, <3>2
  <2>8. ASSUME NEW j \in allowed', bind'[j] = Plaza(j), bind'[j] \notin astray'
        PROVE  j \in logons'
    <3>1. j # k /\ j \in allowed /\ bind[j] = Plaza(j) /\ bind[j] \notin astray
      BY <1>6, <2>2, <2>8
    <3>2. j \in logons
      BY <1>1, <3>1 DEF Bound
    <3>3. ASSUME b.kind = "plaza", s = j PROVE FALSE
      BY <1>6, <1>7, <2>8, <3>1, <3>3
    <3> QED BY <1>2, <3>2, <3>3 DEF b, s
  <2> QED BY <1>5, <2>1, <2>3, <2>4, <2>5, <2>6, <2>7, <2>8 DEF Bound, IsGame
<1>11. Asserting'
  <2>1. CASE asserted' = {}
    BY <2>1 DEF Asserting
  <2>2. CASE asserted' # {}
    <3>1. (b.kind = "game" /\ s \notin rooms) \/ (b.kind = "plaza" /\ s \notin logons)
      BY <1>2, <2>2 DEF b, s
    <3>2. CASE k \notin allowed
      BY <1>6, <3>1, <3>2 DEF Asserting
    <3>3. CASE k \in allowed
      <4>1. b \in astray
        BY <1>1, <1>6, <1>7, <3>1, <3>3 DEF Bound, b, s
      <4> QED BY <1>6, <4>1 DEF Asserting
    <3> QED BY <3>2, <3>3
  <2> QED BY <2>1, <2>2
<1>12. TypeOK'
  <2>1. /\ retired' \subseteq Servers /\ inside' \in [Servers -> SUBSET Users]
        /\ logonLink' \in Indexes \cup {None} /\ list' \subseteq RoomIds
        /\ visits' \in 0 .. MaxVisits /\ faults' \in 0 .. MaxFaults
        /\ link' \in [Servers -> Indexes \cup {None}]
    BY <1>1, <1>2 DEF TypeOK, game
  <2>2. logons' \cup allowed' \subseteq Indexes /\ asserted' \subseteq {"delete"}
    BY <1>1, <1>2 DEF TypeOK
  <2> QED BY <1>3, <1>4, <1>6, <1>8, <2>1, <2>2 DEF TypeOK, Managed, Inbox
<1> QED BY <1>8, <1>9, <1>10, <1>11, <1>12 DEF DInv

\* A report, whichever, that is lost, refused, or handled without touching a room
LEMMA ReportKeeps ==
  ASSUME DInv, NEW s \in Servers,
         inside' \in [Servers -> SUBSET Users], visits' \in 0 .. MaxVisits,
         UNCHANGED <<bind, logons, collect, waiting, allowed, astray, retired, logon, faults>>,
         \/ asserted' = {} /\ UNCHANGED <<manager, conn, link>>
         \/ /\ link[s] # None /\ asserted' = {} /\ UNCHANGED manager
            /\ conn' = [conn EXCEPT ![link[s]] = "lost"] /\ link' = [link EXCEPT ![s] = None]
         \/ /\ Managed' /\ Living' /\ rooms' = rooms /\ Asserting'
            /\ asserted' \subseteq {"enter", "leave", "room"} /\ UNCHANGED <<conn, link>>
  PROVE  DInv'
<1>1. TypeOK /\ Bound /\ Linked /\ Collecting /\ Living /\ Listing
  BY DEF DInv
<1>2. Managed
  BY <1>1 DEF TypeOK, Managed
<1>3. Managed' /\ Living' /\ rooms' = rooms /\ Asserting'
      /\ asserted' \subseteq {"enter", "leave", "room"}
  BY <1>1, <1>2 DEF Managed, Living, manager, Asserting
<1>4. /\ conn' \in [Indexes -> {"free", "open", "lost"}]
      /\ link' \in [Servers -> Indexes \cup {None}] /\ Bound' /\ Linked'
  <2>1. CASE UNCHANGED <<conn, link>>
    BY <1>1, <1>3, <2>1 DEF TypeOK, Bound, Linked, IsGame, logon
  <2>2. CASE /\ link[s] # None /\ asserted' = {} /\ UNCHANGED manager
             /\ conn' = [conn EXCEPT ![link[s]] = "lost"] /\ link' = [link EXCEPT ![s] = None]
    BY <1>1, <1>3, <2>2, Unlinked DEF logon
  <2> QED BY <2>1, <2>2
<1>5. Collecting' /\ Listing'
  BY <1>1 DEF Collecting, IsGame, Listing, Settled, Only, logon
<1>6. TypeOK'
  BY <1>1, <1>3, <1>4 DEF TypeOK, Managed, logon
<1> QED BY <1>3, <1>4, <1>5, <1>6 DEF DInv

\* A report whose room is not in the directory comes on a connection without a
\* registration, or on one whose registration was taken back by another's end.
LEMMA Handled ==
  ASSUME DInv, NEW s \in Servers, link[s] # None, bind[link[s]].kind = "game",
         ServiceOf(s) \notin rooms
  PROVE  astray # {} \/ \E k \in Indexes \ allowed : bind[k].kind \in {"game", "plaza"}
<1> DEFINE k == link[s]
<1>1. k \in Indexes /\ Bound /\ bind[k].service \notin rooms /\ bind[k].kind = "game"
  BY DEF DInv, TypeOK, ServiceOf
<1> HIDE DEF k
<1>2. CASE k \in allowed
  BY <1>1, <1>2 DEF Bound, IsGame
<1>3. CASE k \notin allowed
  BY <1>1, <1>3
<1> QED BY <1>2, <1>3

LEMMA UserEnterKeeps ==
  ASSUME DInv, NEW s \in Servers, NEW u \in Users, UserEnter(s, u)
  PROVE  DInv'
<1>1. /\ visits < MaxVisits /\ visits' = visits + 1
      /\ inside' = [inside EXCEPT ![s] = @ \cup {u}]
      /\ UNCHANGED <<bind, logons, collect, waiting, allowed, astray, retired, logon, faults>>
  BY DEF UserEnter
<1>2. inside' \in [Servers -> SUBSET Users]
  BY <1>1 DEF DInv, TypeOK
<1>3. visits' \in 0 .. MaxVisits
  BY <1>1, DirectoryAssumption DEF DInv, TypeOK
<1>4. CASE link[s] # None /\ bind[link[s]].kind = "game"
  <2> DEFINE r == ServiceOf(s)
  <2>1. ActiveUserItem(u, r) /\ UNCHANGED <<conn, link>>
    BY <1>4 DEF UserEnter, Report
  <2>2. Managed' /\ Living' /\ rooms' = rooms /\ Asserting'
        /\ asserted' \subseteq {"enter", "leave", "room"}
    <3>1. Managed /\ Living
      BY DEF DInv, TypeOK, Managed
    <3>2. CASE r \in rooms
      <4> HIDE DEF r
      <4>1. Managed' /\ Living' /\ rooms' = rooms /\ asserted' \subseteq {"enter", "leave"}
        BY <2>1, <3>1, <3>2, ActiveUserItemKeeps
      <4> QED BY <4>1 DEF Asserting
    <3>3. CASE r \notin rooms
      <4>1. astray # {} \/ \E k \in Indexes \ allowed : bind[k].kind \in {"game", "plaza"}
        BY <1>4, <3>3, Handled
      <4> HIDE DEF r
      <4>2. asserted' = {"room"} /\ UNCHANGED manager
        BY <2>1, <3>3 DEF ActiveUserItem
      <4> QED BY <1>1, <3>1, <4>1, <4>2 DEF Managed, Living, manager, Asserting
    <3> QED BY <3>2, <3>3
  <2> QED BY <1>1, <1>2, <1>3, <2>1, <2>2, ReportKeeps
<1>5. CASE ~(link[s] # None /\ bind[link[s]].kind = "game")
  <2>1. \/ asserted' = {} /\ UNCHANGED <<manager, conn, link>>
        \/ /\ link[s] # None /\ asserted' = {} /\ UNCHANGED manager
           /\ conn' = [conn EXCEPT ![link[s]] = "lost"] /\ link' = [link EXCEPT ![s] = None]
    BY <1>5 DEF UserEnter, Report
  <2> QED BY <1>1, <1>2, <1>3, <2>1, ReportKeeps
<1> QED BY <1>4, <1>5

LEMMA UserLeaveKeeps ==
  ASSUME DInv, NEW s \in Servers, NEW u \in Users, UserLeave(s, u)
  PROVE  DInv'
<1>1. /\ inside' = [inside EXCEPT ![s] = @ \ {u}]
      /\ UNCHANGED <<bind, logons, collect, waiting, allowed, astray>>
      /\ UNCHANGED <<retired, logon, visits, faults>>
  BY DEF UserLeave
<1>2. inside' \in [Servers -> SUBSET Users] /\ visits' \in 0 .. MaxVisits
  BY <1>1 DEF DInv, TypeOK
<1>3. CASE link[s] # None /\ bind[link[s]].kind = "game"
  <2> DEFINE r == ServiceOf(s)
  <2>1. DeleteUserItem(u, r) /\ UNCHANGED <<conn, link>>
    BY <1>3 DEF UserLeave, Report
  <2>2. Managed' /\ Living' /\ rooms' = rooms /\ Asserting'
        /\ asserted' \subseteq {"enter", "leave", "room"}
    <3>1. Managed /\ Living
      BY DEF DInv, TypeOK, Managed
    <3> HIDE DEF r
    <3>2. Managed' /\ Living' /\ rooms' = rooms /\ asserted' \subseteq {"enter", "leave"}
      BY <2>1, <3>1, DeleteUserItemKeeps
    <3> QED BY <3>2 DEF Asserting
  <2> QED BY <1>1, <1>2, <2>1, <2>2, ReportKeeps
<1>4. CASE ~(link[s] # None /\ bind[link[s]].kind = "game")
  <2>1. \/ asserted' = {} /\ UNCHANGED <<manager, conn, link>>
        \/ /\ link[s] # None /\ asserted' = {} /\ UNCHANGED manager
           /\ conn' = [conn EXCEPT ![link[s]] = "lost"] /\ link' = [link EXCEPT ![s] = None]
    BY <1>4 DEF UserLeave, Report
  <2> QED BY <1>1, <1>2, <2>1, ReportKeeps
<1> QED BY <1>3, <1>4

-----------------------------------------------------------------------------
LEMMA StepKeeps == DInv /\ [Next]_vars => DInv'
<1> SUFFICES ASSUME DInv, [Next]_vars PROVE DInv'
  OBVIOUS
<1>1. CASE UNCHANGED vars
  BY <1>1 DEF DInv, TypeOK, Asserting, Bound, Linked, Collecting, Living, Listing, Settled, Only,
              IsGame, vars, server, manager, game, logon
<1>2. ASSUME NEW s \in Servers,
             Connect(s) \/ LinkLost(s) \/ (Len(inbox) < MaxInbox /\ OnRegisterRoom(s))
      PROVE  DInv'
  BY <1>2, ConnectKeeps, LinkLostKeeps, OnRegisterRoomKeeps
<1>3. ASSUME NEW s \in Servers, NEW u \in Users, UserEnter(s, u) \/ UserLeave(s, u)
      PROVE  DInv'
  BY <1>3, UserEnterKeeps, UserLeaveKeeps
<1>4. ASSUME NEW k \in Indexes, OnEventTCPNetworkShut(k) PROVE DInv'
  BY <1>4, OnEventTCPNetworkShutKeeps
<1>5. CASE OnRegisterLogon \/ OnTCPSocketMainServiceInfo \/ LogonLinkLost \/ Restart
  BY <1>5, OnRegisterLogonKeeps, OnTCPSocketMainServiceInfoKeeps, LogonLinkLostKeeps, RestartKeeps
<1> QED BY <1>1, <1>2, <1>3, <1>4, <1>5 DEF Next

\* The inductive invariant of the directory, its connections and the logon list
\* (CAttemperEngineSink, CGlobalInfoManager and CRoomListManager)
LEMMA AlwaysDInv == Spec => []DInv
<1>1. Init => DInv
  BY InitIsExact
<1>2. DInv /\ [Next]_vars => DInv'
  BY StepKeeps
<1> QED BY <1>1, <1>2, PTL DEF Spec

\* A room or logon server is in the directory only while the connection that it
\* registered on is there, which OnEventTCPNetworkShut relies on; it is there all
\* that time, bound to that one connection, and no assertion on it fails, unless a
\* bind parameter that AttemperEngineSink.cpp:42 left unwritten says what a
\* registration would.
THEOREM DirectoryMatchesConnections == Spec => []RoomsAreBound
<1>1. DInv => RoomsAreBound
  <2> SUFFICES ASSUME DInv PROVE RoomsAreBound
    OBVIOUS
  <2> DEFINE bound(b) == {k \in allowed : bind[k] = b}
             claims(k) == bind[k].kind \in {"game", "plaza"}
  <2>1. TypeOK /\ Asserting /\ Bound /\ allowed \subseteq Indexes
    BY DEF DInv, TypeOK
  <2>2. ASSUME NEW s, NEW k \in Indexes
        PROVE  k \in bound(Game(s)) <=> IsGame(k) /\ bind[k].service = s
    BY <2>1, Says, GameIs DEF IsGame
  <2>3. \A k \in Indexes : conn[k] = "free" => k \notin allowed /\ ~claims(k)
    BY <2>1, Says DEF Bound
  <2>4. \A s \in rooms : bound(Game(s)) # {}
    BY <2>1, <2>2 DEF Bound
  <2>5. ASSUME NEW s \in Servers, Game(s) \notin astray
        PROVE  Cardinality(bound(Game(s))) = IF s \in rooms THEN 1 ELSE 0
    <3> DEFINE B == bound(Game(s))
    <3>1. \A k \in B : k \in Indexes /\ IsGame(k) /\ bind[k] = Game(s) /\ bind[k].service = s
      BY <2>1, <2>2
    <3>2. CASE s \in rooms
      <4>1. PICK k \in Indexes : IsGame(k) /\ bind[k].service = s
        BY <2>1, <3>2 DEF Bound
      <4>2. k \in B /\ bind[k] = Game(s)
        BY <2>2, <4>1
      <4>3. \A j \in B : j = k
        BY <2>1, <2>5, <3>1, <4>1, <4>2 DEF Bound
      <4>4. B = {k}
        BY <4>2, <4>3
      <4> QED BY <3>2, <4>4, FS_Singleton
    <3>3. CASE s \notin rooms
      <4>1. \A k \in B : FALSE
        BY <2>1, <2>5, <3>1, <3>3 DEF Bound
      <4>2. B = {}
        BY <4>1
      <4> QED BY <3>3, <4>2, FS_EmptySet
    <3> QED BY <3>2, <3>3
  <2>6. \A k \in logons : bound(Plaza(k)) = {k}
    <3>1. ASSUME NEW k \in logons PROVE bound(Plaza(k)) = {k}
      <4>1. k \in bound(Plaza(k))
        BY <2>1, <3>1 DEF Bound
      <4>2. \A j \in bound(Plaza(k)) : j = k
        BY <2>1, Says DEF Bound
      <4> QED BY <4>1, <4>2
    <3> QED BY <3>1
  <2>7. \A k \in Indexes : bound(Plaza(k)) # {} /\ Plaza(k) \notin astray => k \in logons
    BY <2>1, Says DEF Bound
  <2> QED BY <2>1, <2>3, <2>4, <2>5, <2>6, <2>7 DEF RoomsAreBound, Asserting
<1> QED BY <1>1, AlwaysDInv, PTL

\* Whoever goes, one of the game servers that are bound is asked for its users
\* and each of the others waits once (m_wCollectItem, m_WaitCollectItemArray).
THEOREM CollectionIsExact == Spec => []CollectIsExact
<1>1. DInv => CollectIsExact
  <2> SUFFICES ASSUME DInv PROVE CollectIsExact
    OBVIOUS
  <2> DEFINE games == {k \in allowed : bind[k].kind = "game"}
  <2>1. /\ waiting \in Seq(Indexes) /\ collect \in Indexes \cup {None}
        /\ IsInjective(waiting) /\ collect \notin Range(waiting)
        /\ (collect = None => waiting = <<>>)
        /\ \A k \in Indexes : k \in games <=> k = collect \/ k \in Range(waiting)
    BY DEF DInv, TypeOK, Collecting, IsGame
  <2>2. Range(waiting) \subseteq Indexes
    BY <2>1 DEF Range
  <2>3. games \subseteq Indexes
    BY DEF DInv, TypeOK
  <2> HIDE DEF games
  <2>4. CASE collect = None
    <3>1. waiting = <<>> /\ Range(waiting) = {}
      BY <2>1, <2>4 DEF Range
    <3>2. games = {}
      BY <2>1, <2>3, <2>4, <3>1, DirectoryAssumption
    <3> QED BY <2>4, <3>1, <3>2 DEF CollectIsExact, games
  <2>5. CASE collect # None
    <3>1. collect \in games /\ Range(waiting) = games \ {collect}
      BY <2>1, <2>2, <2>3, <2>5
    <3>2. IsFiniteSet(Range(waiting)) /\ Cardinality(Range(waiting)) = Len(waiting)
      BY <2>1, Counted
    <3>3. games = Range(waiting) \cup {collect}
      BY <3>1
    <3>4. Cardinality(games) = Cardinality(Range(waiting)) + 1
      BY <2>1, <3>2, <3>3, FS_AddElement
    <3>5. Len(waiting) = Cardinality(games) - 1 /\ games # {}
      <4>1. Len(waiting) \in Nat
        BY <2>1
      <4> QED BY <3>1, <3>2, <3>4, <4>1
    <3> QED BY <3>1, <3>5 DEF CollectIsExact, games
  <2> QED BY <2>4, <2>5
<1> QED BY <1>1, AlwaysDInv, PTL

\* Every room that a user's item names is in the directory, so that DeleteUserItem
\* finds the room a user leaves, however often items were freed and used again.
THEOREM UsersRoomsLive == Spec => []UsersAreInLiveRooms
<1>1. DInv => UsersAreInLiveRooms
  BY DEF DInv, Living, UsersAreInLiveRooms, Names
<1> QED BY <1>1, AlwaysDInv, PTL

\* Once the logon server has handled all it was sent, its list has each room that
\* was added since it registered, and none that was removed (CRoomListManager).
THEOREM LogonListFollows == Spec => []ListFollowsChanges
<1>1. DInv => ListFollowsChanges
  <2> SUFFICES ASSUME DInv, logonLink # None, inbox = <<>>, NEW s \in Servers
               PROVE  /\ since[s] = "insert" => s \in list
                      /\ since[s] = "remove" => s \notin list
    BY DEF ListFollowsChanges
  <2>1. DOMAIN inbox = {}
    OBVIOUS
  <2>2. ASSUME NEW op \in {"insert", "remove"}, since[s] = op PROVE s \in list <=> op = "insert"
    BY <2>1, <2>2 DEF DInv, Listing, Settled
  <2> QED BY <2>2
<1> QED BY <1>1, AlwaysDInv, PTL
=============================================================================
