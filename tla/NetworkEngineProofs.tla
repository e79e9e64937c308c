------------------------ MODULE NetworkEngineProofs ------------------------
(***************************************************************************)
(* For any number of connections and requests: the store of items is       *)
(* exact, the events that the engine posts are those of ConnectionEvents,  *)
(* no connection is forgotten, and messages arrive in their order and only *)
(* where the sink can tell.                                                *)
(*                                                                         *)
(* Most steps change an item without changing which connection it serves   *)
(* or how far it is on its way through the engine.  They are dealt with    *)
(* together, by the lemmas on what an operation does to an item.           *)
(***************************************************************************)
EXTENDS NetworkEngine, FiniteSetTheorems, TLAPS

\* Opening i: OnSocketOpen has taken the item and not added it yet.
Opening(i) == opening # None /\ opening.i = i /\ opening.at = "add"

\* The item is a connection's, that nobody was told of yet or whose end was not posted.
Held(i) == item[i].place \in {"new", "live"} \/ Opening(i)

\* The sink is told, or will be, which connection the item's is.
Known(i) == item[i].place \in {"new", "live"} \/ item[i].sock \in ended

\* StoreIsExact, with the order of the free list
Store ==
  /\ free \in Seq(Index) /\ IsInjective(free)
  /\ Range(free) \cap store = {} /\ Range(free) \cup store = 0 .. curIndex - 1
  /\ \A i \in Index : i \in store <=> item[i].place # "none" \/ Opening(i)

\* Connections are accepted in order, and a new index is only used for one more.
Accepting ==
  /\ \A c, d \in Conns : peer[c] = "away" /\ c < d => peer[d] = "away"
  /\ \A c \in Conns : peer[c] = "away" =>
       curIndex < c /\ c \notin ended /\ \A i \in Index : item[i].sock # c

\* No two items serve one connection, and none one that has ended.
Serving ==
  /\ \A i \in Index : Held(i) => item[i].sock \in Conns \ ended
  /\ \A i, j \in Index : Held(i) /\ Held(j) /\ item[i].sock = item[j].sock => i = j
  /\ \A i \in Index : Opening(i) => item[i].place = "none"

\* What is read belongs to a connection that the sink was told of.
Reading ==
  /\ \A i \in Index : item[i].reads > 0 => Known(i) /\ item[i].sock \in Conns
  /\ \A i \in Index : opening # None /\ opening.i = i /\ opening.at = "start" => Known(i)

NInv == TypeOK /\ Store /\ Accepting /\ Serving /\ Reading

-----------------------------------------------------------------------------
(* What the operations do to an item                                       *)

\* The item serves whom it served, and reads only if it did.
Serves(it, q) ==
  /\ q \in ItemType /\ q.sock = it.sock /\ q.place = it.place
  /\ q.reads > 0 => it.reads > 0

LEMMA AbortServes ==
  ASSUME NEW it \in ItemType
  PROVE  Serves(it, Abort(it)) /\ Abort(it).reads = 0
<1> DEFINE r == it.lateReads + it.reads
           w == it.lateWrites + it.writes
           none == 0
           q == [it EXCEPT !.open = FALSE, !.reads = none, !.writes = none,
                           !.lateReads = r, !.lateWrites = w]
<1>1. r \in Nat /\ w \in Nat /\ none \in Nat
  BY DEF ItemType
<1>2. Abort(it) = q /\ none = 0
  BY DEF Abort
<1> HIDE DEF r, w, none
<1>3. q \in ItemType /\ q.sock = it.sock /\ q.place = it.place /\ q.reads = none
  BY <1>1 DEF ItemType
<1> HIDE DEF q
<1> QED BY <1>2, <1>3 DEF Serves

LEMMA CloseSocketServes ==
  ASSUME NEW it \in ItemType
  PROVE  Serves(it, CloseSocket(it))
<1> DEFINE q == [it EXCEPT !.closed = TRUE]
<1>1. q \in ItemType /\ q.sock = it.sock /\ q.place = it.place /\ q.reads = it.reads
  BY DEF ItemType
<1> HIDE DEF q
<1>2. Serves(q, Abort(q))
  BY <1>1, AbortServes
<1>3. Serves(it, Abort(q))
  BY <1>1, <1>2 DEF Serves
<1>4. Serves(it, it)
  BY DEF Serves
<1> QED BY <1>3, <1>4 DEF CloseSocket, q

LEMMA PoppedServes ==
  ASSUME NEW it \in ItemType, it.wq # <<>>, NEW again \in BOOLEAN
  PROVE  Serves(it, Popped(it, again))
<1> DEFINE w == Tail(it.wq)
           l == again /\ Len(it.wq) > 1
           q == [it EXCEPT !.wq = w, !.looping = l]
<1>1. w \in Seq(Messages) /\ l \in BOOLEAN
  BY DEF ItemType
<1>5. Popped(it, again) = IF q.closing /\ q.wq = <<>> THEN CloseSocket(q) ELSE q
  BY DEF Popped
<1> HIDE DEF w, l
<1>2. q \in ItemType /\ q.sock = it.sock /\ q.place = it.place /\ q.reads = it.reads
  BY <1>1 DEF ItemType
<1> HIDE DEF q
<1>3. Serves(q, CloseSocket(q)) /\ Serves(q, q)
  BY <1>2, CloseSocketServes DEF Serves
<1>4. Serves(it, CloseSocket(q)) /\ Serves(it, q)
  BY <1>2, <1>3 DEF Serves
<1> QED BY <1>4, <1>5

\* A read may be started.
LEMMA AsyncReadServes ==
  ASSUME NEW it \in ItemType
  PROVE  LET q == AsyncRead(it) IN
         q \in ItemType /\ q.sock = it.sock /\ q.place = it.place
BY DEF ItemType, AsyncRead

\* The items after HandleQueue
LEMMA HandleQueueServes ==
  ASSUME TypeOK, NEW i \in Index, NEW it \in ItemType, Serves(item[i], it),
         NEW again \in BOOLEAN, HandleQueue(i, it, again)
  PROVE  /\ \E q : Serves(item[i], q) /\ item' = [item EXCEPT ![i] = q]
         /\ got' \in [Conns -> Seq(Messages)]
<1>0. item[i] \in ItemType /\ got \in [Conns -> Seq(Messages)]
      /\ \A q : Serves(it, q) => Serves(item[i], q)
  BY DEF TypeOK, Serves
<1>1. CASE it.wq = <<>> /\ item' = [item EXCEPT ![i] = [it EXCEPT !.looping = FALSE]]
           /\ UNCHANGED got
  <2>1. Serves(it, [it EXCEPT !.looping = FALSE])
    BY DEF Serves, ItemType
  <2> QED BY <1>0, <1>1, <2>1
<1>2. CASE item' = [item EXCEPT ![i] = [it EXCEPT !.writing = TRUE, !.writes = @ + 1,
                                                 !.looping = FALSE]]
           /\ UNCHANGED got
  <2> DEFINE w == it.writes + 1
             q == [it EXCEPT !.writing = TRUE, !.writes = w, !.looping = FALSE]
  <2>2. w \in Nat
    BY DEF ItemType
  <2> HIDE DEF w
  <2>3. q \in ItemType /\ q.sock = it.sock /\ q.place = it.place /\ q.reads = it.reads
    BY <2>2 DEF ItemType
  <2>1. Serves(it, [it EXCEPT !.writing = TRUE, !.writes = @ + 1, !.looping = FALSE])
    <3> HIDE DEF q
    <3>1. Serves(it, q)
      BY <2>3 DEF Serves
    <3> QED BY <3>1 DEF q, w
  <2> QED BY <1>0, <1>2, <2>1
<1>3. CASE it.wq # <<>> /\ item' = [item EXCEPT ![i] = Popped(it, again)]
           /\ got' = IF peer[it.sock] = "here"
                     THEN [got EXCEPT ![it.sock] = Append(@, Head(it.wq))] ELSE got
  <2>1. Serves(it, Popped(it, again))
    BY <1>3, PoppedServes
  <2>2. Head(it.wq) \in Messages
    BY <1>3 DEF ItemType
  <2>3. got' \in [Conns -> Seq(Messages)]
    <3>1. CASE it.sock \in Conns
      <4>1. Append(got[it.sock], Head(it.wq)) \in Seq(Messages)
        BY <1>0, <2>2, <3>1
      <4> QED BY <1>0, <1>3, <3>1, <4>1
    <3>2. CASE it.sock \notin Conns
      BY <1>0, <1>3, <3>2
    <3> QED BY <3>1, <3>2
  <2> QED BY <1>0, <1>3, <2>1, <2>3
<1>4. CASE it.wq # <<>> /\ item' = [item EXCEPT ![i] = Popped(it, FALSE)] /\ UNCHANGED got
  <2>1. Serves(it, Popped(it, FALSE))
    BY <1>4, PoppedServes
  <2> QED BY <1>0, <1>4, <2>1
<1> QED BY <1>1, <1>2, <1>3, <1>4 DEF HandleQueue

-----------------------------------------------------------------------------
(* Steps that change no more than what an item is doing                    *)

\* The connections as the sink was told of them, and the steps of ConnectionEvents
attached == [i \in Index |-> Attached(i)]

Tells == [Events!EventsNext]_<<events, attached, ended>>

Quiet ==
  /\ item' \in [Index -> ItemType]
  /\ \A i \in Index : Serves(item[i], item'[i])
  /\ UNCHANGED <<store, free, curIndex, opening, ended>>
  /\ \A c \in Conns : peer'[c] = "away" <=> peer[c] = "away"

LEMMA OneItem ==
  ASSUME item \in [Index -> ItemType], NEW i \in Index,
         NEW q, Serves(item[i], q), item' = [item EXCEPT ![i] = q]
  PROVE  /\ item' \in [Index -> ItemType]
         /\ \A j \in Index : Serves(item[j], item'[j])
<1>1. q \in ItemType
  BY DEF Serves
<1>2. \A j \in Index : Serves(item[j], item[j])
  BY DEF Serves
<1>3. \A j \in Index : item'[j] = IF j = i THEN q ELSE item[j]
  OBVIOUS
<1> QED BY <1>1, <1>2, <1>3

LEMMA NoItem ==
  ASSUME item \in [Index -> ItemType], item' = item
  PROVE  /\ item' \in [Index -> ItemType]
         /\ \A j \in Index : Serves(item[j], item'[j])
BY DEF Serves

LEMMA QuietKeeps ==
  ASSUME NInv, Quiet
  PROVE  Store' /\ Accepting' /\ Serving' /\ Reading' /\ attached' = attached
<1>1. \A i \in Index : item'[i].sock = item[i].sock /\ item'[i].place = item[i].place
  BY DEF Quiet, Serves
<1>4. \A i \in Index : item'[i].reads > 0 => item[i].reads > 0
  BY DEF Quiet, Serves
<1>2. /\ store' = store /\ free' = free /\ curIndex' = curIndex /\ opening' = opening
      /\ ended' = ended
  BY DEF Quiet
<1>3. \A c \in Conns : peer'[c] = "away" <=> peer[c] = "away"
  BY DEF Quiet
<1>5. Store'
  <2>1. \A i \in Index : i \in store' <=> item'[i].place # "none" \/ Opening(i)'
    BY <1>1, <1>2 DEF NInv, Store, Opening
  <2>2. free' \in Seq(Index) /\ IsInjective(free')
        /\ Range(free') \cap store' = {} /\ Range(free') \cup store' = 0 .. curIndex' - 1
    BY <1>2 DEF NInv, Store
  <2> QED BY <2>1, <2>2 DEF Store
<1>6. Accepting'
  <2>1. ASSUME NEW c \in Conns, NEW d \in Conns, peer'[c] = "away", c < d
        PROVE  peer'[d] = "away"
    BY <1>3, <2>1 DEF NInv, Accepting
  <2>2. ASSUME NEW c \in Conns, peer'[c] = "away"
        PROVE  curIndex' < c /\ c \notin ended' /\ \A i \in Index : item'[i].sock # c
    BY <1>1, <1>2, <1>3, <2>2 DEF NInv, Accepting
  <2> QED BY <2>1, <2>2 DEF Accepting
<1>7. Serving'
  <2>1. ASSUME NEW i \in Index
        PROVE  (Held(i)' <=> Held(i)) /\ (Opening(i)' <=> Opening(i))
    BY <1>1, <1>2 DEF Held, Opening
  <2>9. \A k \in Index : Held(k)' => Held(k)
    BY <2>1
  <2>2. ASSUME NEW i \in Index, Held(i)'
        PROVE  item'[i].sock \in Conns \ ended'
    BY <1>1, <1>2, <2>1, <2>2 DEF NInv, Serving
  <2>3. ASSUME NEW i \in Index, NEW j \in Index,
               Held(i)', Held(j)', item'[i].sock = item'[j].sock
        PROVE  i = j
    <3>1. Held(i) /\ Held(j) /\ item[i].sock = item[j].sock
      BY <1>1, <2>3, <2>9
    <3> QED BY <3>1 DEF NInv, Serving
  <2>4. ASSUME NEW i \in Index, Opening(i)'
        PROVE  item'[i].place = "none"
    BY <1>1, <1>2, <2>1, <2>4 DEF NInv, Serving
  <2> QED BY <2>2, <2>3, <2>4 DEF Serving
<1>8. Reading'
  <2>1. ASSUME NEW i \in Index, Known(i)
        PROVE  Known(i)'
    BY <1>1, <1>2, <2>1 DEF Known
  <2>2. ASSUME NEW i \in Index, item'[i].reads > 0
        PROVE  Known(i)' /\ item'[i].sock \in Conns
    BY <1>1, <1>4, <2>1, <2>2 DEF NInv, Reading
  <2>3. ASSUME NEW i \in Index, (opening # None /\ opening.i = i /\ opening.at = "start")'
        PROVE  Known(i)'
    BY <1>2, <2>1, <2>3 DEF NInv, Reading
  <2> QED BY <2>2, <2>3 DEF Reading
<1>9. attached' = attached
  BY <1>1 DEF attached, Attached
<1> QED BY <1>5, <1>6, <1>7, <1>8, <1>9

LEMMA QuietStep ==
  ASSUME NInv, Quiet, TypeOK', UNCHANGED events
  PROVE  NInv' /\ Tells
<1>1. Store' /\ Accepting' /\ Serving' /\ Reading' /\ attached' = attached
  BY QuietKeeps
<1>2. ended' = ended
  BY DEF Quiet
<1> QED BY <1>1, <1>2 DEF NInv, Tells

\* HandleQueue, by whomever it is called
LEMMA QueueIsHandled ==
  ASSUME NInv, NEW i \in Index, NEW it \in ItemType, Serves(item[i], it),
         NEW again \in BOOLEAN, HandleQueue(i, it, again),
         UNCHANGED <<peer, store_vars, opening, requests, current, events, sink_vars, ended>>,
         arrived' \in 0 .. MaxWork - asked
  PROVE  NInv' /\ Tells
<1>1. PICK q : Serves(item[i], q) /\ item' = [item EXCEPT ![i] = q]
  BY HandleQueueServes DEF NInv
<1>2. item' \in [Index -> ItemType] /\ \A j \in Index : Serves(item[j], item'[j])
  BY <1>1, OneItem DEF NInv, TypeOK
<1>3. got' \in [Conns -> Seq(Messages)]
  BY HandleQueueServes DEF NInv
<1>4. TypeOK'
  BY <1>2, <1>3 DEF NInv, TypeOK, store_vars, sink_vars
<1>5. Quiet
  BY <1>2 DEF Quiet, store_vars
<1> QED BY <1>4, <1>5, QuietStep

\* What one item does, nothing being reported
LEMMA OneQuietItem ==
  ASSUME NInv, NEW i \in Index, NEW q, Serves(item[i], q), item' = [item EXCEPT ![i] = q],
         UNCHANGED <<peer, got, store_vars, opening, requests, events, sink_vars, ended>>,
         arrived' \in 0 .. MaxWork - asked, current' \in Requests \cup {None}
  PROVE  NInv' /\ Tells
<1>1. item' \in [Index -> ItemType] /\ \A j \in Index : Serves(item[j], item'[j])
  BY OneItem DEF NInv, TypeOK
<1>2. TypeOK'
  BY <1>1 DEF NInv, TypeOK, store_vars, sink_vars
<1>3. Quiet
  BY <1>1 DEF Quiet, store_vars
<1> QED BY <1>2, <1>3, QuietStep

-----------------------------------------------------------------------------
(* The handlers of a network thread                                        *)

LEMMA ServesItself ==
  ASSUME NEW it \in ItemType
  PROVE  Serves(it, it)
BY DEF Serves

LEMMA ReadHandlerInternalKeeps ==
  ASSUME NInv, NEW i \in Index, ReadHandlerInternal(i)
  PROVE  NInv' /\ Tells
<1>1. item[i] \in ItemType /\ arrived \in 0 .. MaxWork - asked /\ current \in Requests \cup {None}
  BY DEF NInv, TypeOK
<1>2. ASSUME NEW it \in ItemType, Serves(item[i], it), item' = [item EXCEPT ![i] = CloseSocket(it)]
      PROVE  NInv' /\ Tells
  <2>1. Serves(it, CloseSocket(it))
    BY CloseSocketServes
  <2>2. Serves(item[i], CloseSocket(it))
    BY <1>2, <2>1 DEF Serves
  <2> QED BY <1>1, <1>2, <2>2, OneQuietItem DEF ReadHandlerInternal
<1>3. ASSUME item[i].reads > 0, item' = [item EXCEPT ![i] = CloseSocket([item[i] EXCEPT !.reads = item[i].reads - 1])]
      PROVE  NInv' /\ Tells
  <2> DEFINE n == item[i].reads - 1
             it == [item[i] EXCEPT !.reads = n]
  <2>1. n \in Nat
    BY <1>1, <1>3 DEF ItemType
  <2>3. item' = [item EXCEPT ![i] = CloseSocket(it)]
    BY <1>3
  <2> HIDE DEF n
  <2>2. it \in ItemType /\ it.sock = item[i].sock /\ it.place = item[i].place
    BY <1>1, <2>1 DEF ItemType
  <2> HIDE DEF it
  <2>4. Serves(item[i], it)
    BY <1>3, <2>2 DEF Serves
  <2> QED BY <1>2, <2>2, <2>3, <2>4
<1>4. ASSUME item[i].lateReads > 0,
             item' = [item EXCEPT ![i] = CloseSocket([item[i] EXCEPT !.lateReads = item[i].lateReads - 1])]
      PROVE  NInv' /\ Tells
  <2> DEFINE n == item[i].lateReads - 1
             it == [item[i] EXCEPT !.lateReads = n]
  <2>1. n \in Nat
    BY <1>1, <1>4 DEF ItemType
  <2>3. item' = [item EXCEPT ![i] = CloseSocket(it)]
    BY <1>4
  <2> HIDE DEF n
  <2>2. it \in ItemType /\ it.sock = item[i].sock /\ it.place = item[i].place
        /\ it.reads = item[i].reads
    BY <1>1, <2>1 DEF ItemType
  <2> HIDE DEF it
  <2>4. Serves(item[i], it)
    BY <2>2 DEF Serves
  <2> QED BY <1>2, <2>2, <2>3, <2>4
<1> QED BY <1>3, <1>4 DEF ReadHandlerInternal

LEMMA WriteHandlerKeeps ==
  ASSUME NInv, NEW i \in Index, WriteHandlerWrapper(i)
  PROVE  NInv' /\ Tells
<1>1. item[i] \in ItemType /\ arrived \in 0 .. MaxWork - asked
  BY DEF NInv, TypeOK
<1>2. ASSUME NEW it \in ItemType, Serves(item[i], it), HandleQueue(i, it, FALSE)
      PROVE  NInv' /\ Tells
  BY <1>1, <1>2, QueueIsHandled DEF WriteHandlerWrapper
<1>3. ASSUME item[i].writes > 0,
             HandleQueue(i, [item[i] EXCEPT !.writing = FALSE, !.writes = @ - 1], FALSE)
      PROVE  NInv' /\ Tells
  <2> DEFINE n == item[i].writes - 1
             it == [item[i] EXCEPT !.writing = FALSE, !.writes = n]
  <2>1. n \in Nat
    BY <1>1, <1>3 DEF ItemType
  <2>3. HandleQueue(i, it, FALSE)
    BY <1>3
  <2> HIDE DEF n
  <2>2. it \in ItemType /\ it.sock = item[i].sock /\ it.place = item[i].place
        /\ it.reads = item[i].reads
    BY <1>1, <2>1 DEF ItemType
  <2> HIDE DEF it
  <2>4. Serves(item[i], it)
    BY <2>2 DEF Serves
  <2> QED BY <1>2, <2>2, <2>3, <2>4
<1>4. ASSUME item[i].lateWrites > 0,
             HandleQueue(i, [item[i] EXCEPT !.writing = FALSE, !.lateWrites = @ - 1], FALSE)
      PROVE  NInv' /\ Tells
  <2> DEFINE n == item[i].lateWrites - 1
             it == [item[i] EXCEPT !.writing = FALSE, !.lateWrites = n]
  <2>1. n \in Nat
    BY <1>1, <1>4 DEF ItemType
  <2>3. HandleQueue(i, it, FALSE)
    BY <1>4
  <2> HIDE DEF n
  <2>2. it \in ItemType /\ it.sock = item[i].sock /\ it.place = item[i].place
        /\ it.reads = item[i].reads
    BY <1>1, <2>1 DEF ItemType
  <2> HIDE DEF it
  <2>4. Serves(item[i], it)
    BY <2>2 DEF Serves
  <2> QED BY <1>2, <2>2, <2>3, <2>4
<1> QED BY <1>3, <1>4 DEF WriteHandlerWrapper

-----------------------------------------------------------------------------
(* The asynch thread                                                       *)

LEMMA TakeRequestKeeps ==
  ASSUME NInv, TakeRequest
  PROVE  NInv' /\ Tells
<1> DEFINE r == Head(requests)
<1>1. r \in Requests /\ requests' \in Seq(Requests)
  BY DEF NInv, TypeOK, TakeRequest
<1>2. UNCHANGED <<peer, got, store_vars, opening, events, sink_vars, arrived, ended>>
  BY DEF TakeRequest
<1>3. Message(r) \in Messages
  BY <1>1 DEF Message, Messages, Requests
<1>4. /\ item' \in [Index -> ItemType] /\ \A j \in Index : Serves(item[j], item'[j])
      /\ current' \in Requests \cup {None}
  <2>1. CASE r.op = "batch"
    <3>1. /\ current' = current
          /\ item' = [i \in DOMAIN item |->
               IF i \in batch THEN [item[i] EXCEPT !.wq = Append(@, Message(r))] ELSE item[i]]
      BY <2>1 DEF TakeRequest
    <3>2. DOMAIN item = Index /\ current \in Requests \cup {None} /\ \A i \in Index : item[i] \in ItemType
      BY DEF NInv, TypeOK
    <3>3. ASSUME NEW i \in Index
          PROVE  Serves(item[i], [item[i] EXCEPT !.wq = Append(@, Message(r))])
                 /\ Serves(item[i], item[i])
      <4> DEFINE w == Append(item[i].wq, Message(r))
                 q == [item[i] EXCEPT !.wq = w]
      <4>1. w \in Seq(Messages)
        BY <1>3, <3>2 DEF ItemType
      <4> HIDE DEF w
      <4>2. q \in ItemType /\ q.sock = item[i].sock /\ q.place = item[i].place
            /\ q.reads = item[i].reads
        BY <3>2, <4>1 DEF ItemType
      <4> HIDE DEF q
      <4>3. Serves(item[i], q)
        BY <4>2 DEF Serves
      <4> QED BY <3>2, <4>3, ServesItself DEF q, w
    <3> HIDE DEF r
    <3>4. \A i \in Index : Serves(item[i], item'[i]) /\ item'[i] \in ItemType
      BY <3>1, <3>2, <3>3 DEF Serves
    <3> QED BY <3>1, <3>2, <3>4
  <2>2. CASE r.op # "batch"
    BY <1>1, <2>2, NoItem DEF TakeRequest, NInv, TypeOK
  <2> QED BY <2>1, <2>2
<1>5. TypeOK'
  BY <1>1, <1>2, <1>4 DEF NInv, TypeOK, store_vars, sink_vars
<1>6. Quiet
  BY <1>2, <1>4 DEF Quiet, store_vars
<1> QED BY <1>2, <1>5, <1>6, QuietStep

\* The item whose request is carried out
LEMMA Current ==
  ASSUME NInv, NEW op, Do(op)
  PROVE  /\ current \in Requests /\ current.i \in Index /\ item[current.i] \in ItemType
         /\ arrived \in 0 .. MaxWork - asked /\ Message(current) \in Messages
<1>1. current \in Requests
  BY DEF Do, NInv, TypeOK
<1>2. current.i \in Index /\ Message(current) \in Messages
  BY <1>1 DEF Requests, Message, Messages
<1> QED BY <1>1, <1>2 DEF NInv, TypeOK

LEMMA AsynchKeeps ==
  ASSUME NInv, Asynch
  PROVE  NInv' /\ Tells
<1>1. CASE TakeRequest
  BY <1>1, TakeRequestKeeps
<1>2. CASE OnSendData
  <2> DEFINE it == item[current.i]
             w == Append(it.wq, Message(current))
             q == [it EXCEPT !.wq = w]
  <2>1. current.i \in Index /\ it \in ItemType /\ arrived \in 0 .. MaxWork - asked
        /\ Message(current) \in Messages
    BY <1>2, Current DEF OnSendData
  <2>2. w \in Seq(Messages)
    BY <2>1 DEF ItemType
  <2>3. item' = [item EXCEPT ![current.i] = q]
    BY <1>2 DEF OnSendData
  <2> HIDE DEF w
  <2>4. q \in ItemType /\ q.sock = it.sock /\ q.place = it.place /\ q.reads = it.reads
    BY <2>1, <2>2 DEF ItemType
  <2> HIDE DEF q
  <2>5. Serves(it, q)
    BY <2>4 DEF Serves
  <2> QED BY <1>2, <2>1, <2>3, <2>5, OneQuietItem DEF OnSendData
<1>3. CASE OnCloseSocket
  <2> DEFINE it == item[current.i]
             q == [it EXCEPT !.closed = TRUE]
  <2>1. current \in Requests /\ current.i \in Index /\ it \in ItemType
        /\ arrived \in 0 .. MaxWork - asked
    BY <1>3, Current DEF OnCloseSocket
  <2>3. item' = [item EXCEPT ![current.i] = q]
    BY <1>3 DEF OnCloseSocket
  <2>4. q \in ItemType /\ q.sock = it.sock /\ q.place = it.place /\ q.reads = it.reads
    BY <2>1 DEF ItemType
  <2>6. current' \in Requests
    <3> DEFINE o == IF it.closed THEN "closed" ELSE "cancel"
    <3>1. o \in Op \cup {"batch", "cancel", "closed"} /\ current' = [current EXCEPT !.op = o]
      BY <1>3 DEF OnCloseSocket
    <3> HIDE DEF o
    <3> QED BY <2>1, <3>1 DEF Requests
  <2> HIDE DEF q
  <2>5. Serves(it, q)
    BY <2>4 DEF Serves
  <2> QED BY <1>3, <2>1, <2>3, <2>5, <2>6, OneQuietItem DEF OnCloseSocket
<1>4. CASE CancelSocket
  <2>1. current \in Requests /\ current.i \in Index /\ item[current.i] \in ItemType
        /\ arrived \in 0 .. MaxWork - asked
    BY <1>4, Current DEF CancelSocket
  <2>2. current' \in Requests
    BY <1>4, <2>1 DEF CancelSocket, Requests
  <2>3. item' = [item EXCEPT ![current.i] = Abort(item[current.i])]
    BY <1>4 DEF CancelSocket
  <2>4. Serves(item[current.i], Abort(item[current.i]))
    BY <2>1, AbortServes
  <2> QED BY <1>4, <2>1, <2>2, <2>3, <2>4, OneQuietItem DEF CancelSocket
<1>5. CASE FallThrough
  <2>1. current \in Requests
    BY <1>5, Current DEF FallThrough
  <2>2. current' \in Requests \cup {None}
    BY <1>5, <2>1 DEF FallThrough, Requests, Op
  <2>3. UNCHANGED <<peer, got, item, store, free, batch, curIndex, opening, requests, events, bound,
                    asked, arrived, ended>>
    BY <1>5 DEF FallThrough, store_vars, sink_vars
  <2>4. TypeOK'
    BY <2>2, <2>3 DEF NInv, TypeOK
  <2>5. Quiet
    BY <2>3, NoItem DEF Quiet, NInv, TypeOK
  <2> QED BY <2>3, <2>4, <2>5, QuietStep
<1>6. CASE OnShutDownSocket
  <2> DEFINE it == item[current.i]
             q == [it EXCEPT !.closing = TRUE]
  <2>1. current.i \in Index /\ it \in ItemType /\ arrived \in 0 .. MaxWork - asked
    BY <1>6, Current DEF OnShutDownSocket
  <2>3. item' = [item EXCEPT ![current.i] = q]
    BY <1>6 DEF OnShutDownSocket
  <2>4. q \in ItemType /\ q.sock = it.sock /\ q.place = it.place /\ q.reads = it.reads
    BY <2>1 DEF ItemType
  <2> HIDE DEF q
  <2>5. Serves(it, q)
    BY <2>4 DEF Serves
  <2> QED BY <1>6, <2>1, <2>3, <2>5, OneQuietItem DEF OnShutDownSocket
<1>7. CASE OnAllowBatchSend
  <2>1. current.i \in Index
    BY <1>7, Current DEF OnAllowBatchSend
  <2>2. UNCHANGED <<peer, got, item, store, free, curIndex, opening, requests, events, bound,
                    asked, arrived, ended>> /\ current' = None /\ batch' = batch \cup {current.i}
    BY <1>7 DEF OnAllowBatchSend, sink_vars
  <2>3. store' \cup batch' \cup Range(free') \subseteq Index
    BY <2>1, <2>2 DEF NInv, TypeOK
  <2>4. TypeOK'
    BY <2>2, <2>3 DEF NInv, TypeOK
  <2>5. Quiet
    BY <2>2, NoItem DEF Quiet, NInv, TypeOK
  <2> QED BY <2>2, <2>4, <2>5, QuietStep
<1> QED BY <1>1, <1>2, <1>3, <1>4, <1>5, <1>6, <1>7 DEF Asynch

-----------------------------------------------------------------------------
(* Reads, the sink and the peers                                           *)

LEMMA ReadHandlerKeeps ==
  ASSUME NInv, NEW i \in Index, ReadHandler(i)
  PROVE  NInv' /\ Tells
<1> DEFINE n == item[i].reads - 1
           it == [item[i] EXCEPT !.reads = n]
           c == item[i].sock
<1>1. /\ item[i] \in ItemType /\ item[i].reads > 0 /\ arrived' \in 0 .. MaxWork - asked
      /\ current \in Requests \cup {None}
  <2>1. item[i] \in ItemType /\ current \in Requests \cup {None}
    BY DEF NInv, TypeOK
  <2>2. item[i].reads > 0 /\ asked + arrived < MaxWork /\ arrived' = arrived + 1
    BY DEF ReadHandler
  <2>3. asked \in 0 .. MaxWork /\ arrived \in 0 .. MaxWork - asked
    BY DEF NInv, TypeOK
  <2>4. arrived' \in 0 .. MaxWork - asked
    BY <2>2, <2>3, NetworkAssumption
  <2> QED BY <2>1, <2>2, <2>4
<1>2. n \in Nat
  BY <1>1 DEF ItemType
<1>3. \/ Post("read", i) /\ item' = [item EXCEPT ![i] = AsyncRead(it)]
      \/ item' = [item EXCEPT ![i] = CloseSocket(it)] /\ UNCHANGED events
  BY DEF ReadHandler
<1>4. UNCHANGED <<peer, got, store, free, batch, curIndex, opening, requests, current, bound,
                  asked, ended>>
  BY DEF ReadHandler, store_vars, sink_vars
<1>5. Known(i) /\ c \in Conns
  BY <1>1 DEF NInv, Reading
<1> HIDE DEF n
<1>6. it \in ItemType /\ it.sock = c /\ it.place = item[i].place
  BY <1>1, <1>2 DEF ItemType
<1> HIDE DEF it
<1>7. CASE item' = [item EXCEPT ![i] = CloseSocket(it)] /\ UNCHANGED events
  <2>1. Serves(it, CloseSocket(it))
    BY <1>6, CloseSocketServes
  <2>2. Serves(item[i], CloseSocket(it))
    BY <1>1, <1>6, <2>1 DEF Serves
  <2> QED BY <1>1, <1>4, <1>7, <2>2, OneQuietItem DEF store_vars, sink_vars
<1>8. CASE Post("read", i) /\ item' = [item EXCEPT ![i] = AsyncRead(it)]
  <2>1. AsyncRead(it) \in ItemType /\ AsyncRead(it).sock = c
        /\ AsyncRead(it).place = item[i].place
    BY <1>6, AsyncReadServes
  <2>2. Serves(item[i], AsyncRead(it))
    BY <1>1, <2>1 DEF Serves
  <2>3. item' \in [Index -> ItemType] /\ \A j \in Index : Serves(item[j], item'[j])
    BY <1>8, <2>2, OneItem DEF NInv, TypeOK
  <2>4. events' = Append(events, [kind |-> "read", i |-> i, c |-> c])
    BY <1>8 DEF Post
  <2>5. events' \in Seq([kind : {"bind", "read", "shut"}, i : Index, c : Conns])
    <3> HIDE DEF c
    <3> QED BY <1>5, <2>4 DEF NInv, TypeOK
  <2>6. TypeOK'
    BY <1>1, <1>4, <2>3, <2>5 DEF NInv, TypeOK
  <2>7. Quiet
    BY <1>4, <2>3 DEF Quiet
  <2>8. Store' /\ Accepting' /\ Serving' /\ Reading' /\ attached' = attached
    BY <2>7, QuietKeeps
  <2>9. attached[i] = c \/ c \in ended
    BY <1>5 DEF Known, attached, Attached
  <2>10. Events!Read(i, c)
    BY <1>4, <2>4, <2>8, <2>9 DEF Events!Read, Events!Post, attached
  <2>11. Tells
    BY <1>5, <2>10 DEF Tells, Events!EventsNext
  <2> QED BY <2>6, <2>8, <2>11 DEF NInv
<1> QED BY <1>3, <1>7, <1>8

LEMMA HandleEventKeeps ==
  ASSUME NInv, HandleEvent
  PROVE  NInv' /\ Tells
<1> DEFINE e == Head(events)
           Event == [kind : {"bind", "read", "shut"}, i : Index, c : Conns]
<1>1. events # <<>> /\ events' = Tail(events) /\ events \in Seq(Event)
  BY DEF HandleEvent, NInv, TypeOK
<1>2. e \in Event /\ events' \in Seq(Event)
  <2> HIDE DEF Event
  <2> QED BY <1>1
<1>3. bound' = CASE e.kind = "bind" -> [bound EXCEPT ![e.i] = e.c]
                 [] e.kind = "shut" -> [bound EXCEPT ![e.i] = None]
                 [] OTHER -> bound
  BY DEF HandleEvent
<1>4. UNCHANGED <<peer, got, item, store, free, batch, curIndex, opening, requests, current,
                  asked, arrived, ended>>
  BY DEF HandleEvent, store_vars
<1>5. bound' \in [Index -> Conns \cup {None}]
  <2>1. bound \in [Index -> Conns \cup {None}] /\ e.i \in Index /\ e.c \in Conns
    BY <1>2 DEF NInv, TypeOK
  <2> HIDE DEF e
  <2> QED BY <1>3, <2>1
<1>6. TypeOK'
  BY <1>2, <1>4, <1>5 DEF NInv, TypeOK
<1>7. Quiet
  BY <1>4, NoItem DEF Quiet, NInv, TypeOK
<1>8. Store' /\ Accepting' /\ Serving' /\ Reading' /\ attached' = attached
  BY <1>7, QuietKeeps
<1>9. Events!Handle
  BY <1>1, <1>4, <1>8 DEF Events!Handle, attached
<1> QED BY <1>6, <1>8, <1>9 DEF NInv, Tells, Events!EventsNext

LEMMA PostRequestKeeps ==
  ASSUME NInv, PostRequest
  PROVE  NInv' /\ Tells
<1>1. asked' = asked + 1 /\ asked' \in 1 .. MaxWork /\ arrived \in 0 .. MaxWork - asked'
  BY NetworkAssumption DEF PostRequest, NInv, TypeOK
<1>2. PICK r \in [op : Op, i : {i \in Index : bound[i] # None}] \cup [op : {"batch"}, i : {0}] :
        requests' = Append(requests, [op |-> r.op, i |-> r.i, c |-> bound[r.i], n |-> asked'])
  BY DEF PostRequest
<1>3. r.op \in Op \cup {"batch"} /\ r.i \in Index
  BY <1>2, NetworkAssumption DEF Index
<1>4. bound[r.i] \in Conns \cup {None}
  BY <1>3 DEF NInv, TypeOK
<1>5. [op |-> r.op, i |-> r.i, c |-> bound[r.i], n |-> asked'] \in Requests
  BY <1>1, <1>3, <1>4 DEF Requests
<1>6. requests' \in Seq(Requests)
  BY <1>2, <1>5 DEF NInv, TypeOK
<1>7. UNCHANGED <<peer, got, item, store, free, batch, curIndex, opening, current, events, bound,
                  arrived, ended>>
  BY DEF PostRequest, store_vars
<1>8. asked' \in 0 .. MaxWork
  BY <1>1
<1>9. TypeOK'
  BY <1>1, <1>6, <1>7, <1>8 DEF NInv, TypeOK
<1>10. Quiet
  BY <1>7, NoItem DEF Quiet, NInv, TypeOK
<1> QED BY <1>7, <1>9, <1>10, QuietStep

LEMMA PeerLeavesKeeps ==
  ASSUME NInv, NEW c \in Conns, PeerLeaves(c)
  PROVE  NInv' /\ Tells
<1>1. UNCHANGED <<got, item, store, free, batch, curIndex, opening, requests, current, events,
                  bound, asked, arrived, ended>>
  BY DEF PeerLeaves, store_vars, sink_vars
<1>2. peer[c] = "here" /\ peer' = [peer EXCEPT ![c] = "gone"]
      /\ peer \in [Conns -> {"away", "here", "gone"}]
  BY DEF PeerLeaves, NInv, TypeOK
<1>3. peer' \in [Conns -> {"away", "here", "gone"}]
      /\ \A d \in Conns : peer'[d] = "away" <=> peer[d] = "away"
  BY <1>2
<1>4. TypeOK'
  BY <1>1, <1>3 DEF NInv, TypeOK
<1>5. Quiet
  BY <1>1, <1>3, NoItem DEF Quiet, NInv, TypeOK
<1> QED BY <1>1, <1>4, <1>5, QuietStep

-----------------------------------------------------------------------------
(* The free list                                                           *)

LEMMA TakenFromList ==
  ASSUME NEW S, NEW s \in Seq(S), IsInjective(s), s # <<>>
  PROVE  /\ Head(s) \in S /\ Tail(s) \in Seq(S) /\ IsInjective(Tail(s))
         /\ Range(Tail(s)) = Range(s) \ {Head(s)} /\ Head(s) \in Range(s)
<1> DEFINE t == Tail(s)
<1>1. /\ Len(s) \in Nat /\ Len(s) > 0 /\ DOMAIN s = 1 .. Len(s)
      /\ t \in Seq(S) /\ Head(s) = s[1] /\ Head(s) \in S
      /\ DOMAIN t = 1 .. Len(s) - 1 /\ \A k \in 1 .. Len(s) - 1 : t[k] = s[k + 1]
  OBVIOUS
<1> HIDE DEF t
<1>2. \A j, k \in 1 .. Len(s) : s[j] = s[k] => j = k
  BY <1>1 DEF IsInjective
<1>3. IsInjective(t)
  <2>1. ASSUME NEW j \in 1 .. Len(s) - 1, NEW k \in 1 .. Len(s) - 1, t[j] = t[k]
        PROVE  j = k
    <3>1. s[j + 1] = s[k + 1] /\ j + 1 \in 1 .. Len(s) /\ k + 1 \in 1 .. Len(s)
      BY <1>1, <2>1
    <3>2. j + 1 = k + 1
      BY <1>2, <3>1
    <3> QED BY <3>2
  <2> QED BY <1>1, <2>1 DEF IsInjective
<1>4. ASSUME NEW x \in Range(t) PROVE x \in Range(s) \ {Head(s)}
  <2>1. PICK k \in 1 .. Len(s) - 1 : x = t[k]
    BY <1>1, <1>4 DEF Range
  <2>2. x = s[k + 1] /\ k + 1 \in 1 .. Len(s) /\ k + 1 # 1 /\ 1 \in 1 .. Len(s)
    BY <1>1, <2>1
  <2>3. x # s[1]
    BY <1>2, <2>2
  <2> QED BY <1>1, <2>2, <2>3 DEF Range
<1>5. ASSUME NEW x \in Range(s), x # Head(s) PROVE x \in Range(t)
  <2>1. PICK k \in 1 .. Len(s) : x = s[k]
    BY <1>1, <1>5 DEF Range
  <2>2. k # 1
    BY <1>1, <1>5, <2>1
  <2>3. k - 1 \in 1 .. Len(s) - 1 /\ (k - 1) + 1 = k
    BY <1>1, <2>2
  <2>4. x = t[k - 1]
    BY <1>1, <2>1, <2>3
  <2> QED BY <1>1, <2>3, <2>4 DEF Range
<1>6. Head(s) \in Range(s)
  BY <1>1 DEF Range
<1> QED BY <1>1, <1>3, <1>4, <1>5, <1>6 DEF t

LEMMA PutOnList ==
  ASSUME NEW S, NEW s \in Seq(S), IsInjective(s), NEW i \in S, i \notin Range(s)
  PROVE  /\ Append(s, i) \in Seq(S) /\ IsInjective(Append(s, i))
         /\ Range(Append(s, i)) = Range(s) \cup {i}
<1> DEFINE t == Append(s, i)
           n == Len(s) + 1
<1>1. /\ Len(s) \in Nat /\ DOMAIN s = 1 .. Len(s) /\ t \in Seq(S)
      /\ DOMAIN t = 1 .. n /\ t[n] = i /\ \A k \in 1 .. Len(s) : t[k] = s[k]
  OBVIOUS
<1>2. 1 .. n = (1 .. Len(s)) \cup {n} /\ n \notin 1 .. Len(s)
  BY <1>1
<1> HIDE DEF t, n
<1>3. \A k \in 1 .. Len(s) : s[k] # i
  BY <1>1 DEF Range
<1>4. IsInjective(t)
  <2>1. \A j, k \in 1 .. Len(s) : s[j] = s[k] => j = k
    BY <1>1 DEF IsInjective
  <2>2. \A j, k \in (1 .. Len(s)) \cup {n} : t[j] = t[k] => j = k
    BY <1>1, <1>3, <2>1
  <2> QED BY <1>1, <1>2, <2>2 DEF IsInjective
<1>5. Range(t) = Range(s) \cup {i}
  BY <1>1, <1>2 DEF Range
<1> QED BY <1>1, <1>4, <1>5 DEF t

LEMMA ListCounted ==
  ASSUME NEW S, NEW s \in Seq(S), IsInjective(s)
  PROVE  Cardinality(Range(s)) = Len(s)
<1>1. Len(s) \in Nat /\ s \in [1 .. Len(s) -> Range(s)]
      /\ \A x \in Range(s) : \E k \in 1 .. Len(s) : s[k] = x
  BY DEF Range
<1>2. s \in Bijection(1 .. Len(s), Range(s))
  BY <1>1 DEF Bijection, Injection, Surjection
<1>3. ExistsBijection(1 .. Len(s), Range(s))
  BY <1>2 DEF ExistsBijection
<1> QED BY <1>1, <1>3, FS_CountingElements

-----------------------------------------------------------------------------
(* The acceptor                                                            *)

\* The index a new connection is given, and what becomes of the list
LEMMA IndexIsTaken ==
  ASSUME NInv, NEW c \in Conns, ActiveNetworkItem(c),
         NEW i, i = IF free = <<>> THEN curIndex ELSE Head(free)
  PROVE  /\ i \in Index /\ i \notin store /\ item[i].place = "none"
         /\ free' \in Seq(Index) /\ IsInjective(free')
         /\ Range(free') \cap store' = {} /\ Range(free') \cup store' = 0 .. curIndex' - 1
         /\ curIndex' \in 0 .. MaxConns /\ curIndex' <= c
<1>1. /\ opening = None /\ peer[c] = "away" /\ store' = store \cup {i}
      /\ IF free = <<>> THEN curIndex' = curIndex + 1 /\ UNCHANGED free
                        ELSE free' = Tail(free) /\ UNCHANGED curIndex
  BY DEF ActiveNetworkItem
<1>2. /\ free \in Seq(Index) /\ IsInjective(free)
      /\ Range(free) \cap store = {} /\ Range(free) \cup store = 0 .. curIndex - 1
      /\ curIndex \in 0 .. MaxConns
  BY DEF NInv, Store, TypeOK
<1>3. curIndex < c /\ c \in 1 .. MaxConns /\ MaxConns \in Nat
  BY <1>1, NetworkAssumption DEF NInv, Accepting, Conns
<1>4. CASE free = <<>>
  <2>1. Range(free) = {}
    BY <1>4 DEF Range
  <2>2. i = curIndex /\ i \in Index /\ i \notin store
    BY <1>2, <1>3, <1>4, <2>1 DEF Index
  <2>3. store' = 0 .. curIndex
    BY <1>1, <1>2, <2>1, <2>2
  <2>4. curIndex' = curIndex + 1 /\ free' = free
    BY <1>1, <1>4
  <2>5. curIndex' - 1 = curIndex /\ curIndex' \in 0 .. MaxConns /\ curIndex' <= c
    BY <1>2, <1>3, <2>4
  <2> QED BY <1>1, <1>2, <2>1, <2>2, <2>3, <2>4, <2>5 DEF NInv, Store
<1>5. CASE free # <<>>
  <2>1. /\ i \in Index /\ free' \in Seq(Index) /\ IsInjective(free')
        /\ Range(free') = Range(free) \ {i} /\ i \in Range(free)
    <3>1. /\ Head(free) \in Index /\ Tail(free) \in Seq(Index) /\ IsInjective(Tail(free))
          /\ Range(Tail(free)) = Range(free) \ {Head(free)} /\ Head(free) \in Range(free)
      BY <1>2, <1>5, TakenFromList
    <3>2. i = Head(free) /\ free' = Tail(free)
      BY <1>1, <1>5
    <3> QED BY <3>1, <3>2
  <2>2. curIndex' = curIndex /\ curIndex' <= c
    BY <1>1, <1>2, <1>3, <1>5
  <2>3. i \notin store
    BY <1>2, <2>1
  <2> QED BY <1>1, <1>2, <2>1, <2>2, <2>3 DEF NInv, Store
<1> QED BY <1>4, <1>5

LEMMA ItemIsReady ==
  ASSUME NEW it \in ItemType, NEW c \in Conns
  PROVE  /\ NewItem(c) \in ItemType /\ NewItem(c).sock = c /\ NewItem(c).place = "none"
         /\ NewItem(c).reads = 0
         /\ Attach(it, c) \in ItemType /\ Attach(it, c).sock = c
         /\ Attach(it, c).place = it.place /\ Attach(it, c).reads = 0
<1>1. NewItem(c) \in ItemType /\ NewItem(c).sock = c /\ NewItem(c).place = "none"
      /\ NewItem(c).reads = 0
  BY DEF NewItem, ItemType
<1> DEFINE a == Abort(it)
<1>2. a \in ItemType /\ a.place = it.place /\ a.reads = 0
  BY AbortServes DEF Serves
<1>3. Attach(it, c) = [a EXCEPT !.sock = c, !.open = TRUE, !.closed = FALSE, !.closing = FALSE,
                                !.writing = FALSE]
  BY DEF Attach
<1> HIDE DEF a
<1> QED BY <1>1, <1>2, <1>3 DEF ItemType

LEMMA ActiveNetworkItemKeeps ==
  ASSUME NInv, NEW c \in Conns, ActiveNetworkItem(c)
  PROVE  NInv' /\ Tells
<1> DEFINE i == IF free = <<>> THEN curIndex ELSE Head(free)
           q == IF free = <<>> THEN NewItem(c) ELSE Attach(item[i], c)
<1>1. /\ opening = None /\ peer[c] = "away" /\ (c > 1 => peer[c - 1] # "away")
      /\ peer' = [peer EXCEPT ![c] = "here"] /\ item' = [item EXCEPT ![i] = q]
      /\ store' = store \cup {i} /\ opening' = [at |-> "add", i |-> i]
  BY DEF ActiveNetworkItem
<1>2. UNCHANGED <<got, batch, requests, current, events, bound, asked, arrived, ended>>
  BY DEF ActiveNetworkItem, sink_vars
<1>3. curIndex < c /\ c \notin ended /\ \A j \in Index : item[j].sock # c
  BY <1>1 DEF NInv, Accepting
<1>4. /\ i \in Index /\ i \notin store /\ item[i].place = "none"
      /\ free' \in Seq(Index) /\ IsInjective(free')
      /\ Range(free') \cap store' = {} /\ Range(free') \cup store' = 0 .. curIndex' - 1
      /\ curIndex' \in 0 .. MaxConns /\ curIndex' <= c
  BY IndexIsTaken
<1>5. item \in [Index -> ItemType]
  BY DEF NInv, TypeOK
<1>6. q \in ItemType /\ q.sock = c /\ q.place = "none" /\ q.reads = 0
  <2> HIDE DEF i
  <2> QED BY <1>4, <1>5, ItemIsReady
<1> HIDE DEF i, q
<1>7. item' \in [Index -> ItemType] /\ item'[i] = q /\ \A j \in Index \ {i} : item'[j] = item[j]
  BY <1>1, <1>4, <1>5, <1>6
<1>8. TypeOK'
  <2>1. opening' \in [at : {"add", "start"}, i : Index]
    BY <1>1, <1>4
  <2>2. peer' \in [Conns -> {"away", "here", "gone"}]
    BY <1>1 DEF NInv, TypeOK
  <2>3. store' \cup batch' \cup Range(free') \subseteq Index
    <3>1. Range(free') \subseteq Index
      BY <1>4 DEF Range
    <3> QED BY <1>1, <1>2, <1>4, <3>1 DEF NInv, TypeOK
  <2> QED BY <1>2, <1>4, <1>7, <2>1, <2>2, <2>3 DEF NInv, TypeOK
<1>9. opening' # None /\ opening'.i = i /\ opening'.at = "add"
  BY <1>1, <1>4, NetworkAssumption DEF Index
<1>10. Store'
  <2>1. ASSUME NEW j \in Index
        PROVE  j \in store' <=> item'[j].place # "none" \/ Opening(j)'
    <3>1. CASE j = i
      BY <1>1, <1>9, <3>1 DEF Opening
    <3>2. CASE j # i
      <4>1. ~Opening(j)' /\ ~Opening(j)
        BY <1>1, <1>9, <3>2 DEF Opening
      <4>2. j \in store' <=> j \in store
        BY <1>1, <3>2
      <4> QED BY <1>7, <3>2, <4>1, <4>2 DEF NInv, Store
    <3> QED BY <3>1, <3>2
  <2> QED BY <1>4, <2>1 DEF Store
<1>11. Accepting'
  <2>1. ASSUME NEW d \in Conns, peer'[d] = "away"
        PROVE  peer[d] = "away" /\ c < d
    <3>1. d # c /\ peer[d] = "away"
      BY <1>1, <2>1 DEF NInv, TypeOK
    <3>2. c \in 1 .. MaxConns /\ d \in 1 .. MaxConns /\ MaxConns \in Nat
      BY NetworkAssumption DEF Conns
    <3>3. ASSUME d < c PROVE FALSE
      <4>1. c - 1 \in Conns /\ c > 1 /\ (d = c - 1 \/ d < c - 1)
        BY <3>2, <3>3 DEF Conns
      <4>2. peer[c - 1] = "away"
        BY <3>1, <4>1 DEF NInv, Accepting
      <4> QED BY <1>1, <4>1, <4>2
    <3> QED BY <3>1, <3>2, <3>3
  <2>2. ASSUME NEW b \in Conns, NEW d \in Conns, peer'[b] = "away", b < d
        PROVE  peer'[d] = "away"
    <3>1. peer[b] = "away" /\ c < b
      BY <2>1, <2>2
    <3>2. peer[d] = "away" /\ d # c
      BY <2>2, <3>1, NetworkAssumption DEF NInv, Accepting, Conns
    <3> QED BY <1>1, <3>2 DEF NInv, TypeOK
  <2>3. ASSUME NEW d \in Conns, peer'[d] = "away"
        PROVE  curIndex' < d /\ d \notin ended' /\ \A j \in Index : item'[j].sock # d
    <3>1. peer[d] = "away" /\ c < d
      BY <2>1, <2>3
    <3>2. curIndex' < d
      BY <1>4, <3>1, NetworkAssumption DEF Conns
    <3>3. d # c
      BY <3>1, NetworkAssumption DEF Conns
    <3>4. \A j \in Index : item'[j].sock # d
      BY <1>6, <1>7, <3>1, <3>3 DEF NInv, Accepting
    <3> QED BY <1>2, <3>1, <3>2, <3>4 DEF NInv, Accepting
  <2> QED BY <2>2, <2>3 DEF Accepting
<1>12. ASSUME NEW j \in Index, Held(j)'
       PROVE  j = i \/ (j # i /\ Held(j) /\ item'[j] = item[j])
  BY <1>1, <1>7, <1>9, <1>12 DEF Held, Opening
<1>13. Serving'
  <2>1. ASSUME NEW j \in Index, Held(j)'
        PROVE  item'[j].sock \in Conns \ ended'
    BY <1>2, <1>3, <1>6, <1>7, <1>12, <2>1 DEF NInv, Serving
  <2>2. ASSUME NEW j \in Index, NEW k \in Index, Held(j)', Held(k)',
               item'[j].sock = item'[k].sock
        PROVE  j = k
    <3>1. CASE j = i \/ k = i
      BY <1>3, <1>6, <1>7, <1>12, <2>2, <3>1
    <3>2. CASE j # i /\ k # i
      BY <1>12, <2>2, <3>2 DEF NInv, Serving
    <3> QED BY <3>1, <3>2
  <2>3. ASSUME NEW j \in Index, Opening(j)'
        PROVE  item'[j].place = "none"
    BY <1>6, <1>7, <1>9, <2>3 DEF Opening
  <2> QED BY <2>1, <2>2, <2>3 DEF Serving
<1>14. Reading'
  <2>1. ASSUME NEW j \in Index, item'[j].reads > 0
        PROVE  Known(j)' /\ item'[j].sock \in Conns
    <3>1. j # i
      BY <1>6, <1>7, <2>1
    <3>2. item'[j] = item[j]
      BY <1>7, <3>1
    <3>3. Known(j) /\ item[j].sock \in Conns
      BY <2>1, <3>2 DEF NInv, Reading
    <3> QED BY <1>2, <3>2, <3>3 DEF Known
  <2>2. opening'.at # "start"
    BY <1>9
  <2> QED BY <2>1, <2>2 DEF Reading
<1>15. UNCHANGED <<events, attached, ended>>
  <2>1. \A j \in Index : item'[j].place = item[j].place
                        /\ (item[j].place # "none" => item'[j].sock = item[j].sock)
    BY <1>4, <1>6, <1>7
  <2>2. \A j \in Index : Attached(j)' = Attached(j)
    BY <2>1 DEF Attached
  <2> QED BY <1>2, <2>2 DEF attached
<1> QED BY <1>8, <1>10, <1>11, <1>13, <1>14, <1>15 DEF NInv, Tells

LEMMA AddSocketKeeps ==
  ASSUME NInv, AddSocket
  PROVE  NInv' /\ Tells
<1> DEFINE i == opening.i
           c == item[i].sock
<1>1. /\ opening # None /\ opening.at = "add"
      /\ item' = [item EXCEPT ![i].place = "new"]
      /\ events' = Append(events, [kind |-> "bind", i |-> i, c |-> c])
      /\ opening' = [opening EXCEPT !.at = "start"]
  BY DEF AddSocket, Post
<1>2. UNCHANGED <<peer, got, store, free, batch, curIndex, requests, current, bound, asked,
                  arrived, ended>>
  BY DEF AddSocket, store_vars, sink_vars
<1>3. opening \in [at : {"add", "start"}, i : Index] /\ i \in Index /\ Opening(i)
  BY <1>1 DEF NInv, TypeOK, Opening
<1>4. item \in [Index -> ItemType] /\ item[i] \in ItemType
  BY <1>3 DEF NInv, TypeOK
<1>5. c \in Conns /\ c \notin ended /\ item[i].place = "none"
  BY <1>3 DEF NInv, Serving, Held
<1> DEFINE q == [item[i] EXCEPT !.place = "new"]
<1>6. q \in ItemType /\ q.sock = c /\ q.place = "new" /\ q.reads = item[i].reads
  BY <1>4 DEF ItemType
<1>7. item' = [item EXCEPT ![i] = q]
  BY <1>1
<1>8. opening' \in [at : {"add", "start"}, i : Index] /\ opening'.i = i /\ opening'.at = "start"
  BY <1>1, <1>3
<1> HIDE DEF q
<1>9. item' \in [Index -> ItemType] /\ item'[i] = q /\ \A j \in Index \ {i} : item'[j] = item[j]
  BY <1>3, <1>4, <1>6, <1>7
<1>10. \A j : ~Opening(j)'
  BY <1>8 DEF Opening
<1>11. \A j \in Index : Opening(j) <=> j = i
  BY <1>1 DEF Opening
<1>12. \A j \in Index : item'[j].sock = item[j].sock
  BY <1>6, <1>9
<1>13. ASSUME NEW j \in Index PROVE Held(j)' <=> Held(j)
  BY <1>6, <1>9, <1>10, <1>11 DEF Held
<1>14. \A j \in Index : Held(j)' => Held(j)
  BY <1>13
<1> HIDE DEF c
<1>15. TypeOK'
  <2>1. events' \in Seq([kind : {"bind", "read", "shut"}, i : Index, c : Conns])
    <3> HIDE DEF i
    <3> QED BY <1>1, <1>3, <1>5 DEF NInv, TypeOK
  <2> QED BY <1>2, <1>8, <1>9, <2>1 DEF NInv, TypeOK
<1>16. Store'
  <2>1. ASSUME NEW j \in Index
        PROVE  j \in store' <=> item'[j].place # "none" \/ Opening(j)'
    BY <1>2, <1>3, <1>6, <1>9, <1>10, <1>11 DEF NInv, Store
  <2>2. free' \in Seq(Index) /\ IsInjective(free')
        /\ Range(free') \cap store' = {} /\ Range(free') \cup store' = 0 .. curIndex' - 1
    BY <1>2 DEF NInv, Store
  <2> QED BY <2>1, <2>2 DEF Store
<1>17. Accepting'
  BY <1>2, <1>12 DEF NInv, Accepting
<1>18. Serving'
  <2>1. ASSUME NEW j \in Index, Held(j)' PROVE item'[j].sock \in Conns \ ended'
    BY <1>2, <1>12, <1>14, <2>1 DEF NInv, Serving
  <2>2. ASSUME NEW j \in Index, NEW k \in Index, Held(j)', Held(k)',
               item'[j].sock = item'[k].sock
        PROVE  j = k
    BY <1>12, <1>14, <2>2 DEF NInv, Serving
  <2> QED BY <1>10, <2>1, <2>2 DEF Serving
<1>19. Reading'
  <2>1. ASSUME NEW j \in Index, Known(j) \/ j = i PROVE Known(j)'
    BY <1>2, <1>6, <1>9, <2>1 DEF Known
  <2>2. ASSUME NEW j \in Index, item'[j].reads > 0
        PROVE  Known(j)' /\ item'[j].sock \in Conns
    <3>1. item[j].reads > 0
      BY <1>6, <1>9, <2>2
    <3> QED BY <1>12, <2>1, <3>1 DEF NInv, Reading
  <2>3. ASSUME NEW j \in Index, opening'.i = j PROVE Known(j)'
    BY <1>8, <2>1, <2>3
  <2> QED BY <2>2, <2>3 DEF Reading
<1>20. Events!Bind(i, c)
  <2>1. attached[i] = None
    BY <1>3, <1>5 DEF attached, Attached
  <2>2. ASSUME NEW j \in Index PROVE attached[j] # c
    <3>1. CASE item[j].place \in {"new", "live"}
      <4>1. Held(j) /\ Held(i) /\ j # i
        BY <1>3, <1>5, <3>1 DEF Held
      <4>2. item[j].sock # item[i].sock
        BY <1>3, <4>1 DEF NInv, Serving
      <4> QED BY <3>1, <4>2 DEF attached, Attached, c
    <3>2. CASE item[j].place \notin {"new", "live"}
      BY <1>5, <3>2, NetworkAssumption DEF attached, Attached, Conns
    <3> QED BY <3>1, <3>2
  <2>3. attached' = [attached EXCEPT ![i] = c]
    <3>1. \A j \in Index : Attached(j)' = IF j = i THEN c ELSE Attached(j)
      BY <1>6, <1>9 DEF Attached
    <3> QED BY <1>3, <3>1 DEF attached
  <2> QED BY <1>1, <1>2, <1>5, <2>1, <2>2, <2>3 DEF Events!Bind, Events!Post, attached
<1>21. Tells
  BY <1>3, <1>5, <1>20 DEF Tells, Events!EventsNext
<1> QED BY <1>15, <1>16, <1>17, <1>18, <1>19, <1>21 DEF NInv

LEMMA StartKeeps ==
  ASSUME NInv, Start
  PROVE  NInv' /\ Tells
<1> DEFINE i == opening.i
           q == AsyncRead(item[i])
<1>1. /\ opening # None /\ opening.at = "start" /\ opening' = None
      /\ item' = [item EXCEPT ![i] = q]
  BY DEF Start
<1>2. UNCHANGED <<peer, got, store, free, batch, curIndex, requests, current, events, bound, asked,
                  arrived, ended>>
  BY DEF Start, store_vars, sink_vars
<1>3. i \in Index /\ item \in [Index -> ItemType] /\ item[i] \in ItemType /\ ended \subseteq Conns
  BY <1>1 DEF NInv, TypeOK
<1>4. q \in ItemType /\ q.sock = item[i].sock /\ q.place = item[i].place
  BY <1>3, AsyncReadServes
<1>5. Known(i)
  BY <1>1, <1>3 DEF NInv, Reading
<1>6. item[i].sock \in Conns
  BY <1>3, <1>5 DEF Known, NInv, Serving, Held
<1> HIDE DEF q
<1>7. item' \in [Index -> ItemType] /\ item'[i] = q /\ \A j \in Index \ {i} : item'[j] = item[j]
  BY <1>1, <1>3, <1>4
<1>8. \A j \in Index : item'[j].sock = item[j].sock /\ item'[j].place = item[j].place
  BY <1>4, <1>7
<1>9. \A j : ~Opening(j) /\ ~Opening(j)'
  BY <1>1 DEF Opening
<1>10. \A j \in Index : Held(j)' => Held(j)
  BY <1>8, <1>9 DEF Held
<1>11. TypeOK'
  BY <1>1, <1>2, <1>7 DEF NInv, TypeOK
<1>12. Store'
  <2>1. \A j \in Index : j \in store' <=> item'[j].place # "none" \/ Opening(j)'
    BY <1>2, <1>8, <1>9 DEF NInv, Store
  <2>2. free' \in Seq(Index) /\ IsInjective(free')
        /\ Range(free') \cap store' = {} /\ Range(free') \cup store' = 0 .. curIndex' - 1
    BY <1>2 DEF NInv, Store
  <2> QED BY <2>1, <2>2 DEF Store
<1>13. Accepting'
  BY <1>2, <1>8 DEF NInv, Accepting
<1>14. Serving'
  <2>1. ASSUME NEW j \in Index, Held(j)' PROVE item'[j].sock \in Conns \ ended'
    BY <1>2, <1>8, <1>10, <2>1 DEF NInv, Serving
  <2>2. ASSUME NEW j \in Index, NEW k \in Index, Held(j)', Held(k)',
               item'[j].sock = item'[k].sock
        PROVE  j = k
    BY <1>8, <1>10, <2>2 DEF NInv, Serving
  <2> QED BY <1>9, <2>1, <2>2 DEF Serving
<1>15. Reading'
  <2>1. ASSUME NEW j \in Index, Known(j) PROVE Known(j)'
    BY <1>2, <1>8, <2>1 DEF Known
  <2>2. ASSUME NEW j \in Index, item'[j].reads > 0
        PROVE  Known(j)' /\ item'[j].sock \in Conns
    <3>1. CASE j = i
      BY <1>5, <1>6, <1>8, <2>1, <3>1
    <3>2. CASE j # i
      BY <1>7, <2>1, <2>2, <3>2 DEF NInv, Reading
    <3> QED BY <3>1, <3>2
  <2> QED BY <1>1, <2>2 DEF Reading
<1>16. UNCHANGED <<events, attached, ended>>
  BY <1>2, <1>8 DEF attached, Attached
<1> QED BY <1>11, <1>12, <1>13, <1>14, <1>15, <1>16 DEF NInv, Tells

-----------------------------------------------------------------------------
(* Update                                                                  *)

LEMMA SocketRemovedKeeps ==
  ASSUME NInv, NEW i \in Index, item[i].place \in {"new", "live"}, SocketRemoved(i),
         UNCHANGED <<peer, got, opening, requests, current, sink_vars, arrived>>
  PROVE  NInv' /\ Tells
<1> DEFINE c == item[i].sock
           q == [item[i] EXCEPT !.place = "shut"]
<1>1. /\ item' = [item EXCEPT ![i] = q] /\ ended' = ended \cup {c}
      /\ events' = Append(events, [kind |-> "shut", i |-> i, c |-> c])
      /\ UNCHANGED <<store, free, batch, curIndex, bound, asked>>
  BY DEF SocketRemoved, Post, store_vars, sink_vars
<1>2. item \in [Index -> ItemType] /\ item[i] \in ItemType
  BY DEF NInv, TypeOK
<1>3. Held(i) /\ ~Opening(i)
  BY DEF Held, NInv, Serving
<1>4. c \in Conns /\ c \notin ended
  BY <1>3 DEF NInv, Serving
<1>5. q \in ItemType /\ q.sock = c /\ q.place = "shut" /\ q.reads = item[i].reads
  BY <1>2 DEF ItemType
<1> HIDE DEF q
<1>6. item' \in [Index -> ItemType] /\ item'[i] = q /\ \A j \in Index \ {i} : item'[j] = item[j]
  BY <1>1, <1>2, <1>5
<1>7. \A j \in Index : item'[j].sock = item[j].sock
  BY <1>5, <1>6
<1>8. ASSUME NEW j \in Index PROVE Opening(j)' <=> Opening(j)
  BY DEF Opening
<1>9. \A j \in Index : Opening(j)' => Opening(j) /\ j # i
  BY <1>3, <1>8
<1>10. \A j \in Index : Held(j)' => Held(j) /\ j # i
  BY <1>3, <1>5, <1>6, <1>9 DEF Held
<1> HIDE DEF c
<1>11. TypeOK'
  <2>1. events' \in Seq([kind : {"bind", "read", "shut"}, i : Index, c : Conns])
    BY <1>1, <1>4 DEF NInv, TypeOK
  <2>2. ended' \subseteq Conns
    BY <1>1, <1>4 DEF NInv, TypeOK
  <2> QED BY <1>1, <1>6, <2>1, <2>2 DEF NInv, TypeOK, sink_vars
<1>12. Store'
  <2>1. ASSUME NEW j \in Index
        PROVE  j \in store' <=> item'[j].place # "none" \/ Opening(j)'
    BY <1>1, <1>5, <1>6, <1>8 DEF NInv, Store
  <2>2. free' \in Seq(Index) /\ IsInjective(free')
        /\ Range(free') \cap store' = {} /\ Range(free') \cup store' = 0 .. curIndex' - 1
    BY <1>1 DEF NInv, Store
  <2> QED BY <2>1, <2>2 DEF Store
<1>13. Accepting'
  <2>1. ASSUME NEW d \in Conns, peer[d] = "away" PROVE d # c
    BY <2>1 DEF NInv, Accepting, c
  <2> QED BY <1>1, <1>7, <2>1 DEF NInv, Accepting
<1>14. Serving'
  <2>1. ASSUME NEW j \in Index, Held(j)' PROVE item'[j].sock \in Conns \ ended'
    <3>1. Held(j) /\ j # i /\ item'[j].sock = item[j].sock
      BY <1>7, <1>10, <2>1
    <3>2. item[j].sock # c
      BY <1>3, <3>1 DEF NInv, Serving, c
    <3>3. item[j].sock \in Conns \ ended
      BY <3>1 DEF NInv, Serving
    <3> QED BY <1>1, <3>1, <3>2, <3>3
  <2>2. ASSUME NEW j \in Index, NEW k \in Index, Held(j)', Held(k)',
               item'[j].sock = item'[k].sock
        PROVE  j = k
    BY <1>7, <1>10, <2>2 DEF NInv, Serving
  <2>3. ASSUME NEW j \in Index, Opening(j)' PROVE item'[j].place = "none"
    BY <1>6, <1>9, <2>3 DEF NInv, Serving
  <2> QED BY <2>1, <2>2, <2>3 DEF Serving
<1>15. Reading'
  <2>1. ASSUME NEW j \in Index, Known(j) PROVE Known(j)'
    <3>1. CASE j = i
      BY <1>1, <1>5, <1>6, <3>1 DEF Known
    <3>2. CASE j # i
      BY <1>1, <1>6, <2>1, <3>2 DEF Known
    <3> QED BY <3>1, <3>2
  <2>2. ASSUME NEW j \in Index, item'[j].reads > 0
        PROVE  Known(j)' /\ item'[j].sock \in Conns
    <3>1. item[j].reads > 0
      BY <1>5, <1>6, <2>2
    <3> QED BY <1>7, <2>1, <3>1 DEF NInv, Reading
  <2>3. ASSUME NEW j \in Index, (opening # None /\ opening.i = j /\ opening.at = "start")'
        PROVE  Known(j)'
    BY <2>1, <2>3 DEF NInv, Reading
  <2> QED BY <2>2, <2>3 DEF Reading
<1>16. Events!Shut(i)
  <2>1. attached[i] = c /\ c # None
    BY <1>4, NetworkAssumption DEF attached, Attached, Conns, c
  <2>2. attached' = [attached EXCEPT ![i] = None]
    <3>1. \A j \in Index : Attached(j)' = IF j = i THEN None ELSE Attached(j)
      BY <1>5, <1>6 DEF Attached
    <3> QED BY <3>1 DEF attached
  <2> QED BY <1>1, <2>1, <2>2 DEF Events!Shut, Events!Post, attached
<1>17. Tells
  BY <1>16 DEF Tells, Events!EventsNext
<1> QED BY <1>11, <1>12, <1>13, <1>14, <1>15, <1>17 DEF NInv

\* A step that changes the place of an item to one that is as good
LEMMA MovedKeeps ==
  ASSUME NInv, NEW i \in Index, NEW p \in {"none", "new", "live", "shut"},
         item' = [item EXCEPT ![i].place = p],
         <<item[i].place, p>> \in {<<"new", "live">>, <<"shut", "none">>},
         UNCHANGED <<peer, opening, ended>>, curIndex' = curIndex
  PROVE  /\ item' \in [Index -> ItemType]
         /\ Accepting' /\ Serving' /\ Reading' /\ attached' = attached
         /\ item'[i].place = p /\ ~Opening(i) /\ \A j \in Index \ {i} : item'[j] = item[j]
<1> DEFINE q == [item[i] EXCEPT !.place = p]
<1>1. item \in [Index -> ItemType] /\ item[i] \in ItemType
  BY DEF NInv, TypeOK
<1>2. q \in ItemType /\ q.sock = item[i].sock /\ q.place = p /\ q.reads = item[i].reads
  BY <1>1 DEF ItemType
<1>3. item' = [item EXCEPT ![i] = q]
  OBVIOUS
<1> HIDE DEF q
<1>4. item' \in [Index -> ItemType] /\ item'[i] = q /\ \A j \in Index \ {i} : item'[j] = item[j]
  BY <1>1, <1>2, <1>3
<1>5. \A j \in Index : item'[j].sock = item[j].sock
  BY <1>2, <1>4
<1>6. ~Opening(i)
  BY DEF NInv, Serving
<1>7. ASSUME NEW j \in Index PROVE Opening(j)' <=> Opening(j)
  BY DEF Opening
<1>8. \A j \in Index : Opening(j)' => Opening(j)
  BY <1>7
<1>9. ASSUME NEW j \in Index
      PROVE  item'[j].place \in {"new", "live"} <=> item[j].place \in {"new", "live"}
  BY <1>2, <1>4
<1>10. \A j \in Index : Held(j)' => Held(j)
  BY <1>8, <1>9 DEF Held
<1>11. Accepting'
  BY <1>5 DEF NInv, Accepting
<1>12. Serving'
  <2>1. ASSUME NEW j \in Index, Held(j)' PROVE item'[j].sock \in Conns \ ended'
    BY <1>5, <1>10, <2>1 DEF NInv, Serving
  <2>2. ASSUME NEW j \in Index, NEW k \in Index, Held(j)', Held(k)',
               item'[j].sock = item'[k].sock
        PROVE  j = k
    BY <1>5, <1>10, <2>2 DEF NInv, Serving
  <2>3. ASSUME NEW j \in Index, Opening(j)' PROVE item'[j].place = "none"
    BY <1>4, <1>6, <1>8, <2>3 DEF NInv, Serving
  <2> QED BY <2>1, <2>2, <2>3 DEF Serving
<1>13. Reading'
  <2>1. ASSUME NEW j \in Index, Known(j) PROVE Known(j)'
    BY <1>5, <1>9, <2>1 DEF Known
  <2>2. ASSUME NEW j \in Index, item'[j].reads > 0
        PROVE  Known(j)' /\ item'[j].sock \in Conns
    <3>1. item[j].reads > 0
      BY <1>2, <1>4, <2>2
    <3> QED BY <1>5, <2>1, <3>1 DEF NInv, Reading
  <2>3. ASSUME NEW j \in Index, (opening # None /\ opening.i = j /\ opening.at = "start")'
        PROVE  Known(j)'
    BY <2>1, <2>3 DEF NInv, Reading
  <2> QED BY <2>2, <2>3 DEF Reading
<1>14. attached' = attached
  BY <1>5, <1>9 DEF attached, Attached
<1> QED BY <1>2, <1>4, <1>6, <1>11, <1>12, <1>13, <1>14

LEMMA AddNewSocketsKeeps ==
  ASSUME NInv, NEW i \in Index, AddNewSockets(i)
  PROVE  NInv' /\ Tells
<1>1. CASE ~IsOpen(item[i])
  BY <1>1, SocketRemovedKeeps DEF AddNewSockets, SocketRemoved
<1>2. CASE IsOpen(item[i])
  <2>1. item[i].place = "new" /\ item' = [item EXCEPT ![i].place = "live"]
        /\ UNCHANGED <<peer, got, store, free, batch, curIndex, opening, requests, current, events,
                       bound, asked, arrived, ended>>
    BY <1>2 DEF AddNewSockets, store_vars, sink_vars
  <2>2. /\ item' \in [Index -> ItemType]
        /\ Accepting' /\ Serving' /\ Reading' /\ attached' = attached
        /\ item'[i].place = "live" /\ ~Opening(i) /\ \A j \in Index \ {i} : item'[j] = item[j]
    <3>1. <<item[i].place, "live">> \in {<<"new", "live">>, <<"shut", "none">>}
      BY <2>1
    <3>2. UNCHANGED <<peer, opening, ended>> /\ curIndex' = curIndex
      BY <2>1
    <3> QED BY <2>1, <3>1, <3>2, MovedKeeps
  <2>3. TypeOK'
    BY <2>1, <2>2 DEF NInv, TypeOK
  <2>4. Store'
    <3>1. ASSUME NEW j \in Index
          PROVE  j \in store' <=> item'[j].place # "none" \/ Opening(j)'
      BY <2>1, <2>2 DEF NInv, Store, Opening
    <3>2. free' \in Seq(Index) /\ IsInjective(free')
          /\ Range(free') \cap store' = {} /\ Range(free') \cup store' = 0 .. curIndex' - 1
      BY <2>1 DEF NInv, Store
    <3> QED BY <3>1, <3>2 DEF Store
  <2> QED BY <2>1, <2>2, <2>3, <2>4 DEF NInv, Tells
<1> QED BY <1>1, <1>2

LEMMA UpdateKeeps ==
  ASSUME NInv, NEW i \in Index, Update(i)
  PROVE  NInv' /\ Tells
<1>1. CASE SocketRemoved(i) /\ UNCHANGED got
  BY <1>1, SocketRemovedKeeps DEF Update
<1>2. CASE HandleQueue(i, item[i], TRUE) /\ UNCHANGED <<events, ended, store_vars>>
  <2>1. item[i] \in ItemType /\ arrived \in 0 .. MaxWork - asked
    BY DEF NInv, TypeOK
  <2>2. Serves(item[i], item[i])
    BY <2>1, ServesItself
  <2> QED BY <1>2, <2>1, <2>2, QueueIsHandled DEF Update
<1> QED BY <1>1, <1>2 DEF Update

LEMMA FreeNetworkItemKeeps ==
  ASSUME NInv, NEW i \in Index, FreeNetworkItem(i)
  PROVE  NInv' /\ Tells
<1>1. /\ item[i].place = "shut" /\ item' = [item EXCEPT ![i].place = "none"]
      /\ store' = store \ {i} /\ batch' = batch \ {i} /\ free' = Append(free, i)
      /\ UNCHANGED <<peer, got, curIndex, opening, requests, current, events, bound, asked,
                     arrived, ended>>
  BY DEF FreeNetworkItem, sink_vars
<1>2. /\ item' \in [Index -> ItemType]
      /\ Accepting' /\ Serving' /\ Reading' /\ attached' = attached
      /\ item'[i].place = "none" /\ ~Opening(i) /\ \A j \in Index \ {i} : item'[j] = item[j]
  <2>1. <<item[i].place, "none">> \in {<<"new", "live">>, <<"shut", "none">>}
    BY <1>1
  <2>2. UNCHANGED <<peer, opening, ended>> /\ curIndex' = curIndex
    BY <1>1
  <2> QED BY <1>1, <2>1, <2>2, MovedKeeps
<1>3. /\ free \in Seq(Index) /\ IsInjective(free)
      /\ Range(free) \cap store = {} /\ Range(free) \cup store = 0 .. curIndex - 1
      /\ i \in store
  BY <1>1 DEF NInv, Store
<1>4. i \notin Range(free)
  BY <1>3
<1>5. /\ free' \in Seq(Index) /\ IsInjective(free') /\ Range(free') = Range(free) \cup {i}
  <2>1. /\ Append(free, i) \in Seq(Index) /\ IsInjective(Append(free, i))
        /\ Range(Append(free, i)) = Range(free) \cup {i}
    BY <1>3, <1>4, PutOnList
  <2> QED BY <1>1, <2>1
<1>6. TypeOK'
  <2>1. store' \cup batch' \cup Range(free') \subseteq Index
    BY <1>1, <1>5 DEF NInv, TypeOK
  <2> QED BY <1>1, <1>2, <2>1 DEF NInv, TypeOK
<1>7. Store'
  <2>1. ASSUME NEW j \in Index
        PROVE  j \in store' <=> item'[j].place # "none" \/ Opening(j)'
    BY <1>1, <1>2 DEF NInv, Store, Opening
  <2>2. Range(free') \cap store' = {} /\ Range(free') \cup store' = 0 .. curIndex' - 1
    BY <1>1, <1>3, <1>4, <1>5
  <2> QED BY <1>5, <2>1, <2>2 DEF Store
<1> QED BY <1>1, <1>2, <1>6, <1>7 DEF NInv, Tells

-----------------------------------------------------------------------------
(* The theorems                                                            *)

LEMMA InitHolds == Init => NInv /\ Events!EventsInit
<1> SUFFICES ASSUME Init PROVE NInv /\ Events!EventsInit
  OBVIOUS
<1> DEFINE it == [NewItem(None) EXCEPT !.open = FALSE]
<1>1. item = [i \in Index |-> it]
  BY DEF Init
<1>2. it \in ItemType /\ it.place = "none" /\ it.reads = 0 /\ it.sock = None
  <2> DEFINE new == NewItem(None)
  <2>1. new \in ItemType /\ new.place = "none" /\ new.reads = 0 /\ new.sock = None
    BY DEF NewItem, ItemType
  <2> HIDE DEF new
  <2>2. [new EXCEPT !.open = FALSE] \in ItemType
        /\ [new EXCEPT !.open = FALSE].place = "none"
        /\ [new EXCEPT !.open = FALSE].reads = 0 /\ [new EXCEPT !.open = FALSE].sock = None
    BY <2>1 DEF ItemType
  <2> QED BY <2>2 DEF new
<1> HIDE DEF it
<1>3. item \in [Index -> ItemType]
      /\ \A i \in Index : item[i].place = "none" /\ item[i].reads = 0 /\ item[i].sock = None
  BY <1>1, <1>2
<1>4. Range(free) = {} /\ free \in Seq(Index) /\ IsInjective(free)
  BY DEF Init, Range, IsInjective
<1>5. TypeOK
  <2>1. 0 \in 0 .. MaxConns /\ 0 \in 0 .. MaxWork /\ 0 \in 0 .. MaxWork - 0
    BY NetworkAssumption
  <2>2. peer \in [Conns -> {"away", "here", "gone"}] /\ got \in [Conns -> Seq(Messages)]
        /\ bound \in [Index -> Conns \cup {None}]
    BY DEF Init
  <2>3. requests \in Seq(Requests)
        /\ events \in Seq([kind : {"bind", "read", "shut"}, i : Index, c : Conns])
    BY DEF Init
  <2>4. store \cup batch \cup Range(free) \subseteq Index
    BY <1>4 DEF Init
  <2> QED BY <1>3, <2>1, <2>2, <2>3, <2>4 DEF Init, TypeOK
<1>6. \A i : ~Opening(i)
  BY DEF Init, Opening
<1>7. Store
  <2>1. 0 .. curIndex - 1 = {}
    BY DEF Init
  <2> QED BY <1>3, <1>4, <1>6, <2>1 DEF Init, Store
<1>8. Accepting
  <2>1. \A c \in Conns : 0 < c /\ c # None
    BY NetworkAssumption DEF Conns
  <2>2. \A c \in Conns : peer[c] = "away"
    BY DEF Init
  <2> QED BY <1>3, <2>1, <2>2 DEF Init, Accepting
<1>9. Serving
  BY <1>3, <1>6 DEF Serving, Held
<1>10. Reading
  <2>1. \A i \in Index : ~(item[i].reads > 0)
    BY <1>3
  <2>2. opening = None
    BY DEF Init
  <2> QED BY <2>1, <2>2 DEF Reading
<1>11. Events!EventsInit
  <2>1. attached = [i \in Index |-> None]
    BY <1>3 DEF attached, Attached
  <2> QED BY <2>1 DEF Init, Events!EventsInit, attached
<1> QED BY <1>5, <1>7, <1>8, <1>9, <1>10, <1>11 DEF NInv

LEMMA NextHolds == NInv /\ [Next]_vars => NInv' /\ Tells
<1> SUFFICES ASSUME NInv, [Next]_vars PROVE NInv' /\ Tells
  OBVIOUS
<1>1. CASE Acceptor
  BY <1>1, ActiveNetworkItemKeeps, AddSocketKeeps, StartKeeps DEF Acceptor
<1>2. ASSUME NEW i \in Index, Network(i) PROVE NInv' /\ Tells
  BY <1>2, AddNewSocketsKeeps, UpdateKeeps, FreeNetworkItemKeeps, ReadHandlerKeeps,
     ReadHandlerInternalKeeps, WriteHandlerKeeps DEF Network
<1>3. CASE Asynch
  BY <1>3, AsynchKeeps
<1>4. CASE HandleEvent
  BY <1>4, HandleEventKeeps
<1>5. CASE PostRequest
  BY <1>5, PostRequestKeeps
<1>6. ASSUME NEW c \in Conns, PeerLeaves(c) PROVE NInv' /\ Tells
  BY <1>6, PeerLeavesKeeps
<1>7. CASE UNCHANGED vars
  <2>1. UNCHANGED <<peer, got, item, store, free, batch, curIndex, opening, requests, current,
                    events, bound, asked, arrived, ended>>
    BY <1>7 DEF vars, store_vars, sink_vars
  <2>2. TypeOK'
    BY <2>1 DEF NInv, TypeOK
  <2>3. Quiet
    BY <2>1, NoItem DEF Quiet, NInv, TypeOK
  <2> QED BY <2>1, <2>2, <2>3, QuietStep
<1> QED BY <1>1, <1>2, <1>3, <1>4, <1>5, <1>6, <1>7 DEF Next

\* Whatever the threads do and however many connections come and go, an index is
\* in exactly one of the store and the free list, once, and no item is given to
\* a connection while a thread has it in hand for another.
THEOREM StoreStaysExact == Spec => []StoreIsExact
<1>1. NInv => StoreIsExact
  <2> SUFFICES ASSUME NInv PROVE StoreIsExact
    OBVIOUS
  <2>1. Cardinality(Range(free)) = Len(free)
    BY ListCounted DEF NInv, Store
  <2> QED BY <2>1 DEF NInv, Store, Opening, StoreIsExact
<1> QED BY <1>1, InitHolds, NextHolds, PTL DEF Spec

\* The events of the engine are those of ConnectionEvents: under each index Bind
\* and Shut alternate, a connection has one of each, and what is read under an
\* index belongs to a connection the sink was told of.
THEOREM EngineImplementsEvents == Spec => Implements
<1>1. Tells => [Events!EventsNext]_<<events, [i \in Index |-> Attached(i)], ended>>
  BY DEF Tells, attached
<1> QED BY <1>1, InitHolds, NextHolds, PTL DEF Spec, Implements, Events!EventsSpec

-----------------------------------------------------------------------------
(* What the operations do to the messages of an item, and to what waits    *)
(* for a handler                                                           *)

\* A handler is to run for what waits for one.
Woken(it) == it.writing => it.writes + it.lateWrites > 0
Watched(it) == it.place \in {"new", "live"} /\ IsOpen(it) => it.reads + it.lateReads >= 1

\* An operation leaves nothing waiting that was not.
Minds(it, q) == (Woken(it) => Woken(q)) /\ (Watched(it) => Watched(q))

LEMMA AbortIs ==
  ASSUME NEW it \in ItemType
  PROVE  LET q == Abort(it) IN
         /\ q.sock = it.sock /\ q.wq = it.wq /\ q.place = it.place
         /\ q.closed = it.closed /\ q.closing = it.closing /\ q.writing = it.writing
         /\ q.reads + q.lateReads = it.reads + it.lateReads
         /\ q.writes + q.lateWrites = it.writes + it.lateWrites
<1> DEFINE r == it.lateReads + it.reads
           w == it.lateWrites + it.writes
           none == 0
           q == [it EXCEPT !.open = FALSE, !.reads = none, !.writes = none,
                           !.lateReads = r, !.lateWrites = w]
<1>1. r \in Nat /\ w \in Nat /\ none = 0 /\ r = it.reads + it.lateReads /\ w = it.writes + it.lateWrites
  BY DEF ItemType
<1>2. Abort(it) = q
  BY DEF Abort
<1> HIDE DEF r, w, none
<1>3. /\ q.sock = it.sock /\ q.wq = it.wq /\ q.place = it.place
      /\ q.closed = it.closed /\ q.closing = it.closing /\ q.writing = it.writing
      /\ q.reads = none /\ q.lateReads = r /\ q.writes = none /\ q.lateWrites = w
  BY DEF ItemType
<1> HIDE DEF q
<1> QED BY <1>1, <1>2, <1>3

LEMMA AbortMinds ==
  ASSUME NEW it \in ItemType
  PROVE  Minds(it, Abort(it)) /\ Abort(it).sock = it.sock /\ Abort(it).wq = it.wq
BY AbortIs DEF Minds, Woken, Watched, IsOpen

LEMMA CloseSocketMinds ==
  ASSUME NEW it \in ItemType
  PROVE  LET q == CloseSocket(it) IN
         /\ Woken(it) => Woken(q)
         /\ Watched(q) /\ q.closed /\ q.sock = it.sock /\ q.wq = it.wq /\ q.place = it.place
<1> DEFINE q == [it EXCEPT !.closed = TRUE]
<1>1. q \in ItemType /\ q.sock = it.sock /\ q.wq = it.wq /\ q.place = it.place /\ q.closed
      /\ q.writing = it.writing /\ q.writes = it.writes /\ q.lateWrites = it.lateWrites
  BY DEF ItemType
<1>2. CloseSocket(it) = IF it.closed THEN it ELSE Abort(q)
  BY DEF CloseSocket
<1> HIDE DEF q
<1>3. CASE it.closed
  BY <1>2, <1>3 DEF Watched, IsOpen
<1>4. CASE ~it.closed
  <2> PICK p : p = Abort(q)
    OBVIOUS
  <2>1. /\ p.sock = q.sock /\ p.wq = q.wq /\ p.place = q.place
        /\ p.closed = q.closed /\ p.writing = q.writing
        /\ p.writes + p.lateWrites = q.writes + q.lateWrites
    BY <1>1, AbortIs
  <2>2. CloseSocket(it) = p
    BY <1>2, <1>4
  <2>3. (Woken(it) => Woken(p)) /\ Watched(p)
    BY <1>1, <2>1 DEF Woken, Watched, IsOpen
  <2> QED BY <1>1, <2>1, <2>2, <2>3
<1> QED BY <1>3, <1>4

LEMMA PoppedMinds ==
  ASSUME NEW it \in ItemType, it.wq # <<>>, NEW again \in BOOLEAN
  PROVE  LET q == Popped(it, again) IN
         Minds(it, q) /\ q.sock = it.sock /\ q.wq = Tail(it.wq) /\ q.place = it.place
<1> DEFINE w == Tail(it.wq)
           l == again /\ Len(it.wq) > 1
           q == [it EXCEPT !.wq = w, !.looping = l]
<1>1. w \in Seq(Messages) /\ l \in BOOLEAN /\ w = Tail(it.wq)
  BY DEF ItemType
<1>2. Popped(it, again) = IF q.closing /\ q.wq = <<>> THEN CloseSocket(q) ELSE q
  BY DEF Popped
<1> HIDE DEF w, l
<1>3. q \in ItemType /\ q.sock = it.sock /\ q.place = it.place /\ q.wq = w
      /\ q.reads = it.reads /\ q.writes = it.writes /\ q.closed = it.closed
      /\ q.lateReads = it.lateReads /\ q.lateWrites = it.lateWrites /\ q.writing = it.writing
      /\ q.closing = it.closing
  BY <1>1 DEF ItemType
<1> HIDE DEF q
<1>4. Minds(it, q)
  BY <1>3 DEF Minds, Woken, Watched, IsOpen
<1> PICK p : p = CloseSocket(q)
  OBVIOUS
<1>5. (Woken(q) => Woken(p)) /\ Watched(p) /\ p.sock = q.sock /\ p.wq = q.wq /\ p.place = q.place
  BY <1>3, CloseSocketMinds
<1>6. Minds(it, p)
  BY <1>4, <1>5 DEF Minds
<1>7. CASE q.closing /\ q.wq = <<>>
  <2>1. Popped(it, again) = p
    BY <1>2, <1>7
  <2> QED BY <1>1, <1>3, <1>5, <1>6, <2>1
<1>8. CASE ~(q.closing /\ q.wq = <<>>)
  <2>1. Popped(it, again) = q
    BY <1>2, <1>8
  <2> QED BY <1>1, <1>3, <1>4, <2>1
<1> QED BY <1>7, <1>8

\* After a read was started, or not, one is pending if the connection is open.
LEMMA AsyncReadMinds ==
  ASSUME NEW it \in ItemType
  PROVE  LET q == AsyncRead(it) IN
         /\ Woken(it) => Woken(q)
         /\ Watched(q) /\ q.sock = it.sock /\ q.wq = it.wq /\ q.place = it.place
<1> DEFINE r == it.reads + 1
           l == it.lateReads + 1
           p == [it EXCEPT !.reads = r]
           q == [it EXCEPT !.lateReads = l]
<1>1. /\ r \in Nat /\ l \in Nat /\ it.reads \in Nat /\ it.lateReads \in Nat
      /\ r = it.reads + 1 /\ l = it.lateReads + 1
  BY DEF ItemType
<1>2. AsyncRead(it) = IF ~IsOpen(it) THEN it ELSE IF it.open THEN p ELSE q
  BY DEF AsyncRead
<1> HIDE DEF r, l
<1>3. /\ p.sock = it.sock /\ p.place = it.place /\ p.wq = it.wq /\ p.writing = it.writing
      /\ p.writes = it.writes /\ p.lateWrites = it.lateWrites
      /\ p.reads = r /\ p.lateReads = it.lateReads
  BY DEF ItemType
<1>4. /\ q.sock = it.sock /\ q.place = it.place /\ q.wq = it.wq /\ q.writing = it.writing
      /\ q.writes = it.writes /\ q.lateWrites = it.lateWrites
      /\ q.reads = it.reads /\ q.lateReads = l
  BY DEF ItemType
<1> HIDE DEF p, q
<1>5. CASE ~IsOpen(it)
  BY <1>2, <1>5 DEF Watched
<1>6. CASE IsOpen(it) /\ it.open
  <2>1. AsyncRead(it) = p
    BY <1>2, <1>6
  <2>2. (Woken(it) => Woken(p)) /\ Watched(p)
    BY <1>1, <1>3 DEF Woken, Watched
  <2> QED BY <1>3, <2>1, <2>2
<1>7. CASE IsOpen(it) /\ ~it.open
  <2>1. AsyncRead(it) = q
    BY <1>2, <1>7
  <2>2. (Woken(it) => Woken(q)) /\ Watched(q)
    BY <1>1, <1>4 DEF Woken, Watched
  <2> QED BY <1>4, <2>1, <2>2
<1> QED BY <1>5, <1>6, <1>7

-----------------------------------------------------------------------------
(* What a step does to the messages, and to what waits for a handler       *)

Attended(i) == Woken(item[i]) /\ (Watched(item[i]) \/ (opening # None /\ opening.i = i))

Minding == \A i \in Index : Attended(i) => Attended(i)'

\* Every message stays where it is, and every item serves whom it served.
Unmoved ==
  /\ \A i \in Index : item'[i].sock = item[i].sock /\ item'[i].wq = item[i].wq
  /\ \A i \in Index : Held(i) => Held(i)' \/ item[i].sock \in ended'
  /\ UNCHANGED <<got, requests, bound, asked>> /\ ended \subseteq ended'
  /\ current' # None => /\ current # None /\ current'.i = current.i
                        /\ current'.c = current.c /\ current'.n = current.n
  /\ events' = events \/ \E e : /\ e.i \in Index /\ e.c = item[e.i].sock
                                /\ events' = Append(events, e)
  /\ \A c \in Conns : peer'[c] = "away" => peer[c] = "away"

\* Connection c is served by item i, which served nobody.
Accepted(i, c) ==
  /\ ~Held(i) /\ Held(i)' /\ item'[i].sock = c /\ item'[i].wq \in {<<>>, item[i].wq}
  /\ \A j \in Index \ {i} : item'[j] = item[j] /\ (Held(j)' <=> Held(j))
  /\ peer[c] = "away" /\ peer' = [peer EXCEPT ![c] = "here"]
  /\ UNCHANGED <<got, requests, current, events, bound, asked, ended>>

\* The first message of item i is done with, sent or not.
Sent(i) ==
  /\ item[i].wq # <<>> /\ item'[i].wq = Tail(item[i].wq)
  /\ \A j \in Index : /\ item'[j].sock = item[j].sock /\ (Held(j)' <=> Held(j))
                      /\ j # i => item'[j].wq = item[j].wq
  /\ \/ UNCHANGED got
     \/ /\ item[i].sock \in Conns /\ peer[item[i].sock] = "here"
        /\ got' = [got EXCEPT ![item[i].sock] = Append(@, Head(item[i].wq))]
  /\ UNCHANGED <<peer, requests, current, events, bound, asked, ended>>

Moves ==
  \/ Unmoved
  \/ \E i \in Index, c \in Conns : Accepted(i, c)
  \/ \E i \in Index : Sent(i)
  \/ TakeRequest \/ OnSendData \/ HandleEvent \/ PostRequest

LEMMA OneIsMinded ==
  ASSUME item \in [Index -> ItemType], NEW i \in Index, NEW q, Minds(item[i], q),
         item' = [item EXCEPT ![i] = q], opening' = opening
  PROVE  Minding
<1> SUFFICES ASSUME NEW j \in Index, Attended(j) PROVE Attended(j)'
  BY DEF Minding
<1>1. item'[j] = IF j = i THEN q ELSE item[j]
  OBVIOUS
<1>2. Minds(item[j], item'[j])
  BY <1>1 DEF Minds
<1> QED BY <1>2 DEF Attended, Minds

\* The message stays with the request.
Continues ==
  current' # None => /\ current # None /\ current'.i = current.i
                     /\ current'.c = current.c /\ current'.n = current.n

LEMMA OneIsUnmoved ==
  ASSUME NInv, NEW i \in Index, NEW q, Minds(item[i], q),
         q.sock = item[i].sock, q.wq = item[i].wq, q.place = item[i].place,
         item' = [item EXCEPT ![i] = q], Continues,
         UNCHANGED <<peer, got, opening, requests, bound, asked, ended>>,
         events' = events \/ \E e : /\ e.i \in Index /\ e.c = item[e.i].sock
                                    /\ events' = Append(events, e)
  PROVE  Minding /\ Unmoved
<1>1. item \in [Index -> ItemType]
  BY DEF NInv, TypeOK
<1>2. Minding
  BY <1>1, OneIsMinded
<1>3. \A j \in Index : item'[j].sock = item[j].sock /\ item'[j].wq = item[j].wq
                       /\ item'[j].place = item[j].place
  BY <1>1
<1>4. \A j \in Index : Held(j) => Held(j)'
  BY <1>3 DEF Held, Opening
<1>5. Unmoved
  BY <1>3, <1>4 DEF Unmoved, Continues
<1> QED BY <1>2, <1>5

LEMMA HandleQueueMoves ==
  ASSUME NInv, NEW i \in Index, NEW it \in ItemType, Minds(item[i], it),
         it.sock = item[i].sock, it.wq = item[i].wq, it.place = item[i].place,
         NEW again \in BOOLEAN, HandleQueue(i, it, again),
         UNCHANGED <<peer, opening, requests, current, events, bound, asked, ended>>
  PROVE  Minding /\ (Unmoved \/ Sent(i))
<1>1. item \in [Index -> ItemType] /\ got \in [Conns -> Seq(Messages)]
  BY DEF NInv, TypeOK
<1>2. Continues
  BY DEF Continues
<1>3. CASE item' = [item EXCEPT ![i] = [it EXCEPT !.looping = FALSE]] /\ UNCHANGED got
  <2> DEFINE q == [it EXCEPT !.looping = FALSE]
  <2>1. /\ q.sock = it.sock /\ q.wq = it.wq /\ q.place = it.place
        /\ q.closed = it.closed /\ q.closing = it.closing
        /\ q.reads = it.reads /\ q.lateReads = it.lateReads /\ q.writing = it.writing
        /\ q.writes = it.writes /\ q.lateWrites = it.lateWrites
    BY DEF ItemType
  <2>2. item' = [item EXCEPT ![i] = q]
    BY <1>3
  <2> HIDE DEF q
  <2>3. Minds(item[i], q)
    BY <2>1 DEF Minds, Woken, Watched, IsOpen
  <2> QED BY <1>2, <1>3, <2>1, <2>2, <2>3, OneIsUnmoved
<1>4. CASE item' = [item EXCEPT ![i] = [it EXCEPT !.writing = TRUE, !.writes = @ + 1,
                                                 !.looping = FALSE]]
           /\ UNCHANGED got
  <2> DEFINE w == it.writes + 1
             q == [it EXCEPT !.writing = TRUE, !.writes = w, !.looping = FALSE]
  <2>1. w = it.writes + 1 /\ it.writes \in Nat /\ it.lateWrites \in Nat
    BY DEF ItemType
  <2>2. item' = [item EXCEPT ![i] = q]
    BY <1>4
  <2> HIDE DEF w
  <2>3. /\ q.sock = it.sock /\ q.wq = it.wq /\ q.place = it.place
        /\ q.closed = it.closed /\ q.closing = it.closing
        /\ q.reads = it.reads /\ q.lateReads = it.lateReads
        /\ q.writes = w /\ q.lateWrites = it.lateWrites
    BY DEF ItemType
  <2> HIDE DEF q
  <2>4. Minds(item[i], q)
    BY <2>1, <2>3 DEF Minds, Woken, Watched, IsOpen
  <2> QED BY <1>2, <1>4, <2>2, <2>3, <2>4, OneIsUnmoved
<1>5. ASSUME NEW b \in BOOLEAN, it.wq # <<>>, item' = [item EXCEPT ![i] = Popped(it, b)],
             \/ UNCHANGED got
             \/ got' = IF peer[it.sock] = "here"
                       THEN [got EXCEPT ![it.sock] = Append(@, Head(it.wq))] ELSE got
      PROVE  Minding /\ Sent(i)
  <2> PICK q : q = Popped(it, b)
    OBVIOUS
  <2>1. Minds(it, q) /\ q.sock = it.sock /\ q.wq = Tail(it.wq) /\ q.place = it.place
    BY <1>5, PoppedMinds
  <2>2. Minding
    <3>1. Minds(item[i], q)
      BY <2>1 DEF Minds
    <3> QED BY <1>1, <1>5, <3>1, OneIsMinded
  <2>3. \A j \in Index : /\ item'[j].sock = item[j].sock /\ item'[j].place = item[j].place
                         /\ j # i => item'[j].wq = item[j].wq
    BY <1>1, <1>5, <2>1
  <2>4. item'[i].wq = Tail(item[i].wq)
    BY <1>1, <1>5, <2>1
  <2>5. \A j \in Index : Held(j)' <=> Held(j)
    BY <2>3 DEF Held, Opening
  <2>6. \/ UNCHANGED got
        \/ /\ item[i].sock \in Conns /\ peer[item[i].sock] = "here"
           /\ got' = [got EXCEPT ![item[i].sock] = Append(@, Head(item[i].wq))]
    <3>1. CASE item[i].sock \in Conns
      BY <1>5, <3>1
    <3>2. CASE item[i].sock \notin Conns
      <4>1. [got EXCEPT ![it.sock] = Append(@, Head(it.wq))] = got
        BY <1>1, <3>2
      <4> QED BY <1>5, <4>1
    <3> QED BY <3>1, <3>2
  <2>7. Sent(i)
    BY <1>5, <2>3, <2>4, <2>5, <2>6 DEF Sent
  <2> QED BY <2>2, <2>7
<1> QED BY <1>3, <1>4, <1>5 DEF HandleQueue

LEMMA AcceptedMoves ==
  ASSUME NInv, NInv', NEW c \in Conns, ActiveNetworkItem(c)
  PROVE  Minding /\ \E i \in Index : Accepted(i, c)
<1> PICK i : i = IF free = <<>> THEN curIndex ELSE Head(free)
  OBVIOUS
<1> PICK q : q = IF free = <<>> THEN NewItem(c) ELSE Attach(item[i], c)
  OBVIOUS
<1>1. /\ opening = None /\ peer[c] = "away" /\ (c > 1 => peer[c - 1] # "away")
      /\ peer' = [peer EXCEPT ![c] = "here"] /\ item' = [item EXCEPT ![i] = q]
      /\ store' = store \cup {i} /\ opening' = [at |-> "add", i |-> i]
  BY DEF ActiveNetworkItem
<1>2. UNCHANGED <<got, batch, requests, current, events, bound, asked, arrived, ended>>
  BY DEF ActiveNetworkItem, sink_vars
<1>3. curIndex < c /\ c \notin ended /\ \A j \in Index : item[j].sock # c
  BY <1>1 DEF NInv, Accepting
<1>4. i \in Index /\ item[i].place = "none"
  BY <1>1, <1>3, IndexIsTaken
<1>5. item \in [Index -> ItemType] /\ item[i] \in ItemType
  BY <1>4 DEF NInv, TypeOK
<1>6. q.sock = c /\ q.wq \in {<<>>, item[i].wq} /\ Woken(q)
  <2>1. NewItem(c).sock = c /\ NewItem(c).wq = <<>> /\ ~NewItem(c).writing
    BY DEF NewItem
  <2> PICK a : a = Abort(item[i])
    OBVIOUS
  <2>2. a.wq = item[i].wq /\ a \in ItemType
    BY <1>5, AbortIs, AbortServes DEF Serves
  <2> DEFINE t == [a EXCEPT !.sock = c, !.open = TRUE,
                            !.closed = FALSE, !.closing = FALSE, !.writing = FALSE]
  <2>3. Attach(item[i], c) = t
    BY DEF Attach
  <2>4. t.sock = c /\ t.wq = item[i].wq /\ t.writing = FALSE
    BY <2>2 DEF ItemType
  <2> HIDE DEF t
  <2> QED BY <2>1, <2>3, <2>4 DEF Woken
<1>7. opening' # None /\ opening'.i = i /\ opening'.at = "add" /\ \A j : ~Opening(j)
  <2>1. opening' # None
    BY <1>1, <1>4, NetworkAssumption DEF Index
  <2> QED BY <1>1, <2>1 DEF Opening
<1>8. item'[i] = q /\ \A j \in Index \ {i} : item'[j] = item[j]
  BY <1>1, <1>4, <1>5
<1>9. Minding
  <2> SUFFICES ASSUME NEW j \in Index, Attended(j) PROVE Attended(j)'
    BY DEF Minding
  <2>1. CASE j = i
    BY <1>6, <1>7, <1>8, <2>1 DEF Attended
  <2>2. CASE j # i
    BY <1>1, <1>8, <2>2 DEF Attended
  <2> QED BY <2>1, <2>2
<1>10. ASSUME NEW j \in Index PROVE (Opening(j)' <=> j = i) /\ ~Opening(j)
  BY <1>7 DEF Opening
<1>11. ~Held(i) /\ Held(i)'
  <2>1. Opening(i)' /\ ~Opening(i)
    BY <1>4, <1>7 DEF Opening
  <2> QED BY <1>4, <2>1 DEF Held
<1>12. \A j \in Index \ {i} : Held(j)' <=> Held(j)
  <2> SUFFICES ASSUME NEW j \in Index, j # i PROVE Held(j)' <=> Held(j)
    OBVIOUS
  <2> QED BY <1>8, <1>10 DEF Held
<1>13. Accepted(i, c)
  BY <1>1, <1>2, <1>6, <1>8, <1>11, <1>12 DEF Accepted
<1> QED BY <1>4, <1>9, <1>13

LEMMA AddSocketMoves ==
  ASSUME NInv, NInv', AddSocket
  PROVE  Minding /\ Unmoved
<1> PICK i : i = opening.i
  OBVIOUS
<1> DEFINE q == [item[i] EXCEPT !.place = "new"]
<1>1. /\ opening # None /\ opening.at = "add" /\ item' = [item EXCEPT ![i] = q]
      /\ opening' = [opening EXCEPT !.at = "start"]
      /\ events' = Append(events, [kind |-> "bind", i |-> i, c |-> item[i].sock])
      /\ UNCHANGED <<peer, got, requests, current, bound, asked, ended>>
  BY DEF AddSocket, Post, sink_vars
<1>2. opening \in [at : {"add", "start"}, i : Index] /\ i \in Index
      /\ item \in [Index -> ItemType] /\ item[i] \in ItemType
  BY <1>1 DEF NInv, TypeOK
<1>3. /\ q.sock = item[i].sock /\ q.wq = item[i].wq /\ q.place = "new"
      /\ q.writing = item[i].writing /\ q.writes = item[i].writes /\ q.lateWrites = item[i].lateWrites
  BY <1>2 DEF ItemType
<1>4. opening' # None /\ opening'.i = i
  <2>1. opening' \in [at : {"add", "start"}, i : Index] /\ opening'.i = i
    BY <1>1, <1>2
  <2> QED BY <2>1, NetworkAssumption DEF Index
<1> HIDE DEF q
<1>5. item'[i] = q /\ \A j \in Index \ {i} : item'[j] = item[j]
  BY <1>1, <1>2
<1>6. Minding
  <2> SUFFICES ASSUME NEW j \in Index, Attended(j) PROVE Attended(j)'
    BY DEF Minding
  <2>1. CASE j = i
    BY <1>3, <1>4, <1>5, <2>1 DEF Attended, Woken
  <2>2. CASE j # i
    BY <1>5, <2>2 DEF Attended
  <2> QED BY <2>1, <2>2
<1>7. \A j \in Index : Held(j) => Held(j)'
  <2> SUFFICES ASSUME NEW j \in Index, Held(j) PROVE Held(j)'
    OBVIOUS
  <2>1. CASE j = i
    BY <1>3, <1>5, <2>1 DEF Held
  <2>2. CASE j # i
    BY <1>5, <2>2 DEF Held, Opening
  <2> QED BY <2>1, <2>2
<1>8. \A j \in Index : item'[j].sock = item[j].sock /\ item'[j].wq = item[j].wq
  BY <1>3, <1>5
<1>9. \E e : e.i \in Index /\ e.c = item[e.i].sock /\ events' = Append(events, e)
  <2> WITNESS [kind |-> "bind", i |-> i, c |-> item[i].sock]
  <2> QED BY <1>1, <1>2
<1>10. Unmoved
  BY <1>1, <1>7, <1>8, <1>9 DEF Unmoved
<1> QED BY <1>6, <1>10

LEMMA StartMoves ==
  ASSUME NInv, Start
  PROVE  Minding /\ Unmoved
<1> PICK i : i = opening.i
  OBVIOUS
<1> PICK q : q = AsyncRead(item[i])
  OBVIOUS
<1>1. /\ opening # None /\ opening.at = "start" /\ item' = [item EXCEPT ![i] = q] /\ opening' = None
      /\ UNCHANGED <<peer, got, requests, current, events, bound, asked, ended>>
  BY DEF Start, sink_vars
<1>2. i \in Index /\ item \in [Index -> ItemType] /\ item[i] \in ItemType
  BY <1>1 DEF NInv, TypeOK
<1>3. /\ q.sock = item[i].sock /\ q.wq = item[i].wq /\ q.place = item[i].place
      /\ (Woken(item[i]) => Woken(q)) /\ Watched(q)
  BY <1>2, AsyncReadMinds
<1>4. item'[i] = q /\ \A j \in Index \ {i} : item'[j] = item[j]
  BY <1>1, <1>2
<1>5. Minding
  <2> SUFFICES ASSUME NEW j \in Index, Attended(j) PROVE Attended(j)'
    BY DEF Minding
  <2>1. CASE j = i
    BY <1>3, <1>4, <2>1 DEF Attended
  <2>2. CASE j # i
    BY <1>4, <2>2 DEF Attended
  <2> QED BY <2>1, <2>2
<1>6. \A j \in Index : item'[j].sock = item[j].sock /\ item'[j].wq = item[j].wq
                       /\ item'[j].place = item[j].place
  BY <1>3, <1>4
<1>7. \A j \in Index : Held(j) => Held(j)'
  BY <1>1, <1>6 DEF Held, Opening
<1>8. Unmoved
  BY <1>1, <1>6, <1>7 DEF Unmoved
<1> QED BY <1>5, <1>8

\* An item that is taken in, given up or freed
LEMMA PlaceMoves ==
  ASSUME NInv, NEW i \in Index, NEW p, item' = [item EXCEPT ![i].place = p],
         p \in {"new", "live"} => item[i].place \in {"new", "live"},
         Held(i) => p \in {"new", "live"} \/ item[i].sock \in ended',
         UNCHANGED <<peer, got, opening, requests, current, bound, asked>>, ended \subseteq ended',
         events' = events \/ \E e : /\ e.i \in Index /\ e.c = item[e.i].sock
                                    /\ events' = Append(events, e)
  PROVE  Minding /\ Unmoved
<1> DEFINE q == [item[i] EXCEPT !.place = p]
<1>1. item \in [Index -> ItemType] /\ item[i] \in ItemType /\ item' = [item EXCEPT ![i] = q]
  BY DEF NInv, TypeOK
<1>2. /\ q.sock = item[i].sock /\ q.wq = item[i].wq /\ q.place = p
      /\ q.closed = item[i].closed /\ q.closing = item[i].closing
      /\ q.reads = item[i].reads /\ q.lateReads = item[i].lateReads
      /\ q.writing = item[i].writing /\ q.writes = item[i].writes
      /\ q.lateWrites = item[i].lateWrites
  BY <1>1 DEF ItemType
<1> HIDE DEF q
<1>3. Minds(item[i], q)
  BY <1>2 DEF Minds, Woken, Watched, IsOpen
<1>4. Minding
  BY <1>1, <1>3, OneIsMinded
<1>5. item'[i] = q /\ \A j \in Index \ {i} : item'[j] = item[j]
  BY <1>1
<1>6. \A j \in Index : item'[j].sock = item[j].sock /\ item'[j].wq = item[j].wq
  BY <1>2, <1>5
<1>7. \A j \in Index : Held(j) => Held(j)' \/ item[j].sock \in ended'
  <2> SUFFICES ASSUME NEW j \in Index, Held(j) PROVE Held(j)' \/ item[j].sock \in ended'
    OBVIOUS
  <2>1. CASE j = i
    BY <1>2, <1>5, <2>1 DEF Held
  <2>2. CASE j # i
    BY <1>5, <2>2 DEF Held, Opening
  <2> QED BY <2>1, <2>2
<1>8. Unmoved
  BY <1>6, <1>7 DEF Unmoved
<1> QED BY <1>4, <1>8

LEMMA SocketRemovedMoves ==
  ASSUME NInv, NEW i \in Index, SocketRemoved(i),
         UNCHANGED <<peer, got, opening, requests, current, sink_vars>>
  PROVE  Minding /\ Unmoved
<1>1. /\ item' = [item EXCEPT ![i].place = "shut"] /\ ended' = ended \cup {item[i].sock}
      /\ events' = Append(events, [kind |-> "shut", i |-> i, c |-> item[i].sock])
  BY DEF SocketRemoved, Post
<1>2. \E e : e.i \in Index /\ e.c = item[e.i].sock /\ events' = Append(events, e)
  <2> WITNESS [kind |-> "shut", i |-> i, c |-> item[i].sock]
  <2> QED BY <1>1
<1> QED BY <1>1, <1>2, PlaceMoves DEF sink_vars

LEMMA AddNewSocketsMoves ==
  ASSUME NInv, NEW i \in Index, AddNewSockets(i)
  PROVE  Minding /\ Unmoved
<1>1. CASE ~IsOpen(item[i])
  <2>1. SocketRemoved(i) /\ UNCHANGED <<peer, got, opening, requests, current, sink_vars>>
    BY <1>1 DEF AddNewSockets
  <2> QED BY <2>1, SocketRemovedMoves
<1>2. CASE IsOpen(item[i])
  <2>1. /\ item[i].place = "new" /\ item' = [item EXCEPT ![i].place = "live"]
        /\ UNCHANGED <<peer, got, opening, requests, current, bound, asked, events, ended>>
    BY <1>2 DEF AddNewSockets, sink_vars
  <2> QED BY <2>1, PlaceMoves
<1> QED BY <1>1, <1>2

LEMMA UpdateMoves ==
  ASSUME NInv, NEW i \in Index, Update(i)
  PROVE  Minding /\ (Unmoved \/ Sent(i))
<1>1. CASE SocketRemoved(i) /\ UNCHANGED got
  <2>1. UNCHANGED <<peer, got, opening, requests, current, sink_vars>>
    BY <1>1 DEF Update
  <2> QED BY <1>1, <2>1, SocketRemovedMoves
<1>2. CASE HandleQueue(i, item[i], TRUE) /\ UNCHANGED <<events, ended, store_vars>>
  <2>1. item[i] \in ItemType /\ Minds(item[i], item[i])
    BY DEF NInv, TypeOK, Minds
  <2>2. UNCHANGED <<peer, opening, requests, current, events, bound, asked, ended>>
    BY <1>2 DEF Update, sink_vars
  <2> QED BY <1>2, <2>1, <2>2, HandleQueueMoves
<1> QED BY <1>1, <1>2 DEF Update

LEMMA FreeNetworkItemMoves ==
  ASSUME NInv, NEW i \in Index, FreeNetworkItem(i)
  PROVE  Minding /\ Unmoved
<1>1. /\ item[i].place = "shut" /\ item' = [item EXCEPT ![i].place = "none"]
      /\ UNCHANGED <<peer, got, opening, requests, current, bound, asked, events, ended>>
  BY DEF FreeNetworkItem, sink_vars
<1>2. ~Held(i)
  BY <1>1 DEF NInv, Serving, Held
<1> QED BY <1>1, <1>2, PlaceMoves

\* A read was done: the item until the next one is started or its socket closed
LEMMA ReadDone ==
  ASSUME NEW it \in ItemType, it.reads > 0
  PROVE  LET q == [it EXCEPT !.reads = @ - 1] IN
         /\ q \in ItemType /\ q.sock = it.sock /\ q.wq = it.wq /\ q.place = it.place
         /\ Woken(it) => Woken(q)
<1> DEFINE n == it.reads - 1
           q == [it EXCEPT !.reads = n]
<1>1. n \in Nat
  BY DEF ItemType
<1> HIDE DEF n
<1>2. /\ q \in ItemType /\ q.sock = it.sock /\ q.wq = it.wq /\ q.place = it.place
      /\ q.writing = it.writing /\ q.writes = it.writes /\ q.lateWrites = it.lateWrites
  BY <1>1 DEF ItemType
<1> HIDE DEF q
<1>3. Woken(it) => Woken(q)
  BY <1>2 DEF Woken
<1> QED BY <1>2, <1>3 DEF q, n

LEMMA LateReadDone ==
  ASSUME NEW it \in ItemType, it.lateReads > 0
  PROVE  LET q == [it EXCEPT !.lateReads = @ - 1] IN
         /\ q \in ItemType /\ q.sock = it.sock /\ q.wq = it.wq /\ q.place = it.place
         /\ Woken(it) => Woken(q)
<1> DEFINE n == it.lateReads - 1
           q == [it EXCEPT !.lateReads = n]
<1>1. n \in Nat
  BY DEF ItemType
<1> HIDE DEF n
<1>2. /\ q \in ItemType /\ q.sock = it.sock /\ q.wq = it.wq /\ q.place = it.place
      /\ q.writing = it.writing /\ q.writes = it.writes /\ q.lateWrites = it.lateWrites
  BY <1>1 DEF ItemType
<1> HIDE DEF q
<1>3. Woken(it) => Woken(q)
  BY <1>2 DEF Woken
<1> QED BY <1>2, <1>3 DEF q, n

LEMMA ReadHandlerMoves ==
  ASSUME NInv, NEW i \in Index, ReadHandler(i)
  PROVE  Minding /\ Unmoved
<1> PICK it : it = [item[i] EXCEPT !.reads = @ - 1]
  OBVIOUS
<1>1. /\ item[i].reads > 0 /\ item[i] \in ItemType
      /\ UNCHANGED <<peer, got, opening, requests, current, bound, asked, ended>>
  BY DEF ReadHandler, sink_vars, NInv, TypeOK
<1>2. /\ it \in ItemType /\ it.sock = item[i].sock /\ it.wq = item[i].wq /\ it.place = item[i].place
      /\ Woken(item[i]) => Woken(it)
  BY <1>1, ReadDone
<1>3. Continues
  BY <1>1 DEF Continues
<1>4. CASE Post("read", i) /\ item' = [item EXCEPT ![i] = AsyncRead(it)]
  <2> PICK q : q = AsyncRead(it)
    OBVIOUS
  <2>1. q.sock = it.sock /\ q.wq = it.wq /\ q.place = it.place /\ (Woken(it) => Woken(q)) /\ Watched(q)
    BY <1>2, AsyncReadMinds
  <2>2. Minds(item[i], q)
    BY <1>2, <2>1 DEF Minds
  <2>3. \E e : e.i \in Index /\ e.c = item[e.i].sock /\ events' = Append(events, e)
    <3> WITNESS [kind |-> "read", i |-> i, c |-> item[i].sock]
    <3> QED BY <1>4 DEF Post
  <2>4. item' = [item EXCEPT ![i] = q]
    BY <1>4, <2>1
  <2> QED BY <1>1, <1>2, <1>3, <2>1, <2>2, <2>3, <2>4, OneIsUnmoved
<1>5. CASE item' = [item EXCEPT ![i] = CloseSocket(it)] /\ UNCHANGED events
  <2> PICK q : q = CloseSocket(it)
    OBVIOUS
  <2>1. q.sock = it.sock /\ q.wq = it.wq /\ q.place = it.place /\ (Woken(it) => Woken(q)) /\ Watched(q)
    BY <1>2, CloseSocketMinds
  <2>2. Minds(item[i], q)
    BY <1>2, <2>1 DEF Minds
  <2>4. item' = [item EXCEPT ![i] = q]
    BY <1>5
  <2> QED BY <1>1, <1>2, <1>3, <1>5, <2>1, <2>2, <2>4, OneIsUnmoved
<1> QED BY <1>4, <1>5 DEF ReadHandler

LEMMA ReadHandlerInternalMoves ==
  ASSUME NInv, NEW i \in Index, ReadHandlerInternal(i)
  PROVE  Minding /\ Unmoved
<1>1. /\ item[i] \in ItemType
      /\ UNCHANGED <<peer, got, opening, requests, current, bound, asked, ended, events>>
  BY DEF ReadHandlerInternal, sink_vars, NInv, TypeOK
<1>2. ASSUME NEW it \in ItemType, it.sock = item[i].sock, it.wq = item[i].wq,
             it.place = item[i].place, Woken(item[i]) => Woken(it),
             item' = [item EXCEPT ![i] = CloseSocket(it)]
      PROVE  Minding /\ Unmoved
  <2> PICK q : q = CloseSocket(it)
    OBVIOUS
  <2>1. q.sock = it.sock /\ q.wq = it.wq /\ q.place = it.place /\ (Woken(it) => Woken(q)) /\ Watched(q)
    BY <1>2, CloseSocketMinds
  <2>2. Minds(item[i], q)
    BY <1>2, <2>1 DEF Minds
  <2>3. Continues
    BY <1>1 DEF Continues
  <2>4. item' = [item EXCEPT ![i] = q]
    BY <1>2
  <2> QED BY <1>1, <1>2, <2>1, <2>2, <2>3, <2>4, OneIsUnmoved
<1>3. ASSUME item[i].reads > 0, item' = [item EXCEPT ![i] = CloseSocket([item[i] EXCEPT !.reads = @ - 1])]
      PROVE  Minding /\ Unmoved
  <2> PICK it : it = [item[i] EXCEPT !.reads = @ - 1]
    OBVIOUS
  <2> QED BY <1>1, <1>2, <1>3, ReadDone
<1>4. ASSUME item[i].lateReads > 0,
             item' = [item EXCEPT ![i] = CloseSocket([item[i] EXCEPT !.lateReads = @ - 1])]
      PROVE  Minding /\ Unmoved
  <2> PICK it : it = [item[i] EXCEPT !.lateReads = @ - 1]
    OBVIOUS
  <2> QED BY <1>1, <1>2, <1>4, LateReadDone
<1> QED BY <1>3, <1>4 DEF ReadHandlerInternal

LEMMA WriteHandlerMoves ==
  ASSUME NInv, NEW i \in Index, WriteHandlerWrapper(i)
  PROVE  Minding /\ (Unmoved \/ Sent(i))
<1>1. /\ item[i] \in ItemType
      /\ UNCHANGED <<peer, opening, requests, current, events, bound, asked, ended>>
  BY DEF WriteHandlerWrapper, sink_vars, NInv, TypeOK
<1>2. ASSUME NEW n \in Nat, NEW it \in ItemType,
             it \in {[item[i] EXCEPT !.writing = FALSE, !.writes = n],
                     [item[i] EXCEPT !.writing = FALSE, !.lateWrites = n]},
             HandleQueue(i, it, FALSE)
      PROVE  Minding /\ (Unmoved \/ Sent(i))
  <2>1. /\ it.sock = item[i].sock /\ it.wq = item[i].wq /\ it.place = item[i].place
        /\ it.closed = item[i].closed /\ it.closing = item[i].closing
        /\ it.reads = item[i].reads /\ it.lateReads = item[i].lateReads /\ ~it.writing
    BY <1>1, <1>2 DEF ItemType
  <2>2. Minds(item[i], it)
    BY <2>1 DEF Minds, Woken, Watched, IsOpen
  <2> QED BY <1>1, <1>2, <2>1, <2>2, HandleQueueMoves
<1>3. ASSUME item[i].writes > 0,
             HandleQueue(i, [item[i] EXCEPT !.writing = FALSE, !.writes = @ - 1], FALSE)
      PROVE  Minding /\ (Unmoved \/ Sent(i))
  <2> PICK n : n = item[i].writes - 1
    OBVIOUS
  <2> PICK it : it = [item[i] EXCEPT !.writing = FALSE, !.writes = n]
    OBVIOUS
  <2>1. n \in Nat
    BY <1>1, <1>3 DEF ItemType
  <2>2. it \in ItemType
    BY <1>1, <2>1 DEF ItemType
  <2> QED BY <1>2, <1>3, <2>1, <2>2
<1>4. ASSUME item[i].lateWrites > 0,
             HandleQueue(i, [item[i] EXCEPT !.writing = FALSE, !.lateWrites = @ - 1], FALSE)
      PROVE  Minding /\ (Unmoved \/ Sent(i))
  <2> PICK n : n = item[i].lateWrites - 1
    OBVIOUS
  <2> PICK it : it = [item[i] EXCEPT !.writing = FALSE, !.lateWrites = n]
    OBVIOUS
  <2>1. n \in Nat
    BY <1>1, <1>4 DEF ItemType
  <2>2. it \in ItemType
    BY <1>1, <2>1 DEF ItemType
  <2> QED BY <1>2, <1>4, <2>1, <2>2
<1> QED BY <1>3, <1>4 DEF WriteHandlerWrapper

\* A step that leaves the items alone
LEMMA NoneIsMinded ==
  ASSUME UNCHANGED <<item, opening>>
  PROVE  Minding
<1> SUFFICES ASSUME NEW j \in Index, Attended(j) PROVE Attended(j)'
  BY DEF Minding
<1> QED BY DEF Attended

LEMMA NoneIsUnmoved ==
  ASSUME UNCHANGED <<item, got, opening, requests, bound, asked, ended, events>>, Continues,
         \A c \in Conns : peer'[c] = "away" => peer[c] = "away"
  PROVE  Minding /\ Unmoved
<1>1. \A j \in Index : Held(j) => Held(j)'
  BY DEF Held, Opening
<1>2. Unmoved
  BY <1>1 DEF Unmoved, Continues
<1> QED BY <1>2, NoneIsMinded

\* A message is put into an item's queue.
LEMMA QueuedIs ==
  ASSUME NEW it \in ItemType, NEW m \in Messages
  PROVE  LET q == [it EXCEPT !.wq = Append(@, m)] IN
         /\ q.sock = it.sock /\ q.wq = Append(it.wq, m) /\ q.place = it.place /\ Minds(it, q)
<1> DEFINE w == Append(it.wq, m)
           q == [it EXCEPT !.wq = w]
<1>1. /\ q.sock = it.sock /\ q.wq = w /\ q.place = it.place
      /\ q.closed = it.closed /\ q.closing = it.closing
      /\ q.reads = it.reads /\ q.lateReads = it.lateReads /\ q.writing = it.writing
      /\ q.writes = it.writes /\ q.lateWrites = it.lateWrites
  <2> HIDE DEF w
  <2> QED BY DEF ItemType
<1> HIDE DEF q
<1>2. Minds(it, q)
  BY <1>1 DEF Minds, Woken, Watched, IsOpen
<1> QED BY <1>1, <1>2 DEF q

\* The item was looked up; the request may be carried on.
LEMMA RequestMoves ==
  ASSUME NInv, OnCloseSocket \/ CancelSocket \/ FallThrough \/ OnShutDownSocket \/ OnAllowBatchSend
  PROVE  Minding /\ Unmoved
<1>1. current # None /\ current \in Requests /\ current.i \in Index /\ item[current.i] \in ItemType
  <2>1. \E op : Do(op)
    BY DEF OnCloseSocket, CancelSocket, FallThrough, OnShutDownSocket, OnAllowBatchSend
  <2> QED BY <2>1, Current DEF Do
<1>2. UNCHANGED <<peer, got, opening, requests, bound, asked, ended, events>>
  BY DEF OnCloseSocket, CancelSocket, FallThrough, OnShutDownSocket, OnAllowBatchSend, sink_vars
<1>3. Continues
  <2>1. ASSUME NEW op, current' \in {None, [current EXCEPT !.op = op]} PROVE Continues
    <3>1. /\ [current EXCEPT !.op = op].i = current.i /\ [current EXCEPT !.op = op].c = current.c
          /\ [current EXCEPT !.op = op].n = current.n
      BY <1>1 DEF Requests
    <3> QED BY <1>1, <2>1, <3>1 DEF Continues
  <2>2. CASE OnCloseSocket
    BY <2>1, <2>2 DEF OnCloseSocket
  <2>3. CASE CancelSocket
    BY <2>1, <2>3 DEF CancelSocket
  <2>4. CASE FallThrough
    BY <2>1, <2>4 DEF FallThrough
  <2>5. CASE OnShutDownSocket \/ OnAllowBatchSend
    BY <2>1, <2>5 DEF OnShutDownSocket, OnAllowBatchSend
  <2> QED BY <2>2, <2>3, <2>4, <2>5
<1>4. ASSUME NEW q, Minds(item[current.i], q), q.sock = item[current.i].sock,
             q.wq = item[current.i].wq, q.place = item[current.i].place,
             item' = [item EXCEPT ![current.i] = q]
      PROVE  Minding /\ Unmoved
  <2> PICK i \in Index : i = current.i
    BY <1>1
  <2> QED BY <1>2, <1>3, <1>4, OneIsUnmoved
<1> PICK it \in ItemType : it = item[current.i]
  BY <1>1
<1>5. CASE OnCloseSocket
  <2> DEFINE q == [it EXCEPT !.closed = TRUE]
  <2>1. item' = [item EXCEPT ![current.i] = q]
    BY <1>5 DEF OnCloseSocket
  <2>2. /\ q.sock = it.sock /\ q.wq = it.wq /\ q.place = it.place /\ q.closed
        /\ q.writing = it.writing /\ q.writes = it.writes /\ q.lateWrites = it.lateWrites
    BY DEF ItemType
  <2> HIDE DEF q
  <2>3. Minds(it, q)
    BY <2>2 DEF Minds, Woken, Watched, IsOpen
  <2> QED BY <1>4, <2>1, <2>2, <2>3
<1>6. CASE CancelSocket
  <2> PICK q : q = Abort(it)
    OBVIOUS
  <2>1. item' = [item EXCEPT ![current.i] = q]
    BY <1>6 DEF CancelSocket
  <2>2. Minds(it, q) /\ q.sock = it.sock /\ q.wq = it.wq /\ q.place = it.place
    BY AbortIs, AbortMinds
  <2> QED BY <1>4, <2>1, <2>2
<1>7. CASE OnShutDownSocket
  <2> DEFINE q == [it EXCEPT !.closing = TRUE]
  <2>1. item' = [item EXCEPT ![current.i] = q]
    BY <1>7 DEF OnShutDownSocket
  <2>2. /\ q.sock = it.sock /\ q.wq = it.wq /\ q.place = it.place /\ q.closing
        /\ q.writing = it.writing /\ q.writes = it.writes /\ q.lateWrites = it.lateWrites
    BY DEF ItemType
  <2> HIDE DEF q
  <2>3. Minds(it, q)
    BY <2>2 DEF Minds, Woken, Watched, IsOpen
  <2> QED BY <1>4, <2>1, <2>2, <2>3
<1>8. CASE FallThrough \/ OnAllowBatchSend
  <2>1. UNCHANGED item
    BY <1>8 DEF FallThrough, OnAllowBatchSend
  <2> QED BY <1>2, <1>3, <2>1, NoneIsUnmoved
<1> QED BY <1>5, <1>6, <1>7, <1>8

LEMMA OnSendDataMinds ==
  ASSUME NInv, OnSendData
  PROVE  Minding
<1> PICK i : i = current.i
  OBVIOUS
<1> PICK m : m = Message(current)
  OBVIOUS
<1>1. i \in Index /\ m \in Messages /\ item \in [Index -> ItemType] /\ item[i] \in ItemType
  BY Current DEF OnSendData, NInv, TypeOK
<1> PICK q : q = [item[i] EXCEPT !.wq = Append(@, m)]
  OBVIOUS
<1>2. item' = [item EXCEPT ![i] = q] /\ opening' = opening
  BY DEF OnSendData
<1>3. Minds(item[i], q)
  BY <1>1, QueuedIs
<1> QED BY <1>1, <1>2, <1>3, OneIsMinded

LEMMA TakeRequestMinds ==
  ASSUME NInv, TakeRequest
  PROVE  Minding
<1> PICK r : r = Head(requests)
  OBVIOUS
<1> PICK m : m = Message(r)
  OBVIOUS
<1>1. r \in Requests /\ m \in Messages
  <2>1. r \in Requests
    BY DEF NInv, TypeOK, TakeRequest
  <2>2. m \in Messages
    BY <2>1 DEF Message, Messages, Requests
  <2> QED BY <2>1, <2>2
<1>2. item \in [Index -> ItemType] /\ opening' = opening
  BY DEF NInv, TypeOK, TakeRequest
<1>3. CASE r.op # "batch"
  BY <1>2, <1>3, NoneIsMinded DEF TakeRequest
<1>4. CASE r.op = "batch"
  <2> SUFFICES ASSUME NEW j \in Index, Attended(j) PROVE Attended(j)'
    BY DEF Minding
  <2> PICK q : q = [item[j] EXCEPT !.wq = Append(@, m)]
    OBVIOUS
  <2>1. item'[j] = IF j \in batch THEN q ELSE item[j]
    BY <1>2, <1>4 DEF TakeRequest
  <2>2. Minds(item[j], q)
    BY <1>1, <1>2, QueuedIs
  <2>3. Minds(item[j], item'[j])
    BY <2>1, <2>2 DEF Minds
  <2> QED BY <1>2, <2>3 DEF Attended, Minds
<1> QED BY <1>3, <1>4

LEMMA NextMoves ==
  ASSUME NInv, NInv', [Next]_vars
  PROVE  Minding /\ Moves
<1>1. CASE Acceptor
  BY <1>1, AcceptedMoves, AddSocketMoves, StartMoves DEF Acceptor, Moves
<1>2. ASSUME NEW i \in Index, Network(i) PROVE Minding /\ Moves
  BY <1>2, AddNewSocketsMoves, UpdateMoves, FreeNetworkItemMoves, ReadHandlerMoves,
     ReadHandlerInternalMoves, WriteHandlerMoves DEF Network, Moves
<1>3. CASE Asynch
  BY <1>3, RequestMoves, OnSendDataMinds, TakeRequestMinds DEF Asynch, Moves
<1>4. CASE HandleEvent \/ PostRequest
  <2>1. UNCHANGED <<item, opening>>
    BY <1>4 DEF HandleEvent, PostRequest
  <2> QED BY <1>4, <2>1, NoneIsMinded DEF Moves
<1>5. ASSUME NEW c \in Conns, PeerLeaves(c) PROVE Minding /\ Moves
  <2>1. UNCHANGED <<item, got, opening, requests, current, bound, asked, ended, events>>
    BY <1>5 DEF PeerLeaves, sink_vars
  <2>2. \A d \in Conns : peer'[d] = "away" => peer[d] = "away"
    BY <1>5 DEF PeerLeaves, NInv, TypeOK
  <2> QED BY <2>1, <2>2, NoneIsUnmoved DEF Moves, Continues
<1>6. CASE UNCHANGED vars
  <2>1. UNCHANGED <<peer, item, got, opening, requests, current, bound, asked, ended, events>>
    BY <1>6 DEF vars, sink_vars
  <2> QED BY <2>1, NoneIsUnmoved DEF Moves, Continues
<1> QED BY <1>1, <1>2, <1>3, <1>4, <1>5, <1>6 DEF Next

-----------------------------------------------------------------------------
(* Nobody is forgotten                                                     *)

Attends == \A i \in Index : Attended(i)

LEMMA InitAttends == Init => Attends
<1> SUFFICES ASSUME Init, NEW i \in Index PROVE Attended(i)
  BY DEF Attends
<1> DEFINE new == NewItem(None)
           it == [new EXCEPT !.open = FALSE]
<1>1. item[i] = it
  BY DEF Init
<1>2. new \in ItemType /\ new.place = "none" /\ ~new.writing
  BY DEF NewItem, ItemType
<1> HIDE DEF new
<1>3. it.place = "none" /\ ~it.writing
  BY <1>2 DEF ItemType
<1> HIDE DEF it
<1> QED BY <1>1, <1>3 DEF Attended, Woken, Watched

\* A handler is to run for whatever waits for one: a connection the engine
\* believes open has a read pending or one that was aborted, and one whose write
\* is to wait has a write pending or one that was aborted, across closes, the
\* steps of a close that other threads see, and the reuse of items.
THEOREM NobodyIsForgotten == Spec => []HandlersArePending
<1>1. Attends => HandlersArePending
  <2> SUFFICES ASSUME Attends PROVE OpenIsRead /\ WritingIsPending
    BY DEF HandlersArePending
  <2>1. ASSUME NEW i \in Index PROVE Attended(i)
    BY DEF Attends
  <2>2. OpenIsRead
    BY <2>1 DEF OpenIsRead, Attended, Watched
  <2>3. WritingIsPending
    BY <2>1 DEF WritingIsPending, Attended, Woken
  <2> QED BY <2>2, <2>3
<1>2. NInv /\ NInv' /\ Attends /\ [Next]_vars => Attends'
  <2>1. Minding /\ Attends => Attends'
    BY DEF Minding, Attends
  <2> QED BY <2>1, NextMoves
<1> QED BY <1>1, <1>2, InitHolds, NextHolds, InitAttends, PTL DEF Spec

-----------------------------------------------------------------------------
(* Queues                                                                  *)

Ascending(s) == \A j, k \in DOMAIN s : j < k => s[j].n < s[k].n

LEMMA FirstTaken ==
  ASSUME NEW S, NEW s \in Seq(S), s # <<>>
  PROVE  /\ Head(s) \in Range(s) /\ Range(Tail(s)) \subseteq Range(s)
         /\ Ascending(s) => /\ Ascending(Tail(s))
                            /\ \A m \in Range(Tail(s)) : Head(s).n < m.n
<1> PICK t : t = Tail(s)
  OBVIOUS
<1>1. /\ DOMAIN s = 1 .. Len(s) /\ Len(s) \in Nat /\ Len(s) >= 1 /\ Head(s) = s[1]
      /\ DOMAIN t = 1 .. Len(s) - 1 /\ \A k \in 1 .. Len(s) - 1 : t[k] = s[k + 1]
  OBVIOUS
<1>2. Head(s) \in Range(s)
  BY <1>1 DEF Range
<1>3. Range(t) \subseteq Range(s)
  <2> SUFFICES ASSUME NEW k \in DOMAIN t PROVE t[k] \in Range(s)
    BY DEF Range
  <2>1. k + 1 \in DOMAIN s /\ t[k] = s[k + 1]
    BY <1>1
  <2> QED BY <2>1 DEF Range
<1>4. ASSUME Ascending(s) PROVE Ascending(t)
  <2> SUFFICES ASSUME NEW j \in DOMAIN t, NEW k \in DOMAIN t, j < k PROVE t[j].n < t[k].n
    BY DEF Ascending
  <2>1. /\ j + 1 \in DOMAIN s /\ t[j] = s[j + 1] /\ k + 1 \in DOMAIN s /\ t[k] = s[k + 1]
        /\ j + 1 < k + 1
    BY <1>1
  <2>2. s[j + 1].n < s[k + 1].n
    BY <1>4, <2>1 DEF Ascending
  <2> QED BY <2>1, <2>2
<1>5. ASSUME Ascending(s), NEW m \in Range(t) PROVE Head(s).n < m.n
  <2>1. PICK k \in DOMAIN t : m = t[k]
    BY <1>5 DEF Range
  <2>2. k + 1 \in DOMAIN s /\ m = s[k + 1] /\ 1 \in DOMAIN s /\ 1 < k + 1
    BY <1>1, <2>1
  <2>3. s[1].n < s[k + 1].n
    BY <1>5, <2>2 DEF Ascending
  <2> QED BY <1>1, <2>2, <2>3
<1> QED BY <1>2, <1>3, <1>4, <1>5

LEMMA LastPut ==
  ASSUME NEW S, NEW s \in Seq(S), NEW m
  PROVE  /\ Range(Append(s, m)) = Range(s) \cup {m}
         /\ Ascending(s) /\ (\A l \in Range(s) : l.n < m.n) => Ascending(Append(s, m))
<1> PICK t : t = Append(s, m)
  OBVIOUS
<1>1. /\ DOMAIN s = 1 .. Len(s) /\ Len(s) \in Nat /\ DOMAIN t = 1 .. Len(s) + 1
      /\ \A k \in 1 .. Len(s) : t[k] = s[k]
      /\ t[Len(s) + 1] = m
  OBVIOUS
<1>2. Range(t) = Range(s) \cup {m}
  <2>1. ASSUME NEW k \in DOMAIN t PROVE t[k] \in Range(s) \cup {m}
    <3>1. CASE k = Len(s) + 1
      BY <1>1, <3>1
    <3>2. CASE k # Len(s) + 1
      <4>1. k \in DOMAIN s /\ t[k] = s[k]
        BY <1>1, <3>2
      <4> QED BY <4>1 DEF Range
    <3> QED BY <3>1, <3>2
  <2>2. ASSUME NEW k \in DOMAIN s PROVE s[k] \in Range(t)
    <3>1. k \in DOMAIN t /\ t[k] = s[k]
      BY <1>1
    <3> QED BY <3>1 DEF Range
  <2>3. m \in Range(t)
    <3>1. Len(s) + 1 \in DOMAIN t
      BY <1>1
    <3> QED BY <1>1, <3>1 DEF Range
  <2> QED BY <2>1, <2>2, <2>3 DEF Range
<1>3. ASSUME Ascending(s), \A l \in Range(s) : l.n < m.n PROVE Ascending(t)
  <2> SUFFICES ASSUME NEW j \in DOMAIN t, NEW k \in DOMAIN t, j < k PROVE t[j].n < t[k].n
    BY DEF Ascending
  <2>1. j \in DOMAIN s /\ t[j] = s[j]
    BY <1>1
  <2>2. CASE k = Len(s) + 1
    <3>1. t[j] \in Range(s)
      BY <2>1 DEF Range
    <3> QED BY <1>1, <1>3, <2>2, <3>1
  <2>3. CASE k # Len(s) + 1
    <3>1. k \in DOMAIN s /\ t[k] = s[k]
      BY <1>1, <2>3
    <3> QED BY <1>3, <2>1, <3>1 DEF Ascending
  <2> QED BY <2>2, <2>3
<1> QED BY <1>2, <1>3

-----------------------------------------------------------------------------
(* Whose messages reach whom                                               *)

\* What is meant for c, under index i, finds c there or c reported shut.
Addr(i, c) == c \in {item[i].sock, None} \cup ended

Addressed ==
  /\ \A i \in Index : Held(i) \/ item[i].sock \in ended \cup {None}
  /\ \A e \in Range(events) : Addr(e.i, e.c)
  /\ \A i \in Index : Addr(i, bound[i])
  /\ \A r \in Range(requests) : Addr(r.i, r.c)
  /\ current # None => Addr(current.i, current.c)
  /\ \A i \in Index : \A m \in Range(item[i].wq) : Addr(i, m.to)
  /\ ToOthersOnlyAfterShut

\* What a step hands on was there before it, under the same index.
HandedOn ==
  /\ \A i \in Index : Held(i)' \/ item'[i].sock \in ended' \cup {None}
  /\ \A i \in Index : item'[i].sock = item[i].sock \/ ~Held(i)
  /\ ended \subseteq ended'
  /\ \A e \in Range(events') : e \in Range(events) \/ (e.i \in Index /\ e.c = item[e.i].sock)
  /\ \A i \in Index : \/ bound'[i] \in {bound[i], None}
                      \/ \E e \in Range(events) : e.i = i /\ e.c = bound'[i]
  /\ \A r \in Range(requests') : r \in Range(requests) \/ (r.i \in Index /\ r.c = bound[r.i])
  /\ current' # None => \/ current' \in Range(requests)
                        \/ current # None /\ current'.i = current.i /\ current'.c = current.c
  /\ \A i \in Index : \A m \in Range(item'[i].wq) :
       \/ m \in Range(item[i].wq) \/ m.to = None
       \/ current # None /\ current.i = i /\ m.to = current.c
  /\ \A c \in Conns : \A m \in Range(got'[c]) :
       \/ m \in Range(got[c])
       \/ \E i \in Index : item[i].sock = c /\ m \in Range(item[i].wq)

LEMMA InRange ==
  ASSUME NEW S, NEW s \in Seq(S), NEW m \in Range(s)
  PROVE  m \in S
BY DEF Range

\* The types, of what is in the queues
LEMMA TypesOfQueues ==
  ASSUME TypeOK
  PROVE  /\ \A r \in Range(requests) : r \in Requests /\ r.i \in Index
         /\ \A e \in Range(events) : e.i \in Index
         /\ current # None => current \in Requests /\ current.i \in Index
         /\ \A i \in Index : item[i].wq \in Seq(Messages)
         /\ \A c \in Conns : got[c] \in Seq(Messages)
<1>2. ASSUME NEW r \in Range(requests) PROVE r \in Requests /\ r.i \in Index
  <2>1. r \in Requests
    BY InRange DEF TypeOK
  <2> QED BY <2>1 DEF Requests
<1>3. ASSUME NEW e \in Range(events) PROVE e.i \in Index
  <2> PICK E : E = [kind : {"bind", "read", "shut"}, i : Index, c : Conns]
    OBVIOUS
  <2>1. e \in E
    BY InRange DEF TypeOK
  <2> QED BY <2>1
<1>4. current # None => current \in Requests /\ current.i \in Index
  BY DEF TypeOK, Requests
<1>5. \A i \in Index : item[i].wq \in Seq(Messages)
  BY DEF TypeOK, ItemType
<1> QED BY <1>2, <1>3, <1>4, <1>5 DEF TypeOK

LEMMA HandedOnKeeps ==
  ASSUME NInv, NInv', Addressed, HandedOn
  PROVE  Addressed'
<1>1. ASSUME NEW i \in Index, NEW c, Addr(i, c) PROVE c \in {item'[i].sock, None} \cup ended'
  BY <1>1 DEF HandedOn, Addressed, Addr
<1>2. ASSUME NEW e \in Range(events') PROVE e.c \in {item'[e.i].sock, None} \cup ended'
  <2>1. CASE e \in Range(events)
    <3>1. e.i \in Index
      BY <2>1, TypesOfQueues DEF NInv
    <3> QED BY <1>1, <2>1, <3>1 DEF Addressed
  <2>2. CASE e.i \in Index /\ e.c = item[e.i].sock
    BY <1>1, <2>2 DEF Addr
  <2> QED BY <1>2, <2>1, <2>2 DEF HandedOn
<1>3. ASSUME NEW i \in Index PROVE bound'[i] \in {item'[i].sock, None} \cup ended'
  BY <1>1 DEF HandedOn, Addressed
<1>4. ASSUME NEW r \in Range(requests') PROVE r.c \in {item'[r.i].sock, None} \cup ended'
  <2>1. CASE r \in Range(requests)
    <3>1. r.i \in Index
      BY <2>1, TypesOfQueues DEF NInv
    <3> QED BY <1>1, <2>1, <3>1 DEF Addressed
  <2>2. CASE r.i \in Index /\ r.c = bound[r.i]
    BY <1>1, <2>2 DEF Addressed
  <2> QED BY <1>4, <2>1, <2>2 DEF HandedOn
<1>5. ASSUME current' # None PROVE current'.c \in {item'[current'.i].sock, None} \cup ended'
  <2>1. CASE current' \in Range(requests)
    <3>1. current'.i \in Index
      BY <2>1, TypesOfQueues DEF NInv
    <3> QED BY <1>1, <2>1, <3>1 DEF Addressed
  <2>2. CASE current # None /\ current'.i = current.i /\ current'.c = current.c
    <3>1. current.i \in Index
      BY <2>2, TypesOfQueues DEF NInv
    <3> QED BY <1>1, <2>2, <3>1 DEF Addressed
  <2> QED BY <1>5, <2>1, <2>2 DEF HandedOn
<1>6. ASSUME NEW i \in Index, NEW m \in Range(item'[i].wq)
      PROVE  m.to \in {item'[i].sock, None} \cup ended'
  BY <1>1, <1>6 DEF HandedOn, Addressed
<1>7. ASSUME NEW c \in Conns, NEW m \in Range(got'[c]) PROVE m.to \in {c, None} \cup ended'
  <2>1. CASE m \in Range(got[c])
    BY <2>1 DEF HandedOn, Addressed, ToOthersOnlyAfterShut
  <2>2. ASSUME NEW i \in Index, item[i].sock = c, m \in Range(item[i].wq)
        PROVE  m.to \in {c, None} \cup ended'
    BY <2>2 DEF HandedOn, Addressed, Addr
  <2>3. m \in Range(got[c]) \/ \E i \in Index : item[i].sock = c /\ m \in Range(item[i].wq)
    BY <1>7 DEF HandedOn
  <2> QED BY <2>1, <2>2, <2>3
<1>8. \A i \in Index : Held(i)' \/ item'[i].sock \in ended' \cup {None}
  BY DEF HandedOn
<1> QED BY <1>2, <1>3, <1>4, <1>5, <1>6, <1>7, <1>8 DEF Addressed, Addr, ToOthersOnlyAfterShut

LEMMA UnmovedHandsOn ==
  ASSUME NInv, NInv', Addressed, Unmoved
  PROVE  HandedOn
<1>1. \A i \in Index : item'[i].sock = item[i].sock /\ item'[i].wq = item[i].wq
  BY DEF Unmoved
<1>2. UNCHANGED <<got, requests, bound>> /\ ended \subseteq ended'
  BY DEF Unmoved
<1>3. ASSUME NEW i \in Index PROVE Held(i)' \/ item'[i].sock \in ended' \cup {None}
  BY <1>1, <1>2 DEF Unmoved, Addressed
<1>4. ASSUME NEW e \in Range(events')
      PROVE  e \in Range(events) \/ (e.i \in Index /\ e.c = item[e.i].sock)
  <2>1. CASE events' = events
    BY <1>4, <2>1
  <2>2. ASSUME NEW d, d.i \in Index, d.c = item[d.i].sock, events' = Append(events, d)
        PROVE  e \in Range(events) \/ (e.i \in Index /\ e.c = item[e.i].sock)
    <3>1. Range(events') = Range(events) \cup {d}
      BY <2>2, LastPut DEF NInv, TypeOK
    <3> QED BY <1>4, <2>2, <3>1
  <2> QED BY <2>1, <2>2 DEF Unmoved
<1>5. current' # None => current # None /\ current'.i = current.i /\ current'.c = current.c
  BY DEF Unmoved
<1> QED BY <1>1, <1>2, <1>3, <1>4, <1>5 DEF HandedOn

LEMMA AcceptedHandsOn ==
  ASSUME NInv, NInv', Addressed, NEW i \in Index, NEW c \in Conns, Accepted(i, c)
  PROVE  HandedOn
<1>1. /\ ~Held(i) /\ Held(i)' /\ item'[i].wq \in {<<>>, item[i].wq}
      /\ UNCHANGED <<got, requests, current, events, bound, ended>>
  BY DEF Accepted
<1>2. ASSUME NEW j \in Index, j # i PROVE item'[j] = item[j] /\ (Held(j)' <=> Held(j))
  BY <1>2 DEF Accepted
<1>3. ASSUME NEW j \in Index PROVE Held(j)' \/ item'[j].sock \in ended' \cup {None}
  <2>1. CASE j = i
    BY <1>1, <2>1
  <2>2. CASE j # i
    BY <1>1, <1>2, <2>2 DEF Addressed
  <2> QED BY <2>1, <2>2
<1>4. \A j \in Index : item'[j].sock = item[j].sock \/ ~Held(j)
  BY <1>1, <1>2
<1>5. ASSUME NEW j \in Index, NEW m \in Range(item'[j].wq) PROVE m \in Range(item[j].wq)
  <2>1. m \notin Range(<<>>)
    BY DEF Range
  <2>2. CASE j = i
    BY <1>1, <1>5, <2>1, <2>2
  <2>3. CASE j # i
    BY <1>2, <1>5, <2>3
  <2> QED BY <2>2, <2>3
<1>6. \A m : \A j \in Index : m \in Range(item'[j].wq) => m \in Range(item[j].wq)
  BY <1>5
<1> QED BY <1>1, <1>3, <1>4, <1>6 DEF HandedOn

LEMMA SentHandsOn ==
  ASSUME NInv, NInv', Addressed, NEW i \in Index, Sent(i)
  PROVE  HandedOn
<1>1. /\ item[i].wq # <<>> /\ item'[i].wq = Tail(item[i].wq)
      /\ UNCHANGED <<requests, current, events, bound, ended>>
  BY DEF Sent
<1>2. ASSUME NEW j \in Index
      PROVE  item'[j].sock = item[j].sock /\ (Held(j)' <=> Held(j))
             /\ (j # i => item'[j].wq = item[j].wq)
  BY DEF Sent
<1>3. ASSUME NEW j \in Index PROVE Held(j)' \/ item'[j].sock \in ended' \cup {None}
  BY <1>1, <1>2 DEF Addressed
<1>4. item[i].wq \in Seq(Messages) /\ \A c \in Conns : got[c] \in Seq(Messages)
  BY TypesOfQueues DEF NInv
<1>5. Head(item[i].wq) \in Range(item[i].wq) /\ Range(Tail(item[i].wq)) \subseteq Range(item[i].wq)
  BY <1>1, <1>4, FirstTaken
<1>6. ASSUME NEW j \in Index, NEW m \in Range(item'[j].wq) PROVE m \in Range(item[j].wq)
  BY <1>1, <1>2, <1>5, <1>6
<1>7. ASSUME NEW c \in Conns, NEW m \in Range(got'[c])
      PROVE  \/ m \in Range(got[c])
             \/ \E j \in Index : item[j].sock = c /\ m \in Range(item[j].wq)
  <2>1. CASE got' = got
    BY <1>7, <2>1
  <2>2. CASE got' = [got EXCEPT ![item[i].sock] = Append(@, Head(item[i].wq))]
    <3>1. CASE c = item[i].sock
      <4>1. got'[c] = Append(got[c], Head(item[i].wq))
        BY <2>2, <3>1 DEF NInv, TypeOK
      <4>2. Range(got'[c]) = Range(got[c]) \cup {Head(item[i].wq)}
        BY <1>4, <4>1, LastPut
      <4> QED BY <1>5, <1>7, <3>1, <4>2
    <3>2. CASE c # item[i].sock
      <4>1. got'[c] = got[c]
        BY <2>2, <3>2 DEF NInv, TypeOK
      <4> QED BY <1>7, <4>1
    <3> QED BY <3>1, <3>2
  <2> QED BY <2>1, <2>2 DEF Sent
<1>8. \A j \in Index : item'[j].sock = item[j].sock
  BY <1>2
<1> QED BY <1>1, <1>3, <1>6, <1>7, <1>8 DEF HandedOn

LEMMA TakeRequestHandsOn ==
  ASSUME NInv, NInv', Addressed, TakeRequest
  PROVE  HandedOn
<1> PICK r : r = Head(requests)
  OBVIOUS
<1>1. /\ requests # <<>> /\ requests' = Tail(requests) /\ current = None
      /\ UNCHANGED <<peer, got, opening, events, bound, ended>>
  BY DEF TakeRequest, sink_vars
<1>2. requests \in Seq(Requests) /\ item \in [Index -> ItemType]
  BY DEF NInv, TypeOK
<1>3. r \in Range(requests) /\ Range(requests') \subseteq Range(requests)
  BY <1>1, <1>2, FirstTaken
<1>4. ASSUME NEW j \in Index
      PROVE  /\ item'[j].sock = item[j].sock /\ item'[j].place = item[j].place
             /\ \A m \in Range(item'[j].wq) : m \in Range(item[j].wq) \/ m.to = None
  <2>1. CASE r.op = "batch" /\ j \in batch
    <3> PICK m : m = Message(r)
      OBVIOUS
    <3>1. item'[j] = [item[j] EXCEPT !.wq = Append(@, m)]
      BY <1>2, <2>1 DEF TakeRequest
    <3>2. item[j] \in ItemType /\ item[j].wq \in Seq(Messages)
      BY <1>2 DEF ItemType
    <3>3. /\ item'[j].sock = item[j].sock /\ item'[j].place = item[j].place
          /\ item'[j].wq = Append(item[j].wq, m)
      BY <3>1, <3>2 DEF ItemType
    <3>4. m.to = None
      BY <2>1 DEF Message
    <3>5. Range(item'[j].wq) = Range(item[j].wq) \cup {m}
      BY <3>2, <3>3, LastPut
    <3> QED BY <3>3, <3>4, <3>5
  <2>2. CASE ~(r.op = "batch" /\ j \in batch)
    <3>1. item'[j] = item[j]
      BY <1>2, <2>2 DEF TakeRequest
    <3> QED BY <3>1
  <2> QED BY <2>1, <2>2
<1>5. ASSUME NEW j \in Index PROVE Held(j)' \/ item'[j].sock \in ended' \cup {None}
  BY <1>1, <1>4 DEF Addressed, Held, Opening
<1>6. current' # None => current' \in Range(requests)
  BY <1>1, <1>3 DEF TakeRequest
<1> QED BY <1>1, <1>3, <1>4, <1>5, <1>6 DEF HandedOn

LEMMA OnSendDataHandsOn ==
  ASSUME NInv, NInv', Addressed, OnSendData
  PROVE  HandedOn
<1> PICK i : i = current.i
  OBVIOUS
<1> PICK m : m = Message(current)
  OBVIOUS
<1>1. /\ current # None /\ current.op = "send" /\ current' = None
      /\ item' = [item EXCEPT ![i].wq = Append(@, m)]
      /\ UNCHANGED <<peer, got, opening, requests, events, bound, ended>>
  BY DEF OnSendData, Do, sink_vars
<1>2. item \in [Index -> ItemType] /\ i \in Index
  BY <1>1, TypesOfQueues DEF NInv, TypeOK
<1>3. m.to = current.c
  BY <1>1 DEF Message
<1>4. /\ item'[i] = [item[i] EXCEPT !.wq = Append(@, m)]
      /\ \A j \in Index \ {i} : item'[j] = item[j]
  BY <1>1, <1>2
<1>5. item[i] \in ItemType /\ item[i].wq \in Seq(Messages)
  BY <1>2 DEF ItemType
<1>6. /\ item'[i].sock = item[i].sock /\ item'[i].place = item[i].place
      /\ item'[i].wq = Append(item[i].wq, m)
  BY <1>4, <1>5 DEF ItemType
<1>7. Range(item'[i].wq) = Range(item[i].wq) \cup {m}
  BY <1>5, <1>6, LastPut
<1>8. \A j \in Index : item'[j].sock = item[j].sock /\ item'[j].place = item[j].place
  BY <1>4, <1>6
<1>9. ASSUME NEW j \in Index PROVE Held(j)' \/ item'[j].sock \in ended' \cup {None}
  BY <1>1, <1>8 DEF Addressed, Held, Opening
<1>10. ASSUME NEW j \in Index, NEW l \in Range(item'[j].wq)
       PROVE  l \in Range(item[j].wq) \/ (current.i = j /\ l.to = current.c)
  <2>1. CASE j = i
    BY <1>3, <1>7, <1>10, <2>1
  <2>2. CASE j # i
    BY <1>4, <1>10, <2>2
  <2> QED BY <2>1, <2>2
<1> QED BY <1>1, <1>8, <1>9, <1>10 DEF HandedOn

LEMMA SinkHandsOn ==
  ASSUME NInv, NInv', Addressed, HandleEvent \/ PostRequest
  PROVE  HandedOn
<1>1. UNCHANGED <<item, got, opening, current, ended>>
  BY DEF HandleEvent, PostRequest
<1>2. ASSUME NEW j \in Index PROVE Held(j)' \/ item'[j].sock \in ended' \cup {None}
  BY <1>1 DEF Addressed, Held, Opening
<1>3. CASE HandleEvent
  <2> PICK e : e = Head(events)
    OBVIOUS
  <2>1. events # <<>> /\ events' = Tail(events) /\ requests' = requests
    BY <1>3 DEF HandleEvent
  <2>2. e \in Range(events) /\ Range(events') \subseteq Range(events)
    BY <2>1, FirstTaken DEF NInv, TypeOK
  <2>3. ASSUME NEW j \in Index
        PROVE  bound'[j] \in {bound[j], None} \/ (e.i = j /\ e.c = bound'[j])
    <3>1. bound \in [Index -> Conns \cup {None}]
      BY DEF NInv, TypeOK
    <3>2. \/ bound' = [bound EXCEPT ![e.i] = e.c]
          \/ bound' = [bound EXCEPT ![e.i] = None]
          \/ bound' = bound
      <4>1. bound' = CASE e.kind = "bind" -> [bound EXCEPT ![e.i] = e.c]
                       [] e.kind = "shut" -> [bound EXCEPT ![e.i] = None]
                       [] OTHER -> bound
        BY <1>3 DEF HandleEvent
      <4>2. CASE e.kind = "bind"
        <5>1. e.kind # "shut"
          BY <4>2
        <5> QED BY <4>1, <4>2, <5>1, Zenon
      <4>3. CASE e.kind = "shut"
        <5>1. e.kind # "bind"
          BY <4>3
        <5> QED BY <4>1, <4>3, <5>1, Zenon
      <4>4. CASE e.kind # "bind" /\ e.kind # "shut"
        BY <4>1, <4>4, Zenon
      <4> QED BY <4>2, <4>3, <4>4
    <3> QED BY <3>1, <3>2
  <2> QED BY <1>1, <1>2, <2>1, <2>2, <2>3 DEF HandedOn
<1>4. CASE PostRequest
  <2>1. UNCHANGED <<events, bound>>
    BY <1>4 DEF PostRequest
  <2>2. ASSUME NEW s \in Range(requests')
        PROVE  s \in Range(requests) \/ (s.i \in Index /\ s.c = bound[s.i])
    <3>1. PICK r \in [op : Op, i : {i \in Index : bound[i] # None}] \cup [op : {"batch"}, i : {0}] :
            requests' = Append(requests, [op |-> r.op, i |-> r.i, c |-> bound[r.i], n |-> asked'])
      BY <1>4 DEF PostRequest
    <3>2. r.i \in Index
      BY NetworkAssumption DEF Index
    <3> PICK q : q = [op |-> r.op, i |-> r.i, c |-> bound[r.i], n |-> asked']
      OBVIOUS
    <3>3. q.i \in Index /\ q.c = bound[q.i]
      BY <3>2
    <3>4. Range(requests') = Range(requests) \cup {q}
      BY <3>1, LastPut DEF NInv, TypeOK
    <3> QED BY <2>2, <3>3, <3>4
  <2> QED BY <1>1, <1>2, <2>1, <2>2 DEF HandedOn
<1> QED BY <1>3, <1>4

LEMMA InitAddressed == Init => Addressed
<1> SUFFICES ASSUME Init PROVE Addressed
  OBVIOUS
<1>1. Range(<<>>) = {}
  BY DEF Range
<1> PICK new : new = NewItem(None)
  OBVIOUS
<1>2. new \in ItemType /\ new.sock = None /\ new.wq = <<>>
  BY DEF NewItem, ItemType
<1>3. ASSUME NEW i \in Index PROVE item[i].sock = None /\ item[i].wq = <<>>
  <2>1. item[i] = [new EXCEPT !.open = FALSE]
    BY DEF Init
  <2> QED BY <1>2, <2>1 DEF ItemType
<1> QED BY <1>1, <1>3 DEF Init, Addressed, Addr, ToOthersOnlyAfterShut

LEMMA AddressedStep ==
  ASSUME NInv, NInv', Addressed, [Next]_vars
  PROVE  Addressed'
<1>1. Moves
  BY NextMoves
<1>2. HandedOn
  BY <1>1, UnmovedHandsOn, AcceptedHandsOn, SentHandsOn, TakeRequestHandsOn, OnSendDataHandsOn,
     SinkHandsOn DEF Moves
<1> QED BY <1>2, HandedOnKeeps

\* What a connection receives is meant for it or for all, or for one whose end
\* had been reported before, although the asynch thread uses an item that may
\* serve another connection since it was looked up, and an item's queue
\* outlives the connection.
THEOREM OthersKnowTheyAreOthers == Spec => []ToOthersOnlyAfterShut
<1>1. Addressed => ToOthersOnlyAfterShut
  BY DEF Addressed
<1>2. NInv /\ NInv' /\ Addressed /\ [Next]_vars => Addressed'
  BY AddressedStep
<1> QED BY <1>1, <1>2, InitHolds, NextHolds, InitAddressed, PTL DEF Spec

\* A request that is not for all is for a connection.
Named ==
  /\ \A r \in Range(requests) : r.op = "batch" \/ r.c # None
  /\ current # None => current.c # None

LEMMA NamedStep ==
  ASSUME TypeOK, Named, [Next]_vars
  PROVE  Named'
<1>0. requests \in Seq(Requests) /\ (current # None => current \in Requests)
  BY DEF TypeOK
<1>1. CASE PostRequest
  <2>1. PICK r \in [op : Op, i : {i \in Index : bound[i] # None}] \cup [op : {"batch"}, i : {0}] :
          requests' = Append(requests, [op |-> r.op, i |-> r.i, c |-> bound[r.i], n |-> asked'])
    BY <1>1 DEF PostRequest
  <2> PICK q : q = [op |-> r.op, i |-> r.i, c |-> bound[r.i], n |-> asked']
    OBVIOUS
  <2>2. q.op = "batch" \/ q.c # None
    OBVIOUS
  <2>3. Range(requests') = Range(requests) \cup {q}
    BY <1>0, <2>1, LastPut
  <2>4. current' = current
    BY <1>1 DEF PostRequest
  <2> QED BY <2>2, <2>3, <2>4 DEF Named
<1>2. CASE TakeRequest
  <2> PICK r : r = Head(requests)
    OBVIOUS
  <2>1. requests # <<>> /\ requests' = Tail(requests)
    BY <1>2 DEF TakeRequest
  <2>2. r \in Range(requests) /\ Range(requests') \subseteq Range(requests)
    BY <1>0, <2>1, FirstTaken
  <2>3. current' \in {current, None} \/ (current' = r /\ r.op # "batch")
    BY <1>2 DEF TakeRequest
  <2> QED BY <2>2, <2>3 DEF Named
<1>3. CASE OnSendData \/ OnShutDownSocket \/ OnAllowBatchSend
  <2>1. requests' = requests /\ current' = None
    BY <1>3 DEF OnSendData, OnShutDownSocket, OnAllowBatchSend
  <2> QED BY <2>1 DEF Named
<1>4. CASE OnCloseSocket \/ CancelSocket \/ FallThrough
  <2>1. requests' = requests /\ current # None
    BY <1>4 DEF OnCloseSocket, CancelSocket, FallThrough, Do
  <2>2. current' = None \/ \E op : current' = [current EXCEPT !.op = op]
    BY <1>4 DEF OnCloseSocket, CancelSocket, FallThrough
  <2>3. current' # None => current'.c = current.c
    BY <1>0, <2>1, <2>2 DEF Requests
  <2> QED BY <2>1, <2>3 DEF Named
<1>5. CASE UNCHANGED <<requests, current>>
  BY <1>5 DEF Named
<1>6. CASE UNCHANGED vars
  BY <1>5, <1>6 DEF vars
<1>7. ASSUME NEW c \in Conns, ActiveNetworkItem(c) PROVE Named'
  BY <1>5, <1>7 DEF ActiveNetworkItem
<1>8. CASE AddSocket \/ Start
  BY <1>5, <1>8 DEF AddSocket, Start
<1>9. ASSUME NEW i \in Index, Network(i) PROVE Named'
  BY <1>5, <1>9 DEF Network, AddNewSockets, Update, FreeNetworkItem, ReadHandler,
                    ReadHandlerInternal, WriteHandlerWrapper
<1>10. CASE HandleEvent
  BY <1>5, <1>10 DEF HandleEvent
<1>11. ASSUME NEW c \in Conns, PeerLeaves(c) PROVE Named'
  BY <1>5, <1>11 DEF PeerLeaves
<1> QED BY <1>1, <1>2, <1>3, <1>4, <1>6, <1>7, <1>8, <1>9, <1>10, <1>11
        DEF Next, Acceptor, Asynch

\* A request in hand acts on the connection it was made for, or that one's end had
\* been reported when its index was given to the next: the asynch thread's look-up
\* may be stale when it uses the item, but never for a client the sink still has.
THEOREM OnlyTheEndedAreMissed == Spec => []RequestsMissOnlyTheEnded
<1>1. Named /\ Addressed => RequestsMissOnlyTheEnded
  BY DEF Named, Addressed, Addr, RequestsMissOnlyTheEnded
<1>2. NInv /\ NInv' /\ Addressed /\ [Next]_vars => Addressed'
  BY AddressedStep
<1>3. Init => Named
  BY DEF Init, Named, Range
<1>4. NInv /\ Named /\ [Next]_vars => Named'
  BY NamedStep DEF NInv
<1> QED BY <1>1, <1>2, <1>3, <1>4, InitHolds, NextHolds, InitAddressed, PTL DEF Spec

-----------------------------------------------------------------------------
(* The order of messages                                                   *)

\* The number is of a request that was made before those that are waiting.
Past(n) ==
  /\ n <= asked /\ \A r \in Range(requests) : n < r.n
  /\ current # None => n < current.n

Numbered ==
  /\ Ascending(requests) /\ \A r \in Range(requests) : r.n <= asked
  /\ current # None => current.n <= asked /\ \A r \in Range(requests) : current.n < r.n
  /\ \A i \in Index : Ascending(item[i].wq) /\ \A m \in Range(item[i].wq) : Past(m.n)
  /\ \A c \in Conns : Ascending(got[c]) /\ \A m \in Range(got[c]) : Past(m.n)

\* What a connection has received was sent before what waits in its item's queue.
InTurn ==
  /\ \A i, j \in Index : item[i].sock = item[j].sock /\ item[i].sock # None => i = j
  /\ \A c \in Conns : peer[c] = "away" => got[c] = <<>>
  /\ \A i \in Index, c \in Conns : item[i].sock = c =>
       \A m \in Range(item[i].wq), g \in Range(got[c]) : g.n < m.n

LEMMA NumbersOfQueues ==
  ASSUME TypeOK
  PROVE  /\ \A r \in Range(requests) : r.n \in Nat
         /\ current # None => current.n \in Nat
         /\ \A i \in Index : \A m \in Range(item[i].wq) : m.n \in Nat
         /\ \A c \in Conns : \A m \in Range(got[c]) : m.n \in Nat
         /\ asked \in Nat
<1>1. \A r \in Requests : r.n \in Nat
  BY NetworkAssumption DEF Requests
<1>2. \A m \in Messages : m.n \in Nat
  BY NetworkAssumption DEF Messages
<1>3. ASSUME NEW i \in Index, NEW m \in Range(item[i].wq) PROVE m.n \in Nat
  BY <1>2, TypesOfQueues, InRange
<1>4. ASSUME NEW c \in Conns, NEW m \in Range(got[c]) PROVE m.n \in Nat
  BY <1>2, TypesOfQueues, InRange
<1>5. asked \in Nat
  BY NetworkAssumption DEF TypeOK
<1> QED BY <1>1, <1>3, <1>4, <1>5, TypesOfQueues

\* The requests stay or are taken, and so are the messages.
LEMMA UnmovedInOrder ==
  ASSUME NInv, NInv', Numbered, InTurn, Unmoved
  PROVE  Numbered' /\ InTurn'
<1>1. /\ \A i \in Index : item'[i].sock = item[i].sock /\ item'[i].wq = item[i].wq
      /\ got' = got /\ requests' = requests /\ asked' = asked
      /\ current' # None => current # None /\ current'.n = current.n
      /\ \A c \in Conns : peer'[c] = "away" => peer[c] = "away"
  BY DEF Unmoved
<1>2. ASSUME NEW n, Past(n) PROVE Past(n)'
  BY <1>1, <1>2 DEF Past
<1>3. ASSUME NEW i \in Index
      PROVE  Ascending(item'[i].wq) /\ \A m \in Range(item'[i].wq) : Past(m.n)'
  BY <1>1, <1>2 DEF Numbered
<1>4. ASSUME NEW c \in Conns
      PROVE  Ascending(got'[c]) /\ \A m \in Range(got'[c]) : Past(m.n)'
  BY <1>1, <1>2 DEF Numbered
<1>5. Numbered'
  BY <1>1, <1>3, <1>4 DEF Numbered
<1>6. InTurn'
  BY <1>1 DEF InTurn
<1> QED BY <1>5, <1>6

LEMMA AcceptedInOrder ==
  ASSUME NInv, NInv', Numbered, InTurn, NEW i \in Index, NEW c \in Conns, Accepted(i, c)
  PROVE  Numbered' /\ InTurn'
<1>1. /\ item'[i].sock = c /\ item'[i].wq \in {<<>>, item[i].wq}
      /\ peer[c] = "away" /\ peer' = [peer EXCEPT ![c] = "here"]
      /\ got' = got /\ requests' = requests /\ current' = current /\ asked' = asked
  BY DEF Accepted
<1>2. \A j \in Index \ {i} : item'[j] = item[j]
  BY DEF Accepted
<1>3. Range(<<>>) = {} /\ Ascending(<<>>)
  BY DEF Range, Ascending
<1>4. \A n : Past(n) => Past(n)'
  BY <1>1 DEF Past
<1>5. ASSUME NEW j \in Index
      PROVE  Ascending(item'[j].wq) /\ \A m \in Range(item'[j].wq) : m \in Range(item[j].wq)
  <2>1. CASE j = i
    BY <1>1, <1>3, <2>1 DEF Numbered
  <2>2. CASE j # i
    BY <1>2, <2>2 DEF Numbered
  <2> QED BY <2>1, <2>2
<1>6. Numbered'
  BY <1>1, <1>4, <1>5 DEF Numbered
<1>7. \A j \in Index : item[j].sock # c
  BY <1>1 DEF NInv, Accepting
<1>8. c # None
  BY NetworkAssumption DEF Conns
<1>9. ASSUME NEW j \in Index, NEW k \in Index, item'[j].sock = item'[k].sock, item'[j].sock # None
      PROVE  j = k
  BY <1>1, <1>2, <1>7, <1>9 DEF InTurn
<1>10. ASSUME NEW d \in Conns, peer'[d] = "away" PROVE got'[d] = <<>>
  BY <1>1, <1>10 DEF InTurn, NInv, TypeOK
<1>11. ASSUME NEW j \in Index, NEW d \in Conns, item'[j].sock = d,
              NEW m \in Range(item'[j].wq), NEW g \in Range(got'[d])
       PROVE  g.n < m.n
  <2>1. CASE j = i
    <3>1. got[c] = <<>>
      BY <1>1 DEF InTurn
    <3> QED BY <1>1, <1>3, <1>11, <2>1, <3>1
  <2>2. CASE j # i
    BY <1>1, <1>2, <1>11, <2>2 DEF InTurn
  <2> QED BY <2>1, <2>2
<1>12. InTurn'
  BY <1>9, <1>10, <1>11 DEF InTurn
<1> QED BY <1>6, <1>12

LEMMA SentInOrder ==
  ASSUME NInv, NInv', Numbered, InTurn, NEW i \in Index, Sent(i)
  PROVE  Numbered' /\ InTurn'
<1> PICK h : h = Head(item[i].wq)
  OBVIOUS
<1>1. /\ item[i].wq # <<>> /\ item'[i].wq = Tail(item[i].wq)
      /\ \A j \in Index : item'[j].sock = item[j].sock /\ (j # i => item'[j].wq = item[j].wq)
      /\ requests' = requests /\ current' = current /\ asked' = asked /\ peer' = peer
  BY DEF Sent
<1>2. item[i].wq \in Seq(Messages) /\ \A c \in Conns : got[c] \in Seq(Messages)
  BY TypesOfQueues DEF NInv
<1>3. /\ h \in Range(item[i].wq) /\ Range(item'[i].wq) \subseteq Range(item[i].wq)
      /\ Ascending(item'[i].wq) /\ \A m \in Range(item'[i].wq) : h.n < m.n
  BY <1>1, <1>2, FirstTaken DEF Numbered
<1>4. \A n : Past(n) => Past(n)'
  BY <1>1 DEF Past
<1>5. ASSUME NEW c \in Conns
      PROVE  \/ got'[c] = got[c]
             \/ item[i].sock = c /\ peer[c] = "here" /\ got'[c] = Append(got[c], h)
  BY <1>5 DEF Sent, NInv, TypeOK
<1>6. ASSUME NEW c \in Conns
      PROVE  /\ Ascending(got'[c])
             /\ \A g \in Range(got'[c]) : g \in Range(got[c]) \/ (g = h /\ item[i].sock = c)
  <2>1. CASE got'[c] = got[c]
    BY <2>1 DEF Numbered
  <2>2. CASE item[i].sock = c /\ got'[c] = Append(got[c], h)
    <3>1. \A g \in Range(got[c]) : g.n < h.n
      BY <1>3, <2>2 DEF InTurn
    <3>2. Ascending(got'[c]) /\ Range(got'[c]) = Range(got[c]) \cup {h}
      BY <1>2, <2>2, <3>1, LastPut DEF Numbered
    <3> QED BY <2>2, <3>2
  <2> QED BY <1>5, <2>1, <2>2
<1>7. ASSUME NEW c \in Conns, NEW g \in Range(got'[c]) PROVE Past(g.n)
  <2>1. CASE g \in Range(got[c])
    BY <2>1 DEF Numbered
  <2>2. CASE g = h
    BY <1>3, <2>2 DEF Numbered
  <2> QED BY <1>6, <1>7, <2>1, <2>2
<1>8. ASSUME NEW j \in Index
      PROVE  Ascending(item'[j].wq) /\ Range(item'[j].wq) \subseteq Range(item[j].wq)
  <2>1. CASE j = i
    BY <1>3, <2>1
  <2>2. CASE j # i
    BY <1>1, <2>2 DEF Numbered
  <2> QED BY <2>1, <2>2
<1>9. Numbered'
  BY <1>1, <1>4, <1>6, <1>7, <1>8 DEF Numbered
<1>10. ASSUME NEW c \in Conns, peer'[c] = "away" PROVE got'[c] = <<>>
  BY <1>1, <1>5, <1>10 DEF InTurn
<1>11. ASSUME NEW j \in Index, NEW c \in Conns, item'[j].sock = c,
              NEW m \in Range(item'[j].wq), NEW g \in Range(got'[c])
       PROVE  g.n < m.n
  <2>1. item[j].sock = c /\ m \in Range(item[j].wq)
    BY <1>1, <1>8, <1>11
  <2>2. CASE g \in Range(got[c])
    BY <2>1, <2>2 DEF InTurn
  <2>3. CASE g = h /\ item[i].sock = c
    <3>1. c # None
      BY NetworkAssumption DEF Conns
    <3>2. j = i
      BY <2>1, <2>3, <3>1 DEF InTurn
    <3> QED BY <1>3, <1>11, <2>3, <3>2
  <2> QED BY <1>6, <1>11, <2>2, <2>3
<1>12. InTurn'
  BY <1>1, <1>10, <1>11 DEF InTurn
<1> QED BY <1>9, <1>12

\* The message of a request that is carried out goes to the end of queues.
LEMMA QueuedInOrder ==
  ASSUME NInv, NInv', Numbered, InTurn, NEW q \in Messages, NEW I,
         UNCHANGED <<peer, got>>, \A n : Past(n) => Past(n)' /\ n < q.n, Past(q.n)',
         Ascending(requests'), \A r \in Range(requests') : r.n <= asked',
         current' # None => current'.n <= asked' /\ \A r \in Range(requests') : current'.n < r.n,
         \A i \in Index : /\ item'[i].sock = item[i].sock
                          /\ item'[i].wq = IF i \in I THEN Append(item[i].wq, q) ELSE item[i].wq
  PROVE  Numbered' /\ InTurn'
<1>1. \A i \in Index : item[i].wq \in Seq(Messages)
  BY TypesOfQueues DEF NInv
<1>2. ASSUME NEW i \in Index
      PROVE  /\ Ascending(item'[i].wq)
             /\ \A m \in Range(item'[i].wq) : m \in Range(item[i].wq) \/ m = q
  <2>1. CASE i \in I
    <3>1. \A m \in Range(item[i].wq) : m.n < q.n
      BY DEF Numbered
    <3>2. item'[i].wq = Append(item[i].wq, q)
      BY <2>1
    <3>3. Ascending(item'[i].wq) /\ Range(item'[i].wq) = Range(item[i].wq) \cup {q}
      BY <1>1, <3>1, <3>2, LastPut DEF Numbered
    <3> QED BY <3>3
  <2>2. CASE i \notin I
    BY <2>2 DEF Numbered
  <2> QED BY <2>1, <2>2
<1>3. ASSUME NEW i \in Index, NEW m \in Range(item'[i].wq) PROVE Past(m.n)'
  <2>1. CASE m \in Range(item[i].wq)
    BY <2>1 DEF Numbered
  <2> QED BY <1>2, <1>3, <2>1
<1>4. \A i \in Index : \A m \in Range(item'[i].wq) : Past(m.n)'
  BY <1>3
<1>5. ASSUME NEW c \in Conns, NEW m \in Range(got'[c]) PROVE Past(m.n)'
  BY <1>5 DEF Numbered
<1>6. Numbered'
  BY <1>2, <1>4, <1>5 DEF Numbered
<1>7. ASSUME NEW i \in Index, NEW c \in Conns, item'[i].sock = c,
             NEW m \in Range(item'[i].wq), NEW g \in Range(got'[c])
      PROVE  g.n < m.n
  <2>1. CASE m \in Range(item[i].wq)
    BY <1>7, <2>1 DEF InTurn
  <2>2. CASE m = q
    BY <1>7, <2>2 DEF Numbered
  <2> QED BY <1>2, <1>7, <2>1, <2>2
<1>8. InTurn'
  BY <1>7 DEF InTurn
<1> QED BY <1>6, <1>8

LEMMA TakeRequestInOrder ==
  ASSUME NInv, NInv', Numbered, InTurn, TakeRequest
  PROVE  Numbered' /\ InTurn'
<1> PICK r : r = Head(requests)
  OBVIOUS
<1> PICK q : q = Message(r)
  OBVIOUS
<1>1. /\ requests # <<>> /\ requests' = Tail(requests) /\ current = None /\ current' \in {r, None}
      /\ UNCHANGED <<peer, got, asked>>
  BY DEF TakeRequest, sink_vars
<1>2. requests \in Seq(Requests) /\ item \in [Index -> ItemType]
  BY DEF NInv, TypeOK
<1>3. /\ r \in Range(requests) /\ Range(requests') \subseteq Range(requests)
      /\ Ascending(requests') /\ \A s \in Range(requests') : r.n < s.n
  BY <1>1, <1>2, FirstTaken DEF Numbered
<1>4. r \in Requests
  BY <1>2, <1>3, InRange
<1>5. q \in Messages /\ q.n = r.n
  <2>1. q = [to |-> IF r.op = "batch" THEN None ELSE r.c, n |-> r.n]
    BY DEF Message
  <2> QED BY <1>4, <2>1 DEF Messages, Requests
<1>6. r.n <= asked
  BY <1>3 DEF Numbered
<1>7. ASSUME NEW n, Past(n) PROVE Past(n)' /\ n < q.n
  <2>1. n <= asked /\ \A s \in Range(requests) : n < s.n
    BY <1>7 DEF Past
  <2>2. n < r.n
    BY <1>3, <2>1
  <2> QED BY <1>1, <1>3, <1>5, <2>1, <2>2 DEF Past
<1>8. Ascending(requests') /\ \A s \in Range(requests') : s.n <= asked'
  BY <1>1, <1>3 DEF Numbered
<1>9. current' # None => current'.n <= asked' /\ \A s \in Range(requests') : current'.n < s.n
  BY <1>1, <1>3, <1>6
<1>10. CASE r.op = "batch"
  <2>1. current' = None
    BY <1>1, <1>10 DEF TakeRequest
  <2>2. Past(q.n)'
    BY <1>1, <1>3, <1>5, <1>6, <2>1 DEF Past
  <2>3. ASSUME NEW i \in Index
        PROVE  /\ item'[i].sock = item[i].sock
               /\ item'[i].wq = IF i \in batch THEN Append(item[i].wq, q) ELSE item[i].wq
    <3>1. item'[i] = IF i \in batch THEN [item[i] EXCEPT !.wq = Append(@, q)] ELSE item[i]
      BY <1>2, <1>10 DEF TakeRequest
    <3>2. item[i] \in ItemType
      BY <1>2
    <3> QED BY <3>1, <3>2 DEF ItemType
  <2> QED BY <1>1, <1>5, <1>7, <1>8, <1>9, <2>2, <2>3, QueuedInOrder
<1>11. CASE r.op # "batch"
  <2>1. item' = item
    BY <1>11 DEF TakeRequest
  <2>2. \A i \in Index : Ascending(item'[i].wq) /\ \A m \in Range(item'[i].wq) : Past(m.n)'
    BY <1>7, <2>1 DEF Numbered
  <2>3. \A c \in Conns : Ascending(got'[c]) /\ \A m \in Range(got'[c]) : Past(m.n)'
    BY <1>1, <1>7 DEF Numbered
  <2>4. Numbered'
    BY <1>8, <1>9, <2>2, <2>3 DEF Numbered
  <2>5. InTurn'
    BY <1>1, <2>1 DEF InTurn
  <2> QED BY <2>4, <2>5
<1> QED BY <1>10, <1>11

LEMMA OnSendDataInOrder ==
  ASSUME NInv, NInv', Numbered, InTurn, OnSendData
  PROVE  Numbered' /\ InTurn'
<1> PICK i : i = current.i
  OBVIOUS
<1> PICK q : q = Message(current)
  OBVIOUS
<1>1. /\ current # None /\ current' = None /\ item' = [item EXCEPT ![i].wq = Append(@, q)]
      /\ UNCHANGED <<peer, got, requests, asked>>
  BY DEF OnSendData, Do, sink_vars
<1>2. q \in Messages /\ q.n = current.n /\ i \in Index /\ item \in [Index -> ItemType]
  BY Current DEF OnSendData, Message, NInv, TypeOK
<1>3. ASSUME NEW n, Past(n) PROVE Past(n)' /\ n < q.n
  BY <1>1, <1>2, <1>3 DEF Past
<1>4. Past(q.n)'
  BY <1>1, <1>2 DEF Past, Numbered
<1>5. ASSUME NEW j \in Index
      PROVE  /\ item'[j].sock = item[j].sock
             /\ item'[j].wq = IF j \in {i} THEN Append(item[j].wq, q) ELSE item[j].wq
  <2>1. item'[j] = IF j = i THEN [item[j] EXCEPT !.wq = Append(@, q)] ELSE item[j]
    BY <1>1, <1>2
  <2>2. item[j] \in ItemType
    BY <1>2
  <2> QED BY <2>1, <2>2 DEF ItemType
<1>6. Ascending(requests') /\ \A r \in Range(requests') : r.n <= asked'
  BY <1>1 DEF Numbered
<1> QED BY <1>1, <1>2, <1>3, <1>4, <1>5, <1>6, QueuedInOrder

LEMMA SinkInOrder ==
  ASSUME NInv, NInv', Numbered, InTurn, HandleEvent \/ PostRequest
  PROVE  Numbered' /\ InTurn'
<1>1. UNCHANGED <<peer, item, got, current>>
  BY DEF HandleEvent, PostRequest
<1>2. InTurn'
  BY <1>1 DEF InTurn
<1>3. CASE HandleEvent
  <2>1. UNCHANGED <<requests, asked>>
    BY <1>3 DEF HandleEvent
  <2> QED BY <1>1, <1>2, <2>1 DEF Numbered, Past
<1>4. CASE PostRequest
  <2>1. PICK q : q.n = asked' /\ requests' = Append(requests, q)
    <3>1. PICK r \in [op : Op, i : {i \in Index : bound[i] # None}] \cup [op : {"batch"}, i : {0}] :
            requests' = Append(requests, [op |-> r.op, i |-> r.i, c |-> bound[r.i], n |-> asked'])
      BY <1>4 DEF PostRequest
    <3> QED BY <3>1
  <2>2. asked' = asked + 1 /\ asked \in Nat
    BY <1>4, NumbersOfQueues DEF PostRequest, NInv
  <2>3. \A r \in Range(requests) : r.n \in Nat /\ r.n <= asked
    BY NumbersOfQueues DEF NInv, Numbered
  <2>4. \A r \in Range(requests) : r.n < q.n
    BY <2>1, <2>2, <2>3
  <2>5. Range(requests') = Range(requests) \cup {q} /\ Ascending(requests')
    BY <2>1, <2>4, LastPut DEF NInv, TypeOK, Numbered
  <2>6. \A r \in Range(requests') : r.n <= asked'
    BY <2>1, <2>2, <2>3, <2>5
  <2>7. ASSUME NEW n \in Nat, Past(n) PROVE Past(n)'
    BY <1>1, <2>1, <2>2, <2>5, <2>7 DEF Past
  <2>8. current' # None => current'.n <= asked' /\ \A r \in Range(requests') : current'.n < r.n
    <3>1. current # None => current.n \in Nat /\ current.n <= asked
      BY NumbersOfQueues DEF NInv, Numbered
    <3> QED BY <1>1, <2>1, <2>2, <2>5, <3>1 DEF Numbered
  <2>9. ASSUME NEW i \in Index, NEW m \in Range(item[i].wq) PROVE Past(m.n)'
    <3>1. m.n \in Nat /\ Past(m.n)
      BY NumbersOfQueues DEF NInv, Numbered
    <3> QED BY <2>7, <3>1
  <2>10. ASSUME NEW c \in Conns, NEW m \in Range(got[c]) PROVE Past(m.n)'
    <3>1. m.n \in Nat /\ Past(m.n)
      BY NumbersOfQueues DEF NInv, Numbered
    <3> QED BY <2>7, <3>1
  <2>11. /\ \A i \in Index : Ascending(item'[i].wq) /\ \A m \in Range(item'[i].wq) : Past(m.n)'
         /\ \A c \in Conns : Ascending(got'[c]) /\ \A m \in Range(got'[c]) : Past(m.n)'
    BY <1>1, <2>9, <2>10 DEF Numbered
  <2>12. Numbered'
    BY <2>5, <2>6, <2>8, <2>11 DEF Numbered
  <2> QED BY <1>2, <2>12
<1> QED BY <1>3, <1>4

LEMMA InitInOrder == Init => Numbered /\ InTurn
<1> SUFFICES ASSUME Init PROVE Numbered /\ InTurn
  OBVIOUS
<1>1. Range(<<>>) = {} /\ Ascending(<<>>)
  BY DEF Range, Ascending
<1> PICK new : new = NewItem(None)
  OBVIOUS
<1>2. new \in ItemType /\ new.sock = None /\ new.wq = <<>>
  BY DEF NewItem, ItemType
<1>3. ASSUME NEW i \in Index PROVE item[i].sock = None /\ item[i].wq = <<>>
  <2>1. item[i] = [new EXCEPT !.open = FALSE]
    BY DEF Init
  <2> QED BY <1>2, <2>1 DEF ItemType
<1>4. Numbered
  BY <1>1, <1>3 DEF Init, Numbered
<1>5. InTurn
  BY <1>1, <1>3 DEF Init, InTurn
<1> QED BY <1>4, <1>5

\* What a connection receives was sent in that order and is not repeated, whether
\* it was sent to it or to all, through partial writes, errors and the reuse of
\* its item.
THEOREM MessagesKeepTheirOrder == Spec => []InOrder
<1>1. Numbered => InOrder
  BY DEF Numbered, Ascending, InOrder
<1>2. NInv /\ NInv' /\ Numbered /\ InTurn /\ [Next]_vars => Numbered' /\ InTurn'
  <2> SUFFICES ASSUME NInv, NInv', Numbered, InTurn, [Next]_vars PROVE Numbered' /\ InTurn'
    OBVIOUS
  <2>1. Moves
    BY NextMoves
  <2> QED BY <2>1, UnmovedInOrder, AcceptedInOrder, SentInOrder, TakeRequestInOrder,
             OnSendDataInOrder, SinkInOrder DEF Moves
<1> QED BY <1>1, <1>2, InitHolds, NextHolds, InitInOrder, PTL DEF Spec
=============================================================================
