--------------------------- MODULE NetworkEngine ---------------------------
(***************************************************************************)
(* The TCP network engine of a server.  A connection is served under an    *)
(* index, by an item that is reused when the connection is gone.  Four     *)
(* kinds of threads work on the items:                                     *)
(*                                                                         *)
(*   acceptor   OnSocketOpen: takes an item, hands it to a network thread  *)
(*   network    Update every 10 ms, and the handlers of reads and writes   *)
(*   asynch     OnAsynchronismEngineData: the requests of the sink         *)
(*   attemper   the sink: handles the events, makes the requests           *)
(*                                                                         *)
(* m_mutex guards the store and the free list, never an item: whoever      *)
(* looked an item up may use it when it serves another connection.         *)
(*                                                                         *)
(* Update is taken item by item.  An operation on a socket completes in    *)
(* the step of its handler, unless the socket is closed before.            *)
(***************************************************************************)
EXTENDS Integers, Sequences, FiniteSets, SequencesExt

CONSTANTS
  MaxConns,     \* bounds the connections that are accepted
  MaxWork,      \* bounds the requests of the sink and the packets that arrive
  None          \* no connection, no request

ASSUME NetworkAssumption ==
  /\ MaxConns \in Nat \ {0} /\ MaxWork \in Nat
  /\ None \notin Nat /\ None \notin [at : {"add", "start"}, i : Nat]

\* The connections, in the order in which they are accepted
Conns == 1 .. MaxConns

\* m_curIndex counts connections at most: items are reused.
Index == 0 .. MaxConns - 1

VARIABLES
  peer,       \* the far end of each connection
  got,        \* what arrived there
  item,       \* the items, by index
  store,      \* the indexes in m_NetItemStore
  batch,      \* the indexes in m_BatchNetItemStore
  free,       \* m_NetworkFreeItem
  curIndex,   \* m_curIndex
  opening,    \* how far OnSocketOpen is, and with which index
  requests,   \* m_dataQueue of the engine's AsynchronismEngine
  current,    \* the request whose item was looked up
  events,     \* m_dataQueue of the AttemperEngine's AsynchronismEngine
  bound,      \* the sink's idea of who is behind an index
  asked, arrived, ended   \* requests made, packets read, connections reported shut

store_vars == <<store, batch, free, curIndex>>
sink_vars  == <<bound, asked>>
vars == <<peer, got, item, store_vars, opening, requests, current, events, sink_vars,
          arrived, ended>>

Op == {"send", "close", "shutdown", "allow"}

NewItem(c) ==
  [sock |-> c, open |-> TRUE,        \* m_socket, and whether it is open
   closed |-> FALSE, closing |-> FALSE, writing |-> FALSE,
   wq |-> <<>>,                      \* m_writeQueue
   reads |-> 0, writes |-> 0,        \* operations pending on the socket
   lateReads |-> 0, lateWrites |-> 0, \* aborted, their handlers still to run
   looping |-> FALSE,                \* Update is between two calls of HandleQueue
   place |-> "none"]                 \* in m_vNewSocket, m_vSocket or neither

IsOpen(it) == ~it.closed /\ ~it.closing

Message(r) == [to |-> IF r.op = "batch" THEN None ELSE r.c, n |-> r.n]

Post(kind, i) == events' = Append(events, [kind |-> kind, i |-> i, c |-> item[i].sock])

-----------------------------------------------------------------------------
(* The item                                                                *)

\* What is pending on a socket that is closed is aborted.
Abort(it) ==
  [it EXCEPT !.open = FALSE, !.reads = 0, !.writes = 0,
             !.lateReads = @ + it.reads, !.lateWrites = @ + it.writes]

CloseSocket(it) == IF it.closed THEN it ELSE Abort([it EXCEPT !.closed = TRUE])

\* The queue of what is to be written stays.
Attach(it, c) ==
  [Abort(it) EXCEPT !.sock = c, !.open = TRUE,
                    !.closed = FALSE, !.closing = FALSE, !.writing = FALSE]

\* A read started on a socket that was closed meanwhile fails at once.
AsyncRead(it) ==
  IF ~IsOpen(it) THEN it
  ELSE IF it.open THEN [it EXCEPT !.reads = @ + 1] ELSE [it EXCEPT !.lateReads = @ + 1]

\* Mutation: a message that was sent stays in the queue.
PoppedNever(it, again) == [it EXCEPT !.looping = again /\ Len(it.wq) > 1]

\* The first message is done with, sent or not.
Popped(it, again) ==
  LET s == [it EXCEPT !.wq = Tail(@), !.looping = again /\ Len(it.wq) > 1]
  IN  IF s.closing /\ s.wq = <<>> THEN CloseSocket(s) ELSE s

\* What HandleQueue does to item i, it being the item so far
HandleQueue(i, it, again) ==
  \/ /\ it.wq = <<>>
     /\ item' = [item EXCEPT ![i] = [it EXCEPT !.looping = FALSE]] /\ UNCHANGED got
  \/ /\ it.wq # <<>> /\ it.open                 \* sent in part or not at all
     /\ item' = [item EXCEPT ![i] = [it EXCEPT !.writing = TRUE, !.writes = @ + 1,
                                               !.looping = FALSE]]
     /\ UNCHANGED got
  \/ /\ it.wq # <<>> /\ it.open                 \* sent
     /\ item' = [item EXCEPT ![i] = Popped(it, again)]
     /\ got' = IF peer[it.sock] = "here"
               THEN [got EXCEPT ![it.sock] = Append(@, Head(it.wq))] ELSE got
  \/ /\ it.wq # <<>> /\ (it.open => peer[it.sock] = "gone")    \* an error
     /\ item' = [item EXCEPT ![i] = Popped(it, FALSE)] /\ UNCHANGED got

-----------------------------------------------------------------------------
(* The acceptor                                                            *)

\* Mutation: m_curIndex is not advanced.
ActiveNetworkItemSameIndex(c) ==
  /\ opening = None /\ peer[c] = "away" /\ (c > 1 => peer[c - 1] # "away")
  /\ peer' = [peer EXCEPT ![c] = "here"]
  /\ LET i == IF free = <<>> THEN curIndex ELSE Head(free)
     IN  /\ item' = [item EXCEPT ![i] = IF free = <<>> THEN NewItem(c) ELSE Attach(@, c)]
         /\ store' = store \cup {i}
         /\ opening' = [at |-> "add", i |-> i]
  /\ IF free = <<>> THEN UNCHANGED free ELSE free' = Tail(free)
  /\ UNCHANGED <<curIndex, got, batch, requests, current, events, sink_vars, arrived, ended>>

\* ActiveNetworkItem.  A peer that is gone already ends the process: what
\* remote_endpoint() throws is not caught.
ActiveNetworkItem(c) ==
  /\ opening = None /\ peer[c] = "away" /\ (c > 1 => peer[c - 1] # "away")
  /\ peer' = [peer EXCEPT ![c] = "here"]
  /\ LET i == IF free = <<>> THEN curIndex ELSE Head(free)
     IN  /\ item' = [item EXCEPT ![i] = IF free = <<>> THEN NewItem(c) ELSE Attach(@, c)]
         /\ store' = store \cup {i}
         /\ opening' = [at |-> "add", i |-> i]
  /\ IF free = <<>> THEN curIndex' = curIndex + 1 /\ UNCHANGED free
                    ELSE free' = Tail(free) /\ UNCHANGED curIndex
  /\ UNCHANGED <<got, batch, requests, current, events, sink_vars, arrived, ended>>

AddSocket ==
  /\ opening # None /\ opening.at = "add"
  /\ item' = [item EXCEPT ![opening.i].place = "new"] /\ Post("bind", opening.i)
  /\ opening' = [opening EXCEPT !.at = "start"]
  /\ UNCHANGED <<peer, got, store_vars, requests, current, sink_vars, arrived, ended>>

Start ==
  /\ opening # None /\ opening.at = "start" /\ opening' = None
  /\ item' = [item EXCEPT ![opening.i] = AsyncRead(@)]
  /\ UNCHANGED <<peer, got, store_vars, requests, current, events, sink_vars, arrived, ended>>

-----------------------------------------------------------------------------
(* A network thread                                                        *)

\* Mutation: the sink is not told.
SocketRemovedUnreported(i) ==
  /\ ended' = ended \cup {item[i].sock}
  /\ item' = [item EXCEPT ![i].place = "shut"] /\ UNCHANGED <<store_vars, events>>

\* OnEventSocketShut up to FreeNetworkItem
SocketRemoved(i) ==
  /\ Post("shut", i) /\ ended' = ended \cup {item[i].sock}
  /\ item' = [item EXCEPT ![i].place = "shut"] /\ UNCHANGED store_vars

\* Mutation: the sink is told only of sockets that were taken in.
AddNewSocketsUnreported(i) ==
  /\ item[i].place = "new"
  /\ item' = [item EXCEPT ![i].place = IF IsOpen(item[i]) THEN "live" ELSE "shut"]
  /\ UNCHANGED <<peer, got, opening, requests, current, sink_vars, arrived, events, ended,
                 store_vars>>

\* A socket that is no longer open is not taken in.
AddNewSockets(i) ==
  /\ item[i].place = "new"
  /\ IF IsOpen(item[i])
     THEN item' = [item EXCEPT ![i].place = "live"] /\ UNCHANGED <<events, ended, store_vars>>
     ELSE SocketRemoved(i)
  /\ UNCHANGED <<peer, got, opening, requests, current, sink_vars, arrived>>

\* Mutation: closed sockets are not looked for.
UpdateSkipsClosed(i) ==
  LET it == item[i]
  IN  /\ it.place = "live"
      /\ it.looping \/ (~it.writing /\ it.wq # <<>>)
      /\ HandleQueue(i, it, TRUE)
      /\ UNCHANGED <<peer, store_vars, opening, requests, current, events, sink_vars,
                     arrived, ended>>

Update(i) ==
  LET it == item[i]
  IN  /\ it.place = "live"
      /\ \/ /\ it.closed /\ ~it.looping
            /\ SocketRemoved(i) /\ UNCHANGED got
         \/ /\ it.looping \/ (~it.closed /\ ~it.writing /\ (it.wq # <<>> \/ it.closing))
            /\ HandleQueue(i, it, TRUE) /\ UNCHANGED <<events, ended, store_vars>>
      /\ UNCHANGED <<peer, opening, requests, current, sink_vars, arrived>>

\* Mutation: the index stays in the store.
FreeNetworkItemKeepsStore(i) ==
  /\ item[i].place = "shut" /\ item' = [item EXCEPT ![i].place = "none"]
  /\ batch' = batch \ {i} /\ free' = Append(free, i)
  /\ UNCHANGED <<peer, got, store, curIndex, opening, requests, current, events, sink_vars,
                 arrived, ended>>

FreeNetworkItem(i) ==
  /\ item[i].place = "shut" /\ item' = [item EXCEPT ![i].place = "none"]
  /\ store' = store \ {i} /\ batch' = batch \ {i} /\ free' = Append(free, i)
  /\ UNCHANGED <<peer, got, curIndex, opening, requests, current, events, sink_vars,
                 arrived, ended>>

\* Mutation: no read follows the one that is done.
ReadHandlerOnce(i) ==
  /\ item[i].reads > 0 /\ ~item[i].looping
  /\ asked + arrived < MaxWork /\ arrived' = arrived + 1
  /\ Post("read", i) /\ item' = [item EXCEPT ![i].reads = @ - 1]
  /\ UNCHANGED <<peer, got, store_vars, opening, requests, current, sink_vars, ended>>

\* A packet: reported, or refused for its head and the socket closed
ReadHandler(i) ==
  /\ item[i].reads > 0 /\ ~item[i].looping
  /\ asked + arrived < MaxWork /\ arrived' = arrived + 1
  /\ LET it == [item[i] EXCEPT !.reads = @ - 1]
     IN  \/ Post("read", i) /\ item' = [item EXCEPT ![i] = AsyncRead(it)]
         \/ item' = [item EXCEPT ![i] = CloseSocket(it)] /\ UNCHANGED events
  /\ UNCHANGED <<peer, got, store_vars, opening, requests, current, sink_vars, ended>>

\* The peer is gone, or the read was aborted: on whatever the item serves now
ReadHandlerInternal(i) ==
  /\ ~item[i].looping
  /\ \/ /\ item[i].reads > 0 /\ peer[item[i].sock] = "gone"
        /\ LET it == [item[i] EXCEPT !.reads = @ - 1]
           IN  item' = [item EXCEPT ![i] = CloseSocket(it)]
     \/ /\ item[i].lateReads > 0
        /\ LET it == [item[i] EXCEPT !.lateReads = @ - 1]
           IN  item' = [item EXCEPT ![i] = CloseSocket(it)]
  /\ UNCHANGED <<peer, got, store_vars, opening, requests, current, events, sink_vars,
                 arrived, ended>>

WriteHandlerWrapper(i) ==
  /\ ~item[i].looping
  /\ \/ /\ item[i].writes > 0
        /\ HandleQueue(i, [item[i] EXCEPT !.writing = FALSE, !.writes = @ - 1], FALSE)
     \/ /\ item[i].lateWrites > 0
        /\ HandleQueue(i, [item[i] EXCEPT !.writing = FALSE, !.lateWrites = @ - 1], FALSE)
  /\ UNCHANGED <<peer, store_vars, opening, requests, current, events, sink_vars,
                 arrived, ended>>

-----------------------------------------------------------------------------
(* The asynch thread                                                       *)

\* Up to GetNetworkItem
TakeRequest ==
  /\ current = None /\ requests # <<>> /\ requests' = Tail(requests)
  /\ LET r == Head(requests)
     IN  IF r.op = "batch"
         THEN /\ item' = [i \in DOMAIN item |->
                 IF i \in batch THEN [item[i] EXCEPT !.wq = Append(@, Message(r))]
                                ELSE item[i]]
              /\ UNCHANGED current
         ELSE current' = (IF r.i \in store THEN r ELSE None) /\ UNCHANGED item
  /\ UNCHANGED <<peer, got, store_vars, opening, events, sink_vars, arrived, ended>>

Do(op) == current # None /\ current.op = op

OnSendData ==
  /\ Do("send") /\ current' = None
  /\ item' = [item EXCEPT ![current.i].wq = Append(@, Message(current))]
  /\ UNCHANGED <<peer, got, store_vars, opening, requests, events, sink_vars, arrived, ended>>

\* CloseSocket's exchange.  m_socket is cancelled and closed after it.
OnCloseSocket ==
  /\ Do("close")
  /\ item' = [item EXCEPT ![current.i].closed = TRUE]
  /\ current' = [current EXCEPT !.op = IF item[current.i].closed THEN "closed" ELSE "cancel"]
  /\ UNCHANGED <<peer, got, store_vars, opening, requests, events, sink_vars, arrived, ended>>

CancelSocket ==
  /\ Do("cancel")
  /\ item' = [item EXCEPT ![current.i] = Abort(@)]
  /\ current' = [current EXCEPT !.op = "closed"]
  /\ UNCHANGED <<peer, got, store_vars, opening, requests, events, sink_vars, arrived, ended>>

\* The case that follows is run as well, and looks the index up again.
FallThrough ==
  /\ Do("closed")
  /\ current' = IF current.i \in store THEN [current EXCEPT !.op = "shutdown"] ELSE None
  /\ UNCHANGED <<peer, got, item, store_vars, opening, requests, events, sink_vars,
                 arrived, ended>>

OnShutDownSocket ==
  /\ Do("shutdown") /\ current' = None
  /\ item' = [item EXCEPT ![current.i].closing = TRUE]
  /\ UNCHANGED <<peer, got, store_vars, opening, requests, events, sink_vars, arrived, ended>>

OnAllowBatchSend ==
  /\ Do("allow") /\ current' = None
  /\ batch' = batch \cup {current.i}
  /\ UNCHANGED <<peer, got, item, store, free, curIndex, opening, requests, events, sink_vars,
                 arrived, ended>>

-----------------------------------------------------------------------------
(* The sink and the peers                                                  *)

HandleEvent ==
  /\ events # <<>> /\ events' = Tail(events)
  /\ LET e == Head(events)
     IN  bound' = CASE e.kind = "bind" -> [bound EXCEPT ![e.i] = e.c]
                    [] e.kind = "shut" -> [bound EXCEPT ![e.i] = None]
                    [] OTHER -> bound
  /\ UNCHANGED <<peer, got, item, store_vars, opening, requests, current, asked, arrived, ended>>

\* SendData, CloseSocket, ShutDownSocket and AllowBatchSend are called for the
\* connections the sink knows, SendDataBatch at any time.
PostRequest ==
  /\ asked + arrived < MaxWork /\ asked' = asked + 1
  /\ \E r \in [op : Op, i : {i \in Index : bound[i] # None}] \cup [op : {"batch"}, i : {0}] :
       requests' = Append(requests, [op |-> r.op, i |-> r.i, c |-> bound[r.i], n |-> asked'])
  /\ UNCHANGED <<peer, got, item, store_vars, opening, current, events, bound, arrived, ended>>

PeerLeaves(c) ==
  /\ peer[c] = "here" /\ peer' = [peer EXCEPT ![c] = "gone"]
  /\ UNCHANGED <<got, item, store_vars, opening, requests, current, events, sink_vars,
                 arrived, ended>>

-----------------------------------------------------------------------------
Init ==
  /\ peer = [c \in Conns |-> "away"] /\ got = [c \in Conns |-> <<>>]
  /\ item = [i \in Index |-> [NewItem(None) EXCEPT !.open = FALSE]]
  /\ store = {} /\ batch = {} /\ free = <<>> /\ curIndex = 0
  /\ opening = None /\ requests = <<>> /\ current = None /\ events = <<>>
  /\ bound = [i \in Index |-> None] /\ asked = 0 /\ arrived = 0 /\ ended = {}

Acceptor == (\E c \in Conns : ActiveNetworkItem(c)) \/ AddSocket \/ Start

Network(i) ==
  \/ AddNewSockets(i) \/ Update(i) \/ FreeNetworkItem(i)
  \/ ReadHandler(i) \/ ReadHandlerInternal(i) \/ WriteHandlerWrapper(i)

Asynch ==
  \/ TakeRequest \/ OnSendData \/ OnCloseSocket \/ CancelSocket \/ FallThrough
  \/ OnShutDownSocket \/ OnAllowBatchSend

Next ==
  \/ Acceptor \/ (\E i \in Index : Network(i)) \/ Asynch
  \/ HandleEvent \/ PostRequest \/ (\E c \in Conns : PeerLeaves(c))

Spec == Init /\ [][Next]_vars

\* What the threads do of themselves.  That a write becomes possible, or that a
\* packet arrives, is up to the peer.
Server ==
  \/ AddSocket \/ Start \/ Asynch \/ HandleEvent
  \/ \E i \in Index :
       AddNewSockets(i) \/ Update(i) \/ FreeNetworkItem(i) \/ ReadHandlerInternal(i)

\* Every thread runs.  Each of these steps happens a bounded number of times, so
\* that fairness of the whole is fairness of each thread.
FairSpec == Spec /\ WF_vars(Server)

-----------------------------------------------------------------------------
Messages == [to : Conns \cup {None}, n : 1 .. MaxWork]
Requests == [op : Op \cup {"batch", "cancel", "closed"}, i : Index, c : Conns \cup {None},
             n : 1 .. MaxWork]
ItemType ==
  [sock : Conns \cup {None}, open : BOOLEAN,
   closed : BOOLEAN, closing : BOOLEAN, writing : BOOLEAN,
   wq : Seq(Messages), reads : Nat, writes : Nat, lateReads : Nat, lateWrites : Nat,
   looping : BOOLEAN, place : {"none", "new", "live", "shut"}]

\* Types of the engine's, the sink's and the peers' variables
TypeOK ==
  /\ peer \in [Conns -> {"away", "here", "gone"}] /\ got \in [Conns -> Seq(Messages)]
  /\ item \in [Index -> ItemType]
  /\ store \cup batch \cup Range(free) \subseteq Index /\ curIndex \in 0 .. MaxConns
  /\ opening \in [at : {"add", "start"}, i : Index] \cup {None}
  /\ requests \in Seq(Requests) /\ current \in Requests \cup {None}
  /\ events \in Seq([kind : {"bind", "read", "shut"}, i : Index, c : Conns])
  /\ bound \in [Index -> Conns \cup {None}] /\ ended \subseteq Conns
  /\ asked \in 0 .. MaxWork /\ arrived \in 0 .. MaxWork - asked

\* An index is either free, once, or in the store with an item that a thread has
\* in hand: FreeNetworkItem finds what it frees (TCPNetworkEngine.cpp:465), and
\* no two connections are given one item.  The types are part of it.
StoreIsExact ==
  /\ TypeOK
  /\ Range(free) \cap store = {} /\ Range(free) \cup store = 0 .. curIndex - 1
  /\ Cardinality(Range(free)) = Len(free)
  /\ \A i \in Index :
       i \in store <=> item[i].place # "none"
                       \/ (opening # None /\ opening.i = i /\ opening.at = "add")

\* A connection the engine believes open has one read pending, or one whose
\* handler is still to run: nothing else would notice that its peer is gone.
OpenIsRead ==
  \A i \in Index : LET it == item[i] IN
    it.place \in {"new", "live"} /\ IsOpen(it) /\ ~(opening # None /\ opening.i = i)
      => it.reads + it.lateReads >= 1

\* A connection that waits for its write to be possible is woken up: Update
\* passes it over until then.
WritingIsPending ==
  \A i \in Index : item[i].writing => item[i].writes + item[i].lateWrites > 0

\* No connection is forgotten: a handler is to run for whatever waits for one,
\* across closes and the reuse of items.
HandlersArePending == OpenIsRead /\ WritingIsPending

\* What a connection receives was sent in that order, and is not repeated,
\* through partial writes, retries and the reuse of its item.
InOrder ==
  \A c \in Conns : \A j, k \in DOMAIN got[c] : j < k => got[c][j].n < got[c][k].n

\* A message reaches another connection than the one it was sent to only when
\* the end of that one had been reported: the sink can tell.
ToOthersOnlyAfterShut ==
  \A c \in Conns : \A m \in Range(got[c]) : m.to \in {c, None} \cup ended

Attached(i) == IF item[i].place \in {"new", "live"} THEN item[i].sock ELSE None

Events == INSTANCE ConnectionEvents WITH attached <- [i \in Index |-> Attached(i)]

\* Under every index Bind and Shut alternate, and a connection is bound and
\* shut at most once.
Implements == Events!EventsSpec

\* The asynch thread looks an index up in one step and works on its item in later
\* ones, under no lock the network threads take: what it does is done to the
\* connection it was asked for, or to the next one under the index when the end of
\* that one had been reported.  So only those requests go astray that the sink made
\* before it handled the Shut.
RequestsMissOnlyTheEnded ==
  current # None => current.c \in {item[current.i].sock} \cup ended

\* A connection whose peer is gone is reported.  Excused is one that was marked as
\* closing and has no read pending any more.  It was marked by a request to shut down
\* itself, or by one that went astray (RequestsMissOnlyTheEnded), meant for the
\* connection that had its index before: the code tells them apart no more than this.
LeaverIsReported ==
  \A c \in Conns :
    peer[c] = "gone" ~>
      \/ c \in ended
      \/ \E i \in Index : /\ item[i].sock = c /\ item[i].closing
                          /\ item[i].reads + item[i].lateReads = 0

\* "interrupt the network" (gameserver/AttemperEngineSink.cpp:525), above the call of
\* ShutDownSocket: a connection that was asked to be shut down and has nothing
\* left to write is closed.
ShutDownCloses ==
  \A i \in Index :
    item[i].closing /\ item[i].place = "live" /\ item[i].wq = <<>> ~> item[i].closed
=============================================================================
