------------------------- MODULE AsynchronismEngine -------------------------
(***************************************************************************)
(* How threads hand each other packets: an AttemperEngine, or the network  *)
(* engine, copies a packet into a buffer its callers share, and posts it;  *)
(* AsynchronismEngine puts it on the ring and a callback on the io_context *)
(* for it; the callback takes a packet, whichever is next, into a buffer   *)
(* of the engine and handles it there.                                     *)
(*                                                                         *)
(* Both buffers are named m_cbBuffer.  m_mutex of the caller's engine is   *)
(* held from the copy to the end of the post; that of AsynchronismEngine   *)
(* around each operation on the ring, not while a packet is handled.       *)
(***************************************************************************)
EXTENDS DataQueue

CONSTANTS
  Nobody,
  MaxPending   \* bounds the packets posted and not read

ASSUME AsynchAssumption == MaxPending \in Nat /\ \A p \in Packets : p.data # Nobody

VARIABLES
  holder,     \* the thread that holds m_mutex of the AttemperEngine
  shared,     \* m_cbBuffer of the AttemperEngine
  callbacks,  \* posted to m_ioContext on the strand, and not run
  handling    \* m_cbBuffer of the AsynchronismEngine while the sink reads it

asynch_vars == <<holder, shared, callbacks, handling>>

\* OnEventTimer, OnEventTCPNetworkRead and the others, up to the post; a packet's
\* data says which thread sends it.
OnEvent(p) ==
  /\ q.count < MaxPending
  /\ holder = Nobody /\ holder' = p.data
  /\ shared' = <<p>> /\ UNCHANGED <<vars, callbacks, handling>>

\* Mutation: no callback is posted while one is pending.
PostAsynchronismDataOnce ==
  /\ holder # Nobody /\ holder' = Nobody
  /\ InsertData(shared[1])
  /\ callbacks' = (IF callbacks = 0 THEN 1 ELSE callbacks)
  /\ UNCHANGED <<shared, handling>>

PostAsynchronismData ==
  /\ holder # Nobody /\ holder' = Nobody
  /\ InsertData(shared[1])
  /\ callbacks' = callbacks + 1 /\ UNCHANGED <<shared, handling>>

\* The callback up to unlock: one at a time, on the engine's only thread.
RunCallback ==
  /\ callbacks > 0 /\ handling = <<>>
  /\ callbacks' = callbacks - 1
  /\ DistillData /\ handling' = distilled'
  /\ UNCHANGED <<holder, shared>>

OnAsynchronismEngineData ==
  /\ handling # <<>> /\ handling' = <<>>
  /\ UNCHANGED <<vars, holder, shared, callbacks>>

AsynchInit ==
  /\ Init /\ holder = Nobody /\ shared = <<>> /\ callbacks = 0 /\ handling = <<>>

AsynchNext ==
  \/ \E p \in Packets : OnEvent(p)
  \/ PostAsynchronismData \/ RunCallback \/ OnAsynchronismEngineData

\* The thread of the engine runs, and a thread that holds m_mutex gets to post.
AsynchSpec ==
  /\ AsynchInit /\ [][AsynchNext]_<<vars, asynch_vars>>
  /\ WF_<<vars, asynch_vars>>(RunCallback \/ OnAsynchronismEngineData)
  /\ WF_<<vars, asynch_vars>>(PostAsynchronismData)

-----------------------------------------------------------------------------
\* There is a callback for each packet, so that none waits for another to come
\* and no callback hands the sink a buffer it did not fill.
CallbackPerPacket == callbacks = q.count

\* A packet a thread has begun to post is handled in the end, though nobody
\* posts another.
PostedIsHandled ==
  \A p \in Packets : holder # Nobody /\ shared = <<p>> ~> handling = <<p>>

=============================================================================
