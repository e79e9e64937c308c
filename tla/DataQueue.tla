----------------------------- MODULE DataQueue -----------------------------
(***************************************************************************)
(* DataQueue: the ring of bytes behind every queue between two threads     *)
(* (attemper, database, timer control, socket requests, user interface).   *)
(* The callers' mutexes make its two operations atomic.                    *)
(*                                                                         *)
(* The unit of memory is the packet head.  A cell of the buffer holds a    *)
(* packet and the offset in it, so that a packet read in the wrong place   *)
(* or overwritten in part is told from one that is whole.                  *)
(***************************************************************************)
EXTENDS Integers, Sequences, SequencesExt

CONSTANTS
  Packets,    \* records [size, data]; size counts the head and is at least 1
  Growth,     \* room for how many packets a reallocation adds at least (10)
  MaxBuffer,  \* bounds m_dwBufferSize
  Blank       \* memory not written to

ASSUME QueueAssumption ==
  /\ Packets # {} /\ \A p \in Packets : p.size \in Nat \ {0}
  /\ Growth \in Nat \ {0} /\ MaxBuffer \in Nat

VARIABLES
  q,          \* the fields of the object
  distilled   \* what the last step handed out

vars == <<q, distilled>>

Cells == {<<p, k>> : p \in Packets, k \in 0 .. MaxBuffer} \cup {Blank}

Larger(a, b) == IF a > b THEN a ELSE b

BufferSize(r) == Len(r.buffer)

\* n cells of the buffer from position i on
Part(r, i, n) == SubSeq(r.buffer, i + 1, i + n)

Bytes(p) == [k \in 1 .. p.size |-> <<p, k - 1>>]

\* What a reallocation copies: up to the terminal and, if that is not all there
\* is, from the front
Stored(r) ==
  LET partOne == r.terminal - r.query
  IN  Part(r, r.query, partOne) \o (IF r.size > partOne THEN Part(r, 0, r.insert) ELSE <<>>)

\* Mutation: the stretch at the front of the buffer is not copied.
ReallocatedForgetsFront(r, need) ==
  LET data == Part(r, r.query, r.terminal - r.query)
      size == BufferSize(r) + Larger(BufferSize(r) \div 2, need * Growth)
  IN  [r EXCEPT !.query = 0, !.insert = r.size, !.terminal = r.size,
                !.buffer = [k \in 1 .. size |-> IF k <= Len(data) THEN data[k] ELSE Blank]]

Reallocated(r, need) ==
  LET data == Stored(r)
      size == BufferSize(r) + Larger(BufferSize(r) \div 2, need * Growth)
  IN  [r EXCEPT !.query = 0, !.insert = r.size, !.terminal = r.size,
                !.buffer = [k \in 1 .. size |-> IF k <= Len(data) THEN data[k] ELSE Blank]]

RectifyBuffer(r, need) ==
  LET atEnd == r.insert = r.terminal /\ r.insert + need > BufferSize(r)
      front == atEnd /\ r.query >= need    \* insert before the data from now on
      stuck == front /\ r.query = r.terminal /\ r.count > 0
      s == [r EXCEPT !.insert = IF front THEN 0 ELSE @,
                     !.query = IF stuck THEN 0 ELSE @]
      catchesUp == s.insert + need > s.query
      alloc == \/ r.size + need > BufferSize(r)
               \/ atEnd /\ ~front
               \/ stuck
               \/ s.insert < s.terminal /\ catchesUp
               \/ catchesUp /\ s.query >= s.insert /\ s.size > 0
  IN  IF alloc THEN Reallocated(s, need) ELSE s

InsertData(p) ==
  LET r == RectifyBuffer(q, p.size)
      end == r.insert + p.size
  IN  /\ BufferSize(r) <= MaxBuffer
      /\ q' = [r EXCEPT
           !.buffer = [k \in DOMAIN @ |->
              IF r.insert < k /\ k <= end THEN Bytes(p)[k - r.insert] ELSE @[k]],
           !.count = @ + 1, !.insert = end, !.size = @ + p.size,
           !.terminal = Larger(@, end)]
      /\ distilled' = <<>>

\* Mutation: the terminal stays where the data that was read ended.
DistillDataKeepsTerminal ==
  LET r == IF q.query = q.terminal THEN [q EXCEPT !.query = 0] ELSE q
      p == r.buffer[r.query + 1][1]
  IN  /\ q.size # 0 /\ q.count # 0
      /\ distilled' = IF Part(r, r.query, p.size) = Bytes(p) THEN <<p>> ELSE <<Blank>>
      /\ q' = [r EXCEPT !.count = @ - 1, !.size = @ - p.size, !.query = @ + p.size]

\* The head at the query position says how much to copy.
DistillData ==
  LET r == IF q.query = q.terminal THEN [q EXCEPT !.query = 0, !.terminal = q.insert] ELSE q
      p == r.buffer[r.query + 1][1]
  IN  /\ q.size # 0 /\ q.count # 0
      /\ distilled' = IF Part(r, r.query, p.size) = Bytes(p) THEN <<p>> ELSE <<Blank>>
      /\ q' = [r EXCEPT !.count = @ - 1, !.size = @ - p.size, !.query = @ + p.size]

Init ==
  /\ q = [insert |-> 0, terminal |-> 0, query |-> 0, size |-> 0, count |-> 0, buffer |-> <<>>]
  /\ distilled = <<>>

Next == (\E p \in Packets : InsertData(p)) \/ DistillData

Spec == Init /\ [][Next]_vars

-----------------------------------------------------------------------------
\* Types of the fields; a packet is at least a head
TypeOK ==
  /\ DOMAIN q = {"insert", "terminal", "query", "size", "count", "buffer"}
  /\ {q.insert, q.terminal, q.query, q.size} \subseteq 0 .. MaxBuffer
  /\ q.count \in 0 .. q.size
  /\ Range(q.buffer) \subseteq Cells
  /\ distilled \in {<<>>} \cup {<<p>> : p \in Packets \cup {Blank}}

\* RectifyBuffer's assertions on the data it copies (DataQueue.cpp:175-183): the
\* data is one stretch up to the terminal, and possibly a second one from 0 on
\* that ends before the first.  The types are part of it.
DataIsWhereItCounts ==
  LET partOne == q.terminal - q.query
  IN  /\ TypeOK /\ q.query <= q.terminal /\ q.terminal <= BufferSize(q)
      /\ \/ q.insert = q.terminal /\ q.size = partOne
         \/ q.insert <= q.query /\ q.size = partOne + q.insert

IsHead(cell) == \E p \in Packets : cell = <<p, 0>>

\* The packets whose heads are among the cells s, in their order
PacketsIn(s) ==
  LET upTo[n \in 0 .. Len(s)] ==
        IF n = 0 THEN <<>>
        ELSE IF IsHead(s[n]) THEN Append(upTo[n - 1], s[n][1]) ELSE upTo[n - 1]
  IN  upTo[Len(s)]

Fifo == INSTANCE PacketFifo WITH queue <- PacketsIn(Stored(q))

\* However the two operations follow each other, and through every wrap around
\* the end and every reallocation, the ring is a queue of whole packets.
Implements == Fifo!FifoSpec
=============================================================================
