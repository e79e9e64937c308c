----------------------------- MODULE PacketFifo -----------------------------
(***************************************************************************)
(* What a data queue between two threads promises: packets come out whole, *)
(* once, and in the order in which they went in.                           *)
(***************************************************************************)
EXTENDS Sequences

CONSTANT Packets

VARIABLES
  queue,      \* the packets inserted and not yet distilled
  distilled   \* what the last step handed out, a sequence of at most one

vars == <<queue, distilled>>

InsertData(p) == queue' = Append(queue, p) /\ distilled' = <<>>

DistillData ==
  /\ queue # <<>>
  /\ distilled' = <<Head(queue)>> /\ queue' = Tail(queue)

Init == queue = <<>> /\ distilled = <<>>

Next == (\E p \in Packets : InsertData(p)) \/ DistillData

FifoSpec == Init /\ [][Next]_vars
=============================================================================
