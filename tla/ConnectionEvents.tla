-------------------------- MODULE ConnectionEvents --------------------------
(***************************************************************************)
(* What the sinks of an attemper engine rely on: the events of the network *)
(* engine, in the order in which they are posted.                          *)
(***************************************************************************)
EXTENDS Naturals, Sequences

CONSTANTS Conns, Index, None

VARIABLES
  events,    \* posted and not handled yet
  attached,  \* the connection an index stands for
  ended      \* connections whose end was posted

Post(kind, i, c) == events' = Append(events, [kind |-> kind, i |-> i, c |-> c])

\* An index is given to one connection at a time, a connection has one index.
Bind(i, c) ==
  /\ attached[i] = None /\ c \notin ended /\ \A j \in Index : attached[j] # c
  /\ Post("bind", i, c) /\ attached' = [attached EXCEPT ![i] = c] /\ UNCHANGED ended

\* What arrives on a connection is reported under its index, after its Bind.
\* It may still be reported after its Shut.
Read(i, c) ==
  /\ attached[i] = c \/ c \in ended
  /\ Post("read", i, c) /\ UNCHANGED <<attached, ended>>

Shut(i) ==
  /\ attached[i] # None
  /\ Post("shut", i, attached[i])
  /\ attached' = [attached EXCEPT ![i] = None] /\ ended' = ended \cup {attached[i]}

Handle == events # <<>> /\ events' = Tail(events) /\ UNCHANGED <<attached, ended>>

EventsInit == events = <<>> /\ attached = [i \in Index |-> None] /\ ended = {}

EventsNext ==
  \/ \E i \in Index, c \in Conns : Bind(i, c) \/ Read(i, c)
  \/ \E i \in Index : Shut(i)
  \/ Handle

EventsSpec == EventsInit /\ [][EventsNext]_<<events, attached, ended>>
=============================================================================
