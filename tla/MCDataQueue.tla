----------------------------- MODULE MCDataQueue -----------------------------
(* Instances of AsynchronismEngine and its DataQueue for TLC.                *)
EXTENDS AsynchronismEngine

CONSTANTS Network, Timer

\* The network threads send larger packets than the timer thread.
PacketsOfSizes == {[size |-> 3, data |-> Network], [size |-> 2, data |-> Timer]}
=============================================================================
