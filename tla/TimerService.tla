---------------------------- MODULE TimerService ----------------------------
(***************************************************************************)
(* What the timer engine promises: an armed timer counts down by one Space *)
(* a tick, fires when its time has run out, and is armed again for as long *)
(* as it has repetitions left.                                             *)
(***************************************************************************)
EXTENDS Integers

CONSTANTS
  Timers,    \* timer ids
  Space,     \* milliseconds of a tick
  Elapses,   \* the times timers are set to, in milliseconds
  Repeats,   \* the numbers of repetitions, Infinity among them
  Infinity

VARIABLES
  armed,     \* the timers that will fire
  remaining, \* per timer, the time until it fires next
  period,    \* per timer, the time between two firings
  times,     \* per timer, how often it still fires
  fired      \* the timers the last step fired

service == <<armed, remaining, period, times, fired>>

\* The time asked for, rounded up to whole ticks
WholeTicks(elapse) ==
  CHOOSE t \in elapse .. elapse + Space - 1 : \E n \in 1 .. elapse : t = n * Space

Start ==
  /\ armed = {} /\ fired = {}
  /\ remaining = [t \in Timers |-> 0] /\ period = [t \in Timers |-> 0]
  /\ times = [t \in Timers |-> Infinity]

Set(t, elapse, n) ==
  /\ t \notin armed
  /\ armed' = armed \cup {t} /\ fired' = {}
  /\ remaining' = [remaining EXCEPT ![t] = WholeTicks(elapse)]
  /\ period' = [period EXCEPT ![t] = WholeTicks(elapse)]
  /\ times' = [times EXCEPT ![t] = n]

Tick ==
  LET due  == {t \in armed : remaining[t] = Space}
      last == {t \in due : times[t] = 1}
  IN  /\ armed # {}
      /\ fired' = due /\ armed' = armed \ last
      /\ remaining' = [t \in Timers |->
                         IF t \in due \ last THEN period[t]
                         ELSE IF t \in armed THEN remaining[t] - Space
                         ELSE remaining[t]]
      /\ times' = [t \in Timers |->
                     IF t \in due \ last /\ times[t] # Infinity
                     THEN times[t] - 1 ELSE times[t]]
      /\ UNCHANGED period

ServiceSpec ==
  /\ Start
  /\ [][Tick \/ \E t \in Timers, e \in Elapses, n \in Repeats : Set(t, e, n)]_service
=============================================================================
