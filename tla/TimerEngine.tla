----------------------------- MODULE TimerEngine -----------------------------
(***************************************************************************)
(* CTimerEngine: one countdown to the earliest timer stands for all of     *)
(* them; the items are brought up to date only when it reaches zero.       *)
(*                                                                         *)
(* m_mutex makes SetTimer and a tick atomic.  A tick that finds the mutex  *)
(* taken (try_lock) does nothing and is a stuttering step, and so are      *)
(* KillTimer and KillAllTimer, which return false.                         *)
(***************************************************************************)
EXTENDS Integers

CONSTANTS Timers, Space, Elapses, Repeats, Infinity,
          NoTimeLeave    \* NO_TIME_LEAVE, uint32(-1), above every elapse

ASSUME TimerAssumption ==
  /\ Space \in Nat \ {0} /\ Elapses \subseteq Nat \ {0}
  /\ Repeats \subseteq (Nat \ {0}) \cup {Infinity} /\ Infinity \notin Nat
  /\ NoTimeLeave \in Nat /\ \A e \in Elapses : e + Space <= NoTimeLeave

VARIABLES
  active,        \* keys of m_TimerItemActive
  elapse, repeatTimes, left,  \* dwElapse, dwRepeatTimes, dwTimeLeave of an item
  timePass,      \* m_dwTimePass
  timeLeave,     \* m_dwTimeLeave
  fired,         \* the ids the last step passed to OnEventTimer
  crashed        \* SetTimer went through its null pointer

items == <<active, elapse, repeatTimes, left>>
vars  == <<items, timePass, timeLeave, fired, crashed>>

\* Mutation: the elapse is not rounded up.
RoundedNot(e) == e

Rounded(e) == ((e + Space - 1) \div Space) * Space

Least(a, b) == IF a < b THEN a ELSE b

\* Mutation: the time already passed is not added.
SetTimerIgnoresPass(t, e, n) ==
  /\ ~crashed /\ t \notin active
  /\ active' = active \cup {t}
  /\ elapse' = [elapse EXCEPT ![t] = Rounded(e)]
  /\ repeatTimes' = [repeatTimes EXCEPT ![t] = n]
  /\ left' = [left EXCEPT ![t] = Rounded(e)]
  /\ timeLeave' = Least(timeLeave, Rounded(e))
  /\ fired' = {}
  /\ UNCHANGED <<timePass, crashed>>

SetTimer(t, e, n) ==
  /\ ~crashed /\ t \notin active
  /\ active' = active \cup {t}
  /\ elapse' = [elapse EXCEPT ![t] = Rounded(e)]
  /\ repeatTimes' = [repeatTimes EXCEPT ![t] = n]
  /\ left' = [left EXCEPT ![t] = Rounded(e) + timePass]
  /\ timeLeave' = Least(timeLeave, Rounded(e))
  /\ fired' = {}
  /\ UNCHANGED <<timePass, crashed>>

\* An active id gets no item, and the item is dereferenced all the same.
SetActiveTimer(t) ==
  /\ ~crashed /\ t \in active
  /\ crashed' = TRUE
  /\ UNCHANGED <<items, timePass, timeLeave, fired>>

\* A tick before the earliest timer is due
PassTime ==
  /\ ~crashed /\ active # {} /\ timeLeave # Space
  /\ timePass' = timePass + Space /\ timeLeave' = timeLeave - Space
  /\ fired' = {}
  /\ UNCHANGED <<items, crashed>>

\* Mutations of the next three: a timer expires one firing too late; a firing
\* does not start the next period.
ExpiredLate(pass) == {t \in active : left[t] = pass /\ repeatTimes[t] = 0}
LeftAfterKeeps(t, pass) == IF t \in active THEN left[t] - pass ELSE left[t]

\* What the search leaves of an item, given the time that has passed
Due(pass) == {t \in active : left[t] = pass}
Expired(pass) == {t \in Due(pass) : repeatTimes[t] = 1}
LeftAfter(t, pass) ==
  IF t \notin active THEN left[t]
  ELSE IF t \in Due(pass) \ Expired(pass) THEN elapse[t] ELSE left[t] - pass

Earliest(times) ==
  IF times = {} THEN NoTimeLeave
  ELSE CHOOSE x \in times : \A y \in times : x <= y

\* Mutation: only the last of a timer's repetitions is notified.
SearchTimersNotifiesLast ==
  LET pass == timePass + Space
  IN  /\ ~crashed /\ active # {} /\ timeLeave = Space
      /\ fired' = Expired(pass)
      /\ active' = active \ Expired(pass)
      /\ left' = [t \in Timers |-> LeftAfter(t, pass)]
      /\ repeatTimes' = [t \in Timers |->
           IF t \in Due(pass) \ Expired(pass) /\ repeatTimes[t] # Infinity
           THEN repeatTimes[t] - 1 ELSE repeatTimes[t]]
      /\ timePass' = 0
      /\ timeLeave' = Earliest({left'[t] : t \in active'})
      /\ UNCHANGED <<elapse, crashed>>

\* The tick on which the countdown reaches zero
SearchTimers ==
  LET pass == timePass + Space
  IN  /\ ~crashed /\ active # {} /\ timeLeave = Space
      /\ fired' = Due(pass)
      /\ active' = active \ Expired(pass)
      /\ left' = [t \in Timers |-> LeftAfter(t, pass)]
      /\ repeatTimes' = [t \in Timers |->
           IF t \in Due(pass) \ Expired(pass) /\ repeatTimes[t] # Infinity
           THEN repeatTimes[t] - 1 ELSE repeatTimes[t]]
      /\ timePass' = 0
      /\ timeLeave' = Earliest({left'[t] : t \in active'})
      /\ UNCHANGED <<elapse, crashed>>

OnTimerThreadSink == PassTime \/ SearchTimers

Init ==
  /\ active = {} /\ fired = {} /\ crashed = FALSE
  /\ elapse = [t \in Timers |-> 0] /\ left = [t \in Timers |-> 0]
  /\ repeatTimes = [t \in Timers |-> Infinity]
  /\ timePass = 0 /\ timeLeave = NoTimeLeave

Next ==
  \/ \E t \in Timers, e \in Elapses, n \in Repeats : SetTimer(t, e, n)
  \/ \E t \in Timers : SetActiveTimer(t)
  \/ OnTimerThreadSink

Spec == Init /\ [][Next]_vars

\* The updating thread re-arms its own wait after every tick; SetTimer holds the
\* mutex only for its own few lines.
FairSpec == Spec /\ WF_vars(OnTimerThreadSink)

-----------------------------------------------------------------------------
\* Types of the engine's fields
TypeOK ==
  /\ active \subseteq Timers /\ fired \subseteq Timers /\ crashed \in BOOLEAN
  /\ elapse \in [Timers -> Nat] /\ left \in [Timers -> Nat]
  /\ repeatTimes \in [Timers -> (Nat \ {0}) \cup {Infinity}]
  /\ timePass \in Nat /\ timeLeave \in Nat

\* The one countdown is the time left until the earliest timer is due: no timer
\* is due before it reaches zero and one is when it does, whenever timers were
\* set in between.
CountdownIsEarliest ==
  timeLeave = Earliest({left[t] - timePass : t \in active})

\* The search asserts that no item's time has run out before it looks
\* (TimerEngine.cpp:205), and that what it leaves is whole ticks (line 238).
NeverTooLate ==
  \A t \in active : left[t] > timePass /\ (left[t] - timePass) % Space = 0

\* Every timer that was set fires, unless the process crashes first.
ArmedFires == \A t \in Timers : t \in active ~> t \in fired \/ crashed

\* The engine does what it promises: each timer counts down on its own.
Service == INSTANCE TimerService WITH
  armed <- active, period <- elapse, times <- repeatTimes,
  remaining <- [t \in Timers |-> IF t \in active THEN left[t] - timePass ELSE 0]

Implements == Service!ServiceSpec
=============================================================================
