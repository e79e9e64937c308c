-------------------------- MODULE TimerEngineProofs --------------------------
(***************************************************************************)
(* For every tick length, every set of elapses and any number of timers:   *)
(* the engine's single countdown is exact, its assertions hold, and it     *)
(* implements timers that count down one by one.                           *)
(***************************************************************************)
EXTENDS TimerEngine, WellFoundedInduction, TLAPS

IsTicks(x) == \E k \in Nat : x = k * Space

-----------------------------------------------------------------------------
(* Arithmetic of ticks                                                     *)

LEMMA ZeroTicks == IsTicks(0)
<1>1. 0 = 0 * Space
  BY TimerAssumption
<1> QED BY <1>1 DEF IsTicks

LEMMA AddTicks ==
  ASSUME NEW x \in Nat, NEW y \in Nat, IsTicks(x), IsTicks(y)
  PROVE  IsTicks(x + y)
<1>1. PICK j \in Nat, k \in Nat : x = j * Space /\ y = k * Space
  BY DEF IsTicks
<1>2. x + y = (j + k) * Space /\ j + k \in Nat
  BY <1>1, TimerAssumption
<1> QED BY <1>2 DEF IsTicks

LEMMA SubTicks ==
  ASSUME NEW x \in Nat, NEW y \in Nat, IsTicks(x), IsTicks(y), y <= x
  PROVE  IsTicks(x - y)
<1>1. PICK j \in Nat, k \in Nat : x = j * Space /\ y = k * Space
  BY DEF IsTicks
<1>2. k <= j
  <2>1. CASE j + 1 <= k
    <3>1. (j + 1) * Space <= k * Space
      BY <2>1, TimerAssumption
    <3>2. (j + 1) * Space = j * Space + Space
      BY TimerAssumption
    <3>3. j * Space \in Nat /\ k * Space \in Nat
      BY TimerAssumption
    <3> QED BY <1>1, <3>1, <3>2, <3>3, TimerAssumption
  <2> QED BY <2>1
<1>3. x - y = (j - k) * Space /\ j - k \in Nat
  BY <1>1, <1>2, TimerAssumption
<1> QED BY <1>3 DEF IsTicks

LEMMA OneTick == IsTicks(Space)
<1>1. Space = 1 * Space
  BY TimerAssumption
<1> QED BY <1>1 DEF IsTicks

\* Ticks are apart by at least one.
LEMMA TicksApart ==
  ASSUME NEW x \in Nat, NEW y \in Nat, IsTicks(x), IsTicks(y), x < y
  PROVE  x + Space <= y
<1>1. IsTicks(y - x)
  BY SubTicks
<1>2. PICK k \in Nat : y - x = k * Space
  BY <1>1 DEF IsTicks
<1>3. k # 0
  BY <1>2, TimerAssumption
<1>4. PICK j \in Nat : k = j + 1
  BY <1>3
<1>5. k * Space = j * Space + Space /\ j * Space \in Nat
  BY <1>4, TimerAssumption
<1> QED BY <1>2, <1>5, TimerAssumption

\* Rounding up gives the least whole number of ticks that is enough.
LEMMA RoundedUp ==
  ASSUME NEW e \in Elapses
  PROVE  /\ Rounded(e) \in Nat /\ IsTicks(Rounded(e))
         /\ e <= Rounded(e) /\ Rounded(e) < e + Space
<1> DEFINE q == (e + Space - 1) \div Space
<1>1. e \in Nat \ {0} /\ Space \in Nat \ {0}
  BY TimerAssumption
<1>2. q \in Nat /\ q * Space <= e + Space - 1 /\ e + Space - 1 < q * Space + Space
  BY <1>1
<1>3. q * Space \in Nat
  BY <1>1, <1>2
<1>4. Rounded(e) = q * Space
  BY DEF Rounded
<1> HIDE DEF q
<1>5. IsTicks(q * Space)
  BY <1>2 DEF IsTicks
<1> QED BY <1>1, <1>2, <1>3, <1>4, <1>5

LEMMA LeastNatural ==
  ASSUME NEW S \in SUBSET Nat, S # {}
  PROVE  \E x \in S : \A y \in S : x <= y
<1> DEFINE R == {ss \in Nat \X Nat : ss[1] < ss[2]}
<1>1. IsWellFoundedOn(R, Nat)
  BY NatLessThanWellFounded DEF OpToRel
<1>2. \A x, y \in Nat : y < x => <<y, x>> \in R
  OBVIOUS
<1> HIDE DEF R
<1>3. PICK x \in S : \A y \in S : ~ (<<y, x>> \in R)
  BY <1>1, WFMin
<1>4. ASSUME NEW y \in S PROVE x <= y
  <2>1. x \in Nat /\ y \in Nat
    OBVIOUS
  <2>2. ~(y < x)
    BY <1>2, <1>3, <2>1
  <2> QED BY <2>1, <2>2
<1> QED BY <1>4

LEMMA EarliestIs ==
  ASSUME NEW S \in SUBSET Int, NEW x \in S, \A y \in S : x <= y
  PROVE  Earliest(S) = x
<1>1. Earliest(S) = CHOOSE z \in S : \A y \in S : z <= y
  BY DEF Earliest
<1>2. Earliest(S) \in S /\ \A y \in S : Earliest(S) <= y
  BY <1>1
<1> HIDE DEF Earliest
<1>3. Earliest(S) <= x /\ x <= Earliest(S) /\ x \in Int /\ Earliest(S) \in Int
  BY <1>2
<1> QED BY <1>3

-----------------------------------------------------------------------------
(* The inductive invariant                                                 *)

\* An active timer's time is a whole number of ticks, not before the countdown
ItemOK(t) ==
  /\ IsTicks(left[t]) /\ IsTicks(elapse[t]) /\ elapse[t] > 0
  /\ timePass + timeLeave <= left[t]

IInv ==
  /\ TypeOK
  /\ IsTicks(timePass)
  /\ \A t \in active : ItemOK(t)
  /\ active = {} => timeLeave = NoTimeLeave
  /\ active # {} =>
       /\ IsTicks(timeLeave) /\ timeLeave > 0
       /\ \E t \in active : left[t] = timePass + timeLeave

LEMMA InitIInv == Init => IInv
<1> SUFFICES ASSUME Init PROVE IInv
  OBVIOUS
<1>1. TypeOK
  BY TimerAssumption DEF Init, TypeOK
<1> QED BY <1>1, ZeroTicks DEF Init, IInv

LEMMA SetTimerStep ==
  ASSUME IInv, NEW t \in Timers, NEW e \in Elapses, NEW n \in Repeats,
         SetTimer(t, e, n)
  PROVE  IInv'
<1> DEFINE r == Rounded(e)
<1>1. r \in Nat /\ IsTicks(r) /\ r > 0 /\ r <= NoTimeLeave /\ Space \in Nat \ {0}
      /\ NoTimeLeave \in Nat
  BY RoundedUp, TimerAssumption
<1>2. TypeOK' /\ timePass' = timePass
  <2>1. r + timePass \in Nat /\ Least(timeLeave, r) \in Nat
    BY <1>1 DEF IInv, TypeOK, Least
  <2>2. n \in (Nat \ {0}) \cup {Infinity}
    BY TimerAssumption
  <2> HIDE DEF r
  <2> QED BY <1>1, <2>1, <2>2 DEF IInv, TypeOK, SetTimer, r
<1> HIDE DEF r
<1>3. /\ left' = [left EXCEPT ![t] = r + timePass] /\ active' = active \cup {t}
      /\ elapse' = [elapse EXCEPT ![t] = r] /\ timeLeave' = Least(timeLeave, r)
      /\ t \notin active
  BY DEF SetTimer, r
<1>4. left \in [Timers -> Nat] /\ elapse \in [Timers -> Nat] /\ active \subseteq Timers
      /\ timePass \in Nat /\ timeLeave \in Nat
  BY DEF IInv, TypeOK
<1>5. timeLeave' <= timeLeave /\ timeLeave' <= r /\ timeLeave' \in Nat
  BY <1>1, <1>3, <1>4 DEF Least
<1>6. \A u \in active' : ItemOK(u)'
  <2> SUFFICES ASSUME NEW u \in active' PROVE ItemOK(u)'
    OBVIOUS
  <2>1. CASE u = t
    <3>1. left'[u] = r + timePass /\ elapse'[u] = r
      BY <1>3, <1>4, <2>1
    <3>2. IsTicks(r + timePass)
      BY <1>1, <1>4, AddTicks DEF IInv
    <3>3. timePass + timeLeave' <= r + timePass
      <4>1. ASSUME NEW a \in Nat, NEW b \in Nat, NEW d \in Nat, a <= b
            PROVE  d + a <= b + d
        BY <4>1
      <4> QED BY <1>1, <1>4, <1>5, <4>1
    <3>4. IsTicks(left'[u]) /\ IsTicks(elapse'[u]) /\ elapse'[u] > 0
      BY <1>1, <3>1, <3>2
    <3>5. timePass' + timeLeave' <= left'[u]
      BY <1>2, <3>1, <3>3
    <3> QED BY <3>4, <3>5 DEF ItemOK
  <2>2. CASE u # t
    <3>1. u \in active /\ left'[u] = left[u] /\ elapse'[u] = elapse[u]
      BY <1>3, <1>4, <2>2
    <3>2. timePass + timeLeave <= left[u] /\ left[u] \in Nat
      BY <1>4, <3>1 DEF IInv, ItemOK
    <3>3. timePass + timeLeave' <= left[u]
      BY <1>4, <1>5, <3>2
    <3> QED BY <1>2, <3>1, <3>3 DEF ItemOK, IInv
  <2> QED BY <2>1, <2>2
<1>7. IsTicks(timeLeave') /\ timeLeave' > 0
  BY <1>1, <1>3, <1>4 DEF Least, IInv
<1>8. \E u \in active' : left'[u] = timePass' + timeLeave'
  <2>1. CASE timeLeave' = r
    BY <1>1, <1>2, <1>3, <1>4, <2>1
  <2>2. CASE timeLeave' # r
    <3>1. timeLeave' = timeLeave /\ active # {}
      BY <1>1, <1>3, <1>4, <2>2 DEF Least, IInv
    <3> QED BY <1>2, <1>3, <1>4, <3>1 DEF IInv
  <2> QED BY <2>1, <2>2
<1> QED BY <1>2, <1>3, <1>6, <1>7, <1>8 DEF IInv

LEMMA PassTimeStep ==
  ASSUME IInv, PassTime
  PROVE  IInv'
<1>1. /\ active \subseteq Timers /\ active # {} /\ left \in [Timers -> Nat]
      /\ timePass \in Nat /\ timeLeave \in Nat /\ Space \in Nat \ {0}
      /\ timePass' = timePass + Space /\ timeLeave' = timeLeave - Space
      /\ UNCHANGED items
  BY TimerAssumption DEF IInv, TypeOK, PassTime
<1>2. Space < timeLeave
  <2>1. IsTicks(timeLeave) /\ timeLeave > 0 /\ timeLeave # Space
    BY <1>1 DEF IInv, PassTime
  <2>2. 0 + Space <= timeLeave
    BY <1>1, <2>1, ZeroTicks, TicksApart
  <2> QED BY <1>1, <2>1, <2>2
<1>3. timeLeave' > 0 /\ timePass' + timeLeave' = timePass + timeLeave
  BY <1>1, <1>2
<1>4. IsTicks(timeLeave') /\ IsTicks(timePass')
  <2>1. IsTicks(timeLeave - Space)
    BY <1>1, <1>2, OneTick, SubTicks DEF IInv
  <2>2. IsTicks(timePass + Space)
    BY <1>1, OneTick, AddTicks DEF IInv
  <2> QED BY <1>1, <2>1, <2>2
<1>5. TypeOK'
  BY <1>1, <1>2 DEF IInv, TypeOK, PassTime, items
<1> QED BY <1>1, <1>3, <1>4, <1>5 DEF IInv, ItemOK, items

LEMMA SearchStep ==
  ASSUME IInv, SearchTimers
  PROVE  IInv'
<1> DEFINE pass == timePass + Space
           S == {left'[t] : t \in active'}
<1>1. /\ active \subseteq Timers /\ active # {}
      /\ left \in [Timers -> Nat] /\ elapse \in [Timers -> Nat]
      /\ repeatTimes \in [Timers -> (Nat \ {0}) \cup {Infinity}]
      /\ timePass \in Nat /\ Space \in Nat \ {0} /\ timeLeave = Space
      /\ IsTicks(timePass) /\ NoTimeLeave \in Nat
  BY TimerAssumption DEF IInv, TypeOK, SearchTimers
<1>2. pass \in Nat /\ IsTicks(pass)
  BY <1>1, OneTick, AddTicks
<1>3. \A t \in active : pass <= left[t] /\ IsTicks(left[t])
                        /\ IsTicks(elapse[t]) /\ elapse[t] > 0
  BY <1>1 DEF IInv, ItemOK
<1> HIDE DEF pass
<1>4. /\ active' = active \ Expired(pass) /\ timePass' = 0
      /\ left' = [t \in Timers |-> LeftAfter(t, pass)]
      /\ timeLeave' = Earliest(S) /\ elapse' = elapse
  BY DEF SearchTimers, pass
\* What the search leaves of an item that stays active
<1>5. ASSUME NEW t \in active'
      PROVE  left'[t] \in Nat /\ left'[t] > 0 /\ IsTicks(left'[t])
             /\ IsTicks(elapse'[t]) /\ elapse'[t] > 0
  <2>1. t \in active /\ t \notin Expired(pass) /\ left'[t] = LeftAfter(t, pass)
    BY <1>1, <1>4
  <2>2. pass <= left[t] /\ IsTicks(left[t]) /\ left[t] \in Nat /\ elapse[t] \in Nat
        /\ elapse'[t] = elapse[t] /\ IsTicks(elapse[t]) /\ elapse[t] > 0
    BY <1>1, <1>3, <1>4, <2>1
  <2>3. CASE left[t] = pass
    <3>1. left'[t] = elapse[t]
      BY <2>1, <2>3 DEF LeftAfter, Due
    <3> QED BY <2>2, <3>1
  <2>4. CASE left[t] # pass
    <3>1. left'[t] = left[t] - pass
      BY <2>1, <2>4 DEF LeftAfter, Due
    <3>2. IsTicks(left[t] - pass)
      BY <1>2, <2>2, SubTicks
    <3>3. left[t] - pass \in Nat /\ left[t] - pass > 0
      BY <1>2, <2>2, <2>4
    <3>4. IsTicks(left'[t])
      BY <3>1, <3>2
    <3> QED BY <2>2, <3>1, <3>3, <3>4
  <2> QED BY <2>3, <2>4
<1>6. left' \in [Timers -> Nat]
  <2> SUFFICES ASSUME NEW t \in Timers PROVE LeftAfter(t, pass) \in Nat
    BY <1>4
  <2>1. CASE t \in active
    <3>1. left[t] - pass \in Nat /\ elapse[t] \in Nat
      BY <1>1, <1>2, <1>3, <2>1
    <3>2. LeftAfter(t, pass) \in {left[t] - pass, elapse[t]}
      BY <2>1 DEF LeftAfter
    <3> QED BY <3>1, <3>2
  <2>2. CASE t \notin active
    BY <1>1, <2>2 DEF LeftAfter
  <2> QED BY <2>1, <2>2
<1>7. S \in SUBSET Nat
  BY <1>5
<1>8. ASSUME active' = {} PROVE timeLeave' = NoTimeLeave
  <2>1. S = {}
    BY <1>8
  <2> QED BY <1>4, <2>1 DEF Earliest
<1>9. ASSUME active' # {}
      PROVE  /\ timeLeave' \in Nat /\ IsTicks(timeLeave') /\ timeLeave' > 0
             /\ \A t \in active' : timeLeave' <= left'[t]
             /\ \E t \in active' : left'[t] = timeLeave'
  <2>1. S # {}
    BY <1>9
  <2>2. PICK x \in S : \A y \in S : x <= y
    BY <1>7, <2>1, LeastNatural
  <2>3. S \in SUBSET Int
    BY <1>7
  <2> HIDE DEF S
  <2>4. timeLeave' = x
    BY <1>4, <2>2, <2>3, EarliestIs
  <2> USE DEF S
  <2>5. PICK u \in active' : x = left'[u]
    OBVIOUS
  <2>6. \A t \in active' : x <= left'[t]
    BY <2>2
  <2>7. left'[u] \in Nat /\ left'[u] > 0 /\ IsTicks(left'[u])
    BY <1>5
  <2> HIDE DEF S
  <2>8. timeLeave' = left'[u]
    BY <2>4, <2>5
  <2> QED BY <2>4, <2>6, <2>7, <2>8
<1>10. timeLeave' \in Nat
  BY <1>1, <1>8, <1>9
<1>11. repeatTimes' \in [Timers -> (Nat \ {0}) \cup {Infinity}]
  <2> SUFFICES ASSUME NEW t \in Timers, t \in Due(pass) \ Expired(pass),
                      repeatTimes[t] # Infinity
               PROVE  repeatTimes[t] - 1 \in Nat \ {0}
    BY <1>1 DEF SearchTimers, pass
  <2>1. repeatTimes[t] \in Nat \ {0} /\ repeatTimes[t] # 1
    BY <1>1 DEF Expired
  <2> QED BY <2>1
<1>12. TypeOK'
  <2>1. active' \subseteq Timers /\ fired' \subseteq Timers /\ crashed' \in BOOLEAN
    BY <1>1 DEF SearchTimers, Due, IInv, TypeOK
  <2> QED BY <1>1, <1>4, <1>6, <1>10, <1>11, <2>1 DEF TypeOK
<1>13. \A t \in active' : ItemOK(t)'
  <2> SUFFICES ASSUME NEW t \in active' PROVE ItemOK(t)'
    OBVIOUS
  <2>1. timeLeave' <= left'[t] /\ timeLeave' \in Nat
    BY <1>9
  <2>2. timePass' + timeLeave' <= left'[t]
    BY <1>4, <2>1
  <2> QED BY <1>5, <2>2 DEF ItemOK
<1>14. active' # {} => \E t \in active' : left'[t] = timePass' + timeLeave'
  <2>1. timePass' + timeLeave' = timeLeave'
    BY <1>4, <1>10
  <2> QED BY <1>9, <2>1
<1>15. IsTicks(timePass')
  BY <1>4, ZeroTicks
<1> QED BY <1>8, <1>9, <1>12, <1>13, <1>14, <1>15 DEF IInv

LEMMA NextIInv == IInv /\ [Next]_vars => IInv'
<1> SUFFICES ASSUME IInv, [Next]_vars PROVE IInv'
  OBVIOUS
<1>1. CASE UNCHANGED vars
  BY <1>1 DEF IInv, TypeOK, ItemOK, vars, items
<1>2. ASSUME NEW t \in Timers, SetActiveTimer(t) PROVE IInv'
  BY <1>2 DEF SetActiveTimer, IInv, TypeOK, ItemOK, items
<1> QED
  BY <1>1, <1>2, SetTimerStep, PassTimeStep, SearchStep DEF Next, OnTimerThreadSink

-----------------------------------------------------------------------------
(* What follows for the engine itself                                      *)

\* The engine's fields stay within their types.
THEOREM TypeCorrect == Spec => []TypeOK
<1>1. IInv => TypeOK
  BY DEF IInv
<1> QED BY <1>1, InitIInv, NextIInv, PTL DEF Spec

\* The engine's one countdown is at every moment the least of the times left to
\* the active timers, however SetTimer calls and ticks interleave.
THEOREM CountdownHolds == Spec => []CountdownIsEarliest
<1>1. IInv => CountdownIsEarliest
  <2> SUFFICES ASSUME IInv PROVE CountdownIsEarliest
    OBVIOUS
  <2> DEFINE S == {left[t] - timePass : t \in active}
  <2>1. CASE active = {}
    <3>1. S = {}
      BY <2>1
    <3> QED BY <2>1, <3>1 DEF IInv, CountdownIsEarliest, Earliest
  <2>2. CASE active # {}
    <3>1. active \subseteq Timers /\ left \in [Timers -> Nat]
          /\ timePass \in Nat /\ timeLeave \in Nat
      BY DEF IInv, TypeOK
    <3>2. PICK u \in active : left[u] = timePass + timeLeave
      BY <2>2 DEF IInv
    <3>3. left[u] - timePass = timeLeave
      BY <3>1, <3>2
    <3>4. S \in SUBSET Int /\ timeLeave \in S
      BY <3>1, <3>3
    <3>5. ASSUME NEW t \in active PROVE timeLeave <= left[t] - timePass
      <4>1. timePass + timeLeave <= left[t] /\ left[t] \in Nat
        BY <3>1 DEF IInv, ItemOK
      <4> QED BY <3>1, <4>1
    <3>6. \A y \in S : timeLeave <= y
      BY <3>5
    <3> HIDE DEF S
    <3>7. Earliest(S) = timeLeave
      BY <3>4, <3>6, EarliestIs
    <3> QED BY <3>7 DEF CountdownIsEarliest, S
  <2> QED BY <2>1, <2>2
<1> QED BY <1>1, InitIInv, NextIInv, PTL DEF Spec

\* The assertions of the search never fail: no timer's time runs out before the
\* tick that looks at it.
THEOREM NeverTooLateHolds == Spec => []NeverTooLate
<1>1. ASSUME NEW x \in Nat, IsTicks(x) PROVE x % Space = 0
  <2>1. PICK k \in Nat : x = k * Space
    BY <1>1 DEF IsTicks
  <2>2. Space \in Nat \ {0}
    BY TimerAssumption
  <2> QED BY <2>1, <2>2
<1>2. IInv => NeverTooLate
  <2> SUFFICES ASSUME IInv, NEW t \in active
               PROVE  left[t] > timePass /\ (left[t] - timePass) % Space = 0
    BY DEF NeverTooLate
  <2>1. /\ left[t] \in Nat /\ timePass \in Nat /\ timeLeave \in Nat
        /\ IsTicks(left[t]) /\ IsTicks(timePass)
        /\ timeLeave > 0 /\ timePass + timeLeave <= left[t]
    BY DEF IInv, TypeOK, ItemOK
  <2>2. left[t] > timePass /\ left[t] - timePass \in Nat
    BY <2>1
  <2>3. IsTicks(left[t] - timePass)
    BY <2>1, <2>2, SubTicks
  <2> QED BY <1>1, <2>2, <2>3
<1> QED BY <1>2, InitIInv, NextIInv, PTL DEF Spec

-----------------------------------------------------------------------------
(* The engine implements the timers one by one                             *)

LEMMA SameRounding ==
  ASSUME NEW e \in Elapses
  PROVE  Service!WholeTicks(e) = Rounded(e)
<1> DEFINE P(x) == \E n \in 1 .. e : x = n * Space
           r == Rounded(e)
<1>1. e \in Nat \ {0} /\ Space \in Nat \ {0}
  BY TimerAssumption
<1>2. r \in Nat /\ IsTicks(r) /\ e <= r /\ r < e + Space
  BY RoundedUp
<1> HIDE DEF r
<1>3. r \in e .. e + Space - 1
  BY <1>1, <1>2
<1>4. P(r)
  <2>1. PICK k \in Nat : r = k * Space
    BY <1>2 DEF IsTicks
  <2>2. k # 0
    BY <1>1, <1>2, <2>1
  <2>3. k <= e
    <3> SUFFICES ASSUME e + 1 <= k PROVE FALSE
      BY <1>1
    <3>1. PICK d \in Nat : k = e + 1 + d
      <4>1. k - (e + 1) \in Nat /\ k = e + 1 + (k - (e + 1))
        BY <1>1
      <4> QED BY <4>1
    <3>2. k * Space = e * Space + Space + d * Space
      BY <1>1, <3>1
    <3>3. e * Space >= e /\ d * Space \in Nat /\ e * Space \in Nat
      BY <1>1
    <3> QED BY <1>1, <1>2, <2>1, <3>2, <3>3
  <2> QED BY <1>1, <2>1, <2>2, <2>3
<1>5. ASSUME NEW x \in e .. e + Space - 1, P(x) PROVE x = r
  <2>1. x \in Nat /\ IsTicks(x) /\ e <= x /\ x < e + Space
    <3>1. IsTicks(x)
      BY <1>1, <1>5 DEF IsTicks
    <3> QED BY <1>1, <3>1
  <2>2. ~(x < r)
    <3> SUFFICES ASSUME x < r PROVE FALSE
      OBVIOUS
    <3>1. x + Space <= r
      BY <1>2, <2>1, TicksApart
    <3> QED BY <1>1, <1>2, <2>1, <3>1
  <2>3. ~(r < x)
    <3> SUFFICES ASSUME r < x PROVE FALSE
      OBVIOUS
    <3>1. r + Space <= x
      BY <1>2, <2>1, TicksApart
    <3> QED BY <1>1, <1>2, <2>1, <3>1
  <2> QED BY <1>2, <2>1, <2>2, <2>3
<1>6. Service!WholeTicks(e) = CHOOSE x \in e .. e + Space - 1 : P(x)
  BY DEF Service!WholeTicks
<1> HIDE DEF P
<1> QED BY <1>3, <1>4, <1>5, <1>6 DEF r

\* What is left of a timer's time, as the service sees it
Remains(t) == IF t \in active THEN left[t] - timePass ELSE 0

LEMMA SetSimulation ==
  ASSUME IInv, NEW t \in Timers, NEW e \in Elapses, NEW n \in Repeats,
         SetTimer(t, e, n)
  PROVE  Service!Set(t, e, n)
<1> DEFINE r == Rounded(e)
<1>1. Service!WholeTicks(e) = r /\ r \in Nat
  BY SameRounding, RoundedUp
<1> HIDE DEF r
<1>2. /\ t \notin active /\ active' = active \cup {t} /\ fired' = {}
      /\ elapse' = [elapse EXCEPT ![t] = r]
      /\ repeatTimes' = [repeatTimes EXCEPT ![t] = n]
      /\ left' = [left EXCEPT ![t] = r + timePass] /\ timePass' = timePass
  BY DEF SetTimer, r
<1>3. left \in [Timers -> Nat] /\ timePass \in Nat /\ active \subseteq Timers
  BY DEF IInv, TypeOK
<1>4. [u \in Timers |-> Remains(u)'] = [[u \in Timers |-> Remains(u)] EXCEPT ![t] = r]
  <2> SUFFICES ASSUME NEW u \in Timers
               PROVE  Remains(u)' = IF u = t THEN r ELSE Remains(u)
    OBVIOUS
  <2>1. CASE u = t
    <3>1. left'[u] = r + timePass /\ u \in active'
      BY <1>2, <1>3, <2>1
    <3>2. left'[u] - timePass' = r
      BY <1>1, <1>2, <1>3, <3>1
    <3>3. Remains(u)' = left'[u] - timePass'
      BY <3>1 DEF Remains
    <3> QED BY <2>1, <3>2, <3>3
  <2>2. CASE u # t
    BY <1>2, <1>3, <2>2 DEF Remains
  <2> QED BY <2>1, <2>2
<1> QED BY <1>1, <1>2, <1>4 DEF Service!Set, Remains

LEMMA PassSimulation ==
  ASSUME IInv, PassTime
  PROVE  Service!Tick
<1> DEFINE rem == [u \in Timers |-> Remains(u)]
           due == {t \in active : rem[t] = Space}
           last == {t \in due : repeatTimes[t] = 1}
<1>1. /\ active \subseteq Timers /\ active # {} /\ left \in [Timers -> Nat]
      /\ timePass \in Nat /\ timeLeave \in Nat /\ Space \in Nat \ {0}
      /\ repeatTimes \in [Timers -> (Nat \ {0}) \cup {Infinity}]
      /\ timePass' = timePass + Space /\ fired' = {} /\ UNCHANGED items
  BY TimerAssumption DEF IInv, TypeOK, PassTime
<1>2. Space < timeLeave
  <2>1. IsTicks(timeLeave) /\ timeLeave > 0 /\ timeLeave # Space
    BY <1>1 DEF IInv, PassTime
  <2>2. 0 + Space <= timeLeave
    BY <1>1, <2>1, ZeroTicks, TicksApart
  <2> QED BY <1>1, <2>1, <2>2
<1>3. ASSUME NEW t \in active PROVE Remains(t) # Space
  <2>1. timePass + timeLeave <= left[t] /\ left[t] \in Nat
    BY <1>1 DEF IInv, ItemOK
  <2> QED BY <1>1, <1>2, <2>1 DEF Remains
<1>4. ASSUME NEW t \in Timers
      PROVE  Remains(t)' = IF t \in active THEN Remains(t) - Space ELSE Remains(t)
  BY <1>1 DEF Remains, items
<1>5. due = {} /\ last = {}
  BY <1>1, <1>3
<1>6. [t \in Timers |-> Remains(t)'] =
        [t \in Timers |-> IF t \in due \ last THEN elapse[t]
                          ELSE IF t \in active THEN rem[t] - Space ELSE rem[t]]
  BY <1>4, <1>5
<1>7. repeatTimes' = [t \in Timers |->
        IF t \in due \ last /\ repeatTimes[t] # Infinity
        THEN repeatTimes[t] - 1 ELSE repeatTimes[t]]
  BY <1>1, <1>5 DEF items
<1>8. fired' = due /\ active' = active \ last /\ elapse' = elapse
  BY <1>1, <1>5 DEF items
<1> QED BY <1>1, <1>6, <1>7, <1>8 DEF Service!Tick, Remains

LEMMA SearchSimulation ==
  ASSUME IInv, SearchTimers
  PROVE  Service!Tick
<1> DEFINE pass == timePass + Space
           rem == [u \in Timers |-> Remains(u)]
           due == {t \in active : rem[t] = Space}
           last == {t \in due : repeatTimes[t] = 1}
<1>1. /\ active \subseteq Timers /\ active # {} /\ left \in [Timers -> Nat]
      /\ elapse \in [Timers -> Nat]
      /\ timePass \in Nat /\ timeLeave \in Nat /\ Space \in Nat \ {0}
      /\ timePass' = 0 /\ elapse' = elapse
  BY TimerAssumption DEF IInv, TypeOK, SearchTimers
<1>2. Due(pass) = due /\ Expired(pass) = last
  <2>1. ASSUME NEW t \in active PROVE left[t] = pass <=> rem[t] = Space
    BY <1>1 DEF Remains
  <2> QED BY <2>1 DEF Due, Expired
<1> HIDE DEF pass
<1>3. /\ fired' = Due(pass) /\ active' = active \ Expired(pass)
      /\ left' = [t \in Timers |-> LeftAfter(t, pass)]
      /\ repeatTimes' = [t \in Timers |->
           IF t \in Due(pass) \ Expired(pass) /\ repeatTimes[t] # Infinity
           THEN repeatTimes[t] - 1 ELSE repeatTimes[t]]
  BY DEF SearchTimers, pass
<1>4. ASSUME NEW t \in Timers
      PROVE  Remains(t)' = IF t \in Due(pass) \ Expired(pass) THEN elapse[t]
                           ELSE IF t \in active THEN Remains(t) - Space
                           ELSE Remains(t)
  <2>1. CASE t \in Due(pass) \ Expired(pass)
    <3>1. t \in active /\ t \in active' /\ left'[t] = elapse[t]
      BY <1>1, <1>3, <2>1 DEF LeftAfter, Due
    <3>2. elapse[t] - 0 = elapse[t]
      BY <1>1
    <3> QED BY <1>1, <2>1, <3>1, <3>2 DEF Remains
  <2>2. CASE t \in Expired(pass)
    <3>1. t \in active /\ t \notin active' /\ rem[t] = Space
      BY <1>2, <1>3, <2>2
    <3>2. Remains(t) - Space = 0
      BY <1>1, <3>1
    <3> QED BY <2>2, <3>1, <3>2 DEF Remains
  <2>3. CASE t \in active \ Due(pass)
    <3>1. t \in active' /\ left'[t] = left[t] - pass /\ left[t] \in Nat
      BY <1>1, <1>3, <2>3 DEF LeftAfter, Expired
    <3>2. left[t] - pass - 0 = left[t] - timePass - Space
      BY <1>1, <3>1 DEF pass
    <3> QED BY <1>1, <2>3, <3>1, <3>2 DEF Remains
  <2>4. CASE t \notin active
    BY <1>3, <2>4 DEF Remains, Due
  <2> QED BY <2>1, <2>2, <2>3, <2>4 DEF Expired
<1>5. [t \in Timers |-> Remains(t)'] =
        [t \in Timers |-> IF t \in due \ last THEN elapse[t]
                          ELSE IF t \in active THEN rem[t] - Space ELSE rem[t]]
  BY <1>2, <1>4
<1>6. repeatTimes' = [t \in Timers |->
        IF t \in due \ last /\ repeatTimes[t] # Infinity
        THEN repeatTimes[t] - 1 ELSE repeatTimes[t]]
  BY <1>2, <1>3
<1> QED BY <1>1, <1>2, <1>3, <1>5, <1>6 DEF Service!Tick, Remains

\* Each timer behaves as if it counted down alone: the engine, which touches its
\* items only when the common countdown ends, implements the timer service.
THEOREM EngineImplementsService == Spec => Implements
<1>1. Init => Service!Start
  BY DEF Init, Service!Start
<1>2. IInv /\ [Next]_vars =>
        [Service!Tick \/ \E t \in Timers, e \in Elapses, n \in Repeats :
           Service!Set(t, e, n)]_Service!service
  <2> SUFFICES ASSUME IInv, [Next]_vars
               PROVE  \/ Service!Tick
                      \/ \E t \in Timers, e \in Elapses, n \in Repeats :
                           Service!Set(t, e, n)
                      \/ UNCHANGED Service!service
    OBVIOUS
  <2>1. CASE UNCHANGED vars
    BY <2>1 DEF vars, items, Service!service
  <2>2. ASSUME NEW t \in Timers, SetActiveTimer(t) PROVE UNCHANGED Service!service
    BY <2>2 DEF SetActiveTimer, items, Service!service
  <2>3. CASE PassTime
    BY <2>3, PassSimulation
  <2>4. CASE SearchTimers
    BY <2>4, SearchSimulation
  <2>5. ASSUME NEW t \in Timers, NEW e \in Elapses, NEW n \in Repeats, SetTimer(t, e, n)
        PROVE  Service!Set(t, e, n)
    BY <2>5, SetSimulation
  <2> QED BY <2>1, <2>2, <2>3, <2>4, <2>5 DEF Next, OnTimerThreadSink
<1> QED BY <1>1, <1>2, InitIInv, NextIInv, PTL DEF Spec, Implements, Service!ServiceSpec

-----------------------------------------------------------------------------
(* When a timer fires                                                      *)

LEMMA RemainsOfActive ==
  ASSUME IInv, NEW t \in active
  PROVE  t \in Timers /\ Remains(t) \in Nat \ {0} /\ elapse[t] \in Nat \ {0}
<1>1. /\ left[t] \in Nat /\ elapse[t] \in Nat \ {0} /\ timePass \in Nat /\ timeLeave \in Nat
      /\ timeLeave > 0 /\ timePass + timeLeave <= left[t] /\ t \in Timers
  BY DEF IInv, TypeOK, ItemOK
<1>2. left[t] - timePass \in Nat \ {0}
  BY <1>1
<1> QED BY <1>1, <1>2 DEF Remains

LEMMA TickOf ==
  ASSUME IInv, OnTimerThreadSink, NEW t \in active
  PROVE  /\ elapse'[t] = elapse[t]
         /\ t \in fired' <=> Remains(t) = Space
         /\ Remains(t) # Space => Remains(t)' = Remains(t) - Space
         /\ t \in active' /\ Remains(t) = Space => Remains(t)' = elapse[t]
<1> DEFINE rem == [u \in Timers |-> Remains(u)]
           due == {u \in active : rem[u] = Space}
           last == {u \in due : repeatTimes[u] = 1}
<1>1. Service!Tick
  BY PassSimulation, SearchSimulation DEF OnTimerThreadSink
<1>2. /\ fired' = due /\ active' = active \ last /\ elapse' = elapse
      /\ [u \in Timers |-> Remains(u)'] =
           [u \in Timers |-> IF u \in due \ last THEN elapse[u]
                             ELSE IF u \in active THEN rem[u] - Space ELSE rem[u]]
  BY <1>1 DEF Service!Tick, Remains
<1>3. t \in Timers /\ rem[t] = Remains(t)
  BY RemainsOfActive
<1>4. Remains(t)' = IF t \in due \ last THEN elapse[t] ELSE rem[t] - Space
  BY <1>2, <1>3
<1> QED BY <1>2, <1>3, <1>4

LEMMA NoTickOf ==
  ASSUME IInv, [Next]_vars, ~OnTimerThreadSink, NEW t \in active
  PROVE  elapse'[t] = elapse[t] /\ Remains(t)' = Remains(t)
<1>1. t \in Timers /\ elapse \in [Timers -> Nat] /\ left \in [Timers -> Nat]
  BY DEF IInv, TypeOK
<1>2. ASSUME NEW u \in Timers, NEW e \in Elapses, NEW n \in Repeats, SetTimer(u, e, n)
      PROVE  elapse'[t] = elapse[t] /\ left'[t] = left[t] /\ timePass' = timePass /\ t \in active'
  BY <1>1, <1>2 DEF SetTimer
<1>3. CASE UNCHANGED <<items, timePass>>
  BY <1>3 DEF items, Remains
<1> QED BY <1>2, <1>3 DEF Next, SetActiveTimer, Remains, vars

\* A tick fires exactly the timers whose last tick it is, brings every other one
\* a tick nearer, and no call of SetTimer in between moves a timer.
TicksCount ==
  \A t \in active :
    IF OnTimerThreadSink
    THEN /\ t \in fired' <=> Remains(t) = Space
         /\ Remains(t) # Space => Remains(t)' = Remains(t) - Space
    ELSE Remains(t)' = Remains(t)

\* No active timer has longer to wait than the time it was set to.
WithinItsPeriod == \A t \in active : Remains(t) \in 1 .. elapse[t]

\* The safety that ArmedFires rests on, with its deadline: a timer that is set to
\* n ticks is fired by the n-th tick from then on, and a repeated one by every n-th,
\* however many others are set or fire meanwhile.
THEOREM TimersFireOnTime == Spec => []WithinItsPeriod /\ [][TicksCount]_vars
<1>1. ASSUME IInv, [Next]_vars PROVE [TicksCount]_vars
  <2>1. CASE OnTimerThreadSink
    BY <1>1, <2>1, TickOf DEF TicksCount
  <2>2. CASE ~OnTimerThreadSink
    BY <1>1, <2>2, NoTickOf DEF TicksCount
  <2> QED BY <2>1, <2>2
<1>2. Init => WithinItsPeriod
  BY DEF Init, WithinItsPeriod
<1>3. IInv /\ WithinItsPeriod /\ [Next]_vars => WithinItsPeriod'
  <2> SUFFICES ASSUME IInv, WithinItsPeriod, [Next]_vars, NEW t \in active'
               PROVE  Remains(t)' \in 1 .. elapse'[t]
    BY DEF WithinItsPeriod
  <2>1. IInv' /\ Remains(t)' \in Nat \ {0} /\ Space \in Nat \ {0}
    <3>1. IInv'
      BY NextIInv
    <3>2. t \in Timers /\ left'[t] \in Nat /\ timePass' \in Nat /\ timeLeave' \in Nat
          /\ timeLeave' > 0 /\ timePass' + timeLeave' <= left'[t]
      BY <3>1 DEF IInv, TypeOK, ItemOK
    <3>3. left'[t] - timePass' \in Nat \ {0}
      BY <3>2
    <3> QED BY <3>1, <3>3, TimerAssumption DEF Remains
  <2>2. CASE t \in active
    <3>1. Remains(t) \in 1 .. elapse[t] /\ elapse[t] \in Nat \ {0}
      BY <2>2, RemainsOfActive DEF WithinItsPeriod
    <3>2. /\ elapse'[t] = elapse[t]
          /\ Remains(t)' \in {elapse[t], Remains(t) - Space, Remains(t)}
      <4>1. CASE OnTimerThreadSink
        BY <2>2, <4>1, TickOf
      <4>2. CASE ~OnTimerThreadSink
        BY <2>2, <4>2, NoTickOf
      <4> QED BY <4>1, <4>2
    <3> QED BY <2>1, <3>1, <3>2
  <2>3. CASE t \notin active
    <3>1. PICK e \in Elapses, n \in Repeats : t \in Timers /\ SetTimer(t, e, n)
      BY <2>3 DEF Next, SetTimer, SetActiveTimer, OnTimerThreadSink, PassTime, SearchTimers,
                  Expired, Due, vars, items
    <3> DEFINE r == Rounded(e)
    <3>2. r \in Nat /\ timePass \in Nat /\ left \in [Timers -> Nat] /\ elapse \in [Timers -> Nat]
      BY RoundedUp DEF IInv, TypeOK
    <3>3. left' = [left EXCEPT ![t] = r + timePass] /\ elapse' = [elapse EXCEPT ![t] = r]
          /\ timePass' = timePass
      BY <3>1 DEF SetTimer
    <3> HIDE DEF r
    <3>4. Remains(t)' = r /\ elapse'[t] = r
      BY <3>1, <3>2, <3>3 DEF Remains
    <3> QED BY <2>1, <3>2, <3>4
  <2> QED BY <2>2, <2>3
<1> QED BY <1>1, <1>2, <1>3, InitIInv, NextIInv, PTL DEF Spec
=============================================================================
