--------------------------- MODULE RedBlackProofs ---------------------------
(***************************************************************************)
(* RedBlackRound for every table: the bets add up and keep the limits, no  *)
(* score becomes negative, the stronger hand pays, whoever is owed         *)
(* something is paid, no round costs more than the limits allow, and the   *)
(* phases of a round follow one another, whatever the users do and however *)
(* many rounds are played.                                                 *)
(***************************************************************************)
EXTENDS RedBlackRound, CardLogicProofs

-----------------------------------------------------------------------------
(* Sums.  The library defines a sum as a recursive function on the subsets *)
(* of a set; the induction that it takes to reason about one is made with  *)
(* a smallest subset of which what is to be shown would not be true.       *)

LEMMA SmallestSubset ==
  ASSUME NEW S, IsFiniteSet(S), NEW Bad, Bad \subseteq SUBSET S, Bad # {}
  PROVE  \E T \in Bad : \A U \in SUBSET T : U # T => U \notin Bad
<1>1. IsWellFoundedOn(StrictSubsetOrdering(S), SUBSET S)
  <2>1. FiniteSubsetsOf(S) = SUBSET S
    BY FS_FiniteSubsetsOfFinite
  <2> QED BY <2>1, FS_StrictSubsetOrderingWellFounded
<1>2. PICK T \in Bad : \A U \in Bad : <<U, T>> \notin StrictSubsetOrdering(S)
  BY <1>1, WFMin
<1>3. ASSUME NEW U \in SUBSET T, U # T PROVE U \notin Bad
  <2>1. U \in SUBSET S /\ T \in SUBSET S
    BY <1>2, <1>3
  <2>2. <<U, T>> \in StrictSubsetOrdering(S)
    BY <1>3, <2>1 DEF StrictSubsetOrdering
  <2> QED BY <1>2, <2>2
<1> QED BY <1>2, <1>3

Any(s) == CHOOSE x \in s : TRUE

\* g is the sum of f over each of the subsets of S, one element being taken after another.
Sums(f, S, g) ==
  g = [s \in SUBSET S |-> IF s = {} THEN 0 ELSE f[Any(s)] + g[s \ {Any(s)}]]

LEMMA SumIsOfSums ==
  ASSUME NEW f, NEW S
  PROVE  Sum(f, S) = (CHOOSE g : Sums(f, S, g))[S]
BY DEF Sum, MapThenSumSet, MapThenFoldSet, Sums, Any

LEMMA AnyIsIn ==
  ASSUME NEW s, s # {}
  PROVE  Any(s) \in s
BY DEF Any

\* Such functions agree.
LEMMA SumsAgree ==
  ASSUME NEW f, NEW S, IsFiniteSet(S), NEW T, NEW U, NEW g, NEW h, Sums(f, T, g), Sums(f, U, h),
         S \subseteq T, S \subseteq U
  PROVE  g[S] = h[S]
<1> DEFINE Bad == {s \in SUBSET S : g[s] # h[s]}
<1>1. SUFFICES ASSUME Bad # {} PROVE FALSE
  OBVIOUS
<1>2. PICK s \in Bad : \A r \in SUBSET s : r # s => r \notin Bad
  <2> HIDE DEF Bad
  <2>1. Bad \subseteq SUBSET S
    BY DEF Bad
  <2> QED BY <1>1, <2>1, SmallestSubset
<1>3. /\ g[s] = IF s = {} THEN 0 ELSE f[Any(s)] + g[s \ {Any(s)}]
      /\ h[s] = IF s = {} THEN 0 ELSE f[Any(s)] + h[s \ {Any(s)}]
  BY DEF Sums
<1>4. s # {}
  BY <1>3
<1>5. g[s \ {Any(s)}] = h[s \ {Any(s)}]
  <2>1. s \ {Any(s)} # s /\ s \ {Any(s)} \in SUBSET s
    BY <1>4, AnyIsIn
  <2> QED BY <1>2, <2>1
<1> QED BY <1>3, <1>5

LEMMA SumsExist ==
  ASSUME NEW f, NEW S, IsFiniteSet(S)
  PROVE  \E g : Sums(f, S, g)
<1> DEFINE Bad == {T \in SUBSET S : ~ \E g : Sums(f, T, g)}
<1>1. SUFFICES ASSUME Bad # {} PROVE FALSE
  OBVIOUS
<1>2. PICK T \in Bad : \A U \in SUBSET T : U # T => U \notin Bad
  <2> HIDE DEF Bad
  <2>1. Bad \subseteq SUBSET S
    BY DEF Bad
  <2> QED BY <1>1, <2>1, SmallestSubset
<1> DEFINE F(U) == CHOOSE g : Sums(f, U, g)
           H(U) == F(U)[U]
           e == [s \in SUBSET T |-> IF s = {} THEN 0 ELSE f[Any(s)] + H(s \ {Any(s)})]
<1>3. ASSUME NEW U \in SUBSET T, U # T
      PROVE  Sums(f, U, F(U)) /\ IsFiniteSet(U)
  <2>1. U \in SUBSET S /\ \E g : Sums(f, U, g)
    BY <1>2, <1>3
  <2> HIDE DEF Bad
  <2> QED BY <2>1, FS_Subset
<1> HIDE DEF Bad, F
<1>4. ASSUME NEW U \in SUBSET T, U # T
      PROVE  H(U) = IF U = {} THEN 0 ELSE f[Any(U)] + H(U \ {Any(U)})
  <2>1. H(U) = IF U = {} THEN 0 ELSE f[Any(U)] + F(U)[U \ {Any(U)}]
    BY <1>3, <1>4 DEF Sums
  <2>2. F(U)[U \ {Any(U)}] = H(U \ {Any(U)})
    <3>1. U \ {Any(U)} \in SUBSET T /\ U \ {Any(U)} # T
      BY <1>4
    <3>2. Sums(f, U, F(U))
      BY <1>3, <1>4
    <3>3. Sums(f, U \ {Any(U)}, F(U \ {Any(U)})) /\ IsFiniteSet(U \ {Any(U)})
      BY <1>3, <3>1
    <3>4. PICK V, g, h : V = U \ {Any(U)} /\ g = F(U) /\ h = F(V)
      OBVIOUS
    <3>5. Sums(f, U, g) /\ Sums(f, V, h) /\ IsFiniteSet(V)
      BY <3>2, <3>3, <3>4
    <3>6. V \subseteq U /\ V \subseteq V
      BY <3>4
    <3>7. g[V] = h[V]
      BY <3>5, <3>6, SumsAgree
    <3> QED BY <3>4, <3>7
  <2> QED BY <2>1, <2>2
<1> HIDE DEF H
<1>5. \A U \in SUBSET T : U # T => e[U] = H(U)
  BY <1>4
<1>6. ASSUME NEW s \in SUBSET T, s # {} PROVE e[s \ {Any(s)}] = H(s \ {Any(s)})
  <2>1. s \ {Any(s)} \in SUBSET T /\ s \ {Any(s)} # T
    BY <1>6, AnyIsIn
  <2> QED BY <1>5, <2>1
<1>7. Sums(f, T, e)
  BY <1>6 DEF Sums
<1> QED BY <1>2, <1>7 DEF Bad

\* What a sum is, as a recursive definition
LEMMA SumRecursive ==
  ASSUME NEW f, NEW S, IsFiniteSet(S)
  PROVE  Sum(f, S) = IF S = {} THEN 0 ELSE f[Any(S)] + Sum(f, S \ {Any(S)})
<1> DEFINE F(U) == CHOOSE g : Sums(f, U, g)
<1>1. ASSUME NEW U, IsFiniteSet(U) PROVE Sums(f, U, F(U)) /\ Sum(f, U) = F(U)[U]
  BY <1>1, SumsExist, SumIsOfSums
<1> HIDE DEF F
<1>2. F(S)[S] = IF S = {} THEN 0 ELSE f[Any(S)] + F(S)[S \ {Any(S)}]
  BY <1>1 DEF Sums
<1>3. IsFiniteSet(S \ {Any(S)})
  BY FS_Subset
<1>4. F(S)[S \ {Any(S)}] = F(S \ {Any(S)})[S \ {Any(S)}]
  <2>1. PICK V, g, h : V = S \ {Any(S)} /\ g = F(S) /\ h = F(V)
    OBVIOUS
  <2>2. Sums(f, S, g) /\ Sums(f, V, h) /\ IsFiniteSet(V)
    BY <1>1, <1>3, <2>1
  <2>3. V \subseteq S /\ V \subseteq V
    BY <2>1
  <2>4. g[V] = h[V]
    BY <2>2, <2>3, SumsAgree
  <2> QED BY <2>1, <2>4
<1> QED BY <1>1, <1>2, <1>3, <1>4

LEMMA SumOfNone ==
  ASSUME NEW f
  PROVE  Sum(f, {}) = 0
BY SumRecursive, FS_EmptySet

LEMMA SumIsInt ==
  ASSUME NEW f, NEW S, IsFiniteSet(S), \A x \in S : f[x] \in Int
  PROVE  Sum(f, S) \in Int
<1> DEFINE Bad == {T \in SUBSET S : Sum(f, T) \notin Int}
<1>1. SUFFICES ASSUME Bad # {} PROVE FALSE
  OBVIOUS
<1>2. PICK T \in Bad : \A U \in SUBSET T : U # T => U \notin Bad
  <2> HIDE DEF Bad
  <2>1. Bad \subseteq SUBSET S
    BY DEF Bad
  <2> QED BY <1>1, <2>1, SmallestSubset
<1>3. IsFiniteSet(T)
  BY FS_Subset
<1>4. Sum(f, T) = IF T = {} THEN 0 ELSE f[Any(T)] + Sum(f, T \ {Any(T)})
  BY <1>3, SumRecursive
<1>5. CASE T # {}
  <2>1. Any(T) \in T /\ T \ {Any(T)} \in SUBSET T /\ T \ {Any(T)} # T
    BY <1>5, AnyIsIn
  <2>2. Sum(f, T \ {Any(T)}) \in Int /\ f[Any(T)] \in Int
    BY <1>2, <2>1
  <2> QED BY <1>4, <1>5, <2>2
<1> QED BY <1>4, <1>5

\* It does not matter which element is taken first.
LEMMA SumTaking ==
  ASSUME NEW f, NEW S, IsFiniteSet(S), \A x \in S : f[x] \in Int, NEW x \in S
  PROVE  Sum(f, S) = f[x] + Sum(f, S \ {x})
<1> DEFINE Bad == {T \in SUBSET S : \E y \in T : Sum(f, T) # f[y] + Sum(f, T \ {y})}
<1>1. SUFFICES ASSUME Bad # {} PROVE FALSE
  OBVIOUS
<1>2. PICK T \in Bad : \A U \in SUBSET T : U # T => U \notin Bad
  <2> HIDE DEF Bad
  <2>1. Bad \subseteq SUBSET S
    BY DEF Bad
  <2> QED BY <1>1, <2>1, SmallestSubset
<1>3. PICK y \in T : Sum(f, T) # f[y] + Sum(f, T \ {y})
  BY <1>2
<1>9. PICK a : a = Any(T)
  OBVIOUS
<1>4. a \in T /\ IsFiniteSet(T) /\ Sum(f, T) = f[a] + Sum(f, T \ {a})
  BY <1>3, <1>9, FS_Subset, SumRecursive, AnyIsIn
<1>5. a # y
  BY <1>3, <1>4
<1> DEFINE U == T \ {a, y}
<1>6. Sum(f, T \ {a}) = f[y] + Sum(f, U)
  <2>1. T \ {a} \notin Bad /\ T \ {a} \in SUBSET S /\ y \in T \ {a}
    BY <1>2, <1>3, <1>4, <1>5
  <2>2. Sum(f, T \ {a}) = f[y] + Sum(f, (T \ {a}) \ {y})
    BY <2>1
  <2>3. (T \ {a}) \ {y} = U
    OBVIOUS
  <2> QED BY <2>2, <2>3
<1>7. Sum(f, T \ {y}) = f[a] + Sum(f, U)
  <2>1. T \ {y} \notin Bad /\ T \ {y} \in SUBSET S /\ a \in T \ {y}
    BY <1>2, <1>3, <1>4, <1>5
  <2>2. Sum(f, T \ {y}) = f[a] + Sum(f, (T \ {y}) \ {a})
    BY <2>1
  <2>3. (T \ {y}) \ {a} = U
    OBVIOUS
  <2> QED BY <2>2, <2>3
<1>8. Sum(f, U) \in Int /\ f[a] \in Int /\ f[y] \in Int
  <2>1. IsFiniteSet(U) /\ U \subseteq S
    BY <1>2, FS_Subset
  <2>2. Sum(f, U) \in Int
    <3> HIDE DEF U
    <3> QED BY <2>1, SumIsInt
  <2> QED BY <1>2, <1>3, <1>4, <2>2
<1> QED BY <1>3, <1>4, <1>6, <1>7, <1>8

\* A sum is of what the function is on the set.
LEMMA SumOfSame ==
  ASSUME NEW f, NEW g, NEW S, IsFiniteSet(S), \A x \in S : f[x] = g[x]
  PROVE  Sum(f, S) = Sum(g, S)
<1> DEFINE Bad == {T \in SUBSET S : Sum(f, T) # Sum(g, T)}
<1>1. SUFFICES ASSUME Bad # {} PROVE FALSE
  OBVIOUS
<1>2. PICK T \in Bad : \A U \in SUBSET T : U # T => U \notin Bad
  <2> HIDE DEF Bad
  <2>1. Bad \subseteq SUBSET S
    BY DEF Bad
  <2> QED BY <1>1, <2>1, SmallestSubset
<1>3. IsFiniteSet(T)
  BY FS_Subset
<1>4. /\ Sum(f, T) = IF T = {} THEN 0 ELSE f[Any(T)] + Sum(f, T \ {Any(T)})
      /\ Sum(g, T) = IF T = {} THEN 0 ELSE g[Any(T)] + Sum(g, T \ {Any(T)})
  BY <1>3, SumRecursive
<1>5. CASE T # {}
  <2>1. Any(T) \in T /\ T \ {Any(T)} \in SUBSET T /\ T \ {Any(T)} # T
    BY <1>5, AnyIsIn
  <2>2. Sum(f, T \ {Any(T)}) = Sum(g, T \ {Any(T)}) /\ f[Any(T)] = g[Any(T)]
    BY <1>2, <2>1
  <2> QED BY <1>2, <1>4, <2>2
<1> QED BY <1>2, <1>4, <1>5

LEMMA SumOfZeros ==
  ASSUME NEW f, NEW S, IsFiniteSet(S), \A x \in S : f[x] = 0
  PROVE  Sum(f, S) = 0
<1> DEFINE Bad == {T \in SUBSET S : Sum(f, T) # 0}
<1>1. SUFFICES ASSUME Bad # {} PROVE FALSE
  OBVIOUS
<1>2. PICK T \in Bad : \A U \in SUBSET T : U # T => U \notin Bad
  <2> HIDE DEF Bad
  <2>1. Bad \subseteq SUBSET S
    BY DEF Bad
  <2> QED BY <1>1, <2>1, SmallestSubset
<1>3. IsFiniteSet(T)
  BY FS_Subset
<1>4. Sum(f, T) = IF T = {} THEN 0 ELSE f[Any(T)] + Sum(f, T \ {Any(T)})
  BY <1>3, SumRecursive
<1>5. CASE T # {}
  <2>1. Any(T) \in T /\ T \ {Any(T)} \in SUBSET T /\ T \ {Any(T)} # T
    BY <1>5, AnyIsIn
  <2>2. Sum(f, T \ {Any(T)}) = 0 /\ f[Any(T)] = 0
    BY <1>2, <2>1
  <2> QED BY <1>2, <1>4, <1>5, <2>2
<1> QED BY <1>2, <1>4, <1>5

\* The sum of a function that is, element by element, two others added
LEMMA SumAdded ==
  ASSUME NEW f, NEW g, NEW h, NEW S, IsFiniteSet(S),
         \A x \in S : f[x] \in Int /\ g[x] \in Int /\ h[x] = f[x] + g[x]
  PROVE  Sum(h, S) = Sum(f, S) + Sum(g, S)
<1> DEFINE Bad == {T \in SUBSET S : Sum(h, T) # Sum(f, T) + Sum(g, T)}
<1>1. SUFFICES ASSUME Bad # {} PROVE FALSE
  OBVIOUS
<1>2. PICK T \in Bad : \A U \in SUBSET T : U # T => U \notin Bad
  <2> HIDE DEF Bad
  <2>1. Bad \subseteq SUBSET S
    BY DEF Bad
  <2> QED BY <1>1, <2>1, SmallestSubset
<1>3. IsFiniteSet(T)
  BY FS_Subset
<1>4. /\ Sum(f, T) = IF T = {} THEN 0 ELSE f[Any(T)] + Sum(f, T \ {Any(T)})
      /\ Sum(g, T) = IF T = {} THEN 0 ELSE g[Any(T)] + Sum(g, T \ {Any(T)})
      /\ Sum(h, T) = IF T = {} THEN 0 ELSE h[Any(T)] + Sum(h, T \ {Any(T)})
  BY <1>3, SumRecursive
<1>5. CASE T # {}
  <2> PICK a, U : a = Any(T) /\ U = T \ {Any(T)}
    OBVIOUS
  <2>1. a \in T /\ U \in SUBSET T /\ U # T /\ IsFiniteSet(U) /\ U \in SUBSET S
    BY <1>3, <1>5, AnyIsIn, FS_Subset
  <2>2. Sum(h, U) = Sum(f, U) + Sum(g, U)
    BY <1>2, <2>1
  <2>3. f[a] \in Int /\ g[a] \in Int /\ h[a] = f[a] + g[a]
    BY <1>2, <2>1
  <2>4. Sum(f, U) \in Int /\ Sum(g, U) \in Int
    BY <2>1, SumIsInt
  <2>5. Sum(f, T) = f[a] + Sum(f, U) /\ Sum(g, T) = g[a] + Sum(g, U) /\ Sum(h, T) = h[a] + Sum(h, U)
    BY <1>4, <1>5
  <2> QED BY <1>2, <2>2, <2>3, <2>4, <2>5
<1> QED BY <1>2, <1>4, <1>5

\* The sum of numbers that are not negative is not less than any of them.
LEMMA SumOfNats ==
  ASSUME NEW f, NEW S, IsFiniteSet(S), \A x \in S : f[x] \in Nat
  PROVE  Sum(f, S) \in Nat /\ \A x \in S : f[x] <= Sum(f, S)
<1> DEFINE Bad == {T \in SUBSET S : Sum(f, T) \notin Nat}
<1>1. Bad = {}
  <2> SUFFICES ASSUME Bad # {} PROVE FALSE
    OBVIOUS
  <2>2. PICK T \in Bad : \A U \in SUBSET T : U # T => U \notin Bad
    <3> HIDE DEF Bad
    <3>1. Bad \subseteq SUBSET S
      BY DEF Bad
    <3> QED BY <3>1, SmallestSubset
  <2>3. IsFiniteSet(T)
    BY FS_Subset
  <2>4. Sum(f, T) = IF T = {} THEN 0 ELSE f[Any(T)] + Sum(f, T \ {Any(T)})
    BY <2>3, SumRecursive
  <2>5. CASE T # {}
    <3>1. Any(T) \in T /\ T \ {Any(T)} \in SUBSET T /\ T \ {Any(T)} # T
      BY <2>5, AnyIsIn
    <3>2. Sum(f, T \ {Any(T)}) \in Nat /\ f[Any(T)] \in Nat
      BY <2>2, <3>1
    <3> QED BY <2>2, <2>4, <2>5, <3>2
  <2> QED BY <2>2, <2>4, <2>5
<1>2. \A T \in SUBSET S : Sum(f, T) \in Nat
  BY <1>1
<1>3. ASSUME NEW x \in S PROVE f[x] <= Sum(f, S)
  <2>1. Sum(f, S) = f[x] + Sum(f, S \ {x})
    BY SumTaking
  <2>2. Sum(f, S \ {x}) \in Nat /\ f[x] \in Nat
    BY <1>2
  <2> QED BY <2>1, <2>2
<1> QED BY <1>2, <1>3

\* One of those that are added changes.
LEMMA SumChanged ==
  ASSUME NEW f, NEW g, NEW S, IsFiniteSet(S), NEW x \in S,
         \A y \in S : f[y] \in Int /\ g[y] \in Int /\ (y # x => g[y] = f[y])
  PROVE  Sum(g, S) = Sum(f, S) - f[x] + g[x]
<1>1. Sum(f, S) = f[x] + Sum(f, S \ {x}) /\ Sum(g, S) = g[x] + Sum(g, S \ {x})
  BY SumTaking
<1>2. IsFiniteSet(S \ {x})
  BY FS_Subset
<1>3. Sum(f, S \ {x}) = Sum(g, S \ {x})
  BY <1>2, SumOfSame
<1>4. Sum(f, S \ {x}) \in Int
  BY <1>2, SumIsInt
<1> QED BY <1>1, <1>3, <1>4

-----------------------------------------------------------------------------
(* Scores and bets.  What keeps the sums right is that every step changes   *)
(* a chair's bet and the total of the area together; that no score becomes  *)
(* negative, and that whoever is owed something is paid, takes that no user *)
(* sits on two chairs.                                                      *)

OneChairEach == \A c, d \in Occupied : user[c] = user[d] => c = d

\* What a user is owed is what the settlement noted for the chair the user still
\* sits on, and that chair has a bet: only the chairs with one are paid.
OwedIsDue ==
  \A u \in Users : owed[u] # 0 =>
    \E c \in Occupied : user[c] = u /\ HasBet(c) /\ lUserWinScore[c] = owed[u]

RoundInv == TypeOK /\ OneChairEach /\ BetsAddUp /\ LimitsHold /\ OwedIsDue

LEMMA ChairsAndAreas ==
  /\ IsFiniteSet(Chair) /\ IsFiniteSet(Area) /\ Area = {0, 1, 2}
  /\ AREA_XIAN \in Area /\ AREA_ZHUANG \in Area /\ AREA_PING \in Area
<1>1. ChairCount \in Nat
  BY RoundAssumption
<1>2. IsFiniteSet(Chair)
  BY <1>1, FS_Interval DEF Chair
<1>3. Area = {0, 1, 2}
  BY DEF Area, AREA_MAX
<1>4. IsFiniteSet(0 .. 2)
  <2> PICK i \in Int, j \in Int : i = 0 /\ j = 2
    OBVIOUS
  <2>1. IsFiniteSet(i .. j)
    BY FS_Interval
  <2> QED BY <2>1
<1>5. Area = 0 .. 2
  BY DEF Area, AREA_MAX
<1> QED BY <1>5, <1>2, <1>3, <1>4 DEF AREA_XIAN, AREA_ZHUANG, AREA_PING

LEMMA MaxOfTwo ==
  ASSUME NEW x \in Int, NEW y \in Int
  PROVE  Max({x, y}) = IF x >= y THEN x ELSE y
BY DEF Max

LEMMA MinOfThree ==
  ASSUME NEW x \in Int, NEW y \in Int, NEW z \in Int
  PROVE  Min({x, y, z}) \in {x, y, z} /\ \A v \in {x, y, z} : Min({x, y, z}) <= v
<1>1. \E w \in {x, y, z} : \A v \in {x, y, z} : w <= v
  <2>1. CASE x <= y /\ x <= z
    BY <2>1
  <2>2. CASE y <= x /\ y <= z
    BY <2>2
  <2>3. CASE z <= x /\ z <= y
    BY <2>3
  <2> QED BY <2>1, <2>2, <2>3
<1> QED BY <1>1 DEF Min

LEMMA SumOfArea ==
  ASSUME NEW f, \A a \in Area : f[a] \in Int
  PROVE  Sum(f, Area) = f[0] + f[1] + f[2]
<1>1. IsFiniteSet(Area) /\ Area = {0, 1, 2}
  BY ChairsAndAreas
<1>2. Sum(f, Area) = f[0] + Sum(f, {1, 2})
  <2>1. Area \ {0} = {1, 2} /\ 0 \in Area
    BY <1>1
  <2> QED BY <1>1, <2>1, SumTaking
<1>3. Sum(f, {1, 2}) = f[1] + Sum(f, {2})
  <2>1. {1, 2} \ {1} = {2} /\ IsFiniteSet({1, 2}) /\ 1 \in {1, 2}
    BY <1>1, FS_Subset
  <2>2. \A x \in {1, 2} : f[x] \in Int
    BY <1>1
  <2> QED BY <2>1, <2>2, SumTaking
<1>4. Sum(f, {2}) = f[2] + Sum(f, {})
  <2>1. {2} \ {2} = {} /\ IsFiniteSet({2}) /\ 2 \in {2}
    BY <1>1, FS_Subset
  <2>2. \A x \in {2} : f[x] \in Int
    BY <1>1
  <2> QED BY <2>1, <2>2, SumTaking
<1>5. Sum(f, {}) = 0
  BY SumOfNone
<1>6. f[0] \in Int /\ f[1] \in Int /\ f[2] \in Int
  BY <1>1
<1> QED BY <1>2, <1>3, <1>4, <1>5, <1>6

\* What is allowed leaves room in the area, and AREA_MAX is refused after all.
LEMMA RoomIsLeft ==
  ASSUME TypeOK, NEW c \in Chair, user[c] # NoUser, NEW a \in 0 .. AREA_MAX, NEW b \in Bets,
         GetMaxPlayerScore(c, a) >= b
  PROVE  a \in Area /\ lAllBet[a] + b <= lAreaLimitScore
<1>1. b \in Nat /\ b > 0
  BY RoundAssumption
<1>2. a \in Area
  <2>1. a < AREA_MAX
    BY <1>1 DEF GetMaxPlayerScore, AREA_MAX
  <2> QED BY <2>1 DEF Area, AREA_MAX
<1> PICK x, y, z : /\ x = ScoreOf(c) - Sum(lPlayBet[c], Area)
                   /\ y = lUserLimitScore - lPlayBet[c][a]
                   /\ z = lAreaLimitScore - lAllBet[a]
  OBVIOUS
<1>3. x \in Int /\ y \in Int /\ z \in Int
  <2>1. user[c] \in Users /\ ScoreOf(c) \in Nat
    BY DEF TypeOK, ScoreOf
  <2>2. Sum(lPlayBet[c], Area) \in Int
    BY ChairsAndAreas, SumIsInt DEF TypeOK
  <2>3. lPlayBet[c][a] \in Nat /\ lAllBet[a] \in Nat
    BY <1>2 DEF TypeOK
  <2> QED BY <2>1, <2>2, <2>3, RoundAssumption
<1>4. GetMaxPlayerScore(c, a) = Max({0, Min({x, y, z})})
  BY <1>2 DEF GetMaxPlayerScore, Area, AREA_MAX
<1>5. Min({x, y, z}) \in Int /\ Min({x, y, z}) <= z
  BY <1>3, MinOfThree
<1>6. GetMaxPlayerScore(c, a) <= z
  <2> PICK m \in Int : m = Min({x, y, z})
    BY <1>5
  <2>1. 0 \in Int
    OBVIOUS
  <2>2. Max({0, m}) = IF 0 >= m THEN 0 ELSE m
    BY ONLY <2>1, MaxOfTwo, m \in Int
  <2> QED BY <1>1, <1>4, <1>5, <2>2
<1>7. lAllBet[a] \in Nat /\ lAreaLimitScore \in Nat /\ GetMaxPlayerScore(c, a) \in Int
  <2> PICK m \in Int : m = Min({x, y, z})
    BY <1>5
  <2>1. Max({0, m}) = IF 0 >= m THEN 0 ELSE m
    BY MaxOfTwo
  <2> QED BY <1>2, <1>4, <2>1, RoundAssumption DEF TypeOK
<1> QED BY <1>1, <1>2, <1>6, <1>7

LEMMA InitRound == Init => RoundInv
<1> SUFFICES ASSUME Init PROVE RoundInv
  OBVIOUS
<1>1. TypeOK
  <2>1. score \in [Users -> Nat]
    <3>1. Scores \subseteq Nat
      BY RoundAssumption
    <3> QED BY <3>1 DEF Init
  <2>2. rounds \in 0 .. MaxRounds
    BY RoundAssumption DEF Init
  <2>3. user \in [Chair -> Users \cup {NoUser}] /\ playing \subseteq Occupied
    BY DEF Init, Occupied
  <2>4. lPlayBet \in [Chair -> [Area -> Nat]] /\ lAllBet \in [Area -> Nat]
    BY DEF Init, NoBets
  <2>5. /\ lUserWinScore \in [Chair -> Int] /\ lUserRevenue \in [Chair -> Nat]
        /\ lBankerWin \in Int /\ owed \in [Users -> Int]
    BY DEF Init
  <2>6. timers \subseteq {"IDI_PLACE_JETTON", "IDI_GAME_END"}
    BY DEF Init
  <2> QED BY <2>1, <2>2, <2>3, <2>4, <2>5, <2>6 DEF TypeOK
<1>2. OneChairEach
  BY DEF Init, OneChairEach, Occupied
<1>3. BetsAddUp
  <2> SUFFICES ASSUME NEW a \in Area PROVE lAllBet[a] = Sum([c \in Chair |-> lPlayBet[c][a]], Chair)
    BY DEF BetsAddUp
  <2>1. lAllBet[a] = 0
    BY DEF Init
  <2>2. \A c \in Chair : [d \in Chair |-> lPlayBet[d][a]][c] = 0
    BY DEF Init, NoBets
  <2> QED BY <2>1, <2>2, ChairsAndAreas, SumOfZeros
<1>4. LimitsHold
  <2>1. \A a \in Area : lAllBet[a] <= lAreaLimitScore
    BY RoundAssumption DEF Init
  <2>2. \A c \in Chair : Sum(lPlayBet[c], Area) = 0
    <3> TAKE c \in Chair
    <3>1. \A a \in Area : lPlayBet[c][a] = 0
      BY DEF Init, NoBets
    <3> QED BY <3>1, ChairsAndAreas, SumOfZeros
  <2>3. \A c \in Chair : Sum(lPlayBet[c], Area) <= lUserLimitScore
    BY <2>2, RoundAssumption
  <2> QED BY <2>1, <2>3 DEF LimitsHold
<1>5. OwedIsDue
  BY DEF Init, OwedIsDue
<1> QED BY <1>1, <1>2, <1>3, <1>4, <1>5 DEF RoundInv

\* Sitting down and standing up: no bet, no total and no score changes.
LEMMA SittingKeeps ==
  ASSUME RoundInv, NEW u \in Users, NEW c \in Chair, OnActionUserSitDown(u, c)
  PROVE  RoundInv'
<1> USE DEF RoundInv
<1>0. /\ user' = [user EXCEPT ![c] = u] /\ user[c] = NoUser /\ u \notin {user[d] : d \in Chair}
      /\ UNCHANGED <<score, lPlayBet, lAllBet, lUserWinScore, lUserRevenue, lBankerWin, owed>>
      /\ user' \in [Chair -> Users \cup {NoUser}] /\ NoUser \notin Users
  BY RoundAssumption DEF OnActionUserSitDown, bets, result, TypeOK
<1>1. Occupied' = Occupied \cup {c} /\ \A d \in Occupied : user'[d] = user[d] /\ d # c
  BY <1>0 DEF Occupied, TypeOK
<1>2. TypeOK'
  <2>1. playing' \subseteq Occupied'
    BY <1>1 DEF OnActionUserSitDown, TypeOK
  <2>2. rounds' \in 0 .. MaxRounds
    BY RoundAssumption DEF OnActionUserSitDown, TypeOK
  <2>3. timers' \subseteq {"IDI_PLACE_JETTON", "IDI_GAME_END"}
    BY DEF OnActionUserSitDown, TypeOK
  <2> QED BY <1>0, <2>1, <2>2, <2>3 DEF TypeOK
<1>3. OneChairEach'
  BY <1>0, <1>1 DEF OneChairEach, TypeOK, Occupied
<1>4. BetsAddUp' /\ LimitsHold'
  BY <1>0 DEF BetsAddUp, LimitsHold
<1>5. OwedIsDue'
  BY <1>0, <1>1 DEF OwedIsDue, HasBet
<1> QED BY <1>2, <1>3, <1>4, <1>5

LEMMA StandingUpKeeps ==
  ASSUME RoundInv, NEW c \in Chair, OnActionUserStandUp(c)
  PROVE  RoundInv'
<1> USE DEF RoundInv
<1>0. /\ user' = [user EXCEPT ![c] = NoUser] /\ user[c] # NoUser /\ user[c] \in Users
      /\ playing' = playing \ {c} /\ owed' = [owed EXCEPT ![user[c]] = 0]
      /\ UNCHANGED <<score, lPlayBet, lAllBet, lUserWinScore, lUserRevenue, lBankerWin, timers, rounds>>
  BY DEF OnActionUserStandUp, bets, result, TypeOK
<1>1. Occupied' = Occupied \ {c} /\ \A d \in Occupied \ {c} : user'[d] = user[d]
  BY <1>0 DEF Occupied, TypeOK
<1>2. TypeOK'
  BY <1>0, <1>1 DEF TypeOK
<1>3. OneChairEach'
  BY <1>0, <1>1 DEF OneChairEach
<1>4. BetsAddUp' /\ LimitsHold'
  BY <1>0 DEF BetsAddUp, LimitsHold
<1>5. OwedIsDue'
  <2> SUFFICES ASSUME NEW v \in Users, owed'[v] # 0
               PROVE  \E d \in Occupied' : user'[d] = v /\ HasBet(d)' /\ lUserWinScore'[d] = owed'[v]
    BY DEF OwedIsDue
  <2>1. v # user[c] /\ owed'[v] = owed[v]
    BY <1>0 DEF TypeOK
  <2>2. PICK d \in Occupied : user[d] = v /\ HasBet(d) /\ lUserWinScore[d] = owed[v]
    BY <2>1 DEF OwedIsDue
  <2>3. d \in Occupied' /\ user'[d] = v /\ lPlayBet' = lPlayBet
    BY <1>0, <1>1, <2>1, <2>2
  <2> QED BY <1>0, <2>1, <2>2, <2>3 DEF HasBet
<1> QED BY <1>2, <1>3, <1>4, <1>5

\* A bet: the chair's and the area's total grow by the same.
LEMMA BettingKeeps ==
  ASSUME RoundInv, NEW c \in Chair, NEW a \in 0 .. AREA_MAX, NEW b \in Bets, OnUserPlayBet(c, a, b)
  PROVE  RoundInv'
<1> USE DEF RoundInv
<1>1. user[c] # NoUser /\ GetMaxPlayerScore(c, a) >= b
  BY DEF OnUserPlayBet
<1>2. a \in Area /\ lAllBet[a] + b <= lAreaLimitScore
  BY <1>1, RoomIsLeft
<1>3. b \in Nat /\ b > 0
  BY RoundAssumption
<1>4. /\ lAllBet' = [lAllBet EXCEPT ![a] = @ + b] /\ lPlayBet' = [lPlayBet EXCEPT ![c][a] = @ + b]
      /\ UNCHANGED <<user, playing, score, lUserWinScore, lUserRevenue, lBankerWin, timers, rounds, owed>>
  BY DEF OnUserPlayBet, table, result
<1>5. TypeOK'
  <2>1. lAllBet' \in [Area -> Nat] /\ lPlayBet' \in [Chair -> [Area -> Nat]]
    BY <1>2, <1>3, <1>4 DEF TypeOK
  <2>2. Occupied' = Occupied
    BY <1>4 DEF Occupied
  <2> QED BY <1>4, <2>1, <2>2 DEF TypeOK
<1>6. /\ \A x \in Area : lAllBet'[x] = IF x = a THEN lAllBet[x] + b ELSE lAllBet[x]
      /\ \A d \in Chair, x \in Area :
           lPlayBet'[d][x] = IF d = c /\ x = a THEN lPlayBet[d][x] + b ELSE lPlayBet[d][x]
  BY <1>2, <1>4 DEF TypeOK
<1>7. BetsAddUp'
  <2> SUFFICES ASSUME NEW x \in Area
               PROVE  lAllBet'[x] = Sum([d \in Chair |-> lPlayBet'[d][x]], Chair)
    BY DEF BetsAddUp
  <2> PICK f, g : f = [d \in Chair |-> lPlayBet[d][x]] /\ g = [d \in Chair |-> lPlayBet'[d][x]]
    OBVIOUS
  <2>1. lAllBet[x] = Sum(f, Chair)
    BY DEF BetsAddUp
  <2>2. \A d \in Chair : f[d] \in Int /\ g[d] \in Int /\ (d # c => g[d] = f[d])
    BY <1>6, <1>5 DEF TypeOK
  <2>3. Sum(g, Chair) = Sum(f, Chair) - f[c] + g[c]
    BY <2>2, ChairsAndAreas, SumChanged
  <2>4. lAllBet'[x] = lAllBet[x] - f[c] + g[c]
    <3>1. lAllBet[x] \in Int /\ f[c] \in Int /\ g[c] \in Int
      BY <2>2 DEF TypeOK
    <3> QED BY <1>3, <1>6, <3>1
  <2> QED BY <2>1, <2>3, <2>4
<1>8. LimitsHold'
  <2>1. ASSUME NEW x \in Area PROVE lAllBet'[x] <= lAreaLimitScore
    BY <1>2, <1>6 DEF LimitsHold
  <2>2. ASSUME NEW d \in Chair PROVE Sum(lPlayBet'[d], Area) <= lUserLimitScore
    <3> PICK f, g : f = lPlayBet[d] /\ g = lPlayBet'[d]
      OBVIOUS
    <3>1. \A x \in Area : f[x] \in Int /\ g[x] \in Int /\ (x # a => g[x] = f[x])
      BY <1>5, <1>6 DEF TypeOK
    <3>2. Sum(f, Area) \in Int /\ Sum(g, Area) = Sum(f, Area) - f[a] + g[a]
      BY <1>2, <3>1, ChairsAndAreas, SumChanged, SumIsInt
    <3>3. CASE d = c
      <4>1. lUserLimitScore >= Sum(f, Area) + b
        BY <3>3 DEF OnUserPlayBet
      <4>2. g[a] = f[a] + b
        BY <1>2, <1>6, <3>3
      <4> QED BY <1>2, <1>3, <3>1, <3>2, <4>1, <4>2
    <3>4. CASE d # c
      <4>1. g[a] = f[a]
        BY <1>2, <1>6, <3>4
      <4>2. Sum(f, Area) <= lUserLimitScore
        BY DEF LimitsHold
      <4> QED BY <1>2, <3>1, <3>2, <4>1, <4>2
    <3> QED BY <3>3, <3>4
  <2> QED BY <2>1, <2>2 DEF LimitsHold
<1>9. OneChairEach'
  BY <1>4 DEF OneChairEach, Occupied
<1>10. OwedIsDue'
  <2>1. ASSUME NEW d \in Chair, HasBet(d) PROVE HasBet(d)'
    <3>1. PICK x \in Area : lPlayBet[d][x] # 0
      BY <2>1 DEF HasBet
    <3>2. lPlayBet[d][x] \in Nat
      BY DEF TypeOK
    <3>3. lPlayBet'[d][x] # 0
      BY <1>3, <1>6, <3>1, <3>2
    <3> QED BY <3>3 DEF HasBet
  <2>2. Occupied' = Occupied /\ Occupied \subseteq Chair
    BY <1>4 DEF Occupied
  <2> QED BY <1>4, <2>1, <2>2 DEF OwedIsDue
<1> QED BY <1>5, <1>7, <1>8, <1>9, <1>10

\* A withdrawal takes from each area's total what the chair had on it, and the
\* total is not less: it is the sum of numbers that are not negative.
LEMMA WithdrawingKeeps ==
  ASSUME RoundInv, NEW c \in Chair, OnUserWithdraw(c)
  PROVE  RoundInv'
<1> USE DEF RoundInv
<1>1. /\ user[c] \in Users
      /\ lAllBet' = [x \in Area |-> lAllBet[x] - lPlayBet[c][x]]
      /\ lPlayBet' = [lPlayBet EXCEPT ![c] = [x \in Area |-> 0]]
      /\ owed' = [owed EXCEPT ![user[c]] = 0]
      /\ UNCHANGED <<user, playing, score, lUserWinScore, lUserRevenue, lBankerWin, timers, rounds>>
  BY DEF OnUserWithdraw, table, result, TypeOK
<1>2. /\ \A x \in Area : lAllBet'[x] = lAllBet[x] - lPlayBet[c][x]
      /\ \A d \in Chair, x \in Area : lPlayBet'[d][x] = IF d = c THEN 0 ELSE lPlayBet[d][x]
      /\ lPlayBet' \in [Chair -> [Area -> Nat]]
  BY <1>1 DEF TypeOK
<1>3. ASSUME NEW x \in Area
      PROVE  /\ lAllBet'[x] \in Nat /\ lAllBet'[x] <= lAllBet[x]
             /\ lAllBet'[x] = Sum([d \in Chair |-> lPlayBet'[d][x]], Chair)
  <2> PICK f, g : f = [d \in Chair |-> lPlayBet[d][x]] /\ g = [d \in Chair |-> lPlayBet'[d][x]]
    OBVIOUS
  <2>1. lAllBet[x] = Sum(f, Chair) /\ lAllBet[x] \in Nat
    BY DEF BetsAddUp, TypeOK
  <2>2. \A d \in Chair : f[d] \in Nat /\ g[d] \in Nat /\ (d # c => g[d] = f[d])
    BY <1>2 DEF TypeOK
  <2>3. Sum(g, Chair) = Sum(f, Chair) - f[c] + g[c]
    BY <2>2, ChairsAndAreas, SumChanged
  <2>4. f[c] <= Sum(f, Chair)
    BY <2>2, ChairsAndAreas, SumOfNats
  <2>5. g[c] = 0 /\ f[c] \in Nat /\ lAllBet'[x] = lAllBet[x] - f[c]
    BY <1>2, <2>2
  <2>6. lAllBet'[x] = Sum(g, Chair)
    BY <2>1, <2>3, <2>5
  <2>7. lAllBet'[x] \in Nat /\ lAllBet'[x] <= lAllBet[x]
    BY <2>1, <2>4, <2>5
  <2> QED BY <2>6, <2>7
<1>4. TypeOK'
  <2>1. lAllBet' \in [Area -> Nat]
    BY <1>1, <1>3
  <2>2. Occupied' = Occupied /\ owed' \in [Users -> Int]
    BY <1>1 DEF Occupied, TypeOK
  <2> QED BY <1>1, <1>2, <2>1, <2>2 DEF TypeOK
<1>5. BetsAddUp'
  BY <1>3 DEF BetsAddUp
<1>6. LimitsHold'
  <2>1. ASSUME NEW x \in Area PROVE lAllBet'[x] <= lAreaLimitScore
    <3>1. lAllBet[x] <= lAreaLimitScore /\ lAllBet[x] \in Nat /\ lAreaLimitScore \in Nat
      BY RoundAssumption DEF LimitsHold, TypeOK
    <3>2. lAllBet'[x] \in Nat /\ lAllBet'[x] <= lAllBet[x]
      BY <1>3
    <3> QED BY <3>1, <3>2
  <2>2. ASSUME NEW d \in Chair PROVE Sum(lPlayBet'[d], Area) <= lUserLimitScore
    <3>1. CASE d = c
      <4>1. \A x \in Area : lPlayBet'[c][x] = 0
        BY <1>2
      <4>2. Sum(lPlayBet'[c], Area) = 0
        BY <4>1, ChairsAndAreas, SumOfZeros
      <4> QED BY <3>1, <4>2, RoundAssumption
    <3>2. CASE d # c
      <4>1. lPlayBet'[d] = lPlayBet[d]
        BY <1>1, <3>2 DEF TypeOK
      <4> QED BY <4>1 DEF LimitsHold
    <3> QED BY <3>1, <3>2
  <2> QED BY <2>1, <2>2 DEF LimitsHold
<1>7. OneChairEach'
  BY <1>1 DEF OneChairEach, Occupied
<1>8. OwedIsDue'
  <2> SUFFICES ASSUME NEW v \in Users, owed'[v] # 0
               PROVE  \E d \in Occupied' : user'[d] = v /\ HasBet(d)' /\ lUserWinScore'[d] = owed'[v]
    BY DEF OwedIsDue
  <2>1. v # user[c] /\ owed'[v] = owed[v]
    BY <1>1 DEF TypeOK
  <2>2. PICK d \in Occupied : user[d] = v /\ HasBet(d) /\ lUserWinScore[d] = owed[v]
    BY <2>1 DEF OwedIsDue
  <2>3. d # c /\ d \in Chair /\ Occupied' = Occupied
    BY <1>1, <2>1, <2>2 DEF Occupied
  <2>4. HasBet(d)'
    BY <1>2, <2>2, <2>3 DEF HasBet
  <2> QED BY <1>1, <2>1, <2>2, <2>3, <2>4
<1> QED BY <1>4, <1>5, <1>6, <1>7, <1>8

LEMMA TypesOfHands ==
  ASSUME NEW hand
  PROVE  GetCardType(hand) \in 1 .. 7
BY DEF GetCardType, CT_SINGLE, CT_DOUBLE, CT_DOUBLE_SHINE, CT_SHUN_ZI, CT_JIN_HUA, CT_SHUN_JIN, CT_BAO_ZI

LEMMA WhatIsDecided ==
  ASSUME NEW deal \in Deals
  PROVE  /\ Outcome[deal].side \in {AREA_XIAN, AREA_ZHUANG}
         /\ Outcome[deal].side = WinSide(deal[1], deal[2])
         /\ PingOdds(Outcome[deal].type) \in Nat
<1> PICK i, j : i = GetCardType(deal[1]) /\ j = GetCardType(deal[2])
  OBVIOUS
<1>1. i \in 1 .. 7 /\ j \in 1 .. 7
  BY TypesOfHands
<1>2. Max({i, j}) \in 1 .. 7
  BY <1>1, MaxOfTwo
<1>3. Outcome[deal].type = Max({i, j}) /\ Outcome[deal].side = WinSide(deal[1], deal[2])
  BY DEF Outcome
<1>4. \A t \in 1 .. 7 : PingOdds(t) \in Nat
  BY DEF PingOdds
<1>5. WinSide(deal[1], deal[2]) \in {AREA_XIAN, AREA_ZHUANG}
  BY DEF WinSide
<1> QED BY <1>2, <1>3, <1>4, <1>5

\* What the areas of a chair bring is a number, and nothing where there is no bet.
LEMMA AreaBrings ==
  ASSUME TypeOK, NEW deal \in Deals, NEW c \in Chair, NEW a \in Area
  PROVE  /\ AreaScore(c, a, Outcome[deal]) \in Int
         /\ lPlayBet[c][a] = 0 => AreaScore(c, a, Outcome[deal]) = 0
<1> PICK x, k, o : x = lPlayBet[c][a] /\ o = Outcome[deal] /\ k = PingOdds(o.type)
  OBVIOUS
<1>1. x \in Nat /\ k \in Nat
  BY WhatIsDecided DEF TypeOK
<1>2. AreaScore(c, a, o) \in {x, x * k, -x}
  BY DEF AreaScore
<1>3. x * k \in Int /\ -x \in Int /\ (x = 0 => x * k = 0 /\ -x = 0)
  BY <1>1
<1> QED BY <1>1, <1>2, <1>3

\* What a chair wins before the revenue
Gross(c, deal) ==
  IF user[c] = NoUser THEN 0 ELSE Sum([a \in Area |-> AreaScore(c, a, Outcome[deal])], Area)

LEMMA GrossOfBets ==
  ASSUME TypeOK, NEW deal \in Deals, NEW c \in Chair
  PROVE  Gross(c, deal) \in Int /\ (~HasBet(c) => Gross(c, deal) = 0)
<1> PICK f : f = [a \in Area |-> AreaScore(c, a, Outcome[deal])]
  OBVIOUS
<1>1. \A a \in Area : f[a] \in Int /\ (lPlayBet[c][a] = 0 => f[a] = 0)
  BY AreaBrings
<1>2. Sum(f, Area) \in Int
  BY <1>1, ChairsAndAreas, SumIsInt
<1>3. ASSUME ~HasBet(c) PROVE Sum(f, Area) = 0
  BY <1>1, <1>3, ChairsAndAreas, SumOfZeros DEF HasBet
<1> QED BY <1>2, <1>3 DEF Gross

\* A settlement splits what a chair wins into the revenue and the chair's part.
LEMMA Settlement ==
  ASSUME TypeOK, NEW deal \in Deals, OnTimerPlaceJetton(deal)
  PROVE  /\ lUserRevenue' \in [Chair -> Nat] /\ lUserWinScore' \in [Chair -> Int]
         /\ lBankerWin' = - Sum([c \in Chair |-> Gross(c, deal)], Chair) /\ lBankerWin' \in Int
         /\ \A c \in Chair :
              /\ lUserWinScore'[c] + lUserRevenue'[c] = Gross(c, deal)
              /\ ~HasBet(c) => lUserWinScore'[c] = 0
<1> PICK gross : gross = [c \in Chair |-> Gross(c, deal)]
  OBVIOUS
<1>1. /\ lUserRevenue' = [c \in Chair |-> IF gross[c] > 0 THEN (gross[c] * wRevenueRatio) \div 1000 ELSE 0]
      /\ lUserWinScore' = [c \in Chair |-> gross[c] - lUserRevenue'[c]]
      /\ lBankerWin' = - Sum(gross, Chair)
  BY DEF OnTimerPlaceJetton, CalculateScore, Gross
<1>2. \A c \in Chair : gross[c] \in Int /\ (~HasBet(c) => gross[c] = 0)
  BY GrossOfBets
<1>3. ASSUME NEW c \in Chair PROVE lUserRevenue'[c] \in Nat /\ (gross[c] = 0 => lUserRevenue'[c] = 0)
  <2> PICK g \in Int, w \in Nat : g = gross[c] /\ w = wRevenueRatio
    BY <1>2, RoundAssumption
  <2>1. lUserRevenue'[c] = IF g > 0 THEN (g * w) \div 1000 ELSE 0
    BY <1>1
  <2>2. g > 0 => g * w \in Nat
    OBVIOUS
  <2>3. \A n \in Nat : n \div 1000 \in Nat
    OBVIOUS
  <2> QED BY <2>1, <2>2, <2>3
<1>4. \A c \in Chair : lUserWinScore'[c] = gross[c] - lUserRevenue'[c]
  BY <1>1
<1>5. lUserRevenue' \in [Chair -> Nat] /\ lUserWinScore' \in [Chair -> Int]
  <2>1. \A c \in Chair : gross[c] - lUserRevenue'[c] \in Int
    BY <1>2, <1>3
  <2> QED BY <1>1, <1>3, <2>1
<1>6. Sum(gross, Chair) \in Int
  BY <1>2, ChairsAndAreas, SumIsInt
<1>7. ASSUME NEW c \in Chair
      PROVE  /\ lUserWinScore'[c] + lUserRevenue'[c] = gross[c]
             /\ ~HasBet(c) => lUserWinScore'[c] = 0
  BY <1>2, <1>3, <1>4
<1>8. - Sum(gross, Chair) \in Int
  BY <1>6
<1> QED BY <1>1, <1>5, <1>7, <1>8

\* Whoever plays is owed what the settlement gives the one chair the user sits on.
LEMMA SettlingKeeps ==
  ASSUME RoundInv, NEW deal \in Deals, OnTimerPlaceJetton(deal)
  PROVE  RoundInv'
<1> USE DEF RoundInv
<1>1. /\ UNCHANGED <<user, playing, score, lPlayBet, lAllBet, rounds>>
      /\ timers' \subseteq {"IDI_PLACE_JETTON", "IDI_GAME_END"}
      /\ owed' = [u \in Users |-> IF \E c \in playing : user[c] = u
                                   THEN lUserWinScore'[CHOOSE c \in Chair : user[c] = u] ELSE 0]
  BY DEF OnTimerPlaceJetton, table, bets, TypeOK
<1>2. Occupied' = Occupied /\ playing \subseteq Occupied /\ Occupied \subseteq Chair
  BY <1>1 DEF Occupied, TypeOK
<1>3. lUserWinScore' \in [Chair -> Int]
  BY Settlement
<1>4. \A u \in Users : owed'[u] # 0 =>
        \E c \in Occupied : user[c] = u /\ owed'[u] = lUserWinScore'[c]
  <2> TAKE u \in Users
  <2> HAVE owed'[u] # 0
  <2> PICK d : d = CHOOSE c \in Chair : user[c] = u
    OBVIOUS
  <2>1. (\E c \in playing : user[c] = u) /\ owed'[u] = lUserWinScore'[d]
    BY <1>1
  <2>2. d \in Chair /\ user[d] = u
    BY <1>2, <2>1
  <2>3. d \in Occupied
    BY <2>2, RoundAssumption DEF Occupied
  <2> QED BY <2>1, <2>2, <2>3
<1>5. TypeOK'
  <2>1. \A u \in Users : owed'[u] \in Int
    <3> TAKE u \in Users
    <3>1. CASE owed'[u] = 0
      BY <3>1
    <3>2. CASE owed'[u] # 0
      BY <1>2, <1>3, <1>4, <3>2
    <3> QED BY <3>1, <3>2
  <2>2. owed' \in [Users -> Int]
    BY <1>1, <2>1
  <2>3. lUserRevenue' \in [Chair -> Nat] /\ lBankerWin' \in Int
    BY Settlement
  <2> QED BY <1>1, <1>2, <1>3, <2>2, <2>3 DEF TypeOK
<1>6. OneChairEach' /\ BetsAddUp' /\ LimitsHold'
  BY <1>1, <1>2 DEF OneChairEach, BetsAddUp, LimitsHold
<1>7. OwedIsDue'
  <2> SUFFICES ASSUME NEW u \in Users, owed'[u] # 0
               PROVE  \E c \in Occupied' : user'[c] = u /\ HasBet(c)' /\ lUserWinScore'[c] = owed'[u]
    BY DEF OwedIsDue
  <2>1. PICK c \in Occupied : user[c] = u /\ owed'[u] = lUserWinScore'[c]
    BY <1>4
  <2>2. HasBet(c)
    <3>1. ~HasBet(c) => lUserWinScore'[c] = 0
      BY <1>2, Settlement
    <3> QED BY <2>1, <3>1
  <2>3. HasBet(c)'
    BY <1>1, <2>2 DEF HasBet
  <2> QED BY <1>1, <1>2, <2>1, <2>3
<1> QED BY <1>5, <1>6, <1>7

\* What the end of a round does to a score: nothing, or what is written for the one
\* chair the user sits on.
LEMMA ScoreAtTheEnd ==
  ASSUME RoundInv, OnTimerGameEnd, NEW u \in Users
  PROVE  /\ score'[u] \in Nat
         /\ \A c \in Occupied : user[c] = u /\ HasBet(c) => score'[u] = Max({0, score[u] + lUserWinScore[c]})
<1> USE DEF RoundInv
<1> PICK at : at = {c \in Occupied : user[c] = u /\ HasBet(c)}
  OBVIOUS
<1>1. score'[u] = score[u] + Sum([c \in at |-> Written(c)], at) /\ score[u] \in Nat
  BY DEF OnTimerGameEnd, TypeOK
<1>2. CASE at = {}
  <2>1. Sum([c \in at |-> Written(c)], at) = 0
    BY <1>2, SumOfNone
  <2> QED BY <1>1, <1>2, <2>1
<1>3. CASE at # {}
  <2>1. PICK c \in at : TRUE
    BY <1>3
  <2>2. at = {c} /\ c \in Chair /\ user[c] = u
    BY <2>1 DEF OneChairEach, Occupied
  <2> PICK w \in Int, s \in Nat, m \in Int : w = lUserWinScore[c] /\ s = score[u] /\ m = -s
    BY <1>1, <2>2 DEF TypeOK
  <2>3. Written(c) = Max({w, m})
    BY <2>2 DEF Written, ScoreOf
  <2>4. Max({w, m}) = IF w >= m THEN w ELSE m
    BY MaxOfTwo
  <2>5. Sum([d \in at |-> Written(d)], at) = Written(c)
    <3> PICK f : f = [d \in at |-> Written(d)]
      OBVIOUS
    <3>1. f[c] = Written(c) /\ f[c] \in Int
      BY <2>1, <2>3, <2>4
    <3>2. IsFiniteSet(at) /\ at \ {c} = {}
      BY <2>2, FS_Singleton
    <3>3. Sum(f, at) = f[c] + Sum(f, at \ {c})
      BY <2>2, <3>1, <3>2, SumTaking
    <3>4. Sum(f, at \ {c}) = 0
      BY <3>2, SumOfNone
    <3> QED BY <3>1, <3>3, <3>4
  <2>6. score'[u] = IF w >= m THEN s + w ELSE s + m
    BY <1>1, <2>3, <2>4, <2>5
  <2> PICK i \in Int, z \in Int : i = s + w /\ z = 0
    OBVIOUS
  <2>7. Max({z, i}) = IF z >= i THEN z ELSE i
    BY MaxOfTwo
  <2>8. score'[u] \in Nat /\ score'[u] = Max({z, i})
    BY <2>6, <2>7
  <2>9. \A d \in Occupied : user[d] = u /\ HasBet(d) => d = c
    BY <2>2
  <2> QED BY <2>8, <2>9
<1> QED BY <1>2, <1>3

LEMMA EndingKeeps ==
  ASSUME RoundInv, OnTimerGameEnd
  PROVE  RoundInv'
<1> USE DEF RoundInv
<1>1. /\ lPlayBet' = NoBets /\ lAllBet' = [a \in Area |-> 0]
      /\ lUserWinScore' = [c \in Chair |-> 0] /\ lUserRevenue' = [c \in Chair |-> 0]
      /\ playing' = Occupied /\ owed' = [u \in Users |-> 0] /\ rounds' = rounds + 1 /\ rounds < MaxRounds
      /\ timers' \subseteq {"IDI_PLACE_JETTON", "IDI_GAME_END"} /\ UNCHANGED <<user, lBankerWin>>
      /\ Occupied' = Occupied
  BY DEF OnTimerGameEnd, TypeOK, Occupied
<1>2. TypeOK'
  <2>1. score' \in [Users -> Nat]
    <3>1. \A u \in Users : score'[u] \in Nat
      BY ScoreAtTheEnd
    <3> QED BY <3>1 DEF OnTimerGameEnd
  <2>2. rounds' \in 0 .. MaxRounds
    BY <1>1, RoundAssumption DEF TypeOK
  <2>3. lPlayBet' \in [Chair -> [Area -> Nat]] /\ lAllBet' \in [Area -> Nat]
    BY <1>1 DEF NoBets
  <2>4. lUserWinScore' \in [Chair -> Int] /\ lUserRevenue' \in [Chair -> Nat] /\ owed' \in [Users -> Int]
    BY <1>1
  <2> QED BY <1>1, <2>1, <2>2, <2>3, <2>4 DEF TypeOK
<1>3. BetsAddUp'
  <2> SUFFICES ASSUME NEW a \in Area PROVE lAllBet'[a] = Sum([c \in Chair |-> lPlayBet'[c][a]], Chair)
    BY DEF BetsAddUp
  <2>1. \A c \in Chair : [d \in Chair |-> lPlayBet'[d][a]][c] = 0
    BY <1>1 DEF NoBets
  <2> QED BY <1>1, <2>1, ChairsAndAreas, SumOfZeros
<1>4. LimitsHold'
  <2>1. \A a \in Area : lAllBet'[a] <= lAreaLimitScore
    BY <1>1, RoundAssumption
  <2>2. \A c \in Chair : Sum(lPlayBet'[c], Area) <= lUserLimitScore
    <3> TAKE c \in Chair
    <3>1. \A a \in Area : lPlayBet'[c][a] = 0
      BY <1>1 DEF NoBets
    <3>2. Sum(lPlayBet'[c], Area) = 0
      BY <3>1, ChairsAndAreas, SumOfZeros
    <3> QED BY <3>2, RoundAssumption
  <2> QED BY <2>1, <2>2 DEF LimitsHold
<1>5. OneChairEach'
  BY <1>1 DEF OneChairEach
<1>6. OwedIsDue'
  BY <1>1 DEF OwedIsDue
<1> QED BY <1>2, <1>3, <1>4, <1>5, <1>6

LEMMA NextRound == RoundInv /\ [Next]_vars => RoundInv'
<1> SUFFICES ASSUME RoundInv, [Next]_vars PROVE RoundInv'
  OBVIOUS
<1>1. CASE UNCHANGED vars
  <2>1. UNCHANGED <<user, playing, score, lPlayBet, lAllBet, lUserWinScore, lUserRevenue, lBankerWin,
                    timers, rounds, owed>>
    BY <1>1 DEF vars, table, bets, result
  <2>2. Occupied' = Occupied
    BY <2>1 DEF Occupied
  <2> QED BY <2>1, <2>2 DEF RoundInv, TypeOK, OneChairEach, BetsAddUp, LimitsHold, OwedIsDue, HasBet
<1>2. CASE Next
  BY <1>2, SittingKeeps, StandingUpKeeps, BettingKeeps, WithdrawingKeeps, SettlingKeeps, EndingKeeps
     DEF Next
<1> QED BY <1>1, <1>2

\* The fields of the sink keep their types, and no score is ever negative: what a
\* loss takes is cut at the score of the one user on the chair.
THEOREM NoScoreIsNegative == Spec => []TypeOK
<1>1. RoundInv => TypeOK
  BY DEF RoundInv
<1> QED BY <1>1, InitRound, NextRound, PTL DEF Spec

\* The total of an area is the sum of the chairs' bets on it.
THEOREM TotalsAreSums == Spec => []BetsAddUp
<1>1. RoundInv => BetsAddUp
  BY DEF RoundInv
<1> QED BY <1>1, InitRound, NextRound, PTL DEF Spec

\* Neither limit is ever exceeded, which is what GetMaxPlayerScore asserts.
THEOREM NoLimitIsExceeded == Spec => []LimitsHold
<1>1. RoundInv => LimitsHold
  BY DEF RoundInv
<1> QED BY <1>1, InitRound, NextRound, PTL DEF Spec

\* Who is owed something when the round ends is paid or charged that, down to zero.
THEOREM WhatIsOwedIsPaid == Spec => BettorIsPaid
<1>1. ASSUME RoundInv, [Next]_vars
      PROVE  [OnTimerGameEnd =>
                \A u \in Users : owed[u] # 0 => score'[u] = Max({0, score[u] + owed[u]})]_vars
  <2> SUFFICES ASSUME OnTimerGameEnd, NEW u \in Users, owed[u] # 0
               PROVE  score'[u] = Max({0, score[u] + owed[u]})
    OBVIOUS
  <2>1. PICK c \in Occupied : user[c] = u /\ HasBet(c) /\ lUserWinScore[c] = owed[u]
    BY <1>1 DEF RoundInv, OwedIsDue
  <2> QED BY <1>1, <2>1, ScoreAtTheEnd
<1> QED BY <1>1, InitRound, NextRound, PTL DEF Spec, BettorIsPaid

-----------------------------------------------------------------------------
(* What a deal pays                                                        *)

LEMMA HandsAreHands ==
  /\ kSubset(MAX_COUNT, Deck) \subseteq Hands
  /\ \A d \in Deals : d[1] \in Hands /\ d[2] \in Hands
<1>1. Deck \subseteq m_cbCardListData
  BY RoundAssumption
<1>2. \A d \in Deals : \A h \in {d[1], d[2]} : h \subseteq m_cbCardListData /\ Cardinality(h) = MAX_COUNT
  BY RoundAssumption
<1> QED BY <1>1, <1>2 DEF kSubset, Hands

\* CompareCard orders the hands of the deck by the rules, whichever comes first.
THEOREM ComparedByTheRules == Spec => []ComparisonFollowsTheRules
<1>1. HandsAgree
  BY HandsAreHands, CompareCardFollowsTheRules DEF HandsAgree
<1>2. ComparisonFollowsTheRules
  BY <1>1 DEF ComparisonFollowsTheRules
<1> QED BY <1>2, PTL

\* The side whose hand is stronger wins, the player's when neither is.
LEMMA SideOfTheStronger ==
  ASSUME NEW d \in Deals
  PROVE  Outcome[d].side = IF BankerIsStronger[d] THEN AREA_ZHUANG ELSE AREA_XIAN
<1> PICK a, b : a = d[1] /\ b = d[2]
  OBVIOUS
<1>1. Says(CompareCard(a, b), IsStronger(a, b), IsStronger(b, a)) /\ ~(IsStronger(a, b) /\ IsStronger(b, a))
  BY HandsAreHands, TheStrongerWins
<1>2. CompareCard(a, b) = 0 <=> IsStronger(b, a)
  BY <1>1 DEF Says, DRAW
<1>3. Outcome[d].side = IF CompareCard(a, b) # 0 THEN AREA_XIAN ELSE AREA_ZHUANG
  BY WhatIsDecided DEF WinSide
<1>4. BankerIsStronger[d] = IsStronger(b, a)
  BY DEF BankerIsStronger
<1>5. CASE IsStronger(b, a)
  <2>1. Outcome[d].side = AREA_ZHUANG /\ BankerIsStronger[d]
    BY <1>2, <1>3, <1>4, <1>5
  <2> QED BY <2>1
<1>6. CASE ~IsStronger(b, a)
  <2>1. Outcome[d].side = AREA_XIAN /\ ~BankerIsStronger[d]
    BY <1>2, <1>3, <1>4, <1>6
  <2> QED BY <2>1
<1> QED BY <1>5, <1>6

LEMMA GrossOfSides ==
  ASSUME TypeOK, NEW d \in Deals, NEW c \in Occupied, lPlayBet[c][AREA_PING] = 0
  PROVE  Gross(c, d) = IF BankerIsStronger[d] THEN lPlayBet[c][AREA_ZHUANG] - lPlayBet[c][AREA_XIAN]
                       ELSE lPlayBet[c][AREA_XIAN] - lPlayBet[c][AREA_ZHUANG]
<1> PICK f, o, x, y :
      /\ o = Outcome[d] /\ f = [a \in Area |-> AreaScore(c, a, o)]
      /\ x = lPlayBet[c][AREA_XIAN] /\ y = lPlayBet[c][AREA_ZHUANG]
  OBVIOUS
<1>1. c \in Chair /\ user[c] # NoUser
  BY DEF Occupied
<1>2. Gross(c, d) = Sum(f, Area)
  BY <1>1 DEF Gross
<1>3. \A a \in Area : f[a] \in Int
  BY <1>1, AreaBrings
<1>4. Sum(f, Area) = f[0] + f[1] + f[2]
  BY <1>3, SumOfArea
<1>5. f[0] = AreaScore(c, AREA_XIAN, o) /\ f[1] = AreaScore(c, AREA_ZHUANG, o) /\ f[2] = AreaScore(c, AREA_PING, o)
  BY ChairsAndAreas DEF AREA_XIAN, AREA_ZHUANG, AREA_PING
<1>6. f[2] = 0
  BY <1>1, <1>5, ChairsAndAreas, AreaBrings
<1>7. x \in Nat /\ y \in Nat
  BY <1>1, ChairsAndAreas DEF TypeOK
<1>8. AREA_XIAN # AREA_ZHUANG /\ AREA_XIAN # AREA_PING /\ AREA_ZHUANG # AREA_PING
  BY DEF AREA_XIAN, AREA_ZHUANG, AREA_PING
<1>9. AreaScore(c, AREA_XIAN, o) = IF o.side = AREA_XIAN THEN x ELSE -x
  BY <1>8, Zenon DEF AreaScore
<1>10. AreaScore(c, AREA_ZHUANG, o) = IF o.side = AREA_ZHUANG THEN y ELSE -y
  BY <1>8, Zenon DEF AreaScore
<1>11. CASE BankerIsStronger[d]
  <2>1. o.side = AREA_ZHUANG
    BY <1>11, SideOfTheStronger
  <2>2. f[0] = -x /\ f[1] = y
    BY <1>5, <1>8, <1>9, <1>10, <2>1
  <2> QED BY <1>2, <1>4, <1>6, <1>7, <1>11, <2>2
<1>12. CASE ~BankerIsStronger[d]
  <2>1. o.side = AREA_XIAN
    BY <1>12, SideOfTheStronger
  <2>2. f[0] = x /\ f[1] = -y
    BY <1>5, <1>8, <1>9, <1>10, <2>1
  <2> QED BY <1>2, <1>4, <1>6, <1>7, <1>12, <2>2
<1> QED BY <1>11, <1>12

\* Bets are whole numbers of the least one.
Whole == \A c \in Chair, a \in Area : \E k \in Nat : lPlayBet[c][a] = 1000 * k

LEMMA InitWhole == Init => Whole
<1> SUFFICES ASSUME Init, NEW c \in Chair, NEW a \in Area
             PROVE  \E k \in Nat : lPlayBet[c][a] = 1000 * k
  BY DEF Whole
<1>1. lPlayBet[c][a] = 1000 * 0
  BY DEF Init, NoBets
<1> QED BY <1>1

LEMMA NextWhole == TypeOK /\ Whole /\ [Next]_vars => Whole'
<1> SUFFICES ASSUME TypeOK, Whole, [Next]_vars PROVE Whole'
  OBVIOUS
<1>0. lPlayBet \in [Chair -> [Area -> Nat]]
  BY DEF TypeOK
<1>1. CASE lPlayBet' = lPlayBet
  BY <1>1 DEF Whole
<1>2. ASSUME NEW c \in Chair, NEW a \in 0 .. AREA_MAX, NEW b \in Bets, OnUserPlayBet(c, a, b)
      PROVE  Whole'
  <2>1. b \in Nat /\ b % 1000 = 0
    BY RoundAssumption
  <2> PICK m \in Nat : m = b \div 1000
    BY <2>1
  <2>2. b = 1000 * m
    BY <2>1
  <2>3. lPlayBet' = [lPlayBet EXCEPT ![c][a] = @ + b]
    BY <1>2 DEF OnUserPlayBet
  <2> SUFFICES ASSUME NEW d \in Chair, NEW e \in Area
               PROVE  \E k \in Nat : lPlayBet'[d][e] = 1000 * k
    BY DEF Whole
  <2> PICK k \in Nat : lPlayBet[d][e] = 1000 * k
    BY DEF Whole
  <2>4. lPlayBet'[d][e] = IF d = c /\ e = a THEN lPlayBet[d][e] + b ELSE lPlayBet[d][e]
    BY <1>0, <2>3
  <2>5. lPlayBet'[d][e] \in {1000 * k, 1000 * (k + m)}
    BY <2>2, <2>4
  <2>6. k + m \in Nat
    OBVIOUS
  <2> QED BY <2>5, <2>6
<1>3. ASSUME NEW c \in Chair, OnUserWithdraw(c) PROVE Whole'
  <2> SUFFICES ASSUME NEW d \in Chair, NEW e \in Area
               PROVE  \E k \in Nat : lPlayBet'[d][e] = 1000 * k
    BY DEF Whole
  <2>1. lPlayBet'[d][e] \in {lPlayBet[d][e], 1000 * 0}
    BY <1>0, <1>3 DEF OnUserWithdraw
  <2> QED BY <2>1 DEF Whole
<1>4. CASE OnTimerGameEnd
  <2> SUFFICES ASSUME NEW d \in Chair, NEW e \in Area
               PROVE  \E k \in Nat : lPlayBet'[d][e] = 1000 * k
    BY DEF Whole
  <2>1. lPlayBet'[d][e] = 1000 * 0
    BY <1>4 DEF OnTimerGameEnd, NoBets
  <2> QED BY <2>1
<1>5. ASSUME NEW c \in Chair,
             (\E u \in Users : OnActionUserSitDown(u, c)) \/ OnActionUserStandUp(c)
      PROVE  Whole'
  BY <1>1, <1>5 DEF OnActionUserSitDown, OnActionUserStandUp, bets
<1>6. ASSUME NEW d \in Deals, OnTimerPlaceJetton(d) PROVE Whole'
  BY <1>1, <1>6 DEF OnTimerPlaceJetton, bets
<1>7. CASE UNCHANGED vars
  BY <1>1, <1>7 DEF vars, bets
<1> QED BY <1>2, <1>3, <1>4, <1>5, <1>6, <1>7 DEF Next

\* Of a whole win the revenue is exactly its share.
LEMMA RevenueIsExact ==
  ASSUME TypeOK, NEW d \in Deals, OnTimerPlaceJetton(d), NEW c \in Chair,
         NEW k \in Int, Gross(c, d) = 1000 * k
  PROVE  1000 * lUserRevenue'[c] = IF Gross(c, d) > 0 THEN Gross(c, d) * wRevenueRatio ELSE 0
<1> PICK g \in Int : g = Gross(c, d)
  OBVIOUS
<1> PICK w \in Nat : w = wRevenueRatio
  BY RoundAssumption
<1> PICK r : r = lUserRevenue'[c]
  OBVIOUS
<1>1. r = IF g > 0 THEN (g * w) \div 1000 ELSE 0
  BY DEF OnTimerPlaceJetton, CalculateScore, Gross
<1> PICK p \in Int : p = k * w
  OBVIOUS
<1>2. g * w = 1000 * p
  OBVIOUS
<1>3. (1000 * p) \div 1000 = p
  OBVIOUS
<1> QED BY <1>1, <1>2, <1>3

\* The stronger hand's side pays and equal hands pay the player's; of what a chair
\* wins the revenue takes exactly its share, and the banker loses exactly what the
\* chairs win.
THEOREM StrongerHandIsPaid == Spec => StrongerHandPays
<1> DEFINE Due(d, c) == IF BankerIsStronger[d] THEN lPlayBet[c][AREA_ZHUANG] - lPlayBet[c][AREA_XIAN]
                        ELSE lPlayBet[c][AREA_XIAN] - lPlayBet[c][AREA_ZHUANG]
           Pays(d) ==
      /\ \A c \in Occupied :
           LET player == lPlayBet[c][AREA_XIAN]
               banker == lPlayBet[c][AREA_ZHUANG]
               due == IF BankerIsStronger[d] THEN banker - player ELSE player - banker
           IN  lPlayBet[c][AREA_PING] = 0 =>
                 /\ lUserWinScore'[c] + lUserRevenue'[c] = due
                 /\ 1000 * lUserRevenue'[c] = IF due > 0 THEN due * wRevenueRatio ELSE 0
      /\ lBankerWin' + Sum([c \in Chair |-> lUserWinScore'[c] + lUserRevenue'[c]], Chair) = 0
<1>1. ASSUME TypeOK, Whole, NEW d \in Deals, OnTimerPlaceJetton(d) PROVE Pays(d)
  <2>1. ASSUME NEW c \in Occupied, lPlayBet[c][AREA_PING] = 0
        PROVE  /\ lUserWinScore'[c] + lUserRevenue'[c] = Due(d, c)
               /\ 1000 * lUserRevenue'[c] = IF Due(d, c) > 0 THEN Due(d, c) * wRevenueRatio ELSE 0
    <3>1. c \in Chair
      BY DEF Occupied
    <3>2. lUserWinScore'[c] + lUserRevenue'[c] = Gross(c, d)
      BY <1>1, <3>1, Settlement
    <3>3. Gross(c, d) = Due(d, c)
      BY <1>1, <2>1, GrossOfSides
    <3>4. PICK i \in Nat, j \in Nat :
            lPlayBet[c][AREA_XIAN] = 1000 * i /\ lPlayBet[c][AREA_ZHUANG] = 1000 * j
      <4>1. AREA_XIAN \in Area /\ AREA_ZHUANG \in Area
        BY DEF AREA_XIAN, AREA_ZHUANG, AREA_MAX, Area
      <4> QED BY <1>1, <3>1, <4>1 DEF Whole
    <3>5. \E k \in Int : Due(d, c) = 1000 * k
      <4>1. CASE BankerIsStronger[d]
        <5>1. Due(d, c) = lPlayBet[c][AREA_ZHUANG] - lPlayBet[c][AREA_XIAN]
          BY <4>1, Zenon
        <5> HIDE DEF Due
        <5>2. Due(d, c) = 1000 * (j - i) /\ j - i \in Int
          BY <3>4, <5>1
        <5> QED BY <5>2
      <4>2. CASE ~BankerIsStronger[d]
        <5>1. Due(d, c) = lPlayBet[c][AREA_XIAN] - lPlayBet[c][AREA_ZHUANG]
          BY <4>2, Zenon
        <5> HIDE DEF Due
        <5>2. Due(d, c) = 1000 * (i - j) /\ i - j \in Int
          BY <3>4, <5>1
        <5> QED BY <5>2
      <4> QED BY <4>1, <4>2
    <3> HIDE DEF Due
    <3>6. 1000 * lUserRevenue'[c] = IF Gross(c, d) > 0 THEN Gross(c, d) * wRevenueRatio ELSE 0
      BY <1>1, <3>1, <3>3, <3>5, RevenueIsExact
    <3> QED BY <3>2, <3>3, <3>6
  <2>2. lBankerWin' + Sum([c \in Chair |-> lUserWinScore'[c] + lUserRevenue'[c]], Chair) = 0
    <3> PICK f, g : f = [c \in Chair |-> Gross(c, d)] /\ g = [c \in Chair |-> lUserWinScore'[c] + lUserRevenue'[c]]
      OBVIOUS
    <3>1. \A c \in Chair : f[c] = g[c] /\ f[c] \in Int
      BY <1>1, Settlement, GrossOfBets
    <3>2. Sum(f, Chair) = Sum(g, Chair) /\ Sum(f, Chair) \in Int
      BY <3>1, ChairsAndAreas, SumOfSame, SumIsInt
    <3>3. lBankerWin' = - Sum(f, Chair)
      BY <1>1, Settlement
    <3> QED BY <3>2, <3>3
  <2> QED BY <2>1, <2>2
<1> HIDE DEF Pays
<1>2. TypeOK /\ Whole =>
        [\A d \in Deals : "IDI_GAME_END" \in timers' \ timers /\ OnTimerPlaceJetton(d) => Pays(d)]_vars
  BY <1>1
<1>3. Spec => []Whole
  BY InitWhole, NextWhole, NoScoreIsNegative, PTL DEF Spec
<1> QED BY <1>2, <1>3, NoScoreIsNegative, PTL DEF StrongerHandPays, Pays

-----------------------------------------------------------------------------
(* The phases of a round                                                   *)

\* No timer before the first user sits down, then one of the two
Phases ==
  /\ rounds \in Nat
  /\ rounds = 0 => timers = {}
  /\ rounds > 0 => timers \in {{"IDI_PLACE_JETTON"}, {"IDI_GAME_END"}}

LEMMA InitPhases == Init => Phases
BY DEF Init, Phases

LEMMA NextPhases == Phases /\ [Next]_vars => Phases'
<1> SUFFICES ASSUME Phases, [Next]_vars PROVE Phases'
  OBVIOUS
<1>1. ASSUME timers' = timers, rounds' = rounds PROVE Phases'
  BY <1>1 DEF Phases
<1>2. CASE UNCHANGED vars
  BY <1>1, <1>2 DEF vars
<1>3. ASSUME NEW u \in Users, NEW c \in Chair, OnActionUserSitDown(u, c) PROVE Phases'
  <2>1. CASE rounds = 0
    BY <1>3, <2>1 DEF OnActionUserSitDown, Phases
  <2>2. CASE rounds # 0
    BY <1>1, <1>3, <2>2 DEF OnActionUserSitDown
  <2> QED BY <2>1, <2>2
<1>4. ASSUME NEW c \in Chair, OnActionUserStandUp(c) PROVE Phases'
  BY <1>1, <1>4 DEF OnActionUserStandUp
<1>5. ASSUME NEW c \in Chair, NEW a \in 0 .. AREA_MAX, NEW b \in Bets, OnUserPlayBet(c, a, b)
      PROVE  Phases'
  BY <1>1, <1>5 DEF OnUserPlayBet
<1>6. ASSUME NEW c \in Chair, OnUserWithdraw(c) PROVE Phases'
  BY <1>1, <1>6 DEF OnUserWithdraw
\* The timer that fires is the one that is armed.
<1>7. ASSUME NEW deal \in Deals, OnTimerPlaceJetton(deal) PROVE Phases'
  <2>1. rounds' = rounds /\ "IDI_PLACE_JETTON" \in timers
        /\ timers' = (timers \ {"IDI_PLACE_JETTON"}) \cup {"IDI_GAME_END"}
    BY <1>7 DEF OnTimerPlaceJetton
  <2>2. timers = {"IDI_PLACE_JETTON"} /\ rounds > 0
    BY <2>1 DEF Phases
  <2>3. timers' = {"IDI_GAME_END"}
    BY <2>1, <2>2
  <2> QED BY <2>1, <2>2, <2>3 DEF Phases
<1>8. ASSUME OnTimerGameEnd PROVE Phases'
  <2>1. rounds' = rounds + 1 /\ "IDI_GAME_END" \in timers
        /\ timers' = (timers \ {"IDI_GAME_END"}) \cup {"IDI_PLACE_JETTON"}
    BY <1>8 DEF OnTimerGameEnd
  <2>2. timers = {"IDI_GAME_END"} /\ rounds > 0
    BY <2>1 DEF Phases
  <2>3. timers' = {"IDI_PLACE_JETTON"}
    BY <2>1, <2>2
  <2> QED BY <2>1, <2>2, <2>3 DEF Phases
<1> QED BY <1>2, <1>3, <1>4, <1>5, <1>6, <1>7, <1>8 DEF Next

\* Once the table was used one game timer is armed, and only one: the next phase
\* always comes, and a timer that is set is not armed already.
THEOREM NextPhaseComes == Spec => []OneTimerPending
<1>1. Phases => OneTimerPending
  BY DEF Phases, OneTimerPending
<1> QED BY <1>1, InitPhases, NextPhases, PTL DEF Spec

\* Of numbers that lie between two sums, the sum lies between the sums' sums.
LEMMA SumBetween ==
  ASSUME NEW f, NEW l, NEW u, NEW h, NEW S, IsFiniteSet(S),
         \A x \in S : /\ f[x] \in Int /\ l[x] \in Int /\ u[x] \in Int /\ h[x] \in Int
                      /\ -(l[x] + h[x]) <= f[x] /\ f[x] <= u[x] + 10 * h[x]
  PROVE  /\ -(Sum(l, S) + Sum(h, S)) <= Sum(f, S)
         /\ Sum(f, S) <= Sum(u, S) + 10 * Sum(h, S)
<1> DEFINE Between(T) == /\ -(Sum(l, T) + Sum(h, T)) <= Sum(f, T)
                         /\ Sum(f, T) <= Sum(u, T) + 10 * Sum(h, T)
           Bad == {T \in SUBSET S : ~Between(T)}
<1>1. SUFFICES ASSUME Bad # {} PROVE FALSE
  <2> HIDE DEF Between
  <2>1. Bad = {} => Between(S)
    OBVIOUS
  <2> QED BY <2>1 DEF Between
<1>2. PICK T \in Bad : \A U \in SUBSET T : U # T => U \notin Bad
  <2> HIDE DEF Bad
  <2>1. Bad \subseteq SUBSET S
    BY DEF Bad
  <2> QED BY <1>1, <2>1, SmallestSubset
<1>3. IsFiniteSet(T) /\ T \in SUBSET S /\ ~Between(T)
  BY <1>2, FS_Subset
<1>4. /\ Sum(f, T) = IF T = {} THEN 0 ELSE f[Any(T)] + Sum(f, T \ {Any(T)})
      /\ Sum(l, T) = IF T = {} THEN 0 ELSE l[Any(T)] + Sum(l, T \ {Any(T)})
      /\ Sum(u, T) = IF T = {} THEN 0 ELSE u[Any(T)] + Sum(u, T \ {Any(T)})
      /\ Sum(h, T) = IF T = {} THEN 0 ELSE h[Any(T)] + Sum(h, T \ {Any(T)})
  BY <1>3, SumRecursive
<1>5. CASE T = {}
  BY <1>3, <1>4, <1>5
<1>6. CASE T # {}
  <2> PICK a, U : a = Any(T) /\ U = T \ {Any(T)}
    OBVIOUS
  <2>1. a \in T /\ U \in SUBSET T /\ U # T /\ IsFiniteSet(U) /\ U \in SUBSET S
    BY <1>3, <1>6, AnyIsIn, FS_Subset
  <2>2. Between(U)
    <3> HIDE DEF Between
    <3> QED BY <1>2, <2>1
  <2>3. /\ f[a] \in Int /\ l[a] \in Int /\ u[a] \in Int /\ h[a] \in Int
        /\ -(l[a] + h[a]) <= f[a] /\ f[a] <= u[a] + 10 * h[a]
    BY <1>3, <2>1
  <2>4. Sum(f, U) \in Int /\ Sum(l, U) \in Int /\ Sum(u, U) \in Int /\ Sum(h, U) \in Int
    BY <2>1, SumIsInt
  <2>5. /\ Sum(f, T) = f[a] + Sum(f, U) /\ Sum(l, T) = l[a] + Sum(l, U)
        /\ Sum(u, T) = u[a] + Sum(u, U) /\ Sum(h, T) = h[a] + Sum(h, U)
    BY <1>4, <1>6
  <2> QED BY <1>3, <2>2, <2>3, <2>4, <2>5
<1> QED BY <1>5, <1>6

-----------------------------------------------------------------------------
(* What a round can cost                                                   *)

OtherSide(side) == IF side = AREA_XIAN THEN AREA_ZHUANG ELSE AREA_XIAN

\* A chair loses at most its bets on the side that lost and on the type, and wins at
\* most its bet on the other side and ten times that on the type.
LEMMA GrossIsBounded ==
  ASSUME TypeOK, NEW deal \in Deals, NEW c \in Chair
  PROVE  LET s == Outcome[deal].side IN
         /\ -(lPlayBet[c][OtherSide(s)] + lPlayBet[c][AREA_PING]) <= Gross(c, deal)
         /\ Gross(c, deal) <= lPlayBet[c][s] + 10 * lPlayBet[c][AREA_PING]
<1> PICK o, f, k, x, y, z :
      /\ o = Outcome[deal] /\ f = [a \in Area |-> AreaScore(c, a, o)]
      /\ k = PingOdds(o.type)
      /\ x = lPlayBet[c][o.side] /\ y = lPlayBet[c][OtherSide(o.side)] /\ z = lPlayBet[c][AREA_PING]
  OBVIOUS
<1>1. o.side \in {AREA_XIAN, AREA_ZHUANG} /\ k \in {0, 1, 2, 3, 5, 10}
  <2>1. \A t \in 1 .. 7 : PingOdds(t) \in {0, 1, 2, 3, 5, 10}
    BY DEF PingOdds
  <2>2. o.type \in 1 .. 7
    <3> PICK i, j : i = GetCardType(deal[1]) /\ j = GetCardType(deal[2])
      OBVIOUS
    <3>1. i \in 1 .. 7 /\ j \in 1 .. 7
      BY TypesOfHands
    <3>2. Max({i, j}) \in 1 .. 7
      BY <3>1, MaxOfTwo
    <3> QED BY <3>2 DEF Outcome
  <2> QED BY <2>1, <2>2, WhatIsDecided
<1>2. x \in Nat /\ y \in Nat /\ z \in Nat
  BY <1>1 DEF TypeOK, OtherSide, Area, AREA_XIAN, AREA_ZHUANG, AREA_PING, AREA_MAX
<1>3. f[o.side] = x /\ f[OtherSide(o.side)] = -y
  BY <1>1 DEF AreaScore, OtherSide, Area, AREA_XIAN, AREA_ZHUANG, AREA_PING, AREA_MAX
<1>4. f[AREA_PING] \in {z * k, -z}
  BY <1>1 DEF AreaScore, Area, AREA_XIAN, AREA_ZHUANG, AREA_PING, AREA_MAX
<1>5. f[AREA_PING] \in Int /\ -z <= f[AREA_PING] /\ f[AREA_PING] <= 10 * z
  BY <1>1, <1>2, <1>4
<1>6. Sum(f, Area) = f[o.side] + f[OtherSide(o.side)] + f[AREA_PING]
  <2>1. \A a \in Area : f[a] \in Int
    BY AreaBrings
  <2>2. Sum(f, Area) = f[0] + f[1] + f[2] /\ f[0] \in Int /\ f[1] \in Int /\ f[2] \in Int
    BY <2>1, SumOfArea, ChairsAndAreas
  <2> QED BY <1>1, <2>2 DEF OtherSide, AREA_XIAN, AREA_ZHUANG, AREA_PING
<1>7. -(y + z) <= Sum(f, Area) /\ Sum(f, Area) <= x + 10 * z
  BY <1>2, <1>3, <1>5, <1>6
<1>8. -(y + z) <= 0 /\ 0 <= x + 10 * z
  BY <1>2
<1> QED BY <1>7, <1>8 DEF Gross

\* No settlement costs the bank more than eleven times the limit of an area, or
\* brings it more than twice that; no chair loses more than a user's limit.
RiskIsBounded ==
  /\ -11 * lAreaLimitScore <= lBankerWin /\ lBankerWin <= 2 * lAreaLimitScore
  /\ \A c \in Chair :
       -lUserLimitScore <= lUserWinScore[c] /\ lUserWinScore[c] <= 10 * lUserLimitScore

LEMMA BankIsBounded ==
  ASSUME RoundInv, NEW deal \in Deals, OnTimerPlaceJetton(deal)
  PROVE  -11 * lAreaLimitScore <= lBankerWin' /\ lBankerWin' <= 2 * lAreaLimitScore
<1> PICK s, t, f : s = Outcome[deal].side /\ t = OtherSide(s) /\ f = [c \in Chair |-> Gross(c, deal)]
  OBVIOUS
<1> DEFINE B(a) == [c \in Chair |-> lPlayBet[c][a]]
<1>1. s \in Area /\ t \in Area /\ AREA_PING \in Area
  BY WhatIsDecided, ChairsAndAreas DEF OtherSide
<1>2. \A a \in Area : Sum(B(a), Chair) = lAllBet[a] /\ lAllBet[a] \in Nat /\ lAllBet[a] <= lAreaLimitScore
  BY DEF RoundInv, BetsAddUp, LimitsHold, TypeOK
<1>3. \A a \in Area : \A c \in Chair : B(a)[c] = lPlayBet[c][a] /\ lPlayBet[c][a] \in Int
  BY DEF RoundInv, TypeOK
<1>4. \A c \in Chair : /\ f[c] \in Int
                       /\ -(lPlayBet[c][t] + lPlayBet[c][AREA_PING]) <= f[c]
                       /\ f[c] <= lPlayBet[c][s] + 10 * lPlayBet[c][AREA_PING]
  BY GrossOfBets, GrossIsBounded DEF RoundInv
<1> PICK l, u, h : l = B(t) /\ u = B(s) /\ h = B(AREA_PING)
  OBVIOUS
<1>5. \A c \in Chair : /\ f[c] \in Int /\ l[c] \in Int /\ u[c] \in Int /\ h[c] \in Int
                       /\ -(l[c] + h[c]) <= f[c] /\ f[c] <= u[c] + 10 * h[c]
  BY <1>1, <1>3, <1>4
<1>6. IsFiniteSet(Chair)
  BY ChairsAndAreas
<1>7. -(Sum(l, Chair) + Sum(h, Chair)) <= Sum(f, Chair) /\ Sum(f, Chair) <= Sum(u, Chair) + 10 * Sum(h, Chair)
  BY <1>5, <1>6, SumBetween
<1>8. Sum(f, Chair) \in Int
  BY <1>5, <1>6, SumIsInt
<1>9. /\ Sum(l, Chair) \in Nat /\ Sum(l, Chair) <= lAreaLimitScore
      /\ Sum(u, Chair) \in Nat /\ Sum(u, Chair) <= lAreaLimitScore
      /\ Sum(h, Chair) \in Nat /\ Sum(h, Chair) <= lAreaLimitScore
  BY <1>1, <1>2
<1>10. lBankerWin' = - Sum(f, Chair)
  BY Settlement DEF RoundInv
<1>11. lAreaLimitScore \in Nat
  BY RoundAssumption
<1> QED BY <1>7, <1>8, <1>9, <1>10, <1>11

\* The share of w in a thousand of a win g, and nothing of a loss
Share(g, w) == IF g > 0 THEN (g * w) \div 1000 ELSE 0

\* The revenue is at most what was won.
LEMMA PartOfTheWin ==
  ASSUME NEW g \in Int, NEW w \in Nat, w <= 1000
  PROVE  Share(g, w) \in Nat /\ (g > 0 => Share(g, w) <= g) /\ (g <= 0 => Share(g, w) = 0)
<1> PICK v : v = Share(g, w)
  OBVIOUS
<1>1. CASE g > 0
  <2>1. g * (1000 - w) \in Nat /\ g * w \in Nat
    BY <1>1
  <2>2. g * (1000 - w) = 1000 * g - g * w
    OBVIOUS
  <2> PICK n \in Nat : n = g * w
    BY <2>1
  <2>3. n <= 1000 * g
    BY <2>1, <2>2
  <2>4. n \div 1000 \in Nat /\ n \div 1000 <= g
    BY <2>3
  <2>5. v = n \div 1000
    BY <1>1 DEF Share
  <2> QED BY <1>1, <2>4, <2>5
<1>2. CASE ~(g > 0)
  BY <1>2 DEF Share
<1> QED BY <1>1, <1>2

LEMMA ChairsAreBounded ==
  ASSUME RoundInv, NEW deal \in Deals, OnTimerPlaceJetton(deal), NEW c \in Chair
  PROVE  -lUserLimitScore <= lUserWinScore'[c] /\ lUserWinScore'[c] <= 10 * lUserLimitScore
<1> PICK s, t, b, g, v, w : s = Outcome[deal].side /\ t = OtherSide(s) /\ b = lPlayBet[c]
                      /\ g = Gross(c, deal) /\ v = lUserRevenue'[c] /\ w = wRevenueRatio
  OBVIOUS
<1>1. b[0] \in Nat /\ b[1] \in Nat /\ b[2] \in Nat /\ b[0] + b[1] + b[2] <= lUserLimitScore
      /\ lUserLimitScore \in Nat
  <2>1. \A a \in Area : b[a] \in Nat
    BY DEF RoundInv, TypeOK
  <2>2. Sum(b, Area) <= lUserLimitScore
    BY DEF RoundInv, LimitsHold
  <2>3. Sum(b, Area) = b[0] + b[1] + b[2]
    BY <2>1, SumOfArea
  <2> QED BY <2>1, <2>2, <2>3, ChairsAndAreas, RoundAssumption
<1>2. s \in {0, 1} /\ t \in {0, 1}
  BY WhatIsDecided DEF OtherSide, AREA_XIAN, AREA_ZHUANG
<1>3. g \in Int /\ -(b[t] + b[2]) <= g /\ g <= b[s] + 10 * b[2]
  BY GrossOfBets, GrossIsBounded DEF RoundInv, AREA_PING
<1>4. -lUserLimitScore <= g /\ g <= 10 * lUserLimitScore
  BY <1>1, <1>2, <1>3
<1>5. v = Share(g, w)
  BY DEF OnTimerPlaceJetton, CalculateScore, Gross, Share
<1>6. w \in Nat /\ w <= 1000
  BY RoundAssumption
<1>7. v \in Nat /\ (g > 0 => v <= g) /\ (g <= 0 => v = 0)
  <2>1. g \in Int
    BY <1>3
  <2>2. Share(g, w) \in Nat
    BY <2>1, <1>6, PartOfTheWin
  <2>3. g > 0 => Share(g, w) <= g
    BY <2>1, <1>6, PartOfTheWin
  <2>4. g <= 0 => Share(g, w) = 0
    BY <2>1, <1>6, PartOfTheWin
  <2>5. v \in Nat
    BY <1>5, <2>2
  <2>6. g > 0 => v <= g
    BY <1>5, <2>3
  <2> QED BY <1>5, <2>4, <2>5, <2>6
<1>8. lUserWinScore'[c] + v = g /\ lUserWinScore'[c] \in Int
  BY Settlement DEF RoundInv
<1> QED BY <1>1, <1>3, <1>4, <1>7, <1>8

\* Because of the limits, of which GetMaxPlayerScore takes care bet by bet, a round's
\* settlement never costs the bank more than eleven times the limit of an area, or a
\* chair more than the limit of a user, whatever is dealt and however bets were placed,
\* withdrawn and left behind.
THEOREM RiskOfARoundIsBounded == Spec => []RiskIsBounded
<1> DEFINE Inv == RoundInv /\ RiskIsBounded
<1>1. Init => Inv
  BY InitRound, RoundAssumption DEF Init, RiskIsBounded
<1>2. Inv /\ [Next]_vars => Inv'
  <2> SUFFICES ASSUME RoundInv, RiskIsBounded, [Next]_vars PROVE RiskIsBounded'
    BY NextRound
  <2>1. ASSUME UNCHANGED <<lUserWinScore, lBankerWin>> PROVE RiskIsBounded'
    BY <2>1 DEF RiskIsBounded
  <2>2. ASSUME NEW deal \in Deals, OnTimerPlaceJetton(deal) PROVE RiskIsBounded'
    BY <2>2, BankIsBounded, ChairsAreBounded DEF RiskIsBounded
  <2>3. CASE OnTimerGameEnd
    BY <2>3, RoundAssumption DEF OnTimerGameEnd, RiskIsBounded
  <2> QED BY <2>1, <2>2, <2>3
          DEF vars, result, Next, OnActionUserSitDown, OnActionUserStandUp, OnUserPlayBet, OnUserWithdraw
<1>3. Inv => RiskIsBounded
  OBVIOUS
<1> HIDE DEF Inv
<1> QED BY <1>1, <1>2, <1>3, PTL DEF Spec
=============================================================================
