-------------------------- MODULE CardLogicProofs --------------------------
(***************************************************************************)
(* CompareCard follows the rules of the game for any two hands of the deck.*)
(* A hand is described by the ranks of its sorted cards and by whether     *)
(* they are of one colour; both what the code computes from the sorted     *)
(* cards and what the rules say of the set of cards come to the same       *)
(* function of these.                                                      *)
(* What it says of two hands is an order of the hands: the last section.   *)
(***************************************************************************)
EXTENDS CardLogic, FiniteSetTheorems, TLAPS

Hands == {h \in SUBSET m_cbCardListData : Cardinality(h) = MAX_COUNT}

LEMMA Cards ==
  ASSUME NEW c \in m_cbCardListData
  PROVE  /\ c \in Nat /\ GetCardValue(c) \in 1 .. 13 /\ GetCardColor(c) \in 0 .. 3
         /\ c = 16 * GetCardColor(c) + GetCardValue(c)
         /\ GetCardLogicValue(c) \in 2 .. 14
         /\ GetCardLogicValue(c) = 14 <=> GetCardValue(c) = 1
         /\ GetCardLogicValue(c) # 14 => GetCardLogicValue(c) = GetCardValue(c)
<1>1. PICK color \in 0 .. 3, value \in 1 .. 13 : c = 16 * color + value
  BY DEF m_cbCardListData
<1>2. GetCardValue(c) = value /\ GetCardColor(c) = color
  BY <1>1 DEF GetCardValue, GetCardColor
<1> QED BY <1>1, <1>2 DEF GetCardLogicValue

\* Two cards of one rank are of different colours.
LEMMA SameRank ==
  ASSUME NEW c \in m_cbCardListData, NEW d \in m_cbCardListData, c # d,
         GetCardLogicValue(c) = GetCardLogicValue(d)
  PROVE  GetCardColor(c) # GetCardColor(d)
<1>1. GetCardValue(c) = GetCardValue(d)
  BY Cards
<1> QED BY <1>1, Cards

LEMMA BeforeIsTotal ==
  ASSUME NEW c \in m_cbCardListData, NEW d \in m_cbCardListData, c # d
  PROVE  IsBefore(c, d) \/ IsBefore(d, c)
<1>1. c \in Nat /\ d \in Nat /\ GetCardLogicValue(c) \in Nat /\ GetCardLogicValue(d) \in Nat
  BY Cards
<1> QED BY <1>1 DEF IsBefore

LEMMA BeforeIsStrict ==
  ASSUME NEW c \in m_cbCardListData, NEW d \in m_cbCardListData, IsBefore(c, d)
  PROVE  c # d /\ GetCardLogicValue(c) >= GetCardLogicValue(d) /\ ~IsBefore(d, c)
<1>1. c \in Nat /\ d \in Nat /\ GetCardLogicValue(c) \in Nat /\ GetCardLogicValue(d) \in Nat
  BY Cards
<1> QED BY <1>1 DEF IsBefore

LEMMA BeforeIsTransitive ==
  ASSUME NEW c \in m_cbCardListData, NEW d \in m_cbCardListData, NEW e \in m_cbCardListData,
         IsBefore(c, d), IsBefore(d, e)
  PROVE  IsBefore(c, e)
<1>1. /\ c \in Nat /\ d \in Nat /\ e \in Nat
      /\ GetCardLogicValue(c) \in Nat /\ GetCardLogicValue(d) \in Nat /\ GetCardLogicValue(e) \in Nat
  BY Cards
<1> QED BY <1>1 DEF IsBefore

LEMMA ThreeCards ==
  ASSUME NEW h, Cardinality(h) = 3, IsFiniteSet(h)
  PROVE  \E a, b, c : h = {a, b, c} /\ a # b /\ b # c /\ a # c
<1>1. PICK a \in h : TRUE
  BY FS_EmptySet
<1>2. IsFiniteSet(h \ {a}) /\ Cardinality(h \ {a}) = 2
  BY <1>1, FS_RemoveElement
<1>3. PICK b \in h \ {a} : TRUE
  BY <1>2, FS_EmptySet
<1>4. IsFiniteSet((h \ {a}) \ {b}) /\ Cardinality((h \ {a}) \ {b}) = 1
  BY <1>2, <1>3, FS_RemoveElement
<1>5. PICK c : (h \ {a}) \ {b} = {c}
  BY <1>4, FS_Singleton
<1>6. h = {a, b, c} /\ a # b /\ b # c /\ a # c
  BY <1>1, <1>3, <1>5
<1> QED BY <1>6

\* A hand in the order of SortCardList
Sorted(h, x, y, z) ==
  /\ {x, y, z} \subseteq m_cbCardListData /\ h = {x, y, z} /\ x # y /\ y # z /\ x # z
  /\ SortCardList(h) = <<x, y, z>>
  /\ GetCardLogicValue(x) >= GetCardLogicValue(y) /\ GetCardLogicValue(y) >= GetCardLogicValue(z)

LEMMA HandsAreSorted ==
  ASSUME NEW h \in Hands
  PROVE  \E x, y, z : Sorted(h, x, y, z)
<1>1. h \subseteq m_cbCardListData /\ Cardinality(h) = 3
  BY DEF Hands, MAX_COUNT
<1>2. IsFiniteSet(h)
  <2>1. m_cbCardListData \subseteq 0 .. 100
    BY DEF m_cbCardListData
  <2> PICK i \in Int, j \in Int : i = 0 /\ j = 100
    OBVIOUS
  <2>2. IsFiniteSet(i .. j)
    BY FS_Interval
  <2>3. IsFiniteSet(0 .. 100)
    BY <2>2
  <2>4. h \subseteq 0 .. 100
    BY <1>1, <2>1
  <2> QED BY <2>3, <2>4, FS_Subset
<1>3. PICK a, b, c : h = {a, b, c} /\ a # b /\ b # c /\ a # c
  BY <1>1, <1>2, ThreeCards
<1>4. a \in m_cbCardListData /\ b \in m_cbCardListData /\ c \in m_cbCardListData
  BY <1>1, <1>3
<1>5. \E x \in h, y \in h, z \in h : IsBefore(x, y) /\ IsBefore(y, z)
  <2>1. IsBefore(a, b) \/ IsBefore(b, a)
    BY <1>3, <1>4, BeforeIsTotal
  <2>2. IsBefore(a, c) \/ IsBefore(c, a)
    BY <1>3, <1>4, BeforeIsTotal
  <2>3. IsBefore(b, c) \/ IsBefore(c, b)
    BY <1>3, <1>4, BeforeIsTotal
  <2> QED BY <1>3, <2>1, <2>2, <2>3
<1>6. PICK s \in h \X h \X h : SortCardList(h) = s /\ IsBefore(s[1], s[2]) /\ IsBefore(s[2], s[3])
  <2>1. \E s \in h \X h \X h : IsBefore(s[1], s[2]) /\ IsBefore(s[2], s[3])
    <3>1. PICK x \in h, y \in h, z \in h : IsBefore(x, y) /\ IsBefore(y, z)
      BY <1>5
    <3>2. <<x, y, z>> \in h \X h \X h
      OBVIOUS
    <3>3. <<x, y, z>>[1] = x /\ <<x, y, z>>[2] = y /\ <<x, y, z>>[3] = z
      OBVIOUS
    <3> QED BY <3>1, <3>2, <3>3
  <2> QED BY <2>1 DEF SortCardList
<1>7. PICK x \in h, y \in h, z \in h : s = <<x, y, z>>
  OBVIOUS
<1>8. IsBefore(x, y) /\ IsBefore(y, z)
  BY <1>6, <1>7
<1>9. x \in m_cbCardListData /\ y \in m_cbCardListData /\ z \in m_cbCardListData
  BY <1>1
<1>10. /\ x # y /\ y # z /\ x # z
       /\ GetCardLogicValue(x) >= GetCardLogicValue(y) /\ GetCardLogicValue(y) >= GetCardLogicValue(z)
  BY <1>8, <1>9, BeforeIsStrict, BeforeIsTransitive
<1>11. h = {x, y, z}
  BY <1>3, <1>10
<1> QED BY <1>6, <1>7, <1>9, <1>10, <1>11 DEF Sorted

\* The top of the straight of a hand whose cards have the ranks p, q and r, or 0
Top(p, q, r) ==
  IF p = 14 /\ q = 3 /\ r = 2 THEN 3 ELSE IF p = q + 1 /\ q = r + 1 THEN p ELSE 0

TypeOf(p, q, r, oneColor) ==
  IF p = r THEN CT_BAO_ZI
  ELSE IF Top(p, q, r) > 0 THEN IF oneColor THEN CT_SHUN_JIN ELSE CT_SHUN_ZI
  ELSE IF oneColor THEN CT_JIN_HUA
  ELSE IF p = q \/ q = r THEN IF q > 8 THEN CT_DOUBLE_SHINE ELSE CT_DOUBLE
  ELSE CT_SINGLE

\* What the rules say of the set of cards, in these terms
Ruled(h, p, q, r, oneColor) ==
  /\ Ranks(h) = {p, q, r} /\ Straight(h) = Top(p, q, r) /\ (Flush(h) <=> oneColor)
  /\ Pairs(h) = IF p = r THEN {} ELSE IF p = q \/ q = r THEN {q} ELSE {}
  /\ RuledType(h) = TypeOf(p, q, r, oneColor)

\* What the code finds in the sorted cards
Found(h, p, q, r, oneColor) ==
  /\ DOMAIN LogicValues(h) = 1 .. 3
  /\ LogicValues(h)[1] = p /\ LogicValues(h)[2] = q /\ LogicValues(h)[3] = r
  /\ GetCardType(h) = TypeOf(p, q, r, oneColor)

Ordered(p, q, r, oneColor) ==
  /\ p \in 2 .. 14 /\ q \in 2 .. 14 /\ r \in 2 .. 14 /\ p >= q /\ q >= r
  /\ oneColor \in BOOLEAN /\ (oneColor => p > q /\ q > r)

OneColor(h) == \A c, d \in h : GetCardColor(c) = GetCardColor(d)

LEMMA HandIsOrdered ==
  ASSUME NEW h \in Hands, NEW x, NEW y, NEW z, Sorted(h, x, y, z)
  PROVE  Ordered(GetCardLogicValue(x), GetCardLogicValue(y), GetCardLogicValue(z), OneColor(h))
<1>1. /\ x \in m_cbCardListData /\ y \in m_cbCardListData /\ z \in m_cbCardListData
      /\ h = {x, y, z} /\ x # y /\ y # z
      /\ GetCardLogicValue(x) >= GetCardLogicValue(y) /\ GetCardLogicValue(y) >= GetCardLogicValue(z)
  BY DEF Sorted
<1>2. GetCardLogicValue(x) \in 2 .. 14 /\ GetCardLogicValue(y) \in 2 .. 14 /\ GetCardLogicValue(z) \in 2 .. 14
  BY <1>1, Cards
<1>3. OneColor(h) => GetCardLogicValue(x) # GetCardLogicValue(y) /\ GetCardLogicValue(y) # GetCardLogicValue(z)
  <2>1. GetCardLogicValue(x) = GetCardLogicValue(y) => GetCardColor(x) # GetCardColor(y)
    BY <1>1, SameRank
  <2>2. GetCardLogicValue(y) = GetCardLogicValue(z) => GetCardColor(y) # GetCardColor(z)
    BY <1>1, SameRank
  <2> QED BY <1>1, <2>1, <2>2 DEF OneColor
<1>4. OneColor(h) \in BOOLEAN
  BY DEF OneColor
<1> QED BY <1>1, <1>2, <1>3, <1>4 DEF Ordered

LEMMA CodeFinds ==
  ASSUME NEW h \in Hands, NEW x, NEW y, NEW z, Sorted(h, x, y, z)
  PROVE  Found(h, GetCardLogicValue(x), GetCardLogicValue(y), GetCardLogicValue(z), OneColor(h))
<1>1. /\ x \in m_cbCardListData /\ y \in m_cbCardListData /\ z \in m_cbCardListData
      /\ h = {x, y, z} /\ SortCardList(h) = <<x, y, z>>
  BY DEF Sorted
<1> PICK p, q, r, oneColor :
      /\ p = GetCardLogicValue(x) /\ q = GetCardLogicValue(y) /\ r = GetCardLogicValue(z)
      /\ oneColor = OneColor(h)
  OBVIOUS
<1> PICK v : v = LogicValues(h)
  OBVIOUS
<1>2. Ordered(p, q, r, oneColor)
  BY HandIsOrdered
<1>3. DOMAIN v = 1 .. 3 /\ v[1] = p /\ v[2] = q /\ v[3] = r
  <2>1. v = [i \in 1 .. 3 |-> GetCardLogicValue(<<x, y, z>>[i])]
    BY <1>1 DEF LogicValues, MAX_COUNT
  <2>2. <<x, y, z>>[1] = x /\ <<x, y, z>>[2] = y /\ <<x, y, z>>[3] = z
    OBVIOUS
  <2>3. 1 \in 1 .. 3 /\ 2 \in 1 .. 3 /\ 3 \in 1 .. 3
    OBVIOUS
  <2> QED BY <2>1, <2>2, <2>3
<1> DEFINE line == (\A i \in 2 .. MAX_COUNT : v[1] = v[i] + i - 1) \/ {GetCardValue(c) : c \in h} = {1, 2, 3}
           double == {i \in 1 .. MAX_COUNT - 1 : v[i] = v[i + 1]}
<1>4. line <=> Top(p, q, r) > 0
  <2>1. (\A i \in 2 .. MAX_COUNT : v[1] = v[i] + i - 1) <=> p = q + 1 /\ q = r + 1
    <3>1. 2 .. MAX_COUNT = {2, 3}
      BY DEF MAX_COUNT
    <3> QED BY <1>2, <1>3, <3>1 DEF Ordered
  <2>2. {GetCardValue(c) : c \in h} = {1, 2, 3} <=> p = 14 /\ q = 3 /\ r = 2
    <3> PICK i, j, k : i = GetCardValue(x) /\ j = GetCardValue(y) /\ k = GetCardValue(z)
      OBVIOUS
    <3>1. {GetCardValue(c) : c \in h} = {i, j, k}
      BY <1>1
    <3>2. /\ i \in 1 .. 13 /\ j \in 1 .. 13 /\ k \in 1 .. 13
          /\ (p = 14 <=> i = 1) /\ (q = 14 <=> j = 1) /\ (r = 14 <=> k = 1)
          /\ (p # 14 => p = i) /\ (q # 14 => q = j) /\ (r # 14 => r = k)
      BY <1>1, Cards
    <3>3. p \in Int /\ q \in Int /\ r \in Int /\ p >= q /\ q >= r /\ p <= 14
      BY <1>2 DEF Ordered
    <3>4. {i, j, k} = {1, 2, 3} <=> i = 1 /\ j = 3 /\ k = 2
      <4>1. ASSUME {i, j, k} = {1, 2, 3} PROVE i = 1 /\ j = 3 /\ k = 2
        <5>1. 1 \in {i, j, k} /\ 2 \in {i, j, k} /\ 3 \in {i, j, k}
          BY <4>1
        <5>2. i = 1 \/ j = 1 \/ k = 1
          BY <5>1
        <5>3. p = 14
          BY <3>2, <3>3, <5>2
        <5>4. i = 1
          BY <3>2, <5>3
        <5>5. (j = 2 /\ k = 3) \/ (j = 3 /\ k = 2)
          BY <5>1, <5>4
        <5> QED BY <3>2, <3>3, <5>4, <5>5
      <4>2. ASSUME i = 1, j = 3, k = 2 PROVE {i, j, k} = {1, 2, 3}
        BY <4>2
      <4> QED BY <4>1, <4>2
    <3> QED BY <3>1, <3>2, <3>4
  <2> QED BY <1>2, <2>1, <2>2 DEF Top, Ordered
<1>5. double = {i \in {1, 2} : (i = 1 /\ p = q) \/ (i = 2 /\ q = r)}
  <2>1. 1 .. MAX_COUNT - 1 = {1, 2}
    BY DEF MAX_COUNT
  <2>2. \A i \in {1, 2} : v[i] = v[i + 1] <=> (i = 1 /\ p = q) \/ (i = 2 /\ q = r)
    BY <1>3
  <2> QED BY <2>1, <2>2
<1>6. /\ double = {} <=> p # q /\ q # r
      /\ double = 1 .. MAX_COUNT - 1 <=> p = q /\ q = r
      /\ (\E i \in double : v[i] > 8) <=> (p = q \/ q = r) /\ q > 8
  <2>1. 1 .. MAX_COUNT - 1 = {1, 2}
    BY DEF MAX_COUNT
  <2>2. 1 \in double <=> p = q
    BY <1>5
  <2>3. 2 \in double <=> q = r
    BY <1>5
  <2>4. double \subseteq {1, 2}
    BY <1>5
  <2> HIDE DEF double
  <2> QED BY <1>3, <2>1, <2>2, <2>3, <2>4
<1>7. GetCardType(h) =
        CASE line -> IF oneColor THEN CT_SHUN_JIN ELSE CT_SHUN_ZI
          [] ~line /\ oneColor -> CT_JIN_HUA
          [] OTHER ->
               IF double = {} THEN CT_SINGLE
               ELSE IF double = 1 .. MAX_COUNT - 1 THEN CT_BAO_ZI
               ELSE IF \E i \in double : v[i] > 8 THEN CT_DOUBLE_SHINE ELSE CT_DOUBLE
  BY DEF GetCardType, OneColor
<1> HIDE DEF line, double
<1>8. GetCardType(h) =
        IF line THEN IF oneColor THEN CT_SHUN_JIN ELSE CT_SHUN_ZI
        ELSE IF oneColor THEN CT_JIN_HUA
        ELSE IF p # q /\ q # r THEN CT_SINGLE
        ELSE IF p = q /\ q = r THEN CT_BAO_ZI
        ELSE IF q > 8 THEN CT_DOUBLE_SHINE ELSE CT_DOUBLE
  BY <1>6, <1>7
<1>9. GetCardType(h) = TypeOf(p, q, r, oneColor)
  BY <1>2, <1>4, <1>8 DEF TypeOf, Ordered, Top
<1> QED BY <1>3, <1>9 DEF Found
LEMMA TwoOrThree ==
  ASSUME NEW S, NEW a, NEW b, NEW c, a # b, b # c, a # c
  PROVE  (S = {a, b} => Cardinality(S) = 2) /\ (S = {a, b, c} => Cardinality(S) = 3)
<1> PICK A, B : A = {a} /\ B = A \cup {b}
  OBVIOUS
<1>1. IsFiniteSet(A) /\ Cardinality(A) = 1
  BY FS_Singleton
<1>2. IsFiniteSet(B) /\ Cardinality(B) = 2
  BY <1>1, FS_AddElement
<1>3. Cardinality(B \cup {c}) = 3
  BY <1>2, FS_AddElement
<1> QED BY <1>2, <1>3

Count(a, b, c) == Cardinality({a, b, c})

LEMMA OneOfThree ==
  ASSUME NEW a, NEW b, NEW c
  PROVE  Count(a, b, c) = 1 <=> a = b /\ b = c
<1> PICK A, B, S : A = {a} /\ B = A \cup {b} /\ S = B \cup {c}
  OBVIOUS
<1>1. IsFiniteSet(A)
  BY FS_Singleton
<1>2. IsFiniteSet(B)
  BY <1>1, FS_AddElement
<1>3. IsFiniteSet(S) /\ S = {a, b, c}
  BY <1>2, FS_AddElement
<1>4. Count(a, b, c) = Cardinality(S)
  BY <1>3 DEF Count
<1>5. ASSUME a = b, b = c PROVE Cardinality(S) = 1
  <2>1. S = {a}
    BY <1>3, <1>5
  <2> QED BY <2>1, FS_Singleton
<1>6. ASSUME Cardinality(S) = 1 PROVE a = b /\ b = c
  <2>1. PICK w : S = {w}
    BY <1>3, <1>6, FS_Singleton
  <2> QED BY <1>3, <2>1
<1> QED BY <1>4, <1>5, <1>6

LEMMA RulesSay ==
  ASSUME NEW h \in Hands, NEW x, NEW y, NEW z, Sorted(h, x, y, z)
  PROVE  Ruled(h, GetCardLogicValue(x), GetCardLogicValue(y), GetCardLogicValue(z), OneColor(h))
<1>1. /\ x \in m_cbCardListData /\ y \in m_cbCardListData /\ z \in m_cbCardListData
      /\ h = {x, y, z} /\ x # y /\ y # z /\ x # z
  BY DEF Sorted
<1> PICK p, q, r, oneColor :
      /\ p = GetCardLogicValue(x) /\ q = GetCardLogicValue(y) /\ r = GetCardLogicValue(z)
      /\ oneColor = OneColor(h)
  OBVIOUS
<1>2. Ordered(p, q, r, oneColor)
  BY HandIsOrdered
<1>3. p \in 2 .. 14 /\ q \in 2 .. 14 /\ r \in 2 .. 14 /\ p >= q /\ q >= r
  BY <1>2 DEF Ordered
<1>4. Ranks(h) = {p, q, r}
  BY <1>1 DEF Ranks
<1>5. Straight(h) = Top(p, q, r)
  <2>1. {p, q, r} = {14, 2, 3} <=> p = 14 /\ q = 3 /\ r = 2
    <3>1. ASSUME {p, q, r} = {14, 2, 3} PROVE p = 14 /\ q = 3 /\ r = 2
      <4>1. 14 \in {p, q, r} /\ 2 \in {p, q, r} /\ 3 \in {p, q, r}
        BY <3>1
      <4> QED BY <1>3, <4>1
    <3> QED BY <3>1
  <2>2. (\E top \in 4 .. 14 : {p, q, r} = top - 2 .. top) <=> p = q + 1 /\ q = r + 1
    <3>1. ASSUME NEW top \in 4 .. 14, {p, q, r} = top - 2 .. top PROVE p = q + 1 /\ q = r + 1
      <4>1. top \in {p, q, r} /\ top - 1 \in {p, q, r} /\ top - 2 \in {p, q, r}
        BY <3>1
      <4>2. p \in top - 2 .. top /\ q \in top - 2 .. top /\ r \in top - 2 .. top
        BY <3>1
      <4>3. p >= top /\ r <= top - 2
        BY <1>3, <4>1
      <4>4. p = top /\ r = top - 2
        BY <1>3, <4>2, <4>3
      <4>5. q = top - 1
        BY <4>1, <4>4
      <4> QED BY <4>4, <4>5
    <3>2. ASSUME p = q + 1, q = r + 1 PROVE p \in 4 .. 14 /\ {p, q, r} = p - 2 .. p
      BY <1>3, <3>2
    <3> QED BY <3>1, <3>2
  <2>3. (CHOOSE t \in {p, q, r} : \A s \in {p, q, r} : s <= t) = p
    <3>1. p \in {p, q, r} /\ \A s \in {p, q, r} : s <= p
      BY <1>3
    <3>2. \A t \in {p, q, r} : (\A s \in {p, q, r} : s <= t) => t = p
      BY <1>3
    <3> QED BY <3>1, <3>2
  <2>4. Straight(h) = IF {p, q, r} = {14, 2, 3} THEN 3
                      ELSE IF \E top \in 4 .. 14 : {p, q, r} = top - 2 .. top
                      THEN CHOOSE t \in {p, q, r} : \A s \in {p, q, r} : s <= t ELSE 0
    BY <1>4 DEF Straight
  <2> QED BY <2>1, <2>2, <2>3, <2>4 DEF Top
<1>6. Flush(h) <=> oneColor
  <2> PICK i, j, k : i = GetCardColor(x) /\ j = GetCardColor(y) /\ k = GetCardColor(z)
    OBVIOUS
  <2>1. {GetCardColor(c) : c \in h} = {i, j, k} /\ (oneColor <=> i = j /\ j = k)
    BY <1>1 DEF OneColor
  <2>2. Count(i, j, k) = 1 <=> i = j /\ j = k
    BY OneOfThree
  <2> QED BY <2>1, <2>2 DEF Flush, Count
<1>7. ASSUME NEW n
      PROVE  Times(h, n) = 2 <=> (n = p /\ n = q /\ n # r) \/ (n = p /\ n # q /\ n = r) \/ (n # p /\ n = q /\ n = r)
  <2> DEFINE of == {c \in h : GetCardLogicValue(c) = n}
  <2>1. \A c : c \in of <=> (c = x /\ n = p) \/ (c = y /\ n = q) \/ (c = z /\ n = r)
    BY <1>1
  <2>2. Times(h, n) = Cardinality(of)
    BY DEF Times
  <2> HIDE DEF of
  <2>3. CASE n = p /\ n = q /\ n = r
    <3>1. of = {x, y, z}
      BY <2>1, <2>3
    <3>2. Times(h, n) = 3
      BY <1>1, <2>2, <3>1, TwoOrThree
    <3> QED BY <2>3, <3>2
  <2>4. CASE n = p /\ n = q /\ n # r
    <3>1. of = {x, y}
      BY <2>1, <2>4
    <3> QED BY <1>1, <2>2, <2>4, <3>1, TwoOrThree
  <2>5. CASE n = p /\ n # q /\ n = r
    <3>1. of = {x, z}
      BY <2>1, <2>5
    <3> QED BY <1>1, <2>2, <2>5, <3>1, TwoOrThree
  <2>6. CASE n # p /\ n = q /\ n = r
    <3>1. of = {y, z}
      BY <2>1, <2>6
    <3> QED BY <1>1, <2>2, <2>6, <3>1, TwoOrThree
  <2>7. CASE n = p /\ n # q /\ n # r
    <3>1. of = {x}
      BY <2>1, <2>7
    <3>2. Times(h, n) = 1
      BY <2>2, <3>1, FS_Singleton
    <3> QED BY <2>7, <3>2
  <2>8. CASE n # p /\ n = q /\ n # r
    <3>1. of = {y}
      BY <2>1, <2>8
    <3>2. Times(h, n) = 1
      BY <2>2, <3>1, FS_Singleton
    <3> QED BY <2>8, <3>2
  <2>9. CASE n # p /\ n # q /\ n = r
    <3>1. of = {z}
      BY <2>1, <2>9
    <3>2. Times(h, n) = 1
      BY <2>2, <3>1, FS_Singleton
    <3> QED BY <2>9, <3>2
  <2>10. CASE n # p /\ n # q /\ n # r
    <3>1. of = {}
      BY <2>1, <2>10
    <3> QED BY <2>2, <2>10, <3>1, FS_EmptySet
  <2> QED BY <2>3, <2>4, <2>5, <2>6, <2>7, <2>8, <2>9, <2>10
<1>8. Pairs(h) = IF p = r THEN {} ELSE IF p = q \/ q = r THEN {q} ELSE {}
  <2>1. \A n : n \in Pairs(h) <=> n \in {p, q, r} /\ Times(h, n) = 2
    BY <1>4 DEF Pairs
  <2>2. \A n : n \in Pairs(h) <=> p # r /\ (p = q \/ q = r) /\ n = q
    BY <1>3, <1>7, <2>1
  <2> QED BY <2>2
<1>9. Cardinality({p, q, r}) = 1 <=> p = r
  <2>1. Count(p, q, r) = 1 <=> p = q /\ q = r
    BY OneOfThree
  <2> QED BY <1>3, <2>1 DEF Count
<1>10. Pairs(h) # {} => (Pairs(h) \subseteq 9 .. 14 <=> q > 8)
  BY <1>3, <1>8
<1>11. RuledType(h) =
         IF p = r THEN CT_BAO_ZI
         ELSE IF Top(p, q, r) > 0 THEN IF oneColor THEN CT_SHUN_JIN ELSE CT_SHUN_ZI
         ELSE IF oneColor THEN CT_JIN_HUA
         ELSE IF Pairs(h) # {} THEN IF Pairs(h) \subseteq 9 .. 14 THEN CT_DOUBLE_SHINE ELSE CT_DOUBLE
         ELSE CT_SINGLE
  <2> PICK three, straight, color, pair \in BOOLEAN :
         /\ three <=> p = r
         /\ straight <=> Top(p, q, r) > 0
         /\ color <=> oneColor
         /\ pair <=> Pairs(h) # {}
    OBVIOUS
  <2>1. Top(p, q, r) \in Nat
    BY <1>3 DEF Top
  <2>2. /\ (Cardinality(Ranks(h)) = 1) <=> three
        /\ (Straight(h) > 0) <=> straight
        /\ (Straight(h) = 0) <=> ~straight
        /\ Flush(h) <=> color
    BY <1>4, <1>5, <1>6, <1>9, <2>1
  <2>3. (three => ~straight /\ ~color /\ ~pair) /\ (straight \/ color => ~pair)
    BY <1>2, <1>3, <1>8 DEF Top, Ordered
  <2>4. RuledType(h) =
          CASE three -> CT_BAO_ZI
            [] straight /\ color -> CT_SHUN_JIN
            [] ~straight /\ color -> CT_JIN_HUA
            [] straight /\ ~color -> CT_SHUN_ZI
            [] pair -> IF Pairs(h) \subseteq 9 .. 14 THEN CT_DOUBLE_SHINE ELSE CT_DOUBLE
            [] OTHER -> CT_SINGLE
    BY <2>2, Zenon DEF RuledType
  <2>5. CASE three
    BY <2>3, <2>4, <2>5, Zenon
  <2>6. CASE ~three /\ straight /\ color
    <3>1. RuledType(h) = CT_SHUN_JIN
      BY <2>3, <2>4, <2>6, Zenon
    <3> QED BY <2>6, <3>1
  <2>7. CASE ~three /\ straight /\ ~color
    <3>1. RuledType(h) = CT_SHUN_ZI
      BY <2>3, <2>4, <2>7, Zenon
    <3> QED BY <2>7, <3>1
  <2>8. CASE ~three /\ ~straight /\ color
    <3>1. RuledType(h) = CT_JIN_HUA
      BY <2>3, <2>4, <2>8, Zenon
    <3> QED BY <2>8, <3>1
  <2>9. CASE ~three /\ ~straight /\ ~color
    BY <2>4, <2>9, Zenon
  <2> QED BY <2>5, <2>6, <2>7, <2>8, <2>9
<1>12. RuledType(h) = TypeOf(p, q, r, oneColor)
  <2>1. Top(p, q, r) \in Nat
    BY <1>3 DEF Top
  <2>2. Pairs(h) # {} <=> p # r /\ (p = q \/ q = r)
    BY <1>8
  <2>3. oneColor \in BOOLEAN
    BY <1>2 DEF Ordered
  <2> QED BY <1>10, <1>11, <2>1, <2>2, <2>3 DEF TypeOf
<1> QED BY <1>4, <1>5, <1>6, <1>8, <1>12 DEF Ruled
\* Every hand has such a description, the same one for the code and for the rules.
LEMMA HandsAreDescribed ==
  ASSUME NEW h \in Hands
  PROVE  \E p, q, r, oneColor : /\ Ordered(p, q, r, oneColor)
                                /\ Found(h, p, q, r, oneColor) /\ Ruled(h, p, q, r, oneColor)
<1>1. PICK x, y, z : Sorted(h, x, y, z)
  BY HandsAreSorted
<1> QED BY <1>1, HandIsOrdered, CodeFinds, RulesSay

-----------------------------------------------------------------------------
(* Hands of one type                                                       *)

Types == 1 .. 7
Straights == {CT_SHUN_ZI, CT_SHUN_JIN}
Doubles == {CT_DOUBLE, CT_DOUBLE_SHINE}

LEMMA TypesOf ==
  ASSUME NEW p, NEW q, NEW r, NEW oneColor, Ordered(p, q, r, oneColor)
  PROVE  /\ TypeOf(p, q, r, oneColor) \in Types /\ Top(p, q, r) \in 0 .. 14
         /\ TypeOf(p, q, r, oneColor) \in Straights <=> Top(p, q, r) > 0
         /\ TypeOf(p, q, r, oneColor) \in Doubles <=> Top(p, q, r) = 0 /\ p # r /\ (p = q \/ q = r)
         /\ TypeOf(p, q, r, oneColor) = CT_BAO_ZI <=> p = r
<1>1. /\ p \in 2 .. 14 /\ q \in 2 .. 14 /\ r \in 2 .. 14 /\ p >= q /\ q >= r
      /\ oneColor \in BOOLEAN /\ (oneColor => p > q /\ q > r)
  BY DEF Ordered
<1>2. Top(p, q, r) \in 0 .. 14 /\ (Top(p, q, r) > 0 => p > q /\ q > r)
  BY <1>1 DEF Top
<1> QED BY <1>1, <1>2 DEF TypeOf, Types, Straights, Doubles, CT_SINGLE, CT_DOUBLE, CT_DOUBLE_SHINE,
           CT_SHUN_ZI, CT_JIN_HUA, CT_SHUN_JIN, CT_BAO_ZI

\* The card that is not of the pair
Third(p, q, r) == IF p = q THEN r ELSE p

LEMMA KeysAre ==
  ASSUME NEW h, NEW p, NEW q, NEW r, NEW oneColor, Ordered(p, q, r, oneColor), Found(h, p, q, r, oneColor)
  PROVE  LET t == TypeOf(p, q, r, oneColor) IN
         /\ t \in Straights => DOMAIN Keys(h) = {1} /\ Keys(h)[1] = Top(p, q, r)
         /\ t \in Doubles => DOMAIN Keys(h) = {1, 2} /\ Keys(h)[1] = q /\ Keys(h)[2] = Third(p, q, r)
         /\ t \notin Straights \cup Doubles =>
              DOMAIN Keys(h) = {1, 2, 3} /\ Keys(h)[1] = p /\ Keys(h)[2] = q /\ Keys(h)[3] = r
<1> PICK t, v, top, third :
      t = TypeOf(p, q, r, oneColor) /\ v = LogicValues(h) /\ top = Top(p, q, r) /\ third = Third(p, q, r)
  OBVIOUS
<1>1. /\ DOMAIN v = 1 .. 3 /\ v[1] = p /\ v[2] = q /\ v[3] = r /\ GetCardType(h) = t
  BY DEF Found
<1>2. Straights \cap Doubles = {}
  BY DEF Straights, Doubles, CT_SHUN_ZI, CT_SHUN_JIN, CT_DOUBLE, CT_DOUBLE_SHINE
<1>3. Keys(h) =
        CASE t \in Straights -> IF p = 14 /\ r = 2 THEN <<3>> ELSE <<p>>
          [] t \in Doubles -> IF p = q THEN <<p, r>> ELSE <<r, p>>
          [] OTHER -> v
  BY <1>1 DEF Keys, Straights, Doubles
<1>4. ASSUME t \in Straights PROVE Keys(h) = <<top>>
  <2>1. Keys(h) = IF p = 14 /\ r = 2 THEN <<3>> ELSE <<p>>
    BY <1>2, <1>3, <1>4, Zenon
  <2>2. top > 0
    BY <1>4, TypesOf
  <2>3. top = IF p = 14 /\ r = 2 THEN 3 ELSE p
    <3>1. p \in 2 .. 14 /\ q \in 2 .. 14 /\ r \in 2 .. 14
      BY DEF Ordered
    <3> QED BY <2>2, <3>1 DEF Top
  <2> QED BY <2>1, <2>3
<1>5. ASSUME t \in Doubles PROVE Keys(h) = <<q, third>>
  <2>1. Keys(h) = IF p = q THEN <<p, r>> ELSE <<r, p>>
    BY <1>2, <1>3, <1>5, Zenon
  <2>2. p # r /\ (p = q \/ q = r)
    BY <1>5, TypesOf
  <2> QED BY <2>1, <2>2 DEF Third
<1>6. ASSUME t \notin Straights \cup Doubles PROVE Keys(h) = v
  <2>1. t \notin Straights /\ t \notin Doubles
    BY <1>6
  <2> QED BY <1>3, <2>1, Zenon
<1>7. DOMAIN <<top>> = {1} /\ <<top>>[1] = top
  OBVIOUS
<1>8. DOMAIN <<q, third>> = {1, 2} /\ <<q, third>>[1] = q /\ <<q, third>>[2] = third
  OBVIOUS
<1>9. 1 .. 3 = {1, 2, 3}
  OBVIOUS
<1> QED BY <1>1, <1>4, <1>5, <1>6, <1>7, <1>8, <1>9

\* c is the result for a hand that is better, or worse, or neither.
Says(c, better, worse) ==
  (better => c = 1) /\ (~better /\ worse => c = 0) /\ (~better /\ ~worse => c = DRAW)

\* CompareCard decides on the first key that differs.
LEMMA ComparesKeys ==
  ASSUME NEW a, NEW b, GetCardType(a) = GetCardType(b), NEW m \in 1 .. 3, DOMAIN Keys(a) = 1 .. m
  PROVE  /\ (\A i \in 1 .. m : Keys(a)[i] = Keys(b)[i]) => CompareCard(a, b) = DRAW
         /\ \A i \in 1 .. m :
              (Keys(a)[i] # Keys(b)[i] /\ \A j \in 1 .. i - 1 : Keys(a)[j] = Keys(b)[j]) =>
                /\ Keys(a)[i] > Keys(b)[i] => CompareCard(a, b) = 1
                /\ ~(Keys(a)[i] > Keys(b)[i]) => CompareCard(a, b) = 0
<1> PICK f, n : f = Keys(a) /\ n = Keys(b)
  OBVIOUS
<1> DEFINE differ == {i \in 1 .. m : f[i] # n[i]}
           first == CHOOSE k \in differ : \A j \in differ : k <= j
<1>1. CompareCard(a, b) = IF differ = {} THEN DRAW ELSE IF f[first] > n[first] THEN 1 ELSE 0
  BY DEF CompareCard
<1>2. ASSUME \A i \in 1 .. m : f[i] = n[i] PROVE differ = {}
  BY <1>2
<1>3. ASSUME NEW i \in 1 .. m, f[i] # n[i], \A j \in 1 .. i - 1 : f[j] = n[j]
      PROVE  differ # {} /\ first = i
  <2>1. i \in differ /\ \A j \in differ : i <= j
    <3>1. ASSUME NEW j \in differ PROVE i <= j
      BY <1>3, <3>1
    <3> QED BY <1>3, <3>1
  <2>2. \A k \in differ : (\A j \in differ : k <= j) => k = i
    <3>1. differ \subseteq 1 .. m
      OBVIOUS
    <3> HIDE DEF differ
    <3> QED BY <2>1, <3>1
  <2> HIDE DEF differ
  <2> QED BY <2>1, <2>2
<1> HIDE DEF differ, first
<1> QED BY <1>1, <1>2, <1>3

\* Whether p, q and r come before i, j and k when the first that differ decide
Higher(p, q, r, i, j, k) == p > i \/ (p = i /\ (q > j \/ (q = j /\ r > k)))

\* ... and when the highest that only one of the two sets has decides
Outranks(p, q, r, i, j, k) == \E x \in {p, q, r} \ {i, j, k} : \A y \in {i, j, k} \ {p, q, r} : x > y

LEMMA ByTheHighest ==
  ASSUME NEW p \in Int, NEW q \in Int, NEW r \in Int, p > q, q > r,
         NEW i \in Int, NEW j \in Int, NEW k \in Int, i > j, j > k
  PROVE  Outranks(p, q, r, i, j, k) <=> Higher(p, q, r, i, j, k)
<1> USE DEF Outranks, Higher
<1>1. CASE p > i
  BY <1>1
<1>2. CASE p < i
  BY <1>2
<1>3. CASE p = i /\ q > j
  BY <1>3
<1>4. CASE p = i /\ q < j
  BY <1>4
<1>5. CASE p = i /\ q = j /\ r > k
  BY <1>5
<1>6. CASE p = i /\ q = j /\ r < k
  BY <1>6
<1>7. CASE p = i /\ q = j /\ r = k
  BY <1>7
<1> QED BY <1>1, <1>2, <1>3, <1>4, <1>5, <1>6, <1>7
\* A hand b is described by i, j, k and other, a hand a by p, q, r and oneColor.
BothAre(a, p, q, r, oneColor, b, i, j, k, other) ==
  /\ Ordered(p, q, r, oneColor) /\ Found(a, p, q, r, oneColor) /\ Ruled(a, p, q, r, oneColor)
  /\ Ordered(i, j, k, other) /\ Found(b, i, j, k, other) /\ Ruled(b, i, j, k, other)
  /\ TypeOf(p, q, r, oneColor) = TypeOf(i, j, k, other)

\* What Better says of two hands of one type
LEMMA BetterIs ==
  ASSUME NEW a, NEW p, NEW q, NEW r, NEW oneColor, NEW b, NEW i, NEW j, NEW k, NEW other,
         BothAre(a, p, q, r, oneColor, b, i, j, k, other)
  PROVE  LET t == TypeOf(p, q, r, oneColor) IN
         /\ t \in Straights => (Better(a, b) <=> Top(p, q, r) > Top(i, j, k))
         /\ t \in Doubles =>
              (Better(a, b) <=> q > j \/ (q = j /\ Third(p, q, r) > Third(i, j, k)))
         /\ t \notin Straights \cup Doubles => (Better(a, b) <=> Higher(p, q, r, i, j, k))
<1> PICK t, ta, tb : t = TypeOf(p, q, r, oneColor) /\ ta = Top(p, q, r) /\ tb = Top(i, j, k)
  OBVIOUS
<1>1. /\ p \in Int /\ q \in Int /\ r \in Int /\ p >= q /\ q >= r
      /\ i \in Int /\ j \in Int /\ k \in Int /\ i >= j /\ j >= k
  BY DEF BothAre, Ordered
<1>2. /\ Ranks(a) = {p, q, r} /\ Ranks(b) = {i, j, k} /\ Straight(a) = ta /\ Straight(b) = tb
      /\ Pairs(a) = IF p = r THEN {} ELSE IF p = q \/ q = r THEN {q} ELSE {}
      /\ Pairs(b) = IF i = k THEN {} ELSE IF i = j \/ j = k THEN {j} ELSE {}
  BY DEF BothAre, Ruled
<1>3. ta \in 0 .. 14 /\ tb \in 0 .. 14 /\ (t \in Straights <=> ta > 0) /\ (t \in Straights <=> tb > 0)
  BY TypesOf DEF BothAre
<1>4. /\ t \in Doubles <=> ta = 0 /\ p # r /\ (p = q \/ q = r)
      /\ t \in Doubles <=> tb = 0 /\ i # k /\ (i = j \/ j = k)
      /\ t = CT_BAO_ZI <=> p = r
      /\ t = CT_BAO_ZI <=> i = k
  BY TypesOf DEF BothAre
<1> DEFINE onlyA == {p, q, r} \ {i, j, k}
           onlyB == {i, j, k} \ {p, q, r}
           ranks == \E x \in onlyA : \A y \in onlyB : x > y
           pairs == \A x \in Pairs(a), y \in Pairs(b) : x > y
<1>5. Better(a, b) <=>
        CASE ta # tb -> ta > tb
          [] ta = tb /\ ta > 0 -> FALSE
          [] Pairs(a) # Pairs(b) -> pairs
          [] OTHER -> ranks
  BY <1>2 DEF Better
<1> HIDE DEF ranks, pairs
<1>6. ASSUME t \in Straights PROVE Better(a, b) <=> ta > tb
  <2>1. Pairs(a) = {} /\ Pairs(b) = {}
    <3>1. ta > 0 /\ tb > 0
      BY <1>3, <1>6
    <3> QED BY <1>1, <1>2, <3>1 DEF Top
  <2>2. CASE ta # tb
    BY <1>5, <2>1, <2>2, Zenon
  <2>3. CASE ta = tb
    <3>1. ta > 0
      BY <1>3, <1>6
    <3>2. ~Better(a, b)
      BY <1>5, <2>1, <2>3, <3>1, Zenon
    <3> QED BY <1>3, <2>3, <3>2
  <2> QED BY <2>2, <2>3
<1>7. ASSUME t \notin Straights PROVE Better(a, b) <=> IF Pairs(a) # Pairs(b) THEN pairs ELSE ranks
  <2>1. ta = tb /\ ~(ta > 0)
    BY <1>3, <1>7
  <2> QED BY <1>5, <2>1, Zenon
<1>8. ASSUME t \in Doubles
      PROVE  Better(a, b) <=> q > j \/ (q = j /\ Third(p, q, r) > Third(i, j, k))
  <2>1. Pairs(a) = {q} /\ Pairs(b) = {j} /\ t \notin Straights
    BY <1>2, <1>3, <1>4, <1>8
  <2>2. CASE q # j
    <3>1. pairs <=> q > j
      BY <2>1 DEF pairs
    <3> QED BY <1>7, <2>1, <2>2, <3>1
  <2>3. CASE q = j
    <3>1. (p = q /\ r < q) \/ (p > q /\ r = q)
      BY <1>1, <1>4, <1>8
    <3>2. (i = j /\ k < j) \/ (i > j /\ k = j)
      BY <1>1, <1>4, <1>8
    <3> PICK x \in Int, y \in Int : x = Third(p, q, r) /\ y = Third(i, j, k)
      BY <1>1 DEF Third
    <3>3. {p, q, r} = {q, x} /\ {i, j, k} = {q, y} /\ x # q /\ y # q
      BY <2>3, <3>1, <3>2 DEF Third
    <3>4. ranks <=> x > y
      <4>1. CASE x = y
        BY <3>3, <4>1 DEF ranks
      <4>2. CASE x # y
        <5>1. onlyA = {x} /\ onlyB = {y}
          BY <3>3, <4>2
        <5> HIDE DEF onlyA, onlyB
        <5> QED BY <5>1 DEF ranks
      <4> QED BY <4>1, <4>2
    <3>5. Better(a, b) <=> ranks
      BY <1>7, <2>1, <2>3
    <3> QED BY <1>1, <2>3, <3>4, <3>5
  <2> QED BY <2>2, <2>3
<1>9. ASSUME t \notin Straights \cup Doubles PROVE Better(a, b) <=> Higher(p, q, r, i, j, k)
  <2>1. ta = 0 /\ tb = 0 /\ t \notin Straights /\ t \notin Doubles
    BY <1>3, <1>9
  <2>2. Pairs(a) = {} /\ Pairs(b) = {}
    BY <1>2, <1>4, <2>1
  <2>3. Better(a, b) <=> ranks
    BY <1>7, <2>1, <2>2
  <2>4. CASE t = CT_BAO_ZI
    <3>1. p = q /\ q = r /\ i = j /\ j = k
      BY <1>1, <1>4, <2>4
    <3>2. ranks <=> p > i
      BY <1>1, <3>1 DEF ranks
    <3> QED BY <1>1, <2>3, <3>1, <3>2 DEF Higher
  <2>5. CASE t # CT_BAO_ZI
    <3>1. p > q /\ q > r /\ i > j /\ j > k
      BY <1>1, <1>4, <2>1, <2>5
    <3>2. Outranks(p, q, r, i, j, k) <=> Higher(p, q, r, i, j, k)
      BY <1>1, <3>1, ByTheHighest
    <3>3. ranks <=> Higher(p, q, r, i, j, k)
      BY <3>2 DEF ranks, Outranks
    <3> QED BY <2>3, <3>3
  <2> QED BY <2>4, <2>5
<1> QED BY <1>6, <1>8, <1>9

\* What CompareCard returns for two hands of one type
LEMMA CompareIs ==
  ASSUME NEW a, NEW p, NEW q, NEW r, NEW oneColor, NEW b, NEW i, NEW j, NEW k, NEW other,
         BothAre(a, p, q, r, oneColor, b, i, j, k, other)
  PROVE  LET t == TypeOf(p, q, r, oneColor) IN
         /\ t \in Straights =>
              Says(CompareCard(a, b), Top(p, q, r) > Top(i, j, k), Top(i, j, k) > Top(p, q, r))
         /\ t \in Doubles =>
              Says(CompareCard(a, b),
                     q > j \/ (q = j /\ Third(p, q, r) > Third(i, j, k)),
                     j > q \/ (j = q /\ Third(i, j, k) > Third(p, q, r)))
         /\ t \notin Straights \cup Doubles =>
              Says(CompareCard(a, b), Higher(p, q, r, i, j, k), Higher(i, j, k, p, q, r))
<1> PICK t, ta, tb, x, y :
      /\ t = TypeOf(p, q, r, oneColor) /\ ta = Top(p, q, r) /\ tb = Top(i, j, k)
      /\ x = Third(p, q, r) /\ y = Third(i, j, k)
  OBVIOUS
<1>1. /\ p \in Int /\ q \in Int /\ r \in Int /\ i \in Int /\ j \in Int /\ k \in Int
      /\ ta \in Int /\ tb \in Int /\ x \in Int /\ y \in Int
  BY TypesOf DEF BothAre, Ordered, Third
<1>2. GetCardType(a) = GetCardType(b)
  BY DEF BothAre, Found
<1> PICK f, n : f = Keys(a) /\ n = Keys(b)
  OBVIOUS
<1>3. ASSUME t \in Straights
      PROVE  Says(CompareCard(a, b), ta > tb, tb > ta)
  <2>1. DOMAIN f = 1 .. 1 /\ f[1] = ta /\ n[1] = tb
    BY <1>3, KeysAre DEF BothAre
  <2>2. CASE ta = tb
    <3>1. \A v \in 1 .. 1 : f[v] = n[v]
      BY <2>1, <2>2
    <3>2. CompareCard(a, b) = DRAW
      BY <1>2, <2>1, <3>1, ComparesKeys
    <3> QED BY <1>1, <2>2, <3>2 DEF Says
  <2>3. CASE ta # tb
    <3>1. f[1] # n[1] /\ \A v \in 1 .. 1 - 1 : f[v] = n[v]
      BY <2>1, <2>3
    <3>2. (f[1] > n[1] => CompareCard(a, b) = 1) /\ (~(f[1] > n[1]) => CompareCard(a, b) = 0)
      BY <1>2, <2>1, <3>1, ComparesKeys
    <3> QED BY <1>1, <2>1, <2>3, <3>2 DEF Says
  <2> QED BY <2>2, <2>3
<1>4. ASSUME t \in Doubles
      PROVE  Says(CompareCard(a, b), q > j \/ (q = j /\ x > y), j > q \/ (j = q /\ y > x))
  <2>1. DOMAIN f = 1 .. 2 /\ f[1] = q /\ f[2] = x /\ n[1] = j /\ n[2] = y
    BY <1>4, KeysAre DEF BothAre
  <2>2. CASE q = j /\ x = y
    <3>1. \A v \in 1 .. 2 : f[v] = n[v]
      BY <2>1, <2>2
    <3>2. CompareCard(a, b) = DRAW
      BY <1>2, <2>1, <3>1, ComparesKeys
    <3> QED BY <1>1, <2>2, <3>2 DEF Says
  <2>3. CASE q # j
    <3>1. f[1] # n[1] /\ \A v \in 1 .. 1 - 1 : f[v] = n[v]
      BY <2>1, <2>3
    <3>2. (f[1] > n[1] => CompareCard(a, b) = 1) /\ (~(f[1] > n[1]) => CompareCard(a, b) = 0)
      BY <1>2, <2>1, <3>1, ComparesKeys
    <3> QED BY <1>1, <2>1, <2>3, <3>2 DEF Says
  <2>4. CASE q = j /\ x # y
    <3>1. f[2] # n[2] /\ \A v \in 1 .. 2 - 1 : f[v] = n[v]
      BY <2>1, <2>4
    <3>2. (f[2] > n[2] => CompareCard(a, b) = 1) /\ (~(f[2] > n[2]) => CompareCard(a, b) = 0)
      BY <1>2, <2>1, <3>1, ComparesKeys
    <3> QED BY <1>1, <2>1, <2>4, <3>2 DEF Says
  <2> QED BY <2>2, <2>3, <2>4
<1>5. ASSUME t \notin Straights \cup Doubles
      PROVE  Says(CompareCard(a, b), Higher(p, q, r, i, j, k), Higher(i, j, k, p, q, r))
  <2>1. DOMAIN f = 1 .. 3 /\ f[1] = p /\ f[2] = q /\ f[3] = r /\ n[1] = i /\ n[2] = j /\ n[3] = k
    BY <1>5, KeysAre DEF BothAre
  <2>2. CASE p = i /\ q = j /\ r = k
    <3>1. \A v \in 1 .. 3 : f[v] = n[v]
      BY <2>1, <2>2
    <3>2. CompareCard(a, b) = DRAW
      BY <1>2, <2>1, <3>1, ComparesKeys
    <3> QED BY <1>1, <2>2, <3>2 DEF Says, Higher
  <2>3. CASE p # i
    <3>1. f[1] # n[1] /\ \A v \in 1 .. 1 - 1 : f[v] = n[v]
      BY <2>1, <2>3
    <3>2. (f[1] > n[1] => CompareCard(a, b) = 1) /\ (~(f[1] > n[1]) => CompareCard(a, b) = 0)
      BY <1>2, <2>1, <3>1, ComparesKeys
    <3> QED BY <1>1, <2>1, <2>3, <3>2 DEF Says, Higher
  <2>4. CASE p = i /\ q # j
    <3>1. f[2] # n[2] /\ \A v \in 1 .. 2 - 1 : f[v] = n[v]
      BY <2>1, <2>4
    <3>2. (f[2] > n[2] => CompareCard(a, b) = 1) /\ (~(f[2] > n[2]) => CompareCard(a, b) = 0)
      BY <1>2, <2>1, <3>1, ComparesKeys
    <3> QED BY <1>1, <2>1, <2>4, <3>2 DEF Says, Higher
  <2>5. CASE p = i /\ q = j /\ r # k
    <3>1. f[3] # n[3] /\ \A v \in 1 .. 3 - 1 : f[v] = n[v]
      BY <2>1, <2>5
    <3>2. (f[3] > n[3] => CompareCard(a, b) = 1) /\ (~(f[3] > n[3]) => CompareCard(a, b) = 0)
      BY <1>2, <2>1, <3>1, ComparesKeys
    <3> QED BY <1>1, <2>1, <2>5, <3>2 DEF Says, Higher
  <2> QED BY <2>2, <2>3, <2>4, <2>5
<1> QED BY <1>3, <1>4, <1>5

\* CompareCard says what the rules say, which never say of two hands that each is
\* the stronger one.
LEMMA TheStrongerWins ==
  ASSUME NEW a \in Hands, NEW b \in Hands
  PROVE  /\ Says(CompareCard(a, b), IsStronger(a, b), IsStronger(b, a))
         /\ ~(IsStronger(a, b) /\ IsStronger(b, a))
<1>1. PICK p, q, r, oneColor : Ordered(p, q, r, oneColor) /\ Found(a, p, q, r, oneColor) /\ Ruled(a, p, q, r, oneColor)
  BY HandsAreDescribed
<1>2. PICK i, j, k, other : Ordered(i, j, k, other) /\ Found(b, i, j, k, other) /\ Ruled(b, i, j, k, other)
  BY HandsAreDescribed
<1> PICK ta, tb : ta = TypeOf(p, q, r, oneColor) /\ tb = TypeOf(i, j, k, other)
  OBVIOUS
<1>3. /\ ta \in Int /\ GetCardType(a) = ta /\ RuledType(a) = ta
      /\ tb \in Int /\ GetCardType(b) = tb /\ RuledType(b) = tb
  BY <1>1, <1>2, TypesOf DEF Types, Found, Ruled
<1>9. /\ p \in Int /\ q \in Int /\ r \in Int /\ i \in Int /\ j \in Int /\ k \in Int
      /\ Top(p, q, r) \in Int /\ Top(i, j, k) \in Int /\ Third(p, q, r) \in Int /\ Third(i, j, k) \in Int
  BY <1>1, <1>2, TypesOf DEF Ordered, Third
<1>4. CASE ta # tb
  <2>1. (ta > tb => CompareCard(a, b) = 1) /\ (~(ta > tb) => CompareCard(a, b) = 0)
    BY <1>3, <1>4 DEF CompareCard
  <2>2. (IsStronger(a, b) <=> ta > tb) /\ (IsStronger(b, a) <=> tb > ta)
    BY <1>3, <1>4 DEF IsStronger
  <2> QED BY <1>3, <1>4, <2>1, <2>2 DEF Says
<1>5. CASE ta = tb
  <2>1. BothAre(a, p, q, r, oneColor, b, i, j, k, other) /\ BothAre(b, i, j, k, other, a, p, q, r, oneColor)
    BY <1>1, <1>2, <1>5 DEF BothAre
  <2>2. (IsStronger(a, b) <=> Better(a, b)) /\ (IsStronger(b, a) <=> Better(b, a))
    BY <1>3, <1>5 DEF IsStronger
  <2>3. CASE ta \in Straights
    <3>1. Better(a, b) <=> Top(p, q, r) > Top(i, j, k)
      BY <2>1, <2>3, BetterIs
    <3>2. Better(b, a) <=> Top(i, j, k) > Top(p, q, r)
      BY <1>5, <2>1, <2>3, BetterIs
    <3>3. Says(CompareCard(a, b), Top(p, q, r) > Top(i, j, k), Top(i, j, k) > Top(p, q, r))
      BY <2>1, <2>3, CompareIs
    <3>4. ~(Better(a, b) /\ Better(b, a))
      BY <1>9, <3>1, <3>2 DEF Higher
    <3> QED BY <2>2, <3>1, <3>2, <3>3, <3>4 DEF Says
  <2>4. CASE ta \in Doubles
    <3>1. Better(a, b) <=> q > j \/ (q = j /\ Third(p, q, r) > Third(i, j, k))
      BY <2>1, <2>4, BetterIs
    <3>2. Better(b, a) <=> j > q \/ (j = q /\ Third(i, j, k) > Third(p, q, r))
      BY <1>5, <2>1, <2>4, BetterIs
    <3>3. Says(CompareCard(a, b),
                 q > j \/ (q = j /\ Third(p, q, r) > Third(i, j, k)),
                 j > q \/ (j = q /\ Third(i, j, k) > Third(p, q, r)))
      BY <2>1, <2>4, CompareIs
    <3>4. ~(Better(a, b) /\ Better(b, a))
      BY <1>9, <3>1, <3>2 DEF Higher
    <3> QED BY <2>2, <3>1, <3>2, <3>3, <3>4 DEF Says
  <2>5. CASE ta \notin Straights \cup Doubles
    <3>1. Better(a, b) <=> Higher(p, q, r, i, j, k)
      BY <2>1, <2>5, BetterIs
    <3>2. Better(b, a) <=> Higher(i, j, k, p, q, r)
      BY <1>5, <2>1, <2>5, BetterIs
    <3>3. Says(CompareCard(a, b), Higher(p, q, r, i, j, k), Higher(i, j, k, p, q, r))
      BY <2>1, <2>5, CompareIs
    <3>4. ~(Better(a, b) /\ Better(b, a))
      BY <1>9, <3>1, <3>2 DEF Higher
    <3> QED BY <2>2, <3>1, <3>2, <3>3, <3>4 DEF Says
  <2> QED BY <2>3, <2>4, <2>5
<1> QED BY <1>4, <1>5

\* Whichever hand comes first, CompareCard says what the rules say.
THEOREM CompareCardFollowsTheRules ==
  ASSUME NEW a \in Hands, NEW b \in Hands
  PROVE  CompareCard(a, b) = IF IsStronger(a, b) THEN 1 ELSE IF IsStronger(b, a) THEN 0 ELSE DRAW
<1>1. Says(CompareCard(a, b), IsStronger(a, b), IsStronger(b, a))
  BY TheStrongerWins
<1> QED BY <1>1, Zenon DEF Says

-----------------------------------------------------------------------------
(* CompareCard is an order                                                 *)

\* A hand's type and what decides between it and others of the type
Weighs(h, t, k, l, m) ==
  \E p, q, r, oneColor :
    /\ Ordered(p, q, r, oneColor) /\ Found(h, p, q, r, oneColor) /\ Ruled(h, p, q, r, oneColor)
    /\ t = TypeOf(p, q, r, oneColor)
    /\ t \in Straights => k = Top(p, q, r) /\ l = 0 /\ m = 0
    /\ t \in Doubles => k = q /\ l = Third(p, q, r) /\ m = 0
    /\ t \notin Straights \cup Doubles => k = p /\ l = q /\ m = r

Heavier(t, k, l, m, u, x, y, z) == t > u \/ (t = u /\ Higher(k, l, m, x, y, z))

LEMMA HandsWeigh ==
  ASSUME NEW h \in Hands
  PROVE  \E t, k, l, m \in Nat : Weighs(h, t, k, l, m)
<1>1. PICK p, q, r, oneColor : Ordered(p, q, r, oneColor) /\ Found(h, p, q, r, oneColor) /\ Ruled(h, p, q, r, oneColor)
  BY HandsAreDescribed
<1> DEFINE t == TypeOf(p, q, r, oneColor)
           third == Third(p, q, r)
           top == Top(p, q, r)
<1>2. t \in Nat /\ top \in Nat /\ p \in Nat /\ q \in Nat /\ r \in Nat /\ 0 \in Nat
  <2>1. t \in Types /\ top \in 0 .. 14
    BY <1>1, TypesOf
  <2> HIDE DEF t, top
  <2> QED BY <1>1, <2>1 DEF Ordered, Types
<1>3. third \in Nat
  BY <1>2 DEF Third
<1>4. Straights \cap Doubles = {}
  BY DEF Straights, Doubles, CT_SHUN_ZI, CT_SHUN_JIN, CT_DOUBLE, CT_DOUBLE_SHINE
<1>5. CASE t \in Straights
  <2>1. Weighs(h, t, top, 0, 0)
    BY <1>1, <1>4, <1>5 DEF Weighs
  <2> HIDE DEF t, top
  <2> QED BY <1>2, <2>1
<1>6. CASE t \in Doubles
  <2>1. Weighs(h, t, q, third, 0)
    BY <1>1, <1>4, <1>6 DEF Weighs
  <2> HIDE DEF t, third
  <2> QED BY <1>2, <1>3, <2>1
<1>7. CASE t \notin Straights \cup Doubles
  <2>1. Weighs(h, t, p, q, r)
    BY <1>1, <1>7 DEF Weighs
  <2> HIDE DEF t
  <2> QED BY <1>2, <2>1
<1> QED BY <1>5, <1>6, <1>7

LEMMA TheHeavierIsStronger ==
  ASSUME NEW a, NEW b, NEW t \in Nat, NEW k \in Nat, NEW l \in Nat, NEW m \in Nat,
         NEW u \in Nat, NEW x \in Nat, NEW y \in Nat, NEW z \in Nat,
         Weighs(a, t, k, l, m), Weighs(b, u, x, y, z)
  PROVE  IsStronger(a, b) <=> Heavier(t, k, l, m, u, x, y, z)
<1>1. PICK p, q, r, oneColor :
        /\ Ordered(p, q, r, oneColor) /\ Found(a, p, q, r, oneColor) /\ Ruled(a, p, q, r, oneColor)
        /\ t = TypeOf(p, q, r, oneColor)
        /\ t \in Straights => k = Top(p, q, r) /\ l = 0 /\ m = 0
        /\ t \in Doubles => k = q /\ l = Third(p, q, r) /\ m = 0
        /\ t \notin Straights \cup Doubles => k = p /\ l = q /\ m = r
  BY DEF Weighs
<1>2. PICK i, j, n, other :
        /\ Ordered(i, j, n, other) /\ Found(b, i, j, n, other) /\ Ruled(b, i, j, n, other)
        /\ u = TypeOf(i, j, n, other)
        /\ u \in Straights => x = Top(i, j, n) /\ y = 0 /\ z = 0
        /\ u \in Doubles => x = j /\ y = Third(i, j, n) /\ z = 0
        /\ u \notin Straights \cup Doubles => x = i /\ y = j /\ z = n
  BY DEF Weighs
<1>3. RuledType(a) = t /\ RuledType(b) = u
  BY <1>1, <1>2 DEF Ruled
<1>4. CASE t # u
  BY <1>3, <1>4 DEF IsStronger, Heavier
<1>5. CASE t = u
  <2>1. BothAre(a, p, q, r, oneColor, b, i, j, n, other)
    BY <1>1, <1>2, <1>5 DEF BothAre
  <2>2. /\ t \in Straights => (Better(a, b) <=> Top(p, q, r) > Top(i, j, n))
        /\ t \in Doubles =>
             (Better(a, b) <=> q > j \/ (q = j /\ Third(p, q, r) > Third(i, j, n)))
        /\ t \notin Straights \cup Doubles => (Better(a, b) <=> Higher(p, q, r, i, j, n))
    BY <1>1, <2>1, BetterIs
  <2>3. Better(a, b) <=> Higher(k, l, m, x, y, z)
    <3>1. CASE t \in Straights
      BY <1>1, <1>2, <1>5, <2>2, <3>1 DEF Higher
    <3>2. CASE t \in Doubles
      BY <1>1, <1>2, <1>5, <2>2, <3>2 DEF Higher
    <3>3. CASE t \notin Straights \cup Doubles
      BY <1>1, <1>2, <1>5, <2>2, <3>3
    <3> QED BY <3>1, <3>2, <3>3
  <2>4. IsStronger(a, b) <=> Better(a, b)
    BY <1>3, <1>5 DEF IsStronger
  <2> QED BY <1>5, <2>3, <2>4 DEF Heavier
<1> QED BY <1>4, <1>5

\* Who is not weaker
AtLeast(a, b) == CompareCard(a, b) # 0

\* CompareCard orders the hands: a hand equals itself, of two hands exactly one wins
\* or both ways say that they are equal, and a hand that is not weaker than a second,
\* which is not weaker than a third, is not weaker than the third, and wins if either
\* of the two won.
THEOREM CompareCardOrdersTheHands ==
  ASSUME NEW a \in Hands, NEW b \in Hands, NEW c \in Hands
  PROVE  /\ CompareCard(a, a) = DRAW
         /\ CompareCard(a, b) = 1 <=> CompareCard(b, a) = 0
         /\ AtLeast(a, b) /\ AtLeast(b, c) => AtLeast(a, c)
         /\ AtLeast(a, b) /\ AtLeast(b, c) /\ 1 \in {CompareCard(a, b), CompareCard(b, c)} =>
              CompareCard(a, c) = 1
<1>1. PICK t \in Nat, k \in Nat, l \in Nat, m \in Nat : Weighs(a, t, k, l, m)
  BY HandsWeigh
<1>2. PICK u \in Nat, x \in Nat, y \in Nat, z \in Nat : Weighs(b, u, x, y, z)
  BY HandsWeigh
<1>3. PICK v \in Nat, i \in Nat, j \in Nat, n \in Nat : Weighs(c, v, i, j, n)
  BY HandsWeigh
<1>4. /\ IsStronger(a, a) <=> Heavier(t, k, l, m, t, k, l, m)
      /\ IsStronger(a, b) <=> Heavier(t, k, l, m, u, x, y, z)
      /\ IsStronger(b, a) <=> Heavier(u, x, y, z, t, k, l, m)
      /\ IsStronger(b, c) <=> Heavier(u, x, y, z, v, i, j, n)
      /\ IsStronger(c, b) <=> Heavier(v, i, j, n, u, x, y, z)
      /\ IsStronger(a, c) <=> Heavier(t, k, l, m, v, i, j, n)
      /\ IsStronger(c, a) <=> Heavier(v, i, j, n, t, k, l, m)
  BY <1>1, <1>2, <1>3, TheHeavierIsStronger
<1>5. /\ Says(CompareCard(a, a), IsStronger(a, a), IsStronger(a, a))
      /\ Says(CompareCard(a, b), IsStronger(a, b), IsStronger(b, a))
      /\ Says(CompareCard(b, a), IsStronger(b, a), IsStronger(a, b))
      /\ Says(CompareCard(b, c), IsStronger(b, c), IsStronger(c, b))
      /\ Says(CompareCard(a, c), IsStronger(a, c), IsStronger(c, a))
  BY TheStrongerWins
<1>6. /\ ~Heavier(t, k, l, m, t, k, l, m)
      /\ ~(Heavier(t, k, l, m, u, x, y, z) /\ Heavier(u, x, y, z, t, k, l, m))
  BY DEF Heavier, Higher
<1>7. /\ ~Heavier(u, x, y, z, t, k, l, m) /\ ~Heavier(v, i, j, n, u, x, y, z) =>
           ~Heavier(v, i, j, n, t, k, l, m)
      /\ Heavier(t, k, l, m, u, x, y, z) /\ ~Heavier(v, i, j, n, u, x, y, z) =>
           Heavier(t, k, l, m, v, i, j, n)
      /\ ~Heavier(u, x, y, z, t, k, l, m) /\ Heavier(u, x, y, z, v, i, j, n) =>
           Heavier(t, k, l, m, v, i, j, n)
  BY DEF Heavier, Higher
<1>8. /\ ~IsStronger(a, a)
      /\ ~(IsStronger(a, b) /\ IsStronger(b, a))
  BY <1>4, <1>6
<1>9. CompareCard(a, a) = DRAW
  BY <1>5, <1>8 DEF Says
<1>10. /\ CompareCard(a, b) = 1 <=> IsStronger(a, b)
       /\ CompareCard(b, a) = 0 <=> IsStronger(a, b)
       /\ AtLeast(a, b) <=> ~IsStronger(b, a)
  BY <1>5, <1>8 DEF Says, DRAW, AtLeast
<1>11. ~(IsStronger(b, c) /\ IsStronger(c, b)) /\ ~(IsStronger(a, c) /\ IsStronger(c, a))
  BY TheStrongerWins
<1>12. /\ CompareCard(b, c) = 1 <=> IsStronger(b, c)
       /\ AtLeast(b, c) <=> ~IsStronger(c, b)
       /\ CompareCard(a, c) = 1 <=> IsStronger(a, c)
       /\ AtLeast(a, c) <=> ~IsStronger(c, a)
  BY <1>5, <1>11 DEF Says, DRAW, AtLeast
<1>13. AtLeast(a, b) /\ AtLeast(b, c) => AtLeast(a, c)
  BY <1>4, <1>7, <1>10, <1>12
<1>14. AtLeast(a, b) /\ AtLeast(b, c) /\ 1 \in {CompareCard(a, b), CompareCard(b, c)} =>
         CompareCard(a, c) = 1
  BY <1>4, <1>7, <1>10, <1>12
<1> QED BY <1>9, <1>10, <1>13, <1>14
=============================================================================
