----------------------------- MODULE CardLogic -----------------------------
(***************************************************************************)
(* CGameLogic of the red-black game: what a hand of three cards is, and    *)
(* which of two hands wins.  A card is the byte of the program, its colour *)
(* in the high and its value (1 for an ace) in the low four bits.  A hand  *)
(* is the set of its cards: they come from one deck, and both operations   *)
(* sort a copy before they look at it.                                     *)
(***************************************************************************)
EXTENDS Integers, FiniteSets

MAX_COUNT == 3
DRAW == 2

CT_SINGLE == 1
CT_DOUBLE == 2
CT_DOUBLE_SHINE == 3
CT_SHUN_ZI == 4
CT_JIN_HUA == 5
CT_SHUN_JIN == 6
CT_BAO_ZI == 7

m_cbCardListData == {16 * color + value : color \in 0 .. 3, value \in 1 .. 13}

GetCardValue(card) == card % 16
GetCardColor(card) == card \div 16

\* An ace counts more than a king.
GetCardLogicValue(card) ==
  IF GetCardValue(card) = 1 THEN 14 ELSE GetCardValue(card)

IsBefore(a, b) ==
  \/ GetCardLogicValue(a) > GetCardLogicValue(b)
  \/ GetCardLogicValue(a) = GetCardLogicValue(b) /\ a > b

SortCardList(hand) ==
  CHOOSE s \in hand \X hand \X hand : IsBefore(s[1], s[2]) /\ IsBefore(s[2], s[3])

LogicValues(hand) ==
  LET s == SortCardList(hand) IN [i \in 1 .. MAX_COUNT |-> GetCardLogicValue(s[i])]

GetCardType(hand) ==
  LET v == LogicValues(hand)
      sameColor == \A c, d \in hand : GetCardColor(c) = GetCardColor(d)
      lineCard == \/ \A i \in 2 .. MAX_COUNT : v[1] = v[i] + i - 1
                  \/ {GetCardValue(c) : c \in hand} = {1, 2, 3}
      double == {i \in 1 .. MAX_COUNT - 1 : v[i] = v[i + 1]}   \* the list is sorted
  IN  CASE lineCard -> IF sameColor THEN CT_SHUN_JIN ELSE CT_SHUN_ZI
        [] ~lineCard /\ sameColor -> CT_JIN_HUA
        [] OTHER ->
             IF double = {} THEN CT_SINGLE
             ELSE IF double = 1 .. MAX_COUNT - 1 THEN CT_BAO_ZI
             ELSE IF \E i \in double : v[i] > 8 THEN CT_DOUBLE_SHINE ELSE CT_DOUBLE

\* Mutation: an ace, three and two count as the highest straight.
KeysAceHigh(hand) ==
  LET v == LogicValues(hand)
      type == GetCardType(hand)
  IN  CASE type \in {CT_SHUN_ZI, CT_SHUN_JIN} -> <<v[1]>>
        [] type \in {CT_DOUBLE, CT_DOUBLE_SHINE} ->
             IF v[1] = v[2] THEN <<v[1], v[3]>> ELSE <<v[3], v[1]>>
        [] OTHER -> v

\* Values to compare one after the other when the types are equal
Keys(hand) ==
  LET v == LogicValues(hand)
      type == GetCardType(hand)
  IN  CASE type \in {CT_SHUN_ZI, CT_SHUN_JIN} ->
             IF v[1] = 14 /\ v[3] = 2 THEN <<3>> ELSE <<v[1]>>
        [] type \in {CT_DOUBLE, CT_DOUBLE_SHINE} ->
             IF v[1] = v[2] THEN <<v[1], v[3]>> ELSE <<v[3], v[1]>>
        [] OTHER -> v

\* 1 or 0 as the first or the next hand wins, or DRAW.  CT_SPECIAL, which the
\* code also looks for, is the type of no hand.
CompareCard(first, next) ==
  LET f == Keys(first)
      n == Keys(next)
      differ == {i \in DOMAIN f : f[i] # n[i]}
      i == CHOOSE k \in differ : \A j \in differ : k <= j
      won(a, b) == IF a > b THEN 1 ELSE 0
  IN  IF GetCardType(first) # GetCardType(next)
      THEN won(GetCardType(first), GetCardType(next))
      ELSE IF differ = {} THEN DRAW ELSE won(f[i], n[i])

-----------------------------------------------------------------------------
(* The rules, to compare with: neither sorting nor positions               *)

Ranks(hand) == {GetCardLogicValue(c) : c \in hand}
Times(hand, r) == Cardinality({c \in hand : GetCardLogicValue(c) = r})
Pairs(hand) == {r \in Ranks(hand) : Times(hand, r) = 2}

\* The top of the straight a hand is, or 0
Straight(hand) ==
  IF Ranks(hand) = {14, 2, 3} THEN 3
  ELSE IF \E top \in 4 .. 14 : Ranks(hand) = top - 2 .. top
  THEN CHOOSE top \in Ranks(hand) : \A r \in Ranks(hand) : r <= top ELSE 0

Flush(hand) == Cardinality({GetCardColor(c) : c \in hand}) = 1

RuledType(hand) ==
  CASE Cardinality(Ranks(hand)) = 1 -> CT_BAO_ZI
    [] Straight(hand) > 0 /\ Flush(hand) -> CT_SHUN_JIN
    [] Straight(hand) = 0 /\ Flush(hand) -> CT_JIN_HUA
    [] Straight(hand) > 0 /\ ~Flush(hand) -> CT_SHUN_ZI
    [] Pairs(hand) # {} -> IF Pairs(hand) \subseteq 9 .. 14 THEN CT_DOUBLE_SHINE ELSE CT_DOUBLE
    [] OTHER -> CT_SINGLE

\* What decides between hands of one type: the straight's top, the pair before
\* the third card, or else the highest rank that only one of them has.
Better(a, b) ==
  LET onlyA == Ranks(a) \ Ranks(b)
      onlyB == Ranks(b) \ Ranks(a)
  IN  CASE Straight(a) # Straight(b) -> Straight(a) > Straight(b)
        [] Straight(a) = Straight(b) /\ Straight(a) > 0 -> FALSE
        [] Pairs(a) # Pairs(b) -> \A p \in Pairs(a), r \in Pairs(b) : p > r
        [] OTHER -> \E r \in onlyA : \A s \in onlyB : r > s

\* Whether hand a is stronger than hand b
IsStronger(a, b) ==
  \/ RuledType(a) > RuledType(b)
  \/ RuledType(a) = RuledType(b) /\ Better(a, b)
=============================================================================
