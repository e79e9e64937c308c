----------------------------- MODULE MCRedBlack -----------------------------
(* Instances of RedBlackRound and CardLogic for TLC.                         *)
EXTENDS RedBlackRound, TLC

Diamond(v) == v
Club(v) == 16 + v
Heart(v) == 32 + v
Hand(a, b, c) == {a, b, c}

\* The player's and the banker's hand: equal hands without a type, a pair of
\* nines against a pair of eights, and the two lowest straights.
DealsOfNote ==
  { <<Hand(Diamond(2), Club(5), Club(9)), Hand(Club(2), Diamond(5), Heart(9))>>,
    <<Hand(Diamond(9), Club(9), Club(2)), Hand(Diamond(8), Club(8), Club(1))>>,
    <<Hand(Diamond(1), Club(2), Club(3)), Hand(Diamond(2), Heart(3), Club(4))>> }

\* No user differs from another, and nothing is chosen from Users.
UserSymmetry == Permutations(Users)

\* Cards that make every type, straights from both ends of an ace, and pairs on
\* either side of what makes them large.
SmallDeck ==
  {Diamond(v) : v \in {1, 2, 3, 4, 8, 9}} \cup {Club(v) : v \in {1, 2, 8, 9}} \cup {Heart(9)}
=============================================================================
