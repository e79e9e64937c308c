--------------------------- MODULE RedBlackRound ---------------------------
(***************************************************************************)
(* The bets and the scores of the red-black game: CTableFrameSink of the   *)
(* subgame, at a table on which users sit down and stand up.  The attemper *)
(* thread runs its handlers one at a time.                                 *)
(*                                                                         *)
(* SCORE is a double.  Amounts are whole numbers here, of a thousandth of  *)
(* the least bet: the revenue, so many per mille of a win, is one too, and *)
(* nothing is rounded, as in the code nothing is truncated.  The fractions *)
(* of a bet that a client may send, unchecked, are left out, and with them *)
(* what sums of doubles lose.                                              *)
(*                                                                         *)
(* The system is the banker: m_wCurrentBanker never names a chair.  The    *)
(* cards are dealt when a round is settled and only sent to the clients    *)
(* after it.  That ConcludeGame takes users off the table is GameRoom's    *)
(* subject; here they stand up after the step.                             *)
(***************************************************************************)
EXTENDS CardLogic, FiniteSetsExt

CONSTANTS
  Users, NoUser,
  ChairCount,
  Scores,            \* scores users come with
  Bets,              \* amounts a client asks for, in thousandths of the least
  Deals,             \* what RandCardList may deal: the player's and the banker's hand
  lUserLimitScore, lAreaLimitScore,
  wRevenueRatio,     \* per mille of a win
  OffLineTrustee,    \* cbOffLineTrustee = TRUE
  ChipsSet,          \* the chip table behind the bets in memory is not all zero
  Deck,              \* cards whose hands are compared with the rules
  MaxRounds          \* bounds the rounds played

Chair == 0 .. ChairCount - 1
AREA_XIAN == 0
AREA_ZHUANG == 1
AREA_PING == 2
AREA_MAX == 3
Area == 0 .. AREA_MAX - 1

ASSUME RoundAssumption ==
  /\ NoUser \notin Users /\ ChairCount \in Nat \ {0}
  /\ Scores \subseteq Nat
  /\ Bets \subseteq Nat \ {0} /\ \A b \in Bets : b % 1000 = 0
  /\ lUserLimitScore \in Nat /\ lAreaLimitScore \in Nat
  /\ \A d \in Deals :
       /\ \A hand \in {d[1], d[2]} :
            hand \subseteq m_cbCardListData /\ Cardinality(hand) = MAX_COUNT
       /\ d[1] \cap d[2] = {}
  /\ wRevenueRatio \in 0 .. 1000 /\ MaxRounds \in Nat \ {0}
  /\ {OffLineTrustee, ChipsSet} \subseteq BOOLEAN /\ Deck \subseteq m_cbCardListData

VARIABLES
  user,      \* the user on a chair
  playing,   \* chairs whose user is US_PLAYING (or US_OFFLINE), not US_READY
  score,     \* lScore of the users
  lPlayBet, lAllBet,
  lUserWinScore, lUserRevenue, lBankerWin,  \* lBankerCurGameScore
  timers,    \* the game timers that are armed
  rounds,    \* rounds begun
  owed       \* history: what the last settlement gave a playing user that has
             \* not withdrawn since

table == <<user, playing>>
bets  == <<lPlayBet, lAllBet>>
result == <<lUserWinScore, lUserRevenue, lBankerWin>>
vars  == <<table, score, bets, result, timers, rounds, owed>>

Sum(f, S) == MapThenSumSet(LAMBDA x : f[x], S)

NoBets == [c \in Chair |-> [a \in Area |-> 0]]
Occupied == {c \in Chair : user[c] # NoUser}
ScoreOf(c) == score[user[c]]

-----------------------------------------------------------------------------
(* Users come and go                                                       *)

\* The first user starts the game and the timer.
OnActionUserSitDown(u, c) ==
  /\ user[c] = NoUser /\ u \notin {user[d] : d \in Chair}
  /\ user' = [user EXCEPT ![c] = u]
  /\ IF rounds = 0
     THEN timers' = {"IDI_PLACE_JETTON"} /\ rounds' = 1 /\ playing' = {c}
     ELSE UNCHANGED <<timers, rounds, playing>>
  /\ UNCHANGED <<score, bets, result, owed>>

\* Reads one element too far: the next chair's first area or the chip table.
OnEventGetBetStatus(c) ==
  \/ \E a \in Area : lPlayBet[c][a] # 0
  \/ c + 1 \in Chair /\ lPlayBet[c + 1][AREA_XIAN] # 0
  \/ c + 1 \notin Chair /\ ChipsSet

\* The bets stay on the chair.
OnActionUserStandUp(c) ==
  /\ user[c] # NoUser
  /\ ~(OffLineTrustee /\ c \in playing /\ OnEventGetBetStatus(c))
  /\ user' = [user EXCEPT ![c] = NoUser] /\ playing' = playing \ {c}
  /\ owed' = [owed EXCEPT ![user[c]] = 0]
  /\ UNCHANGED <<score, bets, result, timers, rounds>>

-----------------------------------------------------------------------------
(* Game messages                                                           *)

GetGameStatus == "GAME_SCENE_BET"     \* CTableFrame::GetGameStatus returns 0

\* Mutation: the area's limit is left out.
GetMaxPlayerScoreNoAreaLimit(c, a) ==
  IF a >= AREA_MAX THEN 0
  ELSE Max({0, Min({ScoreOf(c) - Sum(lPlayBet[c], Area), lUserLimitScore - lPlayBet[c][a]})})

GetMaxPlayerScore(c, a) ==
  IF a >= AREA_MAX THEN 0
  ELSE Max({0, Min({ScoreOf(c) - Sum(lPlayBet[c], Area),
                    lUserLimitScore - lPlayBet[c][a],
                    lAreaLimitScore - lAllBet[a]})})

\* Every refusal leaves the state alone.  The area check lets AREA_MAX through.
OnUserPlayBet(c, a, lBetScore) ==
  /\ user[c] # NoUser /\ GetGameStatus = "GAME_SCENE_BET"
  /\ LET lBetCount == Sum(lPlayBet[c], Area)
     IN  /\ ScoreOf(c) >= lBetCount + lBetScore
         /\ lUserLimitScore >= lBetCount + lBetScore
  /\ GetMaxPlayerScore(c, a) >= lBetScore
  /\ lAllBet' = [lAllBet EXCEPT ![a] = @ + lBetScore]
  /\ lPlayBet' = [lPlayBet EXCEPT ![c][a] = @ + lBetScore]
  /\ UNCHANGED <<table, score, result, timers, rounds, owed>>

\* Mutation: the areas' totals keep what was withdrawn.
OnUserWithdrawKeepsTotal(c) ==
  /\ user[c] # NoUser
  /\ lPlayBet' = [lPlayBet EXCEPT ![c] = [a \in Area |-> 0]]
  /\ owed' = [owed EXCEPT ![user[c]] = 0]
  /\ UNCHANGED <<table, score, lAllBet, result, timers, rounds>>

\* SUB_C_CHEHUI, accepted at any time
OnUserWithdraw(c) ==
  /\ user[c] # NoUser
  /\ lAllBet' = [a \in Area |-> lAllBet[a] - lPlayBet[c][a]]
  /\ lPlayBet' = [lPlayBet EXCEPT ![c] = [a \in Area |-> 0]]
  /\ owed' = [owed EXCEPT ![user[c]] = 0]
  /\ UNCHANGED <<table, score, result, timers, rounds>>

-----------------------------------------------------------------------------
(* Timers                                                                  *)

\* pingPoint - 1 for the highest type of the two hands
PingOdds(type) == <<0, 0, 1, 2, 3, 5, 10>>[type]

\* What an area of a chair brings
AreaScore(c, a, outcome) ==
  CASE a = outcome.side -> lPlayBet[c][a]
    [] a = AREA_PING /\ outcome.type > CT_DOUBLE -> lPlayBet[c][a] * PingOdds(outcome.type)
    [] OTHER -> -lPlayBet[c][a]

\* Mutation: the banker's hand wins unless the player's is stronger.
WinSideBankerFirst(player, banker) ==
  IF CompareCard(player, banker) = 1 THEN AREA_XIAN ELSE AREA_ZHUANG

\* CompareCard's result as a truth value: equal hands are the player's.
WinSide(player, banker) ==
  IF CompareCard(player, banker) # 0 THEN AREA_XIAN ELSE AREA_ZHUANG

\* What a deal decides: the side that wins and the higher type of the two hands
Outcome ==
  [d \in Deals |-> [side |-> WinSide(d[1], d[2]), type |-> Max({GetCardType(d[1]), GetCardType(d[2])})]]

\* The revenue is a product of doubles: the division leaves no rest, because bets
\* are thousands.
CalculateScore(deal) ==
  LET gross == [c \in Chair |->
        IF user[c] = NoUser THEN 0
        ELSE Sum([a \in Area |-> AreaScore(c, a, Outcome[deal])], Area)]
  IN  /\ lUserRevenue' = [c \in Chair |->
           IF gross[c] > 0 THEN (gross[c] * wRevenueRatio) \div 1000 ELSE 0]
      /\ lUserWinScore' = [c \in Chair |-> gross[c] - lUserRevenue'[c]]
      /\ lBankerWin' = - Sum(gross, Chair)

OnTimerPlaceJetton(deal) ==
  /\ "IDI_PLACE_JETTON" \in timers
  /\ CalculateScore(deal)
  /\ timers' = (timers \ {"IDI_PLACE_JETTON"}) \cup {"IDI_GAME_END"}
  /\ owed' = [u \in Users |->
       IF \E c \in playing : user[c] = u
       THEN lUserWinScore'[CHOOSE c \in Chair : user[c] = u] ELSE 0]
  /\ UNCHANGED <<table, score, bets, rounds>>

\* Mutation: only the first area is looked at.
HasBetOnFirst(c) == lPlayBet[c][AREA_XIAN] # 0

HasBet(c) == \E a \in Area : lPlayBet[c][a] # 0

\* Mutation: the loss is not cut at the user's score.
WrittenInFull(c) == lUserWinScore[c]

\* No score goes below zero.
Written(c) == Max({lUserWinScore[c], - ScoreOf(c)})

\* Mutation: the next round's timer is not armed.
OnTimerGameEndStops ==
  /\ "IDI_GAME_END" \in timers /\ rounds < MaxRounds
  /\ score' = [u \in Users |->
       LET at == {c \in Occupied : user[c] = u /\ HasBet(c)}
       IN  score[u] + Sum([c \in at |-> Written(c)], at)]
  /\ lPlayBet' = NoBets /\ lAllBet' = [a \in Area |-> 0]
  /\ lUserWinScore' = [c \in Chair |-> 0] /\ lUserRevenue' = [c \in Chair |-> 0]
  /\ playing' = Occupied /\ timers' = timers \ {"IDI_GAME_END"}
  /\ rounds' = rounds + 1 /\ owed' = [u \in Users |-> 0]
  /\ UNCHANGED <<user, lBankerWin>>

\* WriteUserScore for the chairs with a bet; ConcludeGame calls RepositionSink
\* and StartGame makes everyone at the table play.  KillGameTimer does nothing.
OnTimerGameEnd ==
  /\ "IDI_GAME_END" \in timers /\ rounds < MaxRounds
  /\ score' = [u \in Users |->
       LET at == {c \in Occupied : user[c] = u /\ HasBet(c)}
       IN  score[u] + Sum([c \in at |-> Written(c)], at)]
  /\ lPlayBet' = NoBets /\ lAllBet' = [a \in Area |-> 0]
  /\ lUserWinScore' = [c \in Chair |-> 0] /\ lUserRevenue' = [c \in Chair |-> 0]
  /\ playing' = Occupied
  /\ timers' = (timers \ {"IDI_GAME_END"}) \cup {"IDI_PLACE_JETTON"}
  /\ rounds' = rounds + 1 /\ owed' = [u \in Users |-> 0]
  /\ UNCHANGED <<user, lBankerWin>>

-----------------------------------------------------------------------------
Init ==
  /\ user = [c \in Chair |-> NoUser] /\ playing = {}
  /\ score \in [Users -> Scores]
  /\ lPlayBet = NoBets /\ lAllBet = [a \in Area |-> 0]
  /\ lUserWinScore = [c \in Chair |-> 0] /\ lUserRevenue = [c \in Chair |-> 0]
  /\ lBankerWin = 0
  /\ timers = {} /\ rounds = 0 /\ owed = [u \in Users |-> 0]

Next ==
  \/ \E c \in Chair :
       \/ \E u \in Users : OnActionUserSitDown(u, c)
       \/ OnActionUserStandUp(c)
       \/ \E a \in 0 .. AREA_MAX, b \in Bets : OnUserPlayBet(c, a, b)
       \/ OnUserWithdraw(c)
  \/ \E deal \in Deals : OnTimerPlaceJetton(deal)
  \/ OnTimerGameEnd

Spec == Init /\ [][Next]_vars

-----------------------------------------------------------------------------
\* Types of the sink's fields.  That scores are natural numbers is "防止负分",
\* no negative score, of OnTimerMessage (TableFrameSink.cpp:591).
TypeOK ==
  /\ user \in [Chair -> Users \cup {NoUser}] /\ playing \subseteq Occupied
  /\ score \in [Users -> Nat] /\ rounds \in 0 .. MaxRounds
  /\ lPlayBet \in [Chair -> [Area -> Nat]] /\ lAllBet \in [Area -> Nat]
  /\ lUserWinScore \in [Chair -> Int] /\ lUserRevenue \in [Chair -> Nat]
  /\ lBankerWin \in Int /\ owed \in [Users -> Int]
  /\ timers \subseteq {"IDI_PLACE_JETTON", "IDI_GAME_END"}

\* The total of an area is the sum of the chairs' bets on it, through bets,
\* withdrawals, users who leave their bets behind, and new rounds.
BetsAddUp ==
  \A a \in Area : lAllBet[a] = Sum([c \in Chair |-> lPlayBet[c][a]], Chair)

\* GetMaxPlayerScore asserts that the room left is not negative
\* (TableFrameSink.cpp:1222): neither limit is ever exceeded, although a chair's
\* bets outlive its user and the next one may bet on top of them.
LimitsHold ==
  /\ \A a \in Area : lAllBet[a] <= lAreaLimitScore
  /\ \A c \in Chair : Sum(lPlayBet[c], Area) <= lUserLimitScore

\* A game timer is always armed once the table was used, and only one: the next
\* phase always comes, and no SetGameTimer names an active timer.
OneTimerPending == rounds > 0 => \E t \in timers : timers = {t}

\* Whichever hand comes first, CompareCard says what the rules say.
HandsAgree ==
  \A a, b \in kSubset(MAX_COUNT, Deck) :
    CompareCard(a, b) = IF IsStronger(a, b) THEN 1 ELSE IF IsStronger(b, a) THEN 0 ELSE DRAW

\* In every round the two hands dealt are of those that CompareCard orders by the
\* rules, whichever comes first, and equal hands equal ("432>A32",
\* GameLogic.cpp:222).
ComparisonFollowsTheRules == rounds > 0 => HandsAgree

BankerIsStronger == [d \in Deals |-> IsStronger(d[2], d[1])]

\* The stronger hand's side pays, by the rules of the game, and equal hands pay the
\* player's: a chair that bet on both sides gets the difference, of a win all but
\* the revenue's share, and the banker loses exactly what the chairs win.
StrongerHandPays ==
  [][\A d \in Deals : "IDI_GAME_END" \in timers' \ timers /\ OnTimerPlaceJetton(d) =>
       /\ \A c \in Occupied :
            LET player == lPlayBet[c][AREA_XIAN]
                banker == lPlayBet[c][AREA_ZHUANG]
                due == IF BankerIsStronger[d] THEN banker - player ELSE player - banker
            IN  lPlayBet[c][AREA_PING] = 0 =>
                  /\ lUserWinScore'[c] + lUserRevenue'[c] = due
                  /\ 1000 * lUserRevenue'[c] = IF due > 0 THEN due * wRevenueRatio ELSE 0
       /\ lBankerWin' + Sum([c \in Chair |-> lUserWinScore'[c] + lUserRevenue'[c]], Chair) = 0]_vars

\* With the trustee option, whoever played when the round was settled and did not
\* withdraw is paid or charged exactly that when it ends, down to a score of zero.
BettorIsPaid ==
  [][OnTimerGameEnd =>
       \A u \in Users : owed[u] # 0 => score'[u] = Max({0, score[u] + owed[u]})]_vars
=============================================================================
