----------------------------- MODULE DraftOrder -----------------------------
(***************************************************************************)
(* The order of a rookie draft: from the standings of the season before    *)
(* and the order in which the lottery drew the teams that missed the       *)
(* playoffs.  Pure operators.                                              *)
(*                                                                         *)
(* A standing is [rank, mid, made, finish]: final rank, rank in            *)
(* mid-season, whether the team made the playoffs, and its finish there;   *)
(* one is best.  The finish is optional whoever made them: zero is none.   *)
(* Teams are numbers, as their ids are.                                    *)
(***************************************************************************)
EXTENDS Integers, Sequences, FiniteSets, SequencesExt

StandingRow == [rank : Int, mid : Int, made : BOOLEAN, finish : Nat]

Missed(standings) == {t \in DOMAIN standings : ~standings[t].made}
Playoffs(standings) == DOMAIN standings \ Missed(standings)

\* The sort keys: who comes before whom.  Worst mid-season rank first, then the worse record, then
\* the smaller id.
WorseSeason(standings) ==
  {e \in (DOMAIN standings) \X (DOMAIN standings) :
     LET a == standings[e[1]]  b == standings[e[2]] IN
     \/ a.mid > b.mid
     \/ a.mid = b.mid /\ a.rank > b.rank
     \/ a.mid = b.mid /\ a.rank = b.rank /\ e[1] < e[2]}
\* The best playoff finish first, then the better record.
BetterFinish(standings) ==
  {e \in (DOMAIN standings) \X (DOMAIN standings) :
     LET a == standings[e[1]]  b == standings[e[2]] IN
     \/ a.finish < b.finish
     \/ a.finish = b.finish /\ a.rank < b.rank
     \/ a.finish = b.finish /\ a.rank = b.rank /\ e[1] < e[2]}
\* And the other way round, but for the ids.
WorseFinish(standings) ==
  {e \in (DOMAIN standings) \X (DOMAIN standings) :
     LET a == standings[e[1]]  b == standings[e[2]] IN
     \/ a.finish > b.finish
     \/ a.finish = b.finish /\ a.rank > b.rank
     \/ a.finish = b.finish /\ a.rank = b.rank /\ e[1] < e[2]}

\* sort_by_key
SortedBy(before, teams) ==
  CHOOSE order \in SetToSeqs(teams) :
    \A i, j \in DOMAIN order : i < j => <<order[j], order[i]>> \notin before

\* draw_lottery: the pool of balls, worst team first; a seed draws its places in some order.
LotteryPool(standings) == SortedBy(WorseSeason(standings), Missed(standings))
Drawn(standings, places) == [i \in DOMAIN places |-> LotteryPool(standings)[places[i]]]

RoundOne(standings, lottery) == lottery \o SortedBy(WorseFinish(standings), Playoffs(standings))
MutLaterRounds(standings) ==
  LotteryPool(standings) \o SortedBy(WorseFinish(standings), Playoffs(standings))
LaterRounds(standings) ==
  LotteryPool(standings) \o SortedBy(BetterFinish(standings), Playoffs(standings))

\* compute_draft_order refuses a lottery that is not of the teams that missed the playoffs, and a
\* playoff team without a finish.
OrderDefined(standings, lottery) ==
  /\ Len(lottery) = Cardinality(Missed(standings)) /\ Range(lottery) \subseteq Missed(standings)
  /\ \A t \in Playoffs(standings) : standings[t].finish # 0

\* The natural picks, [round, team], in the order they are made.
PicksOf(round, teams) == [i \in DOMAIN teams |-> [round |-> round, team |-> teams[i]]]
DraftSlots(standings, lottery, rounds) ==
  PicksOf(1, RoundOne(standings, lottery))
    \o FlattenSeq([i \in 1..rounds - 1 |-> PicksOf(i + 1, LaterRounds(standings))])
=============================================================================
