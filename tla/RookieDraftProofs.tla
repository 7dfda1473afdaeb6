-------------------------- MODULE RookieDraftProofs -------------------------
(***************************************************************************)
(* Proofs about RookieDraft, for any number of teams, players, rounds,     *)
(* draws and racing requests: the order the standings and the lottery give *)
(* a draft, the lottery, who is drafted and when, the types, and that the  *)
(* slate is the whole of that order.                                       *)
(***************************************************************************)
EXTENDS RookieDraft, FiniteSetTheorems, FunctionTheorems, SequenceTheorems, WellFoundedInduction, TLAPS

-----------------------------------------------------------------------------
(* Sorting, and sequences that list a set *)

TotalOrder(before, S) ==
  /\ \A t \in S : <<t, t>> \notin before
  /\ \A t, u \in S : t # u => <<t, u>> \in before \/ <<u, t>> \in before
  /\ \A t, u, v \in S : <<t, u>> \in before /\ <<u, v>> \in before => <<t, v>> \in before

\* Every element once.
Lists(order, S) ==
  /\ order \in Seq(S) /\ Len(order) = Cardinality(S)
  /\ \A i, j \in 1..Len(order) : order[i] = order[j] => i = j
  /\ \A t \in S : \E i \in 1..Len(order) : order[i] = t

\* As many elements as the set has, each another.
LEMMA ListsAll ==
  ASSUME NEW S, IsFiniteSet(S), NEW order \in [1..Cardinality(S) -> S],
         \A i, j \in 1..Cardinality(S) : order[i] = order[j] => i = j
  PROVE  Lists(order, S)
<1>1. Cardinality(S) \in Nat
  BY FS_CardinalityType
<1>2. order \in Seq(S) /\ Len(order) = Cardinality(S)
  BY <1>1
<1>3. IsFiniteSet(1..Cardinality(S)) /\ Cardinality(1..Cardinality(S)) = Cardinality(S)
  BY <1>1, FS_Interval
<1>4. order \in Injection(1..Cardinality(S), S)
  BY Fun_IsInj
<1>5. order \in Surjection(1..Cardinality(S), S)
  BY <1>3, <1>4, FS_Injection
<1> QED BY <1>2, <1>5 DEF Lists, Surjection

\* The place of an element is one after those before it.
LEMMA SortExists ==
  ASSUME NEW S, IsFiniteSet(S), NEW before, TotalOrder(before, S)
  PROVE  \E order \in SetToSeqs(S) :
           \A i, j \in DOMAIN order : i < j => <<order[j], order[i]>> \notin before
<1> DEFINE n == Cardinality(S)
           Ahead(t) == {u \in S : <<u, t>> \in before}
           place == [t \in S |-> Cardinality(Ahead(t)) + 1]
<1>1. n \in Nat
  BY FS_CardinalityType
<1>2. ASSUME NEW t \in S
      PROVE  IsFiniteSet(Ahead(t)) /\ Cardinality(Ahead(t)) \in Nat /\ place[t] \in 1..n
  <2>1. IsFiniteSet(S \ {t}) /\ Cardinality(S \ {t}) = n - 1
    BY FS_RemoveElement
  <2>2. Ahead(t) \in SUBSET (S \ {t})
    BY DEF TotalOrder
  <2> HIDE DEF Ahead
  <2>3. IsFiniteSet(Ahead(t)) /\ Cardinality(Ahead(t)) <= n - 1
    BY <2>1, <2>2, FS_Subset
  <2>4. Cardinality(Ahead(t)) \in Nat
    BY <2>3, FS_CardinalityType
  <2> QED BY <1>1, <2>3, <2>4
<1>3. ASSUME NEW t \in S, NEW u \in S, <<t, u>> \in before
      PROVE  place[t] < place[u]
  <2>1. t \notin Ahead(t) /\ Ahead(t) \cup {t} \in SUBSET Ahead(u)
    BY <1>3 DEF TotalOrder
  <2>2. IsFiniteSet(Ahead(t)) /\ IsFiniteSet(Ahead(u)) /\ Cardinality(Ahead(t)) \in Nat
        /\ Cardinality(Ahead(u)) \in Nat
    BY <1>2
  <2> HIDE DEF Ahead
  <2>3. Cardinality(Ahead(t) \cup {t}) = Cardinality(Ahead(t)) + 1
    BY <2>1, <2>2, FS_AddElement
  <2>4. Cardinality(Ahead(t) \cup {t}) <= Cardinality(Ahead(u))
    BY <2>1, <2>2, FS_Subset
  <2> QED BY <2>2, <2>3, <2>4
<1> HIDE DEF n, Ahead
<1>4. place \in [S -> 1..n]
  BY <1>2
<1> HIDE DEF place
<1>5. \A t, u \in S : place[t] = place[u] => t = u
  <2> SUFFICES ASSUME NEW t \in S, NEW u \in S, t # u
               PROVE  place[t] # place[u]
    OBVIOUS
  <2>1. <<t, u>> \in before \/ <<u, t>> \in before
    BY DEF TotalOrder
  <2>2. place[t] \in Nat /\ place[u] \in Nat
    BY <1>1, <1>4
  <2> QED BY <1>3, <2>1, <2>2
<1>6. place \in Bijection(S, 1..n)
  <2>1. place \in Injection(S, 1..n)
    BY <1>4, <1>5, Fun_IsInj
  <2>2. IsFiniteSet(1..n) /\ Cardinality(1..n) = n
    BY <1>1, FS_Interval
  <2>3. place \in Surjection(S, 1..n)
    BY <2>1, <2>2, FS_Injection DEF n
  <2> QED BY <2>1, <2>3, Fun_IsBij
<1>7. \A i \in 1..n : \E t \in S : place[t] = i
  BY <1>6 DEF Bijection, Surjection
<1> DEFINE order == [i \in 1..n |-> CHOOSE t \in S : place[t] = i]
<1>8. \A i \in 1..n : order[i] \in S /\ place[order[i]] = i
  BY <1>7
<1>9. order \in [1..n -> S] /\ DOMAIN order = 1..n
  BY <1>8
<1> HIDE DEF order
<1>10. \A i, j \in 1..n : i # j => order[i] # order[j]
  BY <1>8
<1>11. order \in SetToSeqs(S)
  BY <1>9, <1>10 DEF SetToSeqs, n
<1>12. ASSUME NEW i \in 1..n, NEW j \in 1..n, i < j
       PROVE  <<order[j], order[i]>> \notin before
  <2>1. SUFFICES ASSUME <<order[j], order[i]>> \in before
                 PROVE  FALSE
    OBVIOUS
  <2>2. place[order[j]] < place[order[i]]
    BY <1>3, <1>8, <2>1
  <2>3. i \in Nat /\ j \in Nat
    BY <1>1
  <2> QED BY <1>8, <1>12, <2>2, <2>3
<1> QED BY <1>9, <1>11, <1>12

LEMMA SortSorts ==
  ASSUME NEW S, IsFiniteSet(S), NEW before, TotalOrder(before, S)
  PROVE  /\ Lists(SortedBy(before, S), S)
         /\ \A i, j \in 1..Cardinality(S) :
              i < j => <<SortedBy(before, S)[i], SortedBy(before, S)[j]>> \in before
<1> DEFINE order == SortedBy(before, S)
<1>1. /\ order \in SetToSeqs(S)
      /\ \A i, j \in DOMAIN order : i < j => <<order[j], order[i]>> \notin before
  BY SortExists DEF SortedBy
<1> HIDE DEF order
<1>2. /\ order \in [1..Cardinality(S) -> S]
      /\ \A i, j \in 1..Cardinality(S) : i # j => order[i] # order[j]
  BY <1>1 DEF SetToSeqs
<1>3. Lists(order, S)
  BY <1>2, ListsAll
<1>4. ASSUME NEW i \in 1..Cardinality(S), NEW j \in 1..Cardinality(S), i < j
      PROVE  <<order[i], order[j]>> \in before
  <2>1. <<order[j], order[i]>> \notin before /\ order[i] # order[j] /\ order[i] \in S /\ order[j] \in S
    BY <1>1, <1>2, <1>4
  <2> QED BY <2>1 DEF TotalOrder
<1> QED BY <1>3, <1>4 DEF order

Join(s, t) == s \o t

LEMMA JoinLen ==
  ASSUME NEW V, NEW s \in Seq(V), NEW t \in Seq(V)
  PROVE  Join(s, t) \in Seq(V) /\ Len(Join(s, t)) = Len(s) + Len(t) /\ Len(s) \in Nat /\ Len(t) \in Nat
BY DEF Join

LEMMA JoinLeft ==
  ASSUME NEW V, NEW s \in Seq(V), NEW t \in Seq(V), NEW i \in 1..Len(s)
  PROVE  Join(s, t)[i] = s[i]
BY DEF Join

LEMMA JoinRight ==
  ASSUME NEW V, NEW s \in Seq(V), NEW t \in Seq(V), NEW i \in 1..Len(t)
  PROVE  Join(s, t)[Len(s) + i] = t[i]
BY DEF Join

\* One list after another.
LEMMA ListsJoin ==
  ASSUME NEW S, NEW T, IsFiniteSet(S), IsFiniteSet(T), S \cap T = {}, NEW s, NEW t, Lists(s, S), Lists(t, T)
  PROVE  Lists(Join(s, t), S \cup T)
<1>1. s \in Seq(S \cup T) /\ t \in Seq(S \cup T) /\ s \in Seq(S) /\ t \in Seq(T)
  BY DEF Lists
<1>2. Len(s) \in Nat /\ Len(t) \in Nat
  BY <1>1
<1> DEFINE st == Join(s, t)
<1>3. /\ st \in Seq(S \cup T) /\ Len(st) = Len(s) + Len(t)
      /\ \A i \in 1..Len(s) : st[i] = s[i]
      /\ \A i \in 1..Len(t) : st[Len(s) + i] = t[i]
      /\ \A i \in 1..Len(st) : i \notin 1..Len(s) => i - Len(s) \in 1..Len(t) /\ st[i] = t[i - Len(s)]
  BY <1>1, <1>2 DEF Join
<1> HIDE DEF st
<1>4. Cardinality(S \cup T) = Cardinality(S) + Cardinality(T)
  <2>1. Cardinality(S) \in Nat /\ Cardinality(T) \in Nat
    BY FS_CardinalityType
  <2>2. Cardinality({}) = 0
    BY FS_EmptySet
  <2>3. Cardinality(S \cup T) = Cardinality(S) + Cardinality(T) - Cardinality({})
    BY FS_Union
  <2> QED BY <2>1, <2>2, <2>3
<1>5. \A i \in 1..Len(s) : s[i] \in S
  BY <1>1
<1>6. \A i \in 1..Len(t) : t[i] \in T
  BY <1>1
<1>7. ASSUME NEW i \in 1..Len(st), NEW j \in 1..Len(st), st[i] = st[j]
      PROVE  i = j
  <2>1. CASE i \in 1..Len(s) /\ j \in 1..Len(s)
    BY <1>3, <1>7, <2>1 DEF Lists
  <2>2. CASE i \notin 1..Len(s) /\ j \notin 1..Len(s)
    <3>1. i - Len(s) = j - Len(s)
      BY <1>3, <1>7, <2>2 DEF Lists
    <3> QED BY <1>2, <1>3, <3>1
  <2>3. CASE i \in 1..Len(s) /\ j \notin 1..Len(s)
    <3>1. st[i] \in S /\ st[j] \in T
      BY <1>3, <1>5, <1>6, <2>3
    <3> QED BY <1>7, <3>1
  <2>4. CASE i \notin 1..Len(s) /\ j \in 1..Len(s)
    <3>1. st[i] \in T /\ st[j] \in S
      BY <1>3, <1>5, <1>6, <2>4
    <3> QED BY <1>7, <3>1
  <2> QED BY <2>1, <2>2, <2>3, <2>4
<1>8. ASSUME NEW x \in S \cup T
      PROVE  \E i \in 1..Len(st) : st[i] = x
  <2>1. CASE x \in S
    <3>1. PICK i \in 1..Len(s) : s[i] = x
      BY <2>1 DEF Lists
    <3>2. i \in 1..Len(st)
      BY <1>2, <1>3
    <3> QED BY <1>3, <3>1, <3>2
  <2>2. CASE x \in T
    <3>1. PICK i \in 1..Len(t) : t[i] = x
      BY <2>2 DEF Lists
    <3>2. Len(s) + i \in 1..Len(st)
      BY <1>2, <1>3
    <3> QED BY <1>3, <3>1, <3>2
  <2> QED BY <2>1, <2>2
<1>9. Lists(st, S \cup T)
  BY <1>3, <1>4, <1>7, <1>8 DEF Lists
<1> QED BY <1>2, <1>3, <1>9 DEF st


-----------------------------------------------------------------------------
(* The rounds of a draft *)

StandingsOK(st) == DOMAIN st \subseteq Teams /\ \A t \in DOMAIN st : st[t] \in StandingRow

LEMMA KeysOrder ==
  ASSUME NEW st, StandingsOK(st), NEW S \in SUBSET DOMAIN st
  PROVE  /\ TotalOrder(WorseSeason(st), S) /\ TotalOrder(WorseFinish(st), S)
         /\ TotalOrder(BetterFinish(st), S)
<1>1. \A t \in S : /\ t \in Nat /\ t \in DOMAIN st
                   /\ st[t].rank \in Int /\ st[t].mid \in Int /\ st[t].finish \in Nat
  BY DraftConstants DEF StandingsOK, StandingRow
<1>2. \A t, u \in S :
        /\ <<t, u>> \in WorseSeason(st) <=>
             \/ st[t].mid > st[u].mid
             \/ st[t].mid = st[u].mid /\ st[t].rank > st[u].rank
             \/ st[t].mid = st[u].mid /\ st[t].rank = st[u].rank /\ t < u
        /\ <<t, u>> \in WorseFinish(st) <=>
             \/ st[t].finish > st[u].finish
             \/ st[t].finish = st[u].finish /\ st[t].rank > st[u].rank
             \/ st[t].finish = st[u].finish /\ st[t].rank = st[u].rank /\ t < u
        /\ <<t, u>> \in BetterFinish(st) <=>
             \/ st[t].finish < st[u].finish
             \/ st[t].finish = st[u].finish /\ st[t].rank < st[u].rank
             \/ st[t].finish = st[u].finish /\ st[t].rank = st[u].rank /\ t < u
  BY DEF WorseSeason, WorseFinish, BetterFinish
<1>3. TotalOrder(WorseSeason(st), S)
  BY <1>1, <1>2 DEF TotalOrder
<1>4. TotalOrder(WorseFinish(st), S)
  BY <1>1, <1>2 DEF TotalOrder
<1>5. TotalOrder(BetterFinish(st), S)
  BY <1>1, <1>2 DEF TotalOrder
<1> QED BY <1>3, <1>4, <1>5

LEMMA TeamsParted ==
  ASSUME NEW st, StandingsOK(st)
  PROVE  /\ IsFiniteSet(DOMAIN st) /\ IsFiniteSet(Missed(st)) /\ IsFiniteSet(Playoffs(st))
         /\ Missed(st) \in SUBSET DOMAIN st /\ Playoffs(st) \in SUBSET DOMAIN st
         /\ Missed(st) \cap Playoffs(st) = {} /\ Missed(st) \cup Playoffs(st) = DOMAIN st
<1>1. IsFiniteSet(DOMAIN st)
  BY DraftConstants, FS_Subset DEF StandingsOK
<1>2. /\ Missed(st) \in SUBSET DOMAIN st /\ Playoffs(st) \in SUBSET DOMAIN st
      /\ Missed(st) \cap Playoffs(st) = {} /\ Missed(st) \cup Playoffs(st) = DOMAIN st
  BY DEF Missed, Playoffs
<1> QED BY <1>1, <1>2, FS_Subset

LEMMA PoolLists ==
  ASSUME NEW st, StandingsOK(st)
  PROVE  Lists(LotteryPool(st), Missed(st))
<1>1. IsFiniteSet(Missed(st)) /\ TotalOrder(WorseSeason(st), Missed(st))
  BY TeamsParted, KeysOrder
<1> QED BY <1>1, SortSorts DEF LotteryPool

\* A seed draws every team of the pool once.
LEMMA DrawnLists ==
  ASSUME NEW st, StandingsOK(st), NEW seed \in Seeds, Drawable(st, seed)
  PROVE  Lists(Drawn(st, Draw[seed]), Missed(st)) /\ Drawn(st, Draw[seed]) # <<>>
<1> DEFINE places == Draw[seed]
           pool == LotteryPool(st)
           n == Cardinality(Missed(st))
<1>1. IsFiniteSet(Missed(st)) /\ n \in Nat
  BY TeamsParted, FS_CardinalityType
<1>2. Lists(pool, Missed(st))
  BY PoolLists
<1>3. places \in Seq(1..Len(places)) /\ places # <<>> /\ IsInjective(places)
  BY DraftConstants
<1>4. Len(places) = n
  BY DEF Drawable
<1>5. DOMAIN places = 1..n /\ \A i \in 1..n : places[i] \in 1..n
  BY <1>1, <1>3, <1>4
<1>6. \A i, j \in 1..n : places[i] = places[j] => i = j
  BY <1>3, <1>5 DEF IsInjective
<1>7. \A i \in 1..n : pool[i] \in Missed(st)
  BY <1>1, <1>2 DEF Lists
<1>8. \A i, j \in 1..n : pool[i] = pool[j] => i = j
  BY <1>2 DEF Lists
<1>9. n # 0
  BY <1>3, <1>4
<1> DEFINE order == Drawn(st, places)
<1>10. order = [i \in 1..n |-> pool[places[i]]]
  BY <1>5 DEF Drawn
<1> HIDE DEF places, pool, order
<1>11. order \in [1..n -> Missed(st)] /\ \A i \in 1..n : order[i] = pool[places[i]]
  BY <1>5, <1>7, <1>10
<1>12. \A i, j \in 1..n : order[i] = order[j] => i = j
  BY <1>5, <1>6, <1>8, <1>11
<1>13. Lists(order, Missed(st))
  BY <1>1, <1>11, <1>12, ListsAll
<1>14. order # <<>>
  BY <1>1, <1>9, <1>13 DEF Lists
<1> QED BY <1>13, <1>14 DEF order, places

\* As it does whatever order compute_draft_order accepts that has no team twice.
LEMMA OrderLists ==
  ASSUME NEW st, StandingsOK(st), NEW order \in Seq(Teams), OrderDefined(st, order),
         \A i, j \in DOMAIN order : order[i] = order[j] => i = j
  PROVE  Lists(order, Missed(st))
<1>1. IsFiniteSet(Missed(st)) /\ Cardinality(Missed(st)) \in Nat
  BY TeamsParted, FS_CardinalityType
<1>2. DOMAIN order = 1..Cardinality(Missed(st)) /\ \A i \in DOMAIN order : order[i] \in Missed(st)
  BY <1>1 DEF OrderDefined, Range
<1>3. order \in [1..Cardinality(Missed(st)) -> Missed(st)]
  BY <1>2
<1> QED BY <1>1, <1>2, <1>3, ListsAll

\* No two playoff teams that the standings do not tell apart.
Apart(st) ==
  \A t, u \in Playoffs(st) : t # u => st[t].finish # st[u].finish \/ st[t].rank # st[u].rank

\* The best of the playoffs picks last in the first round and before the others in the later ones.
LEMMA LastsDiffer ==
  ASSUME NEW st, StandingsOK(st), Apart(st), NEW n, n = Cardinality(Playoffs(st)), n > 1
  PROVE  SortedBy(WorseFinish(st), Playoffs(st))[n] # SortedBy(BetterFinish(st), Playoffs(st))[n]
<1> DEFINE worst == SortedBy(WorseFinish(st), Playoffs(st))
           best == SortedBy(BetterFinish(st), Playoffs(st))
<1>1. /\ IsFiniteSet(Playoffs(st)) /\ n \in Nat /\ Playoffs(st) \in SUBSET DOMAIN st
      /\ TotalOrder(WorseFinish(st), Playoffs(st)) /\ TotalOrder(BetterFinish(st), Playoffs(st))
  BY TeamsParted, KeysOrder, FS_CardinalityType
<1>2. Lists(worst, Playoffs(st)) /\ \A i, j \in 1..n : i < j => <<worst[i], worst[j]>> \in WorseFinish(st)
  BY <1>1, SortSorts
<1>3. Lists(best, Playoffs(st)) /\ \A i, j \in 1..n : i < j => <<best[i], best[j]>> \in BetterFinish(st)
  BY <1>1, SortSorts
<1> HIDE DEF worst, best
<1>4. SUFFICES ASSUME worst[n] = best[n]
               PROVE  FALSE
  BY DEF worst, best
<1> DEFINE t == worst[1]
           u == worst[n]
<1>5. t \in Playoffs(st) /\ u \in Playoffs(st) /\ t # u
  BY <1>1, <1>2 DEF Lists
<1>6. <<t, u>> \in WorseFinish(st)
  BY <1>1, <1>2
<1>7. PICK i \in 1..n : best[i] = t
  BY <1>3, <1>5 DEF Lists
<1>8. i < n
  BY <1>1, <1>4, <1>5, <1>7
<1>9. <<t, u>> \in BetterFinish(st)
  BY <1>1, <1>3, <1>4, <1>7, <1>8
<1> HIDE DEF t, u
<1>10. /\ st[t].finish >= st[u].finish /\ (st[t].finish = st[u].finish => st[t].rank >= st[u].rank)
       /\ st[t].finish <= st[u].finish /\ (st[t].finish = st[u].finish => st[t].rank <= st[u].rank)
       /\ st[t].finish \in Nat /\ st[u].finish \in Nat /\ st[t].rank \in Int /\ st[u].rank \in Int
  <2>1. st[t] \in StandingRow /\ st[u] \in StandingRow
    BY <1>1, <1>5 DEF StandingsOK
  <2>2. st[t].finish \in Nat /\ st[u].finish \in Nat /\ st[t].rank \in Int /\ st[u].rank \in Int
    BY <2>1 DEF StandingRow
  <2>3. st[t].finish >= st[u].finish /\ (st[t].finish = st[u].finish => st[t].rank >= st[u].rank)
    BY <1>6, <2>2 DEF WorseFinish
  <2>4. st[t].finish <= st[u].finish /\ (st[t].finish = st[u].finish => st[t].rank <= st[u].rank)
    BY <1>9, <2>2 DEF BetterFinish
  <2> QED BY <2>2, <2>3, <2>4
<1>11. st[t].finish = st[u].finish /\ st[t].rank = st[u].rank
  BY <1>10
<1> QED BY <1>5, <1>11 DEF Apart

\* Both rounds list every team that stands, the first one in the lottery's order to begin with.
LEMMA RoundsList ==
  ASSUME NEW st, StandingsOK(st), NEW order, Lists(order, Missed(st))
  PROVE  /\ Lists(RoundOne(st, order), DOMAIN st) /\ Lists(LaterRounds(st), DOMAIN st)
         /\ Len(order) \in Nat /\ Len(order) <= Cardinality(DOMAIN st)
         /\ \A i \in 1..Len(order) : RoundOne(st, order)[i] = order[i]
         /\ Apart(st) /\ Cardinality(Playoffs(st)) > 1 =>
              RoundOne(st, order)[Cardinality(DOMAIN st)] # LaterRounds(st)[Cardinality(DOMAIN st)]
<1> DEFINE worst == SortedBy(WorseFinish(st), Playoffs(st))
           best == SortedBy(BetterFinish(st), Playoffs(st))
           pool == LotteryPool(st)
           n == Cardinality(Playoffs(st))
<1>1. /\ IsFiniteSet(Missed(st)) /\ IsFiniteSet(Playoffs(st)) /\ Missed(st) \cap Playoffs(st) = {}
      /\ Missed(st) \cup Playoffs(st) = DOMAIN st
  BY TeamsParted
<1>2. TotalOrder(WorseFinish(st), Playoffs(st)) /\ TotalOrder(BetterFinish(st), Playoffs(st))
  BY TeamsParted, KeysOrder
<1>3. Lists(worst, Playoffs(st)) /\ Lists(best, Playoffs(st)) /\ Lists(pool, Missed(st))
  BY <1>1, <1>2, SortSorts, PoolLists
<1>4. RoundOne(st, order) = Join(order, worst) /\ LaterRounds(st) = Join(pool, best)
  BY DEF RoundOne, LaterRounds, Join
<1>5. Apart(st) /\ n > 1 => worst[n] # best[n]
  BY LastsDiffer
<1>6. n \in Nat /\ Len(worst) = n /\ Len(best) = n
  BY <1>1, <1>3, FS_CardinalityType DEF Lists
<1>7. Len(order) = Len(pool)
  BY <1>3 DEF Lists
<1> HIDE DEF worst, best, pool, n
<1> DEFINE A == Missed(st)
           B == Playoffs(st)
           V == DOMAIN st
           first == Join(order, worst)
           later == Join(pool, best)
<1>8. IsFiniteSet(A) /\ IsFiniteSet(B) /\ A \cap B = {} /\ A \cup B = V
  BY <1>1
<1>9. Lists(order, A) /\ Lists(worst, B) /\ Lists(pool, A) /\ Lists(best, B)
  BY <1>3
<1> HIDE DEF A, B, V
<1>12. Lists(first, V) /\ Lists(later, V)
  <2>1. Lists(first, A \cup B)
    BY <1>8, <1>9, ListsJoin
  <2>2. Lists(later, A \cup B)
    BY <1>8, <1>9, ListsJoin
  <2> QED BY <1>8, <2>1, <2>2
<1>13. order \in Seq(V) /\ worst \in Seq(V) /\ pool \in Seq(V) /\ best \in Seq(V)
  BY <1>8, <1>9 DEF Lists
<1>14. Len(first) = Len(order) + n /\ Len(order) \in Nat
  BY <1>6, <1>13, JoinLen
<1>15. \A i \in 1..Len(order) : first[i] = order[i]
  BY <1>13, JoinLeft
<1>16. \A i \in 1..n : first[Len(order) + i] = worst[i]
  BY <1>6, <1>13, JoinRight
<1>17. \A i \in 1..n : later[Len(pool) + i] = best[i]
  BY <1>6, <1>13, JoinRight
<1> HIDE DEF first, later
<1>10. Cardinality(V) = Len(order) + n
  BY <1>12, <1>14 DEF Lists
<1>11. n > 1 => n \in 1..n
  BY <1>6
<1>18. Apart(st) /\ n > 1 => first[Cardinality(V)] # later[Cardinality(V)]
  BY <1>5, <1>7, <1>10, <1>11, <1>16, <1>17
<1>19. Len(order) <= Cardinality(V)
  BY <1>6, <1>10, <1>14
<1> QED BY <1>4, <1>12, <1>14, <1>15, <1>18, <1>19 DEF n, V, first, later

LEMMA Least ==
  ASSUME NEW S \in SUBSET Nat, S # {}
  PROVE  \E m \in S : \A x \in S : m <= x
<1>1. PICK m \in S : \A x \in S : <<x, m>> \notin OpToRel(<, Nat)
  BY WFMin, NatLessThanWellFounded, Zenon
<1>2. \A x \in S : ~(x < m)
  BY <1>1, Zenon DEF OpToRel
<1> QED BY <1>2

-----------------------------------------------------------------------------
(* Sequences of one length, one after the other *)

LEMMA Products ==
  ASSUME NEW n \in Nat
  PROVE  /\ \A i \in Int : i * n \in Int /\ (i + 1) * n = i * n + n /\ (i - 1) * n = i * n - n
         /\ \A i, j \in Int : i <= j => i * n <= j * n
<1>1. \A i \in Int : i * n \in Int /\ (i + 1) * n = i * n + n /\ (i - 1) * n = i * n - n
  OBVIOUS
<1>2. ASSUME NEW i \in Int, NEW j \in Int, i <= j
      PROVE  i * n <= j * n
  <2>1. (j - i) * n >= 0
    <3>1. \A k \in Nat : k * n >= 0
      OBVIOUS
    <3> QED BY <1>2, <3>1
  <2>2. (j - i) * n = j * n - i * n
    OBVIOUS
  <2>3. i * n \in Int /\ j * n \in Int
    OBVIOUS
  <2> QED BY <2>1, <2>2, <2>3
<1> QED BY <1>1, <1>2

\* The place p of the block j.
Place(j, p, n) == (j - 1) * n + p

LEMMA Places ==
  ASSUME NEW m \in Nat, NEW n \in Nat
  PROVE  /\ \A j \in 1..m, p \in 1..n : Place(j, p, n) \in 1..m * n
         /\ \A j, k \in 1..m, p, q \in 1..n : Place(j, p, n) <= Place(k, q, n) => j <= k /\ (j = k => p <= q)
         /\ \A k \in 1..m * n : \E j \in 1..m, p \in 1..n : k = Place(j, p, n)
<1>1. /\ \A i \in Int : i * n \in Int /\ (i + 1) * n = i * n + n /\ (i - 1) * n = i * n - n
      /\ \A i, j \in Int : i <= j => i * n <= j * n
  BY Products
<1> DEFINE tm == m * n
<1>2. ASSUME NEW j \in 1..m, NEW p \in 1..n
      PROVE  Place(j, p, n) \in 1..m * n
  <2>1. 0 * n <= (j - 1) * n /\ j * n <= m * n /\ 0 * n = 0
    <3>1. 0 <= j - 1 /\ j <= m
      OBVIOUS
    <3>2. 0 * n = 0
      OBVIOUS
    <3> QED BY <1>1, <3>1, <3>2
  <2> DEFINE a == (j - 1) * n
             b == j * n
             c == m * n
  <2>2. a = b - n /\ a \in Int /\ b \in Int /\ c \in Int /\ 0 <= a /\ b <= c
    BY <1>1, <2>1
  <2>3. Place(j, p, n) = a + p
    BY DEF Place
  <2> HIDE DEF a, b, c
  <2>4. a + p \in 1..c
    BY <2>2
  <2> QED BY <2>3, <2>4 DEF c
<1>3. ASSUME NEW j \in 1..m, NEW k \in 1..m, NEW p \in 1..n, NEW q \in 1..n,
             Place(j, p, n) <= Place(k, q, n)
      PROVE  j <= k /\ (j = k => p <= q)
  <2> DEFINE a == (j - 1) * n
             b == (k - 1) * n
             c == k * n
  <2>1. a \in Int /\ b \in Int /\ c \in Int /\ c = b + n
    BY <1>1
  <2>2. k <= j - 1 => c <= a
    BY <1>1
  <2>3. j = k => a = b
    OBVIOUS
  <2>4. a + p <= b + q
    BY <1>3 DEF Place
  <2> HIDE DEF a, b, c
  <2>5. ~(k <= j - 1)
    BY <2>1, <2>2, <2>4
  <2>6. j <= k
    BY <2>5
  <2> QED BY <2>1, <2>3, <2>4, <2>6
<1>4. ASSUME NEW k \in 1..m * n
      PROVE  \E j \in 1..m, p \in 1..n : k = Place(j, p, n)
  <2> DEFINE C == {i \in Nat : k <= i * n}
  <2>1. m \in C
    BY <1>1
  <2>2. PICK j \in C : \A i \in C : j <= i
    BY <2>1, Least
  <2>3. j \in Nat /\ k <= j * n /\ j <= m
    BY <2>1, <2>2
  <2>4. j # 0
    <3>1. 0 * n = 0
      OBVIOUS
    <3>2. k \in Int /\ k >= 1
      BY <1>1
    <3> QED BY <2>3, <3>1, <3>2
  <2>5. (j - 1) * n < k
    <3>1. j - 1 \notin C /\ j - 1 \in Nat
      BY <2>2, <2>3, <2>4
    <3>2. (j - 1) * n \in Int /\ k \in Int
      BY <1>1, <2>3
    <3>3. ~(k <= (j - 1) * n)
      BY <3>1
    <3> QED BY <3>2, <3>3
  <2> HIDE DEF C
  <2> DEFINE a == (j - 1) * n
             b == j * n
             p == k - a
  <2>6. a \in Int /\ b \in Int /\ b = a + n /\ k \in Int /\ a < k /\ k <= b
    BY <1>1, <2>3, <2>5
  <2>7. k = Place(j, p, n)
    <3>1. k = a + (k - a)
      BY <2>6
    <3> QED BY <3>1 DEF Place
  <2> HIDE DEF a, b
  <2>8. p \in 1..n
    BY <2>6
  <2>9. j \in 1..m
    BY <2>3, <2>4
  <2> QED BY <2>7, <2>8, <2>9
<1> QED BY <1>2, <1>3, <1>4

\* A run of the recursion that FlattenSeq is defined with.
Flattens(f, seqs, m) ==
  f = [i \in 1..m |-> IF i = 1 THEN seqs[i] ELSE f[i - 1] \o seqs[i]]

LEMMA FlattensExists ==
  ASSUME NEW m \in Nat, NEW seqs
  PROVE  \E f : Flattens(f, seqs, m)
<1> DEFINE C == {k \in Nat : ~\E f : Flattens(f, seqs, k)}
<1>1. SUFFICES ASSUME C # {}
               PROVE  FALSE
  OBVIOUS
<1>2. PICK k \in C : \A x \in C : k <= x
  BY <1>1, Least
<1>3. k \in Nat /\ ~\E f : Flattens(f, seqs, k)
  OBVIOUS
<1>4. k # 0
  <2>1. Flattens([i \in 1..0 |-> 0], seqs, 0)
    BY DEF Flattens
  <2> QED BY <1>3, <2>1
<1>5. k - 1 \in Nat /\ k - 1 \notin C
  BY <1>2, <1>3, <1>4
<1>6. PICK f : Flattens(f, seqs, k - 1)
  BY <1>5
<1> HIDE DEF C
<1> DEFINE g == [i \in 1..k |-> IF i = 1 THEN seqs[i] ELSE f[i - 1] \o seqs[i]]
<1>7. \A i \in 1..k - 1 : f[i] = IF i = 1 THEN seqs[i] ELSE f[i - 1] \o seqs[i]
  BY <1>6 DEF Flattens
<1>8. \A i \in 1..k - 1 : g[i] = f[i]
  BY <1>7, <1>3
<1>9. \A i \in 1..k : i # 1 => g[i - 1] = f[i - 1]
  <2> HIDE DEF g
  <2>1. \A i \in 1..k : i # 1 => i - 1 \in 1..k - 1
    BY <1>3
  <2> QED BY <1>8, <2>1
<1>10. g = [i \in 1..k |-> IF i = 1 THEN seqs[i] ELSE g[i - 1] \o seqs[i]]
  BY <1>9
<1> HIDE DEF g
<1> QED BY <1>3, <1>10 DEF Flattens

LEMMA Flattened ==
  ASSUME NEW V, NEW m \in Nat, NEW n \in Nat, NEW seqs \in [1..m -> Seq(V)],
         \A i \in 1..m : Len(seqs[i]) = n
  PROVE  /\ FlattenSeq(seqs) \in Seq(V) /\ Len(FlattenSeq(seqs)) = m * n
         /\ \A j \in 1..m, p \in 1..n : FlattenSeq(seqs)[Place(j, p, n)] = seqs[j][p]
<1>1. Len(seqs) = m /\ seqs \in Seq(Seq(V))
  OBVIOUS
<1>2. CASE m = 0
  <2>1. FlattenSeq(seqs) = seqs /\ seqs = <<>>
    BY <1>1, <1>2 DEF FlattenSeq
  <2> QED BY <1>2, <2>1
<1>3. CASE m # 0
  <2> DEFINE f == CHOOSE f : Flattens(f, seqs, m)
  <2>1. FlattenSeq(seqs) = f[m]
    BY <1>1, <1>3 DEF FlattenSeq, Flattens
  <2>2. Flattens(f, seqs, m)
    BY FlattensExists
  <2> HIDE DEF f
  <2>3. \A i \in 1..m : f[i] = IF i = 1 THEN seqs[i] ELSE f[i - 1] \o seqs[i]
    BY <2>2 DEF Flattens
  <2> DEFINE Full(i) ==
        /\ f[i] \in Seq(V) /\ Len(f[i]) = i * n
        /\ \A j \in 1..i, p \in 1..n : f[i][Place(j, p, n)] = seqs[j][p]
      C == {i \in 1..m : ~Full(i)}
  <2>4. C = {}
    <3>1. SUFFICES ASSUME C # {}
                   PROVE  FALSE
      OBVIOUS
    <3>2. PICK i \in C : \A x \in C : i <= x
      <4>1. C \in SUBSET Nat
        OBVIOUS
      <4> HIDE DEF C
      <4> QED BY <3>1, <4>1, Least
    <3>3. i \in 1..m /\ ~Full(i) /\ seqs[i] \in Seq(V) /\ Len(seqs[i]) = n
      OBVIOUS
    <3>4. CASE i = 1
      <4>1. f[1] = seqs[1]
        BY <2>3, <3>3, <3>4
      <4>2. \A p \in 1..n : Place(1, p, n) = p
        BY DEF Place
      <4>3. 1 * n = n
        OBVIOUS
      <4>4. \A j \in 1..1 : j = 1
        OBVIOUS
      <4> QED BY <3>3, <3>4, <4>1, <4>2, <4>3, <4>4
    <3>5. CASE i # 1
      <4> DEFINE s == f[i - 1]
                 t == seqs[i]
      <4>1. i - 1 \in 1..m /\ Full(i - 1)
        <5>1. i - 1 \in 1..m /\ ~(i <= i - 1)
          BY <3>3, <3>5
        <5> HIDE DEF Full
        <5>2. i - 1 \notin C
          BY <3>2, <5>1
        <5> QED BY <5>1, <5>2
      <4>2. f[i] = Join(s, t)
        BY <2>3, <3>3, <3>5 DEF Join
      <4>3. s \in Seq(V) /\ Len(s) = (i - 1) * n /\ t \in Seq(V) /\ Len(t) = n
        BY <3>3, <4>1
      <4>4. \A j \in 1..i - 1, p \in 1..n : s[Place(j, p, n)] = seqs[j][p]
        BY <4>1
      <4>5. \A j \in 1..i - 1, p \in 1..n : Place(j, p, n) \in 1..(i - 1) * n
        <5>1. i - 1 \in Nat
          BY <3>3
        <5> QED BY <5>1, Places
      <4>6. (i - 1) * n \in Int /\ i * n = (i - 1) * n + n /\ i \in Int
        BY <3>3, Products
      <4> HIDE DEF s, t, C, Full
      <4>7. /\ Join(s, t) \in Seq(V) /\ Len(Join(s, t)) = Len(s) + Len(t)
            /\ \A k \in 1..Len(s) : Join(s, t)[k] = s[k]
            /\ \A k \in 1..Len(t) : Join(s, t)[Len(s) + k] = t[k]
        <5>1. Join(s, t) \in Seq(V) /\ Len(Join(s, t)) = Len(s) + Len(t)
          BY <4>3, JoinLen
        <5>2. \A k \in 1..Len(s) : Join(s, t)[k] = s[k]
          BY <4>3, JoinLeft
        <5>3. \A k \in 1..Len(t) : Join(s, t)[Len(s) + k] = t[k]
          BY <4>3, JoinRight
        <5> QED BY <5>1, <5>2, <5>3
      <4>8. ASSUME NEW j \in 1..i, NEW p \in 1..n
            PROVE  Join(s, t)[Place(j, p, n)] = seqs[j][p]
        <5>1. CASE j = i
          <6>1. Place(j, p, n) = Len(s) + p
            BY <4>3, <5>1 DEF Place
          <6> QED BY <4>3, <4>7, <5>1, <6>1 DEF t
        <5>2. CASE j # i
          <6>1. j \in 1..i - 1
            BY <4>6, <5>2
          <6> QED BY <4>3, <4>4, <4>5, <4>7, <6>1
        <5> QED BY <5>1, <5>2
      <4>9. Len(Join(s, t)) = i * n
        BY <4>3, <4>6, <4>7
      <4> DEFINE st == Join(s, t)
      <4> HIDE DEF st
      <4>10. st \in Seq(V) /\ Len(st) = i * n /\ \A j \in 1..i, p \in 1..n : st[Place(j, p, n)] = seqs[j][p]
        BY <4>7, <4>8, <4>9 DEF st
      <4>11. f[i] = st
        BY <4>2 DEF st
      <4>12. Full(i)
        BY <4>10, <4>11 DEF Full
      <4> QED BY <3>3, <4>12
    <3> QED BY <3>4, <3>5
  <2>5. Full(m)
    <3> HIDE DEF Full
    <3>1. m \in 1..m
      BY <1>3
    <3> QED BY <2>4, <3>1
  <2> QED BY <2>1, <2>5
<1> QED BY <1>2, <1>3

-----------------------------------------------------------------------------
(* The slots of a draft *)

LEMMA RoundsPositive == Rounds \in Nat /\ Rounds >= 1
BY DraftConstants DEF SalaryOfRound

\* The picks of a round.
LEMMA PicksOfRound ==
  ASSUME NEW S, NEW teams \in Seq(S), NEW r \in 1..Rounds
  PROVE  /\ PicksOf(r, teams) \in Seq([round : 1..Rounds, team : S]) /\ Len(PicksOf(r, teams)) = Len(teams)
         /\ \A p \in 1..Len(teams) : PicksOf(r, teams)[p] = [round |-> r, team |-> teams[p]]
<1> DEFINE picks == PicksOf(r, teams)
           V == [round : 1..Rounds, team : S]
<1>1. DOMAIN teams = 1..Len(teams) /\ Len(teams) \in Nat /\ \A p \in 1..Len(teams) : teams[p] \in S
  OBVIOUS
<1>2. picks = [p \in 1..Len(teams) |-> [round |-> r, team |-> teams[p]]]
  BY <1>1 DEF PicksOf
<1>3. \A p \in 1..Len(teams) : [round |-> r, team |-> teams[p]] \in V
  BY <1>1
<1> HIDE DEF picks, V
<1>4. picks \in [1..Len(teams) -> V]
  BY <1>2, <1>3
<1>5. picks \in Seq(V) /\ Len(picks) = Len(teams)
  BY <1>1, <1>4
<1> QED BY <1>2, <1>5 DEF picks, V

\* What is picked p-th in round r.
Due(st, order, r, p) ==
  [round |-> r, team |-> IF r = 1 THEN RoundOne(st, order)[p] ELSE LaterRounds(st)[p]]

LEMMA SlotsInPlace ==
  ASSUME NEW st, StandingsOK(st), NEW order, Lists(order, Missed(st)), NEW n, n = Cardinality(DOMAIN st)
  PROVE  LET slots == DraftSlots(st, order, Rounds) IN
         /\ slots \in Seq([round : 1..Rounds, team : DOMAIN st]) /\ Len(slots) = Rounds * n
         /\ \A r \in 1..Rounds, p \in 1..n : slots[Place(r, p, n)] = Due(st, order, r, p)
<1> DEFINE first == RoundOne(st, order)
           later == LaterRounds(st)
           T == DOMAIN st
           V == [round : 1..Rounds, team : T]
           head == PicksOf(1, first)
           rounds == [i \in 1..Rounds - 1 |-> PicksOf(i + 1, later)]
           tail == FlattenSeq(rounds)
           slots == DraftSlots(st, order, Rounds)
<1>1. n \in Nat /\ Rounds \in Nat /\ Rounds >= 1 /\ Rounds - 1 \in Nat
  <2>1. n \in Nat
    BY TeamsParted, FS_CardinalityType
  <2>2. Rounds \in Nat /\ Rounds >= 1
    BY RoundsPositive
  <2> QED BY <2>1, <2>2
<1>2. first \in Seq(T) /\ Len(first) = n /\ later \in Seq(T) /\ Len(later) = n
  BY RoundsList DEF Lists
<1>3. slots = Join(head, tail)
  BY DEF DraftSlots, Join
<1> HIDE DEF first, later, T
<1>4. head \in Seq(V) /\ Len(head) = n /\ \A p \in 1..n : head[p] = [round |-> 1, team |-> first[p]]
  <2>1. 1 \in 1..Rounds
    BY <1>1
  <2> QED BY <1>2, <2>1, PicksOfRound
<1>5. \A i \in 1..Rounds - 1 :
        /\ rounds[i] \in Seq(V) /\ Len(rounds[i]) = n
        /\ \A p \in 1..n : rounds[i][p] = [round |-> i + 1, team |-> later[p]]
  <2>1. \A i \in 1..Rounds - 1 : i + 1 \in 1..Rounds /\ rounds[i] = PicksOf(i + 1, later)
    BY <1>1
  <2> QED BY <1>2, <2>1, PicksOfRound
<1>6. rounds \in [1..Rounds - 1 -> Seq(V)]
  BY <1>5
<1> HIDE DEF head, rounds, slots, V
<1>7. /\ tail \in Seq(V) /\ Len(tail) = (Rounds - 1) * n
      /\ \A j \in 1..Rounds - 1, p \in 1..n : tail[Place(j, p, n)] = rounds[j][p]
  BY <1>1, <1>5, <1>6, Flattened
<1> HIDE DEF tail
<1>8. \A j \in 1..Rounds - 1, p \in 1..n : Place(j, p, n) \in 1..Len(tail)
  BY <1>1, <1>7, Places
<1>11. \A i \in 1..Len(tail) : Join(head, tail)[Len(head) + i] = tail[i]
  <2>1. head \in Seq(V) /\ tail \in Seq(V)
    BY <1>4, <1>7
  <2> QED BY <2>1, JoinRight
<1>9. slots \in Seq(V) /\ Len(slots) = Rounds * n
  <2>1. Join(head, tail) \in Seq(V) /\ Len(Join(head, tail)) = Len(head) + Len(tail)
    BY <1>4, <1>7, JoinLen
  <2>2. (Rounds - 1) * n = Rounds * n - n /\ Rounds * n \in Int
    BY <1>1, Products
  <2> QED BY <1>1, <1>3, <1>4, <1>7, <2>1, <2>2
<1>10. ASSUME NEW r \in 1..Rounds, NEW p \in 1..n
       PROVE  slots[Place(r, p, n)] = Due(st, order, r, p)
  <2>1. CASE r = 1
    <3>1. Place(r, p, n) = p
      BY <1>1, <2>1 DEF Place
    <3>2. p \in 1..Len(head)
      BY <1>4
    <3>3. Join(head, tail)[p] = head[p]
      BY <1>4, <1>7, <3>2, JoinLeft
    <3> QED BY <1>3, <1>4, <2>1, <3>1, <3>3 DEF Due, first
  <2>2. CASE r # 1
    <3> DEFINE k == Place(r - 1, p, n)
    <3>1. r - 1 \in 1..Rounds - 1 /\ (r - 1) + 1 = r
      BY <1>1, <2>2
    <3>2. Place(r, p, n) = n + k
      <4>1. (r - 1) * n = ((r - 1) - 1) * n + n /\ ((r - 1) - 1) * n \in Int
        <5>1. r - 1 \in Int /\ r - 1 - 1 \in Int
          BY <3>1
        <5> QED BY <1>1, <5>1, Products
      <4> QED BY <1>1, <4>1 DEF Place
    <3>3. k \in 1..Len(tail) /\ tail[k] = rounds[r - 1][p]
      BY <1>7, <1>8, <3>1
    <3> HIDE DEF k
    <3>4. Join(head, tail)[Len(head) + k] = tail[k]
      BY <1>11, <3>3
    <3>5. rounds[r - 1][p] = [round |-> r, team |-> later[p]]
      BY <1>5, <3>1
    <3> QED BY <1>3, <1>4, <2>2, <3>2, <3>3, <3>4, <3>5 DEF Due, later
  <2> QED BY <2>1, <2>2
<1> QED BY <1>9, <1>10 DEF slots, V, T

\* Every slot has its pick.
LEMMA SlotsHavePicks ==
  ASSUME NEW st, StandingsOK(st), NEW order, Lists(order, Missed(st))
  PROVE  PicksExist(st, order)
<1> DEFINE slots == DraftSlots(st, order, Rounds)
           V == [round : 1..Rounds, team : DOMAIN st]
<1>1. slots \in Seq(V)
  <2> DEFINE n == Cardinality(DOMAIN st)
  <2> HIDE DEF n
  <2>1. n = Cardinality(DOMAIN st)
    BY DEF n
  <2> QED BY <2>1, SlotsInPlace
<1>2. \A e \in V : e \in Natural
  BY DEF StandingsOK, Natural
<1> HIDE DEF slots, V
<1>3. \A i \in 1..Len(slots) : slots[i] \in Natural
  BY <1>1, <1>2
<1> QED BY <1>3 DEF PicksExist, slots

-----------------------------------------------------------------------------
(* Rows and requests *)

SelectionRow ==
  [pick : Natural, team : Teams, status : {"Unused", "PlayerSelected", "Skipped"},
   player : Players \cup {Never}]
PickRequest == [at : {"picking", "locked", "cleared"}, selection : Int, player : Players]
Holding == {"locked", "cleared"}

-----------------------------------------------------------------------------
(* The lottery *)

\* A seed and an order stay as they are once they are there: whatever is drawn at the same time, and
\* wherever the server dies between the seed and the draw (insert_lottery_seed, save_lottery_draw).
THEOREM LotteryStays == Spec => LotteryFixed
<1> DEFINE Fixed ==
      /\ lottery.seed # Never => lottery'.seed = lottery.seed
      /\ lottery.order # <<>> => lottery'.order = lottery.order
    Typed == DOMAIN lottery = {"seed", "order"} /\ lottery = [seed |-> lottery.seed, order |-> lottery.order]
<1>1. Init => Typed
  BY DEF Init, NoLottery
<1>2. ASSUME Typed, [Next]_vars
      PROVE  Typed' /\ Fixed
  <2>1. ASSUME NEW r \in Requests, CommitSeed(r)
        PROVE  Typed' /\ Fixed
    BY <1>2, <2>1 DEF CommitSeed, SeedKept
  <2>2. ASSUME NEW r \in Requests, SaveDraw(r)
        PROVE  Typed' /\ Fixed
    BY <1>2, <2>2 DEF SaveDraw
  <2>3. ASSUME NEW r \in Requests, CommitStart(r)
        PROVE  Typed' /\ Fixed
    BY <1>2, <2>3 DEF CommitStart, SeedKept
  <2>4. CASE UNCHANGED lottery
    BY <1>2, <2>4
  <2> QED BY <1>2, <2>1, <2>2, <2>3, <2>4 DEF Next, vars, draftVars, SaveStandings, TradePick, DropPlayer,
       CorrectFacts, DeadlinePasses, BeginLottery, Crash, BeginStart, BeginPass, BeginPick,
       LockSelection, ClearPick, CommitPick, CommitPass
<1> QED BY <1>1, <1>2, PTL DEF Spec, LotteryFixed

-----------------------------------------------------------------------------
(* The slate and the locks on it *)

Typed ==
  /\ DOMAIN slate \subseteq Int /\ slate \in [DOMAIN slate -> SelectionRow]
  /\ owner \in [Natural -> Teams] /\ holder \in [Players -> Teams \cup {Never}]
  /\ request = [r \in Requests |-> request[r]]
  /\ \A r \in Requests : request[r].at \in {"picking"} \cup Holding => request[r] \in PickRequest

\* A lock is held on the selection on the clock, by one request at a time.
LocksOK ==
  /\ \A r \in Requests : request[r].at \in Holding => OnTheClock(request[r].selection)
  /\ \A r, s \in Requests : request[r].at \in Holding /\ request[s].at \in Holding => r = s

\* In the draft's window a player who has been drafted is on a roster or banned, and one that is
\* about to be has not been.
Undrafted(player) == \A i \in Selected : slate[i].player # player
DraftOK ==
  ~setting.anyTime =>
    /\ window = "open"
    /\ \A i \in Selected :
         /\ slate[i].player \in Players
         /\ holder[slate[i].player] # Never \/ slate[i].player \in dropped
    /\ \A r \in Requests : request[r].at = "cleared" => Undrafted(request[r].player)
    /\ \A i, j \in Selected : slate[i].player = slate[j].player => i = j

Safe == Typed /\ LocksOK /\ DraftOK

LEMMA OneOnTheClock ==
  ASSUME Typed, NEW i, NEW j, OnTheClock(i), OnTheClock(j)
  PROVE  i = j
BY DEF Typed, OnTheClock, Unused

\* A new slate: nothing is resolved.
LEMMA NewSlate ==
  ASSUME owner \in [Natural -> Teams], NEW order, PicksExist(standings, order)
  PROVE  /\ DOMAIN SlateOf(order) \subseteq Int
         /\ SlateOf(order) \in [DOMAIN SlateOf(order) -> SelectionRow]
         /\ \A i \in DOMAIN SlateOf(order) : SlateOf(order)[i].status = "Unused"
<1> DEFINE slots == DraftSlots(standings, order, Rounds)
<1>1. SlateOf(order) = [i \in 1..Len(slots) |-> Selection(slots[i])]
  BY DEF SlateOf
<1>2. \A i \in 1..Len(slots) : slots[i] \in Natural
  BY DEF PicksExist
<1> HIDE DEF slots
<1>3. \A i \in 1..Len(slots) :
        Selection(slots[i]) \in SelectionRow /\ Selection(slots[i]).status = "Unused"
  BY <1>2 DEF Selection, SelectionRow
<1>4. 1..Len(slots) \subseteq Int
  OBVIOUS
<1> QED BY <1>1, <1>3, <1>4

\* A draft that is under way has had its lottery.
LEMMA FirstDraw ==
  /\ StandingsOK(FirstStandings)
  /\ \A s \in Settings, seed \in Seeds :
       s.started => LET order == Drawn(FirstStandings, Draw[seed]) IN
                    Lists(order, Missed(FirstStandings)) /\ order # <<>>
<1>1. StandingsOK(FirstStandings)
  BY DraftConstants DEF StandingsOK
<1>2. \A s \in Settings, seed \in Seeds : s.started => Drawable(FirstStandings, seed)
  BY DraftConstants
<1> QED BY <1>1, <1>2, DrawnLists

LEMMA SafeInit == Init => Safe
<1> SUFFICES ASSUME Init
             PROVE  Safe
  OBVIOUS
<1> USE DraftConstants
<1>1. owner \in [Natural -> Teams] /\ holder \in [Players -> Teams \cup {Never}]
  BY DEF Init, Natural
<1>2. PICK seed \in Seeds :
        slate = IF setting.started THEN SlateOf(Drawn(standings, Draw[seed])) ELSE <<>>
  BY DEF Init
<1>3. setting.started => PicksExist(standings, Drawn(standings, Draw[seed]))
  BY FirstDraw, SlotsHavePicks DEF Init
<1> DEFINE new == SlateOf(Drawn(standings, Draw[seed]))
<1>4. setting.started =>
        /\ DOMAIN new \subseteq Int /\ new \in [DOMAIN new -> SelectionRow]
        /\ \A i \in DOMAIN new : new[i].status = "Unused"
  BY <1>1, <1>3, NewSlate
<1> HIDE DEF new
<1>5. /\ DOMAIN slate \subseteq Int /\ slate \in [DOMAIN slate -> SelectionRow]
      /\ \A i \in DOMAIN slate : slate[i].status = "Unused"
  <2>1. CASE setting.started
    BY <1>2, <1>4, <2>1 DEF new
  <2>2. CASE ~setting.started
    <3>1. slate = <<>>
      BY <1>2, <2>2
    <3>2. DOMAIN slate = {}
      BY <3>1
    <3>3. slate \in [{} -> SelectionRow]
      BY <3>1
    <3> QED BY <3>2, <3>3
  <2> QED BY <2>1, <2>2
<1>6. \A r \in Requests : request[r].at = "idle"
  BY DEF Init, Idle
<1>7. request = [r \in Requests |-> request[r]]
  BY DEF Init
<1>8. Selected = {}
  BY <1>5 DEF Selected
<1>9. ~setting.anyTime => window = "open"
  BY DEF Init
<1> QED BY <1>1, <1>5, <1>6, <1>7, <1>8, <1>9 DEF Safe, Typed, LocksOK, DraftOK, Holding

\* A step of a request that changes nothing but how far it is.
LEMMA RequestMoves ==
  ASSUME Safe, NEW r \in Requests, NEW q, request' = [request EXCEPT ![r] = q],
         UNCHANGED <<setting, slate, owner, holder, dropped, window>>,
         q.at \in {"picking"} \cup Holding => q \in PickRequest,
         q.at \in Holding =>
           OnTheClock(q.selection) /\ \A s \in Requests \ {r} : request[s].at \notin Holding,
         q.at = "cleared" /\ ~setting.anyTime => Undrafted(q.player)
  PROVE  Safe'
<1> USE DEF Safe
<1>1. request'[r] = q /\ \A s \in Requests \ {r} : request'[s] = request[s]
  BY DEF Typed
<1>2. request' = [s \in Requests |-> request'[s]]
  BY DEF Typed
<1>3. Unused' = Unused /\ Selected' = Selected
  BY DEF Unused, Selected
<1>4. Typed'
  BY <1>1, <1>2 DEF Typed
<1>5. LocksOK'
  BY <1>1, <1>3 DEF LocksOK, OnTheClock
<1>6. DraftOK'
  BY <1>1, <1>3 DEF DraftOK, Undrafted
<1> QED BY <1>4, <1>5, <1>6

LEMMA SafeRequests ==
  ASSUME Safe, NEW r \in Requests,
         \/ BeginLottery(r) \/ CommitSeed(r) \/ SaveDraw(r) \/ Crash(r) \/ BeginStart(r)
         \/ \E i \in DOMAIN slate : BeginPass(r, i) \/ \E player \in Players : BeginPick(r, i, player)
         \/ LockSelection(r) \/ ClearPick(r)
  PROVE  Safe'
<1> USE DEF Safe
<1> USE DEF Becomes, Holding
<1>1. Idle.at = "idle"
  BY DEF Idle
<1>2. CASE BeginLottery(r)
  BY <1>2, RequestMoves DEF BeginLottery
<1>3. CASE CommitSeed(r)
  <2>1. PICK q :
          request' = [request EXCEPT ![r] = q] /\ q.at \in {"idle", "drawing"}
    BY <1>1, <1>3 DEF CommitSeed
  <2> QED BY <1>3, <2>1, RequestMoves DEF CommitSeed
<1>4. CASE SaveDraw(r)
  BY <1>1, <1>4, RequestMoves DEF SaveDraw
<1>5. CASE Crash(r)
  BY <1>1, <1>5, RequestMoves DEF Crash
<1>6. CASE BeginStart(r)
  BY <1>6, RequestMoves DEF BeginStart
<1>7. ASSUME NEW i \in DOMAIN slate, BeginPass(r, i)
      PROVE  Safe'
  BY <1>7, RequestMoves DEF BeginPass
<1>8. ASSUME NEW i \in DOMAIN slate, NEW player \in Players, BeginPick(r, i, player)
      PROVE  Safe'
  <2> DEFINE q == [at |-> "picking", selection |-> i, player |-> player]
  <2>1. q \in PickRequest /\ q.at = "picking"
    BY DEF Typed, PickRequest
  <2> HIDE DEF q
  <2> QED BY <1>8, <2>1, RequestMoves DEF BeginPick, q
<1>9. CASE LockSelection(r)
  <2> DEFINE q == [request[r] EXCEPT !.at = "locked"]
  <2>1. /\ request[r] \in PickRequest /\ request[r].at = "picking" /\ ~Locked(request[r].selection)
        /\ UNCHANGED <<setting, slate, owner, holder, dropped, window>>
        /\ request' = [request EXCEPT ![r] = IF StillOpen(request[r].selection) THEN q ELSE Idle]
    BY <1>9 DEF LockSelection, Typed
  <2>2. q \in PickRequest /\ q.at = "locked" /\ q.selection = request[r].selection
    BY <2>1 DEF PickRequest
  <2> HIDE DEF q
  <2>3. CASE StillOpen(request[r].selection)
    <3>1. OnTheClock(q.selection)
      BY <2>2, <2>3 DEF StillOpen
    <3>2. ASSUME NEW s \in Requests \ {r}
          PROVE  request[s].at \notin Holding
      <4>1. SUFFICES ASSUME request[s].at \in Holding
                     PROVE  FALSE
        OBVIOUS
      <4>2. request[s].selection = q.selection
        BY <3>1, <4>1, OneOnTheClock DEF LocksOK
      <4> QED BY <2>1, <2>2, <4>1, <4>2 DEF Locked
    <3> QED BY <2>1, <2>2, <2>3, <3>1, <3>2, RequestMoves
  <2>4. CASE ~StillOpen(request[r].selection)
    BY <1>1, <2>1, <2>4, RequestMoves
  <2> QED BY <2>3, <2>4
<1>10. CASE ClearPick(r)
  <2> DEFINE q == [request[r] EXCEPT !.at = "cleared"]
             may == /\ MayDraft(request[r].player)
                    /\ RosterUsed(slate[request[r].selection].team) < RosterLimit
  <2>1. /\ request[r] \in PickRequest /\ request[r].at = "locked"
        /\ UNCHANGED <<setting, slate, owner, holder, dropped, window>>
        /\ request' = [request EXCEPT ![r] = IF may THEN q ELSE Idle]
    BY <1>10 DEF ClearPick, Typed
  <2>2. q \in PickRequest /\ q.at = "cleared" /\ q.selection = request[r].selection
        /\ q.player = request[r].player
    BY <2>1 DEF PickRequest
  <2>3. may => holder[q.player] = Never /\ q.player \notin dropped
    BY <2>2 DEF MayDraft, Banned, RookiePool, Pool
  <2> HIDE DEF q, may
  <2>4. CASE may
    <3>1. OnTheClock(q.selection) /\ \A s \in Requests \ {r} : request[s].at \notin Holding
      BY <2>1, <2>2 DEF LocksOK
    <3>2. ~setting.anyTime => Undrafted(q.player)
      BY <2>3, <2>4 DEF DraftOK, Undrafted
    <3> QED BY <2>1, <2>2, <2>4, <3>1, <3>2, RequestMoves
  <2>5. CASE ~may
    BY <1>1, <2>1, <2>5, RequestMoves
  <2> QED BY <2>4, <2>5
<1> QED BY <1>2, <1>3, <1>4, <1>5, <1>6, <1>7, <1>8, <1>9, <1>10

\* The row a pick or a pass writes.
LEMMA ResultWritten ==
  ASSUME Typed, NEW i \in DOMAIN slate, NEW status \in {"PlayerSelected", "Skipped"},
         NEW player \in Players \cup {Never}
  PROVE  /\ DOMAIN Result(i, status, player) = DOMAIN slate
         /\ Result(i, status, player) \in [DOMAIN slate -> SelectionRow]
         /\ Result(i, status, player)[i].status = status
         /\ Result(i, status, player)[i].player = player
         /\ \A j \in DOMAIN slate \ {i} : Result(i, status, player)[j] = slate[j]
<1> DEFINE half == [slate EXCEPT ![i].status = status]
<1>1. slate[i] \in SelectionRow
  BY DEF Typed
<1>2. /\ half \in [DOMAIN slate -> SelectionRow] /\ half[i].status = status
      /\ \A j \in DOMAIN slate \ {i} : half[j] = slate[j]
  BY <1>1 DEF Typed, SelectionRow
<1> HIDE DEF half
<1>3. /\ [half EXCEPT ![i].player = player] \in [DOMAIN slate -> SelectionRow]
      /\ [half EXCEPT ![i].player = player][i].status = status
      /\ [half EXCEPT ![i].player = player][i].player = player
      /\ \A j \in DOMAIN slate \ {i} : [half EXCEPT ![i].player = player][j] = slate[j]
  BY <1>2 DEF SelectionRow
<1>4. Result(i, status, player) = [half EXCEPT ![i].player = player]
  BY DEF Result, half
<1> QED BY <1>3, <1>4

\* The selection is on the clock, and nobody else has a lock; so the lock is gone with the commit.
LEMMA SafeCommitPick ==
  ASSUME Safe, NEW r \in Requests, CommitPick(r)
  PROVE  Safe'
<1> USE DEF Safe
<1> DEFINE i == request[r].selection  player == request[r].player
<1>1. /\ request[r] \in PickRequest /\ OnTheClock(i) /\ i \in Unused /\ i \in DOMAIN slate
      /\ player \in Players
  BY DEF CommitPick, Typed, LocksOK, Holding, OnTheClock, Unused, PickRequest
<1>2. /\ slate' = Result(i, "PlayerSelected", player)
      /\ holder' = [holder EXCEPT ![player] = slate[i].team]
      /\ UNCHANGED <<setting, owner, dropped, window>>
      /\ request' = [request EXCEPT ![r] = Idle]
  BY DEF CommitPick, Becomes
<1>3. /\ DOMAIN slate' = DOMAIN slate /\ slate' \in [DOMAIN slate -> SelectionRow]
      /\ slate'[i].status = "PlayerSelected" /\ slate'[i].player = player
      /\ \A j \in DOMAIN slate \ {i} : slate'[j] = slate[j]
  BY <1>1, <1>2, ResultWritten
<1>4. slate[i].team \in Teams /\ Never \notin Teams
  BY <1>1, DraftConstants DEF Typed, SelectionRow
<1>5. /\ request'[r] = Idle /\ \A s \in Requests \ {r} : request'[s] = request[s]
      /\ request' = [s \in Requests |-> request'[s]] /\ Idle.at = "idle"
  BY <1>2 DEF Typed, Idle
<1>6. \A s \in Requests : request'[s].at \notin Holding
  BY <1>5 DEF LocksOK, CommitPick, Holding
<1>7. Typed'
  BY <1>1, <1>2, <1>3, <1>4, <1>5 DEF Typed, Holding
<1>8. LocksOK'
  BY <1>6 DEF LocksOK
<1>9. DraftOK'
  <2> SUFFICES ASSUME ~setting.anyTime
               PROVE  /\ window = "open"
                      /\ \A j \in Selected' :
                           /\ slate'[j].player \in Players
                           /\ holder'[slate'[j].player] # Never \/ slate'[j].player \in dropped
                      /\ \A j, k \in Selected' : slate'[j].player = slate'[k].player => j = k
    BY <1>2, <1>6 DEF DraftOK, Holding
  <2>1. Selected' = Selected \cup {i} /\ i \notin Selected
    BY <1>1, <1>3 DEF Selected, Unused
  <2>2. \A j \in Selected : slate'[j] = slate[j] /\ slate[j].player # player
    BY <1>3, <2>1 DEF DraftOK, Undrafted, CommitPick, Selected
  <2>3. holder'[player] # Never /\ \A p \in Players \ {player} : holder'[p] = holder[p]
    BY <1>1, <1>2, <1>4 DEF Typed
  <2> QED BY <1>1, <1>3, <2>1, <2>2, <2>3 DEF DraftOK
<1> QED BY <1>7, <1>8, <1>9

LEMMA SafeCommitPass ==
  ASSUME Safe, NEW r \in Requests, CommitPass(r)
  PROVE  Safe'
<1> USE DEF Safe
<1> DEFINE i == request[r].selection
<1>1. /\ ~Locked(i) /\ request[r].at = "passing"
      /\ UNCHANGED <<setting, owner, holder, dropped, window>>
      /\ request' = [request EXCEPT ![r] = Idle]
      /\ slate' = IF StillOpen(i) THEN Result(i, "Skipped", Never) ELSE slate
  BY DEF CommitPass, Becomes
<1>2. Idle.at = "idle"
  BY DEF Idle
<1>3. CASE ~StillOpen(i)
  BY <1>1, <1>2, <1>3, RequestMoves DEF Holding
<1>4. CASE StillOpen(i)
  <2>1. OnTheClock(i) /\ i \in Unused /\ i \in DOMAIN slate
    BY <1>4 DEF StillOpen, Unused
  <2>2. /\ DOMAIN slate' = DOMAIN slate /\ slate' \in [DOMAIN slate -> SelectionRow]
        /\ slate'[i].status = "Skipped"
        /\ \A j \in DOMAIN slate \ {i} : slate'[j] = slate[j]
    BY <1>1, <1>4, <2>1, ResultWritten
  <2>3. \A s \in Requests : request[s].at \notin Holding
    BY <1>1, <2>1, OneOnTheClock DEF LocksOK, Locked, Holding
  <2>4. /\ request'[r] = Idle /\ \A s \in Requests \ {r} : request'[s] = request[s]
        /\ request' = [s \in Requests |-> request'[s]]
    BY <1>1 DEF Typed
  <2>5. Typed'
    BY <1>1, <1>2, <2>2, <2>4 DEF Typed, Holding
  <2>6. LocksOK'
    BY <1>2, <2>3, <2>4 DEF LocksOK, Holding
  <2>7. Selected' = Selected /\ \A j \in Selected : slate'[j] = slate[j]
    BY <2>1, <2>2 DEF Selected, Unused
  <2>8. DraftOK'
    BY <1>1, <1>2, <2>3, <2>4, <2>7 DEF DraftOK, Holding
  <2> QED BY <2>5, <2>6, <2>8
<1> QED BY <1>3, <1>4

LEMMA SafeCommitStart ==
  ASSUME Safe, NEW r \in Requests, CommitStart(r)
  PROVE  Safe'
<1> USE DEF Safe
<1>1. /\ request[r].at = "starting" /\ UNCHANGED <<setting, standings, owner, holder, dropped, window>>
      /\ request' = [request EXCEPT ![r] = Idle]
      /\ \/ slate' = slate
         \/ \E order : slate = <<>> /\ PicksExist(standings, order) /\ slate' = SlateOf(order)
  BY DEF CommitStart, Becomes
<1>2. Idle.at = "idle"
  BY DEF Idle
<1>3. CASE slate' = slate
  BY <1>1, <1>2, <1>3, RequestMoves DEF Holding
<1>4. ASSUME NEW order, slate = <<>>, PicksExist(standings, order), slate' = SlateOf(order)
      PROVE  Safe'
  <2>1. /\ DOMAIN slate' \subseteq Int /\ slate' \in [DOMAIN slate' -> SelectionRow]
        /\ \A i \in DOMAIN slate' : slate'[i].status = "Unused"
    BY <1>4, NewSlate DEF Typed
  <2>2. DOMAIN slate = {}
    BY <1>4
  <2>3. \A s \in Requests : request[s].at \notin Holding
    BY <2>2 DEF LocksOK, OnTheClock, Unused
  <2>4. /\ request'[r] = Idle /\ \A s \in Requests \ {r} : request'[s] = request[s]
        /\ request' = [s \in Requests |-> request'[s]]
    BY <1>1 DEF Typed
  <2>5. Typed'
    BY <1>1, <1>2, <2>1, <2>4 DEF Typed, Holding
  <2>6. LocksOK'
    BY <1>2, <2>3, <2>4 DEF LocksOK, Holding
  <2>7. Selected' = {}
    BY <2>1 DEF Selected
  <2>8. DraftOK'
    BY <1>1, <1>2, <2>3, <2>4, <2>7 DEF DraftOK, Holding
  <2> QED BY <2>5, <2>6, <2>8
<1> QED BY <1>1, <1>3, <1>4

LEMMA SafeAround ==
  ASSUME Safe,
         \/ \E entry \in Edits : SaveStandings(entry)
         \/ \E pick \in Natural, team \in Teams : TradePick(pick, team)
         \/ \E player \in Players : DropPlayer(player)
         \/ \E c \in NewFacts : CorrectFacts(c)
         \/ DeadlinePasses \/ UNCHANGED vars
  PROVE  Safe'
<1> USE DEF Safe
<1>1. UNCHANGED <<setting, slate, request>>
  BY DEF SaveStandings, TradePick, DropPlayer, CorrectFacts, DeadlinePasses, draftVars, vars
<1>2. Unused' = Unused /\ Selected' = Selected
  BY <1>1 DEF Unused, Selected
<1>3. LocksOK'
  BY <1>1, <1>2 DEF LocksOK, OnTheClock
<1>4. ASSUME NEW player \in Players, DropPlayer(player)
      PROVE  Typed' /\ DraftOK'
  <2>1. /\ holder' = [holder EXCEPT ![player] = Never] /\ UNCHANGED <<owner, window>>
        /\ dropped' = IF window = "open" THEN dropped \cup {player} ELSE dropped
    BY <1>4 DEF DropPlayer
  <2> QED BY <1>1, <1>2, <2>1 DEF Typed, DraftOK, Undrafted
<1>5. ASSUME NEW pick \in Natural, NEW team \in Teams, TradePick(pick, team)
      PROVE  Typed' /\ DraftOK'
  BY <1>1, <1>2, <1>5 DEF TradePick, draftVars, Typed, DraftOK, Undrafted
<1>6. ASSUME DeadlinePasses
      PROVE  Typed' /\ DraftOK'
  BY <1>1, <1>6 DEF DeadlinePasses, draftVars, Typed, DraftOK
<1>7. ASSUME UNCHANGED <<owner, holder, dropped, window>>
      PROVE  Typed' /\ DraftOK'
  BY <1>1, <1>2, <1>7 DEF Typed, DraftOK, Undrafted
<1>8. Typed' /\ DraftOK'
  BY <1>4, <1>5, <1>6, <1>7 DEF SaveStandings, CorrectFacts, draftVars, vars
<1> QED BY <1>3, <1>8

LEMMA SafeStep == Safe /\ [Next]_vars => Safe'
BY SafeRequests, SafeCommitPick, SafeCommitPass, SafeCommitStart, SafeAround DEF Next

LEMMA AlwaysSafe == Spec => []Safe
BY SafeInit, SafeStep, PTL DEF Spec

\* While the draft is in its window nobody is drafted twice: not when two requests want the same
\* player, nor when he is dropped in between (make_pick, re_draft_ban_check).
THEOREM NobodyDraftedTwice == Spec => []DraftedOnce
<1>1. Safe => DraftedOnce
  BY DEF Safe, DraftOK, DraftedOnce
<1> QED BY <1>1, AlwaysSafe, PTL

\* Selections are resolved one after the other in the order of the slate, each once, whatever picks
\* and passes race (require_own_pick_on_the_clock, find_selection_by_id_for_update).
THEOREM PicksInTurn == Spec => InTurn
<1> DEFINE Turn ==
      slate # <<>> => \A i \in DOMAIN slate : slate'[i] # slate[i] =>
        OnTheClock(i) /\ \A j \in DOMAIN slate : j # i => slate'[j] = slate[j]
<1>1. Safe /\ [Next]_vars => [Turn]_vars
  <2> SUFFICES ASSUME Safe, Next, slate # <<>>
               PROVE  Turn
    BY DEF vars
  <2>1. ASSUME NEW r \in Requests, CommitPick(r)
        PROVE  Turn
    <3> DEFINE i == request[r].selection
    <3>1. OnTheClock(i) /\ i \in DOMAIN slate /\ request[r].player \in Players
      BY <2>1 DEF CommitPick, Safe, Typed, LocksOK, Holding, OnTheClock, Unused, PickRequest
    <3>2. \A j \in DOMAIN slate \ {i} : slate'[j] = slate[j]
      BY <2>1, <3>1, ResultWritten DEF CommitPick, Safe
    <3> QED BY <3>1, <3>2
  <2>2. ASSUME NEW r \in Requests, CommitPass(r)
        PROVE  Turn
    <3> DEFINE i == request[r].selection
    <3>1. CASE StillOpen(i)
      <4>1. OnTheClock(i) /\ i \in DOMAIN slate
        BY <3>1 DEF StillOpen, Unused
      <4>2. \A j \in DOMAIN slate \ {i} : slate'[j] = slate[j]
        BY <2>2, <3>1, <4>1, ResultWritten DEF CommitPass, Safe
      <4> QED BY <4>1, <4>2
    <3>2. CASE ~StillOpen(i)
      BY <2>2, <3>2 DEF CommitPass
    <3> QED BY <3>1, <3>2
  <2>3. CASE slate' = slate
    BY <2>3
  <2> QED BY <2>1, <2>2, <2>3 DEF Next, draftVars, SaveStandings, TradePick, DropPlayer, CorrectFacts,
       DeadlinePasses, BeginLottery, CommitSeed, SaveDraw, Crash, BeginStart, CommitStart, BeginPass,
       BeginPick, LockSelection, ClearPick
<1> QED BY <1>1, AlwaysSafe, PTL DEF Spec, InTurn

-----------------------------------------------------------------------------
(* Types *)

LotteryTyped ==
  /\ lottery \in [seed : Seeds \cup {Never}, order : Seq(Teams)]
  /\ \A i, j \in DOMAIN lottery.order : lottery.order[i] = lottery.order[j] => i = j

Steps == {"idle", "seeding", "drawing", "starting", "picking", "passing", "locked", "cleared"}
RequestTyped(q) ==
  /\ q.at \in Steps
  /\ q.at \in {"seeding", "drawing"} => StandingsOK(q.standings)
  /\ q.at = "drawing" => q.seed \in Seeds

\* A row names a player once he has been selected.
RowTyped(row) == row \in SelectionRow /\ (row.player # Never <=> row.status = "PlayerSelected")

RestTyped ==
  /\ setting \in Settings /\ StandingsOK(standings)
  /\ paid \in [Players -> 0..4] /\ dropped \subseteq Players /\ facts \in [Players -> FactsOf(Seasons)]
  /\ window \in {"before", "open", "closed"} /\ events \in 0..MaxEvents

Sorted ==
  /\ LotteryTyped /\ RestTyped
  /\ \A r \in Requests : RequestTyped(request[r])
  /\ slate \in Seq(SelectionRow) /\ \A i \in DOMAIN slate : RowTyped(slate[i])

LEMMA LotteryDrawn ==
  ASSUME NEW st, StandingsOK(st), NEW seed \in Seeds, NEW order, Lists(order, Missed(st))
  PROVE  /\ [seed |-> seed, order |-> order] \in [seed : Seeds \cup {Never}, order : Seq(Teams)]
         /\ order \in Seq(Teams) /\ \A i, j \in DOMAIN order : order[i] = order[j] => i = j
<1>1. Missed(st) \subseteq Teams
  BY DEF StandingsOK, Missed
<1>2. order \in Seq(Missed(st))
  BY DEF Lists
<1>3. order \in Seq(Teams) /\ DOMAIN order = 1..Len(order)
  BY <1>1, <1>2
<1> QED BY <1>3 DEF Lists

LEMMA NewRows ==
  ASSUME owner \in [Natural -> Teams], NEW order, PicksExist(standings, order),
         NEW m, m = Len(DraftSlots(standings, order, Rounds)), m \in Nat
  PROVE  /\ SlateOf(order) \in Seq(SelectionRow)
         /\ \A i \in DOMAIN SlateOf(order) : RowTyped(SlateOf(order)[i])
         /\ DOMAIN SlateOf(order) = 1..m /\ Len(SlateOf(order)) = m
         /\ \A i \in 1..m : SlateOf(order)[i].pick = DraftSlots(standings, order, Rounds)[i]
<1> DEFINE slots == DraftSlots(standings, order, Rounds)
           new == SlateOf(order)
<1>1. new = [i \in 1..m |-> Selection(slots[i])]
  BY DEF SlateOf
<1>2. \A i \in 1..m : slots[i] \in Natural
  BY DEF PicksExist
<1> HIDE DEF slots, new
<1>3. \A i \in 1..m : RowTyped(Selection(slots[i])) /\ Selection(slots[i]).pick = slots[i]
  BY <1>2 DEF Selection, SelectionRow, RowTyped
<1>4. \A i \in 1..m : Selection(slots[i]) \in SelectionRow
  BY <1>3 DEF RowTyped
<1>5. new \in [1..m -> SelectionRow]
  BY <1>1, <1>4
<1>6. new \in Seq(SelectionRow) /\ Len(new) = m /\ DOMAIN new = 1..m
  BY <1>5
<1>7. \A i \in 1..m : RowTyped(new[i]) /\ new[i].pick = slots[i]
  BY <1>1, <1>3
<1> QED BY <1>6, <1>7 DEF new, slots

\* A slate as it is built from some standings that the lottery's order fits.
Shaped(rows, st, order) ==
  LET n == Cardinality(DOMAIN st) IN
  /\ StandingsOK(st) /\ Lists(order, Missed(st)) /\ order # <<>>
  /\ Len(rows) = Rounds * n
  /\ \A r \in 1..Rounds, p \in 1..n : rows[Place(r, p, n)].pick = Due(st, order, r, p)

LEMMA NewSlateShaped ==
  ASSUME owner \in [Natural -> Teams], StandingsOK(standings),
         NEW order, Lists(order, Missed(standings)), order # <<>>
  PROVE  /\ SlateOf(order) \in Seq(SelectionRow)
         /\ \A i \in DOMAIN SlateOf(order) : RowTyped(SlateOf(order)[i])
         /\ Shaped(SlateOf(order), standings, order)
<1> DEFINE n == Cardinality(DOMAIN standings)
           slots == DraftSlots(standings, order, Rounds)
           m == Len(slots)
           new == SlateOf(order)
           V == [round : 1..Rounds, team : DOMAIN standings]
<1>1. n \in Nat /\ Rounds \in Nat
  BY TeamsParted, RoundsPositive, FS_CardinalityType
<1> HIDE DEF n
<1>2. /\ slots \in Seq(V) /\ Len(slots) = Rounds * n
      /\ \A r \in 1..Rounds, p \in 1..n : slots[Place(r, p, n)] = Due(standings, order, r, p)
  <2>1. n = Cardinality(DOMAIN standings)
    BY DEF n
  <2> QED BY <2>1, SlotsInPlace
<1> HIDE DEF V
<1>3. m \in Nat /\ PicksExist(standings, order)
  <2>1. PicksExist(standings, order)
    BY SlotsHavePicks
  <2> HIDE DEF slots
  <2>2. Len(slots) \in Nat
    BY <1>2
  <2> QED BY <2>1, <2>2
<1> HIDE DEF m
<1>4. m = Len(DraftSlots(standings, order, Rounds))
  BY DEF m
<1> HIDE DEF new
<1>5. /\ new \in Seq(SelectionRow) /\ \A i \in DOMAIN new : RowTyped(new[i])
      /\ Len(new) = m /\ \A i \in 1..m : new[i].pick = DraftSlots(standings, order, Rounds)[i]
  BY <1>3, <1>4, NewRows DEF new
<1>6. \A r \in 1..Rounds, p \in 1..n : Place(r, p, n) \in 1..m
  <2>1. m = Rounds * n
    BY <1>2 DEF m
  <2> QED BY <1>1, <2>1, Places
<1> HIDE DEF slots
<1>7. Len(new) = Rounds * n
  BY <1>2, <1>4, <1>5 DEF slots
<1>8. \A r \in 1..Rounds, p \in 1..n : new[Place(r, p, n)].pick = Due(standings, order, r, p)
  BY <1>2, <1>5, <1>6 DEF slots
<1>9. Shaped(new, standings, order)
  BY <1>7, <1>8 DEF Shaped, n
<1> QED BY <1>5, <1>9 DEF new

-----------------------------------------------------------------------------
(* The slate and the standings it comes from *)

\* Every team has a standing, and whatever the commissioner enters in the course of the season, the
\* playoff teams are told apart by their finish or their rank.
EveryTeamStands == DOMAIN FirstStandings = Teams
Entered(st, entry) ==
  [t \in DOMAIN entry \cup DOMAIN st |-> IF t \in DOMAIN entry THEN entry[t] ELSE st[t]]
ToldApart(S) ==
  FirstStandings \in S /\ \A st \in S : Apart(st) /\ \A entry \in Edits : Entered(st, entry) \in S
FinishesApart == \E S : ToldApart(S)

Decided == EveryTeamStands /\ FinishesApart
Reached == CHOOSE S : ToldApart(S)
Ranked(st) == Decided => st \in Reached /\ DOMAIN st = Teams

Slated == slate # <<>> => \E st : Shaped(slate, st, lottery.order) /\ Ranked(st)

Drafted == Safe /\ Sorted /\ Slated /\ Ranked(standings)

LEMMA RankedEntry ==
  ASSUME NEW entry \in Edits, Ranked(standings), StandingsOK(standings), standings' = Upserted(entry)
  PROVE  Ranked(standings') /\ StandingsOK(standings')
<1> DEFINE next == Entered(standings, entry)
<1>1. standings' = next
  BY DEF Upserted, Entered
<1>2. DOMAIN entry \subseteq Teams /\ \A t \in DOMAIN entry : entry[t] \in StandingRow
  BY DraftConstants
<1>3. StandingsOK(next)
  BY <1>2 DEF StandingsOK, Entered
<1>4. ASSUME Decided
      PROVE  next \in Reached /\ DOMAIN next = Teams
  <2>1. ToldApart(Reached)
    BY <1>4 DEF Reached, Decided, FinishesApart
  <2>2. standings \in Reached /\ DOMAIN standings = Teams
    BY <1>4 DEF Ranked
  <2>3. DOMAIN next = Teams
    BY <1>2, <2>2 DEF Entered
  <2> QED BY <2>1, <2>2, <2>3 DEF ToldApart
<1> QED BY <1>1, <1>3, <1>4 DEF Ranked

LEMMA DraftedInit == Init => Drafted
<1> SUFFICES ASSUME Init
             PROVE  Drafted
  OBVIOUS
<1>1. setting \in Settings /\ standings = FirstStandings /\ StandingsOK(standings)
  BY FirstDraw DEF Init
<1>2. PICK seed \in Seeds :
        /\ lottery = IF setting.started THEN [seed |-> seed, order |-> Drawn(standings, Draw[seed])]
                     ELSE NoLottery
        /\ slate = IF setting.started THEN SlateOf(Drawn(standings, Draw[seed])) ELSE <<>>
  BY DEF Init
<1> DEFINE order == Drawn(standings, Draw[seed])
<1>3. setting.started => Lists(order, Missed(standings)) /\ order # <<>>
  BY <1>1, FirstDraw
<1>4. owner \in [Natural -> Teams]
  BY DEF Init, Natural
<1>5. Ranked(standings)
  <2>1. Decided => FirstStandings \in Reached /\ DOMAIN FirstStandings = Teams
    BY DEF Decided, FinishesApart, EveryTeamStands, Reached, ToldApart
  <2> QED BY <1>1, <2>1 DEF Ranked
<1> HIDE DEF order
<1>6. LotteryTyped
  <2>1. CASE setting.started
    <3>1. lottery = [seed |-> seed, order |-> order]
      BY <1>2, <2>1 DEF order
    <3>2. /\ [seed |-> seed, order |-> order] \in [seed : Seeds \cup {Never}, order : Seq(Teams)]
          /\ \A i, j \in DOMAIN order : order[i] = order[j] => i = j
      BY <1>1, <1>3, <2>1, LotteryDrawn
    <3> QED BY <3>1, <3>2 DEF LotteryTyped
  <2>2. CASE ~setting.started
    BY <1>2, <2>2 DEF LotteryTyped, NoLottery
  <2> QED BY <2>1, <2>2
<1>7. /\ slate \in Seq(SelectionRow) /\ \A i \in DOMAIN slate : RowTyped(slate[i])
      /\ slate # <<>> => Shaped(slate, standings, lottery.order)
  <2>1. CASE setting.started
    <3>1. slate = SlateOf(order) /\ lottery.order = order
      BY <1>2, <2>1 DEF order
    <3>2. /\ SlateOf(order) \in Seq(SelectionRow)
          /\ \A i \in DOMAIN SlateOf(order) : RowTyped(SlateOf(order)[i])
          /\ Shaped(SlateOf(order), standings, order)
      BY <1>1, <1>3, <1>4, <2>1, NewSlateShaped
    <3> QED BY <3>1, <3>2
  <2>2. CASE ~setting.started
    <3>1. slate = <<>>
      BY <1>2, <2>2
    <3> QED BY <3>1
  <2> QED BY <2>1, <2>2
<1>8. \A r \in Requests : RequestTyped(request[r])
  BY DEF Init, Idle, RequestTyped, Steps
<1>9. RestTyped
  <2>1. paid \in [Players -> 0..4] /\ dropped \subseteq Players /\ facts \in [Players -> FactsOf(Seasons)]
    BY DraftConstants DEF Init
  <2>2. window \in {"before", "open", "closed"} /\ events \in 0..MaxEvents
    BY DraftConstants DEF Init
  <2> QED BY <1>1, <2>1, <2>2 DEF RestTyped
<1> QED BY <1>5, <1>6, <1>7, <1>8, <1>9, SafeInit DEF Drafted, Sorted, Slated

\* The rows may be resolved, but never leave their place.
LEMMA ShapeStays ==
  ASSUME NEW rows, NEW next, NEW st, NEW order, Shaped(rows, st, order), Len(next) = Len(rows),
         \A i \in 1..Len(rows) : next[i].pick = rows[i].pick
  PROVE  Shaped(next, st, order)
<1> DEFINE n == Cardinality(DOMAIN st)
<1>1. n \in Nat /\ Rounds \in Nat
  <2>1. StandingsOK(st)
    BY DEF Shaped
  <2> QED BY <2>1, TeamsParted, RoundsPositive, FS_CardinalityType
<1>2. /\ Len(rows) = Rounds * n
      /\ \A r \in 1..Rounds, p \in 1..n : rows[Place(r, p, n)].pick = Due(st, order, r, p)
  BY DEF Shaped
<1>3. \A r \in 1..Rounds, p \in 1..n : Place(r, p, n) \in 1..Rounds * n
  BY <1>1, Places
<1>4. \A r \in 1..Rounds, p \in 1..n : next[Place(r, p, n)].pick = Due(st, order, r, p)
  BY <1>2, <1>3
<1> HIDE DEF n
<1>5. Len(next) = Rounds * n
  BY <1>2
<1> QED BY <1>4, <1>5 DEF Shaped, n

LEMMA RequestsTyped ==
  ASSUME Drafted, NEW r \in Requests, NEW q, request' = [request EXCEPT ![r] = q], RequestTyped(q)
  PROVE  \A s \in Requests : RequestTyped(request'[s])
<1>1. \A s \in Requests : request'[s] = IF s = r THEN q ELSE request[s]
  BY DEF Drafted, Safe, Typed
<1> QED BY <1>1 DEF Drafted, Sorted

LEMMA IdleTyped == RequestTyped(Idle)
BY DEF RequestTyped, Idle, Steps

\* Steps that leave the slate, the lottery and what requests have read alone.
LEMMA DraftedAround ==
  ASSUME Drafted,
         \/ \E entry \in Edits : SaveStandings(entry)
         \/ \E pick \in Natural, team \in Teams : TradePick(pick, team)
         \/ \E player \in Players : DropPlayer(player)
         \/ \E c \in NewFacts : CorrectFacts(c)
         \/ DeadlinePasses \/ UNCHANGED vars
  PROVE  Sorted' /\ Slated' /\ Ranked(standings)'
<1>1. UNCHANGED <<setting, slate, lottery, request, paid>>
  BY DEF SaveStandings, TradePick, DropPlayer, CorrectFacts, DeadlinePasses, draftVars, vars
<1>2. LotteryTyped' /\ Slated' /\ slate' \in Seq(SelectionRow)
      /\ (\A i \in DOMAIN slate' : RowTyped(slate'[i])) /\ \A r \in Requests : RequestTyped(request'[r])
  BY <1>1 DEF Drafted, Sorted, LotteryTyped, Slated
<1>3. MaxEvents \in Nat
  BY DraftConstants
<1>4. StandingsOK(standings') /\ Ranked(standings')
  <2>1. ASSUME NEW entry \in Edits, SaveStandings(entry)
        PROVE  StandingsOK(standings') /\ Ranked(standings')
    BY <2>1, RankedEntry DEF SaveStandings, Drafted, Sorted, RestTyped
  <2>2. CASE standings' = standings
    BY <2>2 DEF Drafted, Sorted, RestTyped
  <2> QED BY <2>1, <2>2 DEF TradePick, DropPlayer, CorrectFacts, DeadlinePasses, draftVars, vars
<1>5. events' \in 0..MaxEvents
  <2>1. events \in 0..MaxEvents
    BY DEF Drafted, Sorted, RestTyped
  <2>2. events' = events \/ (events < MaxEvents /\ events' = events + 1)
    BY DEF SaveStandings, TradePick, DropPlayer, CorrectFacts, DeadlinePasses, Happens, vars
  <2> QED BY <1>3, <2>1, <2>2
<1>6. window' \in {"before", "open", "closed"}
  BY DEF SaveStandings, TradePick, DropPlayer, CorrectFacts, DeadlinePasses, vars, draftVars, Drafted,
         Sorted, RestTyped
<1>7. dropped' \subseteq Players
  BY DEF SaveStandings, TradePick, DropPlayer, CorrectFacts, DeadlinePasses, vars, draftVars, Drafted,
         Sorted, RestTyped
<1>8. facts' \in [Players -> FactsOf(Seasons)]
  <2>1. facts \in [Players -> FactsOf(Seasons)]
    BY DEF Drafted, Sorted, RestTyped
  <2>2. ASSUME NEW c \in NewFacts, CorrectFacts(c)
        PROVE  facts' \in [Players -> FactsOf(Seasons)]
    <3>1. /\ c.player \in Players /\ c.played \in BOOLEAN /\ c.first \in Seasons \cup {Never}
          /\ c.override \in Classes \cup {Never}
      BY DraftConstants
    <3>2. facts[c.player] \in FactsOf(Seasons)
      BY <2>1, <3>1
    <3> DEFINE now == [facts[c.player] EXCEPT !.played = c.played, !.first = c.first, !.override = c.override]
    <3>3. now \in FactsOf(Seasons)
      BY <3>1, <3>2 DEF FactsOf
    <3>4. facts' = [facts EXCEPT ![c.player] = now]
      BY <2>1, <2>2, <3>1 DEF CorrectFacts
    <3> HIDE DEF now
    <3> QED BY <2>1, <3>3, <3>4
  <2>3. CASE facts' = facts
    BY <2>1, <2>3
  <2> QED BY <2>2, <2>3 DEF SaveStandings, TradePick, DropPlayer, DeadlinePasses, draftVars, vars
<1>9. RestTyped'
  BY <1>1, <1>4, <1>5, <1>6, <1>7, <1>8 DEF RestTyped, Drafted, Sorted
<1> QED BY <1>2, <1>4, <1>9 DEF Sorted

LEMMA SeedKeptIn ==
  ASSUME Drafted, NEW seed \in Seeds
  PROVE  SeedKept(seed) \in Seeds
BY DEF Drafted, Sorted, LotteryTyped, SeedKept

\* Steps of a request that leave the slate as it is.
LEMMA DraftedRequests ==
  ASSUME Drafted, NEW r \in Requests,
         \/ BeginLottery(r) \/ CommitSeed(r) \/ SaveDraw(r) \/ Crash(r) \/ BeginStart(r)
         \/ \E i \in DOMAIN slate : BeginPass(r, i) \/ \E player \in Players : BeginPick(r, i, player)
         \/ LockSelection(r) \/ ClearPick(r)
  PROVE  Sorted' /\ Slated' /\ Ranked(standings)'
<1>1. UNCHANGED <<setting, standings, slate, paid, dropped, facts, window>>
  BY DEF BeginLottery, CommitSeed, SaveDraw, Crash, BeginStart, BeginPass, BeginPick, LockSelection, ClearPick
<1>2. RestTyped'
  <2>1. events' = events \/ (events < MaxEvents /\ events' = events + 1)
    BY DEF BeginLottery, CommitSeed, SaveDraw, Crash, BeginStart, BeginPass, BeginPick, LockSelection,
           ClearPick, Happens
  <2>2. MaxEvents \in Nat /\ events \in 0..MaxEvents
    BY DraftConstants DEF Drafted, Sorted, RestTyped
  <2>3. events' \in 0..MaxEvents
    BY <2>1, <2>2
  <2> QED BY <1>1, <2>3 DEF RestTyped, Drafted, Sorted
<1>3. StandingsOK(standings) /\ RequestTyped(request[r]) /\ LotteryTyped
  BY DEF Drafted, Sorted, RestTyped
<1>4. \E q : request' = [request EXCEPT ![r] = q] /\ RequestTyped(q)
  <2>1. CASE BeginLottery(r)
    <3> DEFINE q == [at |-> "seeding", standings |-> standings]
    <3>1. RequestTyped(q)
      BY <1>3 DEF RequestTyped, Steps
    <3>2. request' = [request EXCEPT ![r] = q]
      BY <2>1 DEF BeginLottery, Becomes
    <3> HIDE DEF q
    <3> QED BY <3>1, <3>2
  <2>2. CASE CommitSeed(r)
    <3>1. CASE lottery.order # <<>>
      BY <2>2, <3>1, IdleTyped DEF CommitSeed, Becomes
    <3>2. CASE lottery.order = <<>>
      <4>1. PICK seed \in Seeds :
              request' = [request EXCEPT ![r] = [at |-> "drawing", standings |-> request[r].standings,
                                                 seed |-> SeedKept(seed)]]
        BY <2>2, <3>2 DEF CommitSeed, Becomes
      <4>2. SeedKept(seed) \in Seeds /\ StandingsOK(request[r].standings)
        BY <1>3, <2>2, SeedKeptIn DEF CommitSeed, RequestTyped
      <4> DEFINE q == [at |-> "drawing", standings |-> request[r].standings, seed |-> SeedKept(seed)]
      <4>3. RequestTyped(q)
        BY <4>2 DEF RequestTyped, Steps
      <4> QED BY <4>1, <4>3
    <3> QED BY <3>1, <3>2
  <2>3. CASE SaveDraw(r) \/ Crash(r)
    BY <2>3, IdleTyped DEF SaveDraw, Crash, Becomes
  <2>4. CASE BeginStart(r)
    <3> DEFINE q == [at |-> "starting"]
    <3>1. RequestTyped(q)
      BY DEF RequestTyped, Steps
    <3>2. request' = [request EXCEPT ![r] = q]
      BY <2>4 DEF BeginStart, Becomes
    <3> HIDE DEF q
    <3> QED BY <3>1, <3>2
  <2>5. ASSUME NEW i \in DOMAIN slate, BeginPass(r, i)
        PROVE  \E q : request' = [request EXCEPT ![r] = q] /\ RequestTyped(q)
    <3> DEFINE q == [at |-> "passing", selection |-> i]
    <3>1. RequestTyped(q)
      BY DEF RequestTyped, Steps
    <3>2. request' = [request EXCEPT ![r] = q]
      BY <2>5 DEF BeginPass, Becomes
    <3> HIDE DEF q
    <3> QED BY <3>1, <3>2
  <2>6. ASSUME NEW i \in DOMAIN slate, NEW player \in Players, BeginPick(r, i, player)
        PROVE  \E q : request' = [request EXCEPT ![r] = q] /\ RequestTyped(q)
    <3> DEFINE q == [at |-> "picking", selection |-> i, player |-> player]
    <3>1. RequestTyped(q)
      BY DEF RequestTyped, Steps
    <3>2. request' = [request EXCEPT ![r] = q]
      BY <2>6 DEF BeginPick, Becomes
    <3> HIDE DEF q
    <3> QED BY <3>1, <3>2
  <2>7. CASE LockSelection(r) \/ ClearPick(r)
    <3>1. request[r].at \in {"picking", "locked"}
      BY <2>7 DEF LockSelection, ClearPick
    <3>2. request[r] \in PickRequest
      BY <3>1 DEF Drafted, Safe, Typed, Holding
    <3>3. ASSUME NEW at \in {"locked", "cleared"}
          PROVE  RequestTyped([request[r] EXCEPT !.at = at])
      BY <3>2 DEF PickRequest, RequestTyped, Steps
    <3>4. /\ RequestTyped([request[r] EXCEPT !.at = "locked"])
          /\ RequestTyped([request[r] EXCEPT !.at = "cleared"])
      BY <3>3
    <3>5. \E q \in {Idle, [request[r] EXCEPT !.at = "locked"], [request[r] EXCEPT !.at = "cleared"]} :
            request' = [request EXCEPT ![r] = q]
      BY <2>7 DEF LockSelection, ClearPick, Becomes
    <3> QED BY <3>4, <3>5, IdleTyped
  <2> QED BY <2>1, <2>2, <2>3, <2>4, <2>5, <2>6, <2>7
<1>5. \A s \in Requests : RequestTyped(request'[s])
  BY <1>4, RequestsTyped
<1>6. LotteryTyped' /\ (slate # <<>> => lottery'.order = lottery.order)
  <2>1. ASSUME CommitSeed(r), lottery' # lottery
        PROVE  LotteryTyped' /\ lottery'.order = lottery.order
    <3>1. PICK seed \in Seeds : lottery' = [lottery EXCEPT !.seed = SeedKept(seed)]
      BY <2>1 DEF CommitSeed
    <3> QED BY <1>3, <3>1, SeedKeptIn DEF LotteryTyped
  <2>2. ASSUME SaveDraw(r), lottery' # lottery
        PROVE  LotteryTyped' /\ slate = <<>>
    <3> DEFINE st == request[r].standings
               seed == request[r].seed
               order == Drawn(st, Draw[seed])
    <3>1. /\ lottery.order = <<>> /\ Drawable(st, seed) /\ lottery' = [lottery EXCEPT !.order = order]
          /\ StandingsOK(st) /\ seed \in Seeds
      BY <1>3, <2>2 DEF SaveDraw, RequestTyped
    <3>2. slate = <<>>
      BY <3>1 DEF Drafted, Slated, Shaped
    <3>3. Lists(order, Missed(st))
      BY <3>1, DrawnLists
    <3> HIDE DEF st, seed, order
    <3>4. order \in Seq(Teams) /\ \A i, j \in DOMAIN order : order[i] = order[j] => i = j
      BY <3>1, <3>3, LotteryDrawn
    <3>5. lottery' \in [seed : Seeds \cup {Never}, order : Seq(Teams)] /\ lottery'.order = order
      BY <1>3, <3>1, <3>4 DEF LotteryTyped
    <3> QED BY <3>2, <3>4, <3>5 DEF LotteryTyped
  <2>3. CASE lottery' = lottery
    BY <1>3, <2>3 DEF LotteryTyped
  <2> QED BY <2>1, <2>2, <2>3 DEF BeginLottery, Crash, BeginStart, BeginPass, BeginPick,
       LockSelection, ClearPick
<1>7. slate' \in Seq(SelectionRow) /\ \A i \in DOMAIN slate' : RowTyped(slate'[i])
  BY <1>1 DEF Drafted, Sorted
<1>8. Slated' /\ Ranked(standings)'
  BY <1>1, <1>6 DEF Drafted, Slated
<1> QED BY <1>2, <1>5, <1>6, <1>7, <1>8 DEF Sorted

LEMMA DraftedStart ==
  ASSUME Drafted, NEW r \in Requests, CommitStart(r)
  PROVE  Sorted' /\ Slated' /\ Ranked(standings)'
<1>1. /\ UNCHANGED <<setting, standings, owner, paid, dropped, facts, window, events>>
      /\ request' = [request EXCEPT ![r] = Idle]
  BY DEF CommitStart, Becomes
<1>2. RestTyped' /\ Ranked(standings)'
  BY <1>1 DEF RestTyped, Drafted, Sorted
<1>3. \A s \in Requests : RequestTyped(request'[s])
  BY <1>1, IdleTyped, RequestsTyped
<1>4. StandingsOK(standings) /\ LotteryTyped /\ owner \in [Natural -> Teams] /\ Ranked(standings)
  BY DEF Drafted, Sorted, RestTyped, Safe, Typed
<1>5. CASE UNCHANGED <<lottery, slate>>
  <2>1. /\ LotteryTyped' /\ Slated' /\ slate' \in Seq(SelectionRow)
        /\ \A i \in DOMAIN slate' : RowTyped(slate'[i])
    BY <1>5 DEF Drafted, Sorted, LotteryTyped, Slated
  <2> QED BY <1>2, <1>3, <2>1 DEF Sorted
<1>6. CASE ~UNCHANGED <<lottery, slate>>
  <2>1. PICK s \in Seeds :
          LET seed == SeedKept(s)
              drawn == IF lottery.order # <<>> THEN lottery
                       ELSE [seed |-> seed, order |-> Drawn(standings, Draw[seed])]
          IN /\ lottery.order = <<>> => Drawable(standings, seed)
             /\ OrderDefined(standings, drawn.order)
             /\ lottery' = drawn /\ slate' = SlateOf(drawn.order)
    BY <1>6 DEF CommitStart
  <2> DEFINE seed == SeedKept(s)
             order == lottery'.order
  <2>2. seed \in Seeds
    BY SeedKeptIn
  <2> HIDE DEF seed
  <2>3. LotteryTyped' /\ Lists(order, Missed(standings)) /\ order # <<>>
    <3>1. CASE lottery.order # <<>>
      <4>1. lottery' = lottery /\ OrderDefined(standings, lottery.order)
        BY <2>1, <3>1
      <4>2. /\ lottery.order \in Seq(Teams)
            /\ \A i, j \in DOMAIN lottery.order : lottery.order[i] = lottery.order[j] => i = j
        BY <1>4 DEF LotteryTyped
      <4>3. Lists(lottery.order, Missed(standings))
        BY <1>4, <4>1, <4>2, OrderLists
      <4>4. LotteryTyped'
        BY <1>4, <4>1 DEF LotteryTyped
      <4> QED BY <3>1, <4>1, <4>3, <4>4
    <3>2. CASE lottery.order = <<>>
      <4> DEFINE drawn == Drawn(standings, Draw[seed])
      <4>1. lottery' = [seed |-> seed, order |-> drawn] /\ Drawable(standings, seed)
        BY <2>1, <3>2 DEF seed
      <4>2. Lists(drawn, Missed(standings)) /\ drawn # <<>>
        BY <1>4, <2>2, <4>1, DrawnLists
      <4> HIDE DEF drawn
      <4>3. /\ [seed |-> seed, order |-> drawn] \in [seed : Seeds \cup {Never}, order : Seq(Teams)]
            /\ \A i, j \in DOMAIN drawn : drawn[i] = drawn[j] => i = j
        BY <1>4, <2>2, <4>2, LotteryDrawn
      <4>4. order = drawn
        BY <4>1
      <4>5. LotteryTyped'
        BY <4>1, <4>3 DEF LotteryTyped
      <4> QED BY <4>2, <4>4, <4>5
    <3> QED BY <3>1, <3>2
  <2>4. slate' = SlateOf(order)
    BY <2>1
  <2> HIDE DEF order
  <2>5. /\ SlateOf(order) \in Seq(SelectionRow)
        /\ \A i \in DOMAIN SlateOf(order) : RowTyped(SlateOf(order)[i])
        /\ Shaped(SlateOf(order), standings, order)
    BY <1>4, <2>3, NewSlateShaped
  <2>6. \E st : Shaped(slate', st, order) /\ Ranked(st)
    BY <1>4, <2>4, <2>5
  <2>7. Slated'
    BY <2>6 DEF Slated, order
  <2>8. slate' \in Seq(SelectionRow) /\ \A i \in DOMAIN slate' : RowTyped(slate'[i])
    BY <2>4, <2>5
  <2> QED BY <1>2, <1>3, <2>3, <2>7, <2>8 DEF Sorted
<1> QED BY <1>5, <1>6

\* A row is resolved.
LEMMA RowsAfterResult ==
  ASSUME Drafted, NEW i \in DOMAIN slate, NEW player \in Players \cup {Never},
         NEW status \in {"PlayerSelected", "Skipped"}, player # Never <=> status = "PlayerSelected"
  PROVE  LET next == Result(i, status, player) IN
         /\ next \in Seq(SelectionRow) /\ \A j \in DOMAIN next : RowTyped(next[j])
         /\ \A st : Shaped(slate, st, lottery.order) => Shaped(next, st, lottery.order)
         /\ slate # <<>>
<1> DEFINE next == Result(i, status, player)
<1>1. slate \in Seq(SelectionRow) /\ \A j \in DOMAIN slate : RowTyped(slate[j])
  BY DEF Drafted, Sorted
<1>2. DOMAIN slate = 1..Len(slate) /\ Len(slate) \in Nat /\ slate # <<>>
  BY <1>1
<1>3. /\ DOMAIN next = DOMAIN slate /\ next \in [DOMAIN slate -> SelectionRow]
      /\ next[i].status = status /\ next[i].player = player
      /\ \A j \in DOMAIN slate \ {i} : next[j] = slate[j]
  BY ResultWritten DEF Drafted, Safe
<1>4. next[i].pick = slate[i].pick
  <2>1. slate[i] \in SelectionRow
    BY <1>1, <1>2
  <2> QED BY <1>1, <1>2, <2>1 DEF Result, SelectionRow
<1> HIDE DEF next
<1>5. next \in Seq(SelectionRow) /\ Len(next) = Len(slate)
  BY <1>2, <1>3
<1>6. \A j \in DOMAIN next : RowTyped(next[j])
  BY <1>1, <1>3 DEF RowTyped
<1>7. \A j \in 1..Len(slate) : next[j].pick = slate[j].pick
  BY <1>2, <1>3, <1>4
<1>8. ASSUME NEW st, Shaped(slate, st, lottery.order)
      PROVE  Shaped(next, st, lottery.order)
  BY <1>5, <1>7, <1>8, ShapeStays
<1> QED BY <1>2, <1>5, <1>6, <1>8 DEF next

LEMMA DraftedPick ==
  ASSUME Drafted, NEW r \in Requests, CommitPick(r)
  PROVE  Sorted' /\ Slated' /\ Ranked(standings)'
<1> DEFINE i == request[r].selection  player == request[r].player
<1>1. i \in DOMAIN slate /\ player \in Players /\ player # Never
  BY DraftConstants DEF CommitPick, Drafted, Safe, Typed, LocksOK, Holding, OnTheClock, Unused, PickRequest
<1>2. /\ slate' = Result(i, "PlayerSelected", player)
      /\ paid' = [paid EXCEPT ![player] = SalaryOfRound[slate[i].pick.round]]
      /\ UNCHANGED <<setting, standings, lottery, dropped, facts, window, events>>
      /\ request' = [request EXCEPT ![r] = Idle]
  BY DEF CommitPick, Becomes
<1>3. /\ slate' \in Seq(SelectionRow) /\ \A j \in DOMAIN slate' : RowTyped(slate'[j])
      /\ \A st : Shaped(slate, st, lottery.order) => Shaped(slate', st, lottery.order)
      /\ slate # <<>>
  BY <1>1, <1>2, RowsAfterResult
<1>4. Slated' /\ Ranked(standings)'
  BY <1>2, <1>3 DEF Drafted, Slated
<1>5. \A s \in Requests : RequestTyped(request'[s])
  BY <1>2, IdleTyped, RequestsTyped
<1>6. paid' \in [Players -> 0..4]
  <2>1. slate[i].pick.round \in 1..Rounds
    BY <1>1 DEF Drafted, Sorted, RowTyped, SelectionRow, Natural
  <2>2. slate[i].pick.round \in {1, 2, 3, 4, 5}
    <3>1. Rounds \in 1..5
      BY DraftConstants DEF SalaryOfRound
    <3> QED BY <2>1, <3>1
  <2>3. \A n \in {1, 2, 3, 4, 5} : SalaryOfRound[n] \in 0..4
    BY DEF SalaryOfRound
  <2>4. paid \in [Players -> 0..4]
    BY DEF Drafted, Sorted, RestTyped
  <2> DEFINE v == SalaryOfRound[slate[i].pick.round]
  <2>5. v \in 0..4 /\ paid' = [paid EXCEPT ![player] = v]
    BY <1>2, <2>2, <2>3
  <2> HIDE DEF v, player
  <2> QED BY <2>4, <2>5
<1>7. RestTyped' /\ LotteryTyped'
  BY <1>2, <1>6 DEF RestTyped, LotteryTyped, Drafted, Sorted
<1> QED BY <1>3, <1>4, <1>5, <1>7 DEF Sorted

LEMMA DraftedPass ==
  ASSUME Drafted, NEW r \in Requests, CommitPass(r)
  PROVE  Sorted' /\ Slated' /\ Ranked(standings)'
<1> DEFINE i == request[r].selection
<1>1. /\ UNCHANGED <<setting, standings, lottery, paid, dropped, facts, window, events>>
      /\ request' = [request EXCEPT ![r] = Idle]
      /\ slate' = IF StillOpen(i) THEN Result(i, "Skipped", Never) ELSE slate
  BY DEF CommitPass, Becomes
<1>2. /\ slate' \in Seq(SelectionRow) /\ \A j \in DOMAIN slate' : RowTyped(slate'[j])
      /\ \A st : Shaped(slate, st, lottery.order) => Shaped(slate', st, lottery.order)
      /\ slate' # <<>> => slate # <<>>
  <2>1. CASE StillOpen(i)
    <3>1. i \in DOMAIN slate
      BY <2>1 DEF StillOpen, Unused
    <3>2. slate' = Result(i, "Skipped", Never)
      BY <1>1, <2>1
    <3> QED BY <3>1, <3>2, RowsAfterResult
  <2>2. CASE ~StillOpen(i)
    BY <1>1, <2>2 DEF Drafted, Sorted
  <2> QED BY <2>1, <2>2
<1>3. Slated' /\ Ranked(standings)'
  BY <1>1, <1>2 DEF Drafted, Slated
<1>4. \A s \in Requests : RequestTyped(request'[s])
  BY <1>1, IdleTyped, RequestsTyped
<1>5. RestTyped' /\ LotteryTyped'
  BY <1>1 DEF RestTyped, LotteryTyped, Drafted, Sorted
<1> QED BY <1>2, <1>3, <1>4, <1>5 DEF Sorted

LEMMA DraftedStep == Drafted /\ [Next]_vars => Drafted'
<1> SUFFICES ASSUME Drafted, [Next]_vars
             PROVE  Sorted' /\ Slated' /\ Ranked(standings)'
  BY SafeStep DEF Drafted
<1> QED BY DraftedAround, DraftedRequests, DraftedStart, DraftedPick, DraftedPass DEF Next

LEMMA AlwaysDrafted == Spec => []Drafted
BY DraftedInit, DraftedStep, PTL DEF Spec

-----------------------------------------------------------------------------
(* Theorems about types and the slate *)

\* What is in the tables of a draft is of their types, and a selection names a player exactly when
\* one has been selected: whatever is entered, drawn, picked or passed at the same time
\* (record_selection_result).
THEOREM TypeCorrect == Spec => []TypeOK
<1>1. Drafted => TypeOK
  <2> SUFFICES ASSUME Drafted
               PROVE  TypeOK
    OBVIOUS
  <2>1. lottery.seed \in Seeds \cup {Never} /\ Range(lottery.order) \subseteq Teams
    BY DEF Drafted, Sorted, LotteryTyped, Range
  <2>2. slate \in Seq([pick : Natural, team : Teams, status : {"Unused", "PlayerSelected", "Skipped"},
                       player : Players \cup {Never}])
    BY DEF Drafted, Sorted, SelectionRow
  <2>3. \A i \in DOMAIN slate : slate[i].player # Never <=> i \in Selected
    BY DEF Drafted, Sorted, RowTyped, Selected
  <2>4. \A r \in Requests : request[r].at \in Steps
    BY DEF Drafted, Sorted, RequestTyped
  <2>5. DOMAIN standings \subseteq Teams
    BY DEF Drafted, Sorted, RestTyped, StandingsOK
  <2>6. owner \in [Natural -> Teams] /\ holder \in [Players -> Teams \cup {Never}]
    BY DEF Drafted, Safe, Typed
  <2> QED BY <2>1, <2>2, <2>3, <2>4, <2>5, <2>6 DEF TypeOK, Drafted, Sorted, RestTyped, Steps
<1> QED BY <1>1, AlwaysDrafted, PTL

-----------------------------------------------------------------------------
(* A slate is complete *)

\* Where every team stands, each pick of the draft has one place in the slate.
Placed(rows, st, order, n) ==
  /\ n \in Nat /\ Rounds \in Nat /\ Rounds >= 1 /\ Len(rows) = Rounds * n
  /\ \A r \in 1..Rounds, p \in 1..n :
       Place(r, p, n) \in DOMAIN rows /\ rows[Place(r, p, n)].pick = Due(st, order, r, p)
  /\ \A k \in DOMAIN rows : \E r \in 1..Rounds, p \in 1..n : k = Place(r, p, n)

LEMMA DueRound ==
  ASSUME NEW st, NEW order, NEW r, NEW p
  PROVE  Due(st, order, r, p).round = r
BY DEF Due

LEMMA PicksPlaced ==
  ASSUME NEW rows \in Seq(SelectionRow), NEW st, NEW order, Shaped(rows, st, order), DOMAIN st = Teams,
         NEW n, n = Cardinality(Teams)
  PROVE  Placed(rows, st, order, n)
<1>1. n \in Nat /\ Rounds \in Nat /\ Rounds >= 1
  <2>1. n \in Nat
    BY DraftConstants, FS_CardinalityType
  <2> QED BY <2>1, RoundsPositive
<1>2. /\ Len(rows) = Rounds * n
      /\ \A r \in 1..Rounds, p \in 1..n : rows[Place(r, p, n)].pick = Due(st, order, r, p)
  BY DEF Shaped
<1>3. DOMAIN rows = 1..Rounds * n
  BY <1>2
<1>4. \A r \in 1..Rounds, p \in 1..n : Place(r, p, n) \in 1..Rounds * n
  BY <1>1, Places
<1>5. \A k \in 1..Rounds * n : \E r \in 1..Rounds, p \in 1..n : k = Place(r, p, n)
  BY <1>1, Places
<1>6. \A r \in 1..Rounds, p \in 1..n :
        Place(r, p, n) \in DOMAIN rows /\ rows[Place(r, p, n)].pick = Due(st, order, r, p)
  BY <1>2, <1>3, <1>4
<1>7. \A k \in DOMAIN rows : \E r \in 1..Rounds, p \in 1..n : k = Place(r, p, n)
  BY <1>3, <1>5
<1> QED BY <1>1, <1>2, <1>6, <1>7 DEF Placed

LEMMA RoundsOfAll ==
  ASSUME NEW st, NEW order, StandingsOK(st), Lists(order, Missed(st)), DOMAIN st = Teams,
         NEW n, n = Cardinality(Teams)
  PROVE  /\ Lists(RoundOne(st, order), Teams) /\ Lists(LaterRounds(st), Teams)
         /\ Len(order) \in Nat /\ Len(order) <= n
         /\ \A i \in 1..Len(order) : RoundOne(st, order)[i] = order[i]
         /\ Apart(st) /\ Cardinality(Playoffs(st)) > 1 => RoundOne(st, order)[n] # LaterRounds(st)[n]
         /\ Playoffs(st) = {t \in Teams : t \notin Range(order)}
<1>1. Playoffs(st) = {t \in Teams : t \notin Range(order)}
  <2>1. Range(order) = Missed(st)
    BY DEF Lists, Range
  <2> QED BY <2>1 DEF Playoffs
<1>2. Lists(RoundOne(st, order), Teams) /\ Lists(LaterRounds(st), Teams)
  BY RoundsList
<1>3. Len(order) \in Nat /\ Len(order) <= n /\ \A i \in 1..Len(order) : RoundOne(st, order)[i] = order[i]
  BY RoundsList
<1>4. Apart(st) /\ Cardinality(Playoffs(st)) > 1 => RoundOne(st, order)[n] # LaterRounds(st)[n]
  BY RoundsList
<1> QED BY <1>1, <1>2, <1>3, <1>4

LEMMA EachPickOnce ==
  ASSUME NEW rows \in Seq(SelectionRow), NEW st, NEW order, Shaped(rows, st, order), DOMAIN st = Teams
  PROVE  /\ {rows[i].pick : i \in DOMAIN rows} = Natural /\ Len(rows) = Cardinality(Natural)
<1> DEFINE n == Cardinality(Teams)
           pick == [i \in DOMAIN rows |-> rows[i].pick]
           first == RoundOne(st, order)
           later == LaterRounds(st)
<1> HIDE DEF n, pick
<1>1. n = Cardinality(Teams)
  BY DEF n
<1>2. /\ n \in Nat /\ Rounds \in Nat /\ Len(rows) = Rounds * n
      /\ \A r \in 1..Rounds, p \in 1..n :
           Place(r, p, n) \in DOMAIN rows /\ rows[Place(r, p, n)].pick = Due(st, order, r, p)
      /\ \A k \in DOMAIN rows : \E r \in 1..Rounds, p \in 1..n : k = Place(r, p, n)
  <2>1. Placed(rows, st, order, n)
    BY <1>1, PicksPlaced
  <2> QED BY <2>1 DEF Placed
<1>3. Lists(first, Teams) /\ Lists(later, Teams)
  BY <1>1, RoundsOfAll DEF Shaped
<1>4. /\ Len(first) = n /\ Len(later) = n
      /\ \A i, j \in 1..n : first[i] = first[j] => i = j
      /\ \A i, j \in 1..n : later[i] = later[j] => i = j
      /\ \A t \in Teams : \E i \in 1..n : first[i] = t
      /\ \A t \in Teams : \E i \in 1..n : later[i] = t
  <2>1. Len(first) = n /\ Len(later) = n
    BY <1>1, <1>3 DEF Lists
  <2> HIDE DEF first, later
  <2> QED BY <1>3, <2>1 DEF Lists
<1> HIDE DEF first, later
<1>5. \A r \in 1..Rounds, p \in 1..n :
        Due(st, order, r, p) = [round |-> r, team |-> IF r = 1 THEN first[p] ELSE later[p]]
  BY DEF Due, first, later
<1>6. pick \in [DOMAIN rows -> Natural]
  <2>1. \A i \in DOMAIN rows : rows[i] \in SelectionRow
    OBVIOUS
  <2>2. \A e \in SelectionRow : e.pick \in Natural
    BY DEF SelectionRow
  <2>3. \A i \in DOMAIN rows : rows[i].pick \in Natural
    BY <2>1, <2>2
  <2> QED BY <2>3 DEF pick
<1>7. ASSUME NEW i \in DOMAIN rows, NEW j \in DOMAIN rows, rows[i].pick = rows[j].pick
      PROVE  i = j
  <2>1. PICK r \in 1..Rounds, p \in 1..n : i = Place(r, p, n)
    BY <1>2
  <2>2. PICK s \in 1..Rounds, q \in 1..n : j = Place(s, q, n)
    BY <1>2
  <2>3. Due(st, order, r, p) = Due(st, order, s, q)
    <3>1. rows[Place(r, p, n)].pick = Due(st, order, r, p) /\ rows[Place(s, q, n)].pick = Due(st, order, s, q)
      BY <1>2
    <3> QED BY <1>7, <2>1, <2>2, <3>1
  <2>4. r = s
    <3>1. Due(st, order, r, p).round = r /\ Due(st, order, s, q).round = s
      BY DEF Due
    <3> QED BY <2>3, <3>1
  <2>5. Due(st, order, r, p).team = Due(st, order, r, q).team
    BY <2>3, <2>4
  <2>6. CASE r = 1
    <3>1. Due(st, order, r, p).team = first[p]
      BY <2>6 DEF Due, first
    <3>2. Due(st, order, r, q).team = first[q]
      BY <2>6 DEF Due, first
    <3>3. first[p] = first[q]
      BY <2>5, <3>1, <3>2
    <3>4. p = q
      BY <1>4, <3>3
    <3> QED BY <2>1, <2>2, <2>4, <3>4
  <2>7. CASE r # 1
    <3>1. Due(st, order, r, p).team = later[p]
      BY <2>7 DEF Due, later
    <3>2. Due(st, order, r, q).team = later[q]
      BY <2>7 DEF Due, later
    <3>3. later[p] = later[q]
      BY <2>5, <3>1, <3>2
    <3>4. p = q
      BY <1>4, <3>3
    <3> QED BY <2>1, <2>2, <2>4, <3>4
  <2> QED BY <2>6, <2>7
<1>8. ASSUME NEW e \in Natural
      PROVE  \E i \in DOMAIN rows : rows[i].pick = e
  <2>1. e.round \in 1..Rounds /\ e.team \in Teams /\ e = [round |-> e.round, team |-> e.team]
    BY DEF Natural
  <2>2. PICK p \in 1..n : (IF e.round = 1 THEN first[p] ELSE later[p]) = e.team
    BY <1>4, <2>1
  <2>3. rows[Place(e.round, p, n)].pick = e
    BY <1>2, <1>5, <2>1, <2>2
  <2> QED BY <1>2, <2>1, <2>3
<1>9. pick \in Bijection(DOMAIN rows, Natural)
  <2>1. \A i, j \in DOMAIN rows : pick[i] = pick[j] => i = j
    BY <1>7 DEF pick
  <2>2. \A e \in Natural : \E i \in DOMAIN rows : pick[i] = e
    BY <1>8 DEF pick
  <2>3. pick \in Injection(DOMAIN rows, Natural)
    BY <1>6, <2>1, Fun_IsInj
  <2>4. pick \in Surjection(DOMAIN rows, Natural)
    BY <1>6, <2>2 DEF Surjection
  <2> QED BY <2>3, <2>4 DEF Bijection
<1>10. DOMAIN rows = 1..Len(rows) /\ Len(rows) \in Nat
  <2>1. \A S : \A s \in Seq(S) : DOMAIN s = 1..Len(s) /\ Len(s) \in Nat
    OBVIOUS
  <2> QED BY <2>1
<1>11. IsFiniteSet(1..Len(rows)) /\ Cardinality(1..Len(rows)) = Len(rows)
  <2>1. \A m \in Nat : IsFiniteSet(1..m) /\ Cardinality(1..m) = m
    BY FS_Interval
  <2> QED BY <1>10, <2>1
<1>12. Len(rows) = Cardinality(Natural)
  <2>1. \E f : f \in Bijection(1..Len(rows), Natural)
    BY <1>9, <1>10
  <2> QED BY <1>11, <2>1, FS_Bijection DEF ExistsBijection
<1>13. {rows[i].pick : i \in DOMAIN rows} = Natural
  <2>1. \A i \in DOMAIN rows : rows[i].pick \in Natural
    BY <1>6 DEF pick
  <2> QED BY <1>8, <2>1
<1> QED BY <1>12, <1>13

\* The last place of a round is that of its last pick.
LEMMA LastOfRound ==
  ASSUME NEW rows \in Seq(SelectionRow), NEW st, NEW order, Shaped(rows, st, order), DOMAIN st = Teams,
         NEW n, n = Cardinality(Teams), n >= 1, NEW r \in 1..Rounds
  PROVE  (CHOOSE i \in DOMAIN rows :
            rows[i].pick.round = r /\ \A j \in DOMAIN rows : rows[j].pick.round = r => j <= i)
           = Place(r, n, n)
<1> DEFINE Final(i) == rows[i].pick.round = r /\ \A j \in DOMAIN rows : rows[j].pick.round = r => j <= i
           k == Place(r, n, n)
<1>1. /\ n \in Nat /\ Rounds \in Nat
      /\ \A s \in 1..Rounds, p \in 1..n :
           Place(s, p, n) \in DOMAIN rows /\ rows[Place(s, p, n)].pick = Due(st, order, s, p)
      /\ \A i \in DOMAIN rows : \E s \in 1..Rounds, p \in 1..n : i = Place(s, p, n)
  <2>1. Placed(rows, st, order, n)
    BY PicksPlaced
  <2> QED BY <2>1 DEF Placed
<1>2. \A s \in 1..Rounds, p \in 1..n : rows[Place(s, p, n)].pick.round = s
  <2> SUFFICES ASSUME NEW s \in 1..Rounds, NEW p \in 1..n
               PROVE  rows[Place(s, p, n)].pick.round = s
    OBVIOUS
  <2>1. rows[Place(s, p, n)].pick = Due(st, order, s, p)
    BY <1>1
  <2> QED BY <2>1, DueRound
<1>3. n \in 1..n
  BY <1>1
<1>4. k \in DOMAIN rows /\ rows[k].pick.round = r
  BY <1>1, <1>2, <1>3
<1>5. ASSUME NEW j \in DOMAIN rows, rows[j].pick.round = r
      PROVE  j <= k
  <2>1. PICK s \in 1..Rounds, p \in 1..n : j = Place(s, p, n)
    BY <1>1
  <2>2. s = r
    BY <1>2, <1>5, <2>1
  <2>3. (r - 1) * n \in Int /\ p <= n /\ p \in Int
    BY <1>1
  <2> QED BY <1>1, <2>1, <2>2, <2>3 DEF Place
<1>6. Final(k)
  BY <1>4, <1>5
<1>7. \A i \in DOMAIN rows : i \in Int
  OBVIOUS
<1>8. \A i \in DOMAIN rows : Final(i) => i = k
  BY <1>4, <1>6, <1>7
<1> HIDE DEF Final, k
<1>9. (CHOOSE i \in DOMAIN rows : Final(i)) = k
  BY <1>4, <1>6, <1>8
<1> QED BY <1>9 DEF Final, k

LEMMA ShapeComplete ==
  ASSUME Drafted, slate # <<>>, NEW st, Shaped(slate, st, lottery.order), DOMAIN st = Teams, Apart(st)
  PROVE  SlateComplete
<1> DEFINE order == lottery.order
           n == Cardinality(Teams)
           first == RoundOne(st, order)
           later == LaterRounds(st)
           playoffs == {t \in Teams : t \notin Range(order)}
           last(round) == CHOOSE i \in DOMAIN slate :
                            slate[i].pick.round = round /\ \A j \in DOMAIN slate :
                              slate[j].pick.round = round => j <= i
<1> HIDE DEF n
<1>1. n = Cardinality(Teams)
  BY DEF n
<1>2. slate \in Seq(SelectionRow) /\ StandingsOK(st) /\ Lists(order, Missed(st))
  BY DEF Drafted, Sorted, Shaped
<1>3. /\ n \in Nat /\ Rounds \in Nat /\ Rounds >= 1 /\ Len(slate) = Rounds * n
      /\ \A r \in 1..Rounds, p \in 1..n :
           Place(r, p, n) \in DOMAIN slate /\ slate[Place(r, p, n)].pick = Due(st, order, r, p)
      /\ \A k \in DOMAIN slate : \E r \in 1..Rounds, p \in 1..n : k = Place(r, p, n)
  <2>1. Placed(slate, st, order, n)
    BY <1>1, <1>2, PicksPlaced
  <2> QED BY <2>1 DEF Placed
<1>4. /\ Len(order) \in Nat /\ Len(order) <= n
      /\ \A i \in 1..Len(order) : first[i] = order[i]
      /\ Apart(st) /\ Cardinality(Playoffs(st)) > 1 => first[n] # later[n]
      /\ Playoffs(st) = playoffs
  BY <1>1, <1>2, RoundsOfAll
<1>5. Len(slate) = Cardinality(Natural) /\ {slate[i].pick : i \in DOMAIN slate} = Natural
  BY <1>2, EachPickOnce
<1>6. ASSUME NEW i \in DOMAIN slate, NEW j \in DOMAIN slate, i < j
      PROVE  slate[i].pick.round <= slate[j].pick.round
  <2>1. PICK r \in 1..Rounds, p \in 1..n : i = Place(r, p, n)
    BY <1>3
  <2>2. PICK s \in 1..Rounds, q \in 1..n : j = Place(s, q, n)
    BY <1>3
  <2>3. slate[i].pick.round = r /\ slate[j].pick.round = s
    <3>1. slate[i].pick = Due(st, order, r, p) /\ slate[j].pick = Due(st, order, s, q)
      BY <1>3, <2>1, <2>2
    <3> QED BY <3>1, DueRound
  <2>4. i <= j
    BY <1>2, <1>6
  <2>5. r <= s
    BY <1>3, <2>1, <2>2, <2>4, Places
  <2> QED BY <2>3, <2>5
<1>7. ASSUME NEW i \in DOMAIN order
      PROVE  slate[i].pick.team = order[i]
  <2>1. i \in 1..Len(order)
    BY <1>2 DEF Lists
  <2>2. i \in 1..n /\ 1 \in 1..Rounds
    BY <1>3, <1>4, <2>1
  <2>3. Place(1, i, n) = i
    BY <1>3, <2>2 DEF Place
  <2>4. slate[i].pick = Due(st, order, 1, i)
    BY <1>3, <2>2, <2>3
  <2> QED BY <1>4, <2>1, <2>4 DEF Due
<1>8. ASSUME Rounds > 1, Cardinality(playoffs) > 1
      PROVE  slate[last(1)].pick.team # slate[last(2)].pick.team
  <2>1. n >= 1
    <3>1. n # 0
      <4>1. SUFFICES ASSUME Teams = {}
                     PROVE  FALSE
        BY <1>1, DraftConstants, FS_EmptySet
      <4>2. playoffs = {}
        <5>1. \A t : t \notin Teams
          BY <4>1
        <5> QED BY <5>1
      <4>3. Cardinality({}) = 0
        BY FS_EmptySet
      <4>4. Cardinality(playoffs) = 0
        BY <4>2, <4>3
      <4> QED BY <1>8, <4>4
    <3> QED BY <1>3, <3>1
  <2>2. 1 \in 1..Rounds /\ 2 \in 1..Rounds /\ n \in 1..n
    BY <1>3, <1>8, <2>1
  <2>3. last(1) = Place(1, n, n) /\ last(2) = Place(2, n, n)
    BY <1>1, <1>2, <2>1, <2>2, LastOfRound
  <2> HIDE DEF last
  <2>4. /\ slate[last(1)].pick = Due(st, order, 1, n)
        /\ slate[last(2)].pick = Due(st, order, 2, n)
    BY <1>3, <2>2, <2>3
  <2>5. slate[last(1)].pick.team = first[n] /\ slate[last(2)].pick.team = later[n]
    BY <2>4 DEF Due
  <2> QED BY <1>4, <1>8, <2>5
<1> QED BY <1>5, <1>6, <1>7, <1>8 DEF SlateComplete

\* The slate has every pick of the season once, round after round, and the drawn teams at its head;
\* from round two on the best playoff finish picks before the others (compute_draft_order) - where
\* every team has a standing, and neither the standings nor a later entry leaves two playoff teams
\* level in both finish and rank, which nothing in the database prevents.
THEOREM EveryPickSlated == EveryTeamStands /\ FinishesApart => (Spec => []SlateComplete)
<1> SUFFICES ASSUME EveryTeamStands, FinishesApart
             PROVE  Spec => []SlateComplete
  OBVIOUS
<1>1. Drafted => SlateComplete
  <2> SUFFICES ASSUME Drafted, slate # <<>>
               PROVE  SlateComplete
    BY DEF SlateComplete
  <2>1. PICK st : Shaped(slate, st, lottery.order) /\ Ranked(st)
    BY DEF Drafted, Slated
  <2>2. DOMAIN st = Teams /\ Apart(st)
    <3>1. ToldApart(Reached)
      BY DEF FinishesApart, Reached
    <3> QED BY <2>1, <3>1 DEF Ranked, Decided, ToldApart
  <2> QED BY <2>1, <2>2, ShapeComplete
<1> QED BY <1>1, AlwaysDrafted, PTL

=============================================================================
