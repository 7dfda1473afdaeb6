----------------------------- MODULE SumProofs -----------------------------
(***************************************************************************)
(* Lemmas about sums over finite sets, as SumFunctionOnSet computes them.  *)
(* Salaries, penalties and bids are summed with it.                        *)
(*                                                                         *)
(* Each is proved by looking at a smallest set it should fail for.         *)
(***************************************************************************)
EXTENDS Integers, Functions, FiniteSetTheorems, WellFoundedInduction, TLAPS

LEMMA HasLeast ==
  ASSUME NEW S \in SUBSET Nat, S # {}
  PROVE  \E m \in S : \A x \in S : m <= x
<1>1. PICK m \in S : \A x \in S : <<x, m>> \notin OpToRel(<, Nat)
  BY WFMin, NatLessThanWellFounded, Zenon
<1>2. \A x \in S : ~(x < m)
  BY <1>1, Zenon DEF OpToRel
<1> QED BY <1>2

LEMMA SmallestSet ==
  ASSUME NEW C, C # {}, \A s \in C : IsFiniteSet(s)
  PROVE  \E s \in C : \A t \in C : Cardinality(s) <= Cardinality(t)
<1> DEFINE N == {Cardinality(s) : s \in C}
<1>1. N \in SUBSET Nat /\ N # {}
  BY FS_CardinalityType
<1>2. PICK n \in N : \A m \in N : n <= m
  BY <1>1, HasLeast
<1> QED BY <1>2

\* The one that the sum takes first, and the rest.
First(s) == CHOOSE x \in s : TRUE
Rest(s) == s \ {First(s)}

LEMMA RestSmaller ==
  ASSUME NEW s, IsFiniteSet(s), s # {}
  PROVE  First(s) \in s /\ IsFiniteSet(Rest(s)) /\ Cardinality(Rest(s)) < Cardinality(s)
<1>1. First(s) \in s
  BY DEF First
<1>2. IsFiniteSet(Rest(s)) /\ Cardinality(Rest(s)) = Cardinality(s) - 1
  BY <1>1, FS_RemoveElement DEF Rest
<1>3. Cardinality(s) \in Nat
  BY FS_CardinalityType
<1> QED BY <1>1, <1>2, <1>3

\* The function that the fold computes its sum with.
Sums(iter, f, S) == iter = [s \in SUBSET S |-> IF s = {} THEN 0 ELSE f[First(s)] + iter[Rest(s)]]

LEMMA SumIs ==
  ASSUME NEW f, NEW S
  PROVE  SumFunctionOnSet(f, S) = (CHOOSE iter : Sums(iter, f, S))[S]
BY DEF SumFunctionOnSet, FoldFunctionOnSet, MapThenFoldSet, Sums, First, Rest

LEMMA SumsAgree ==
  ASSUME NEW f, NEW S, NEW T, NEW i, NEW j, IsFiniteSet(S), Sums(i, f, S), Sums(j, f, T)
  PROVE  \A s \in SUBSET (S \cap T) : i[s] = j[s]
<1> DEFINE C == {s \in SUBSET (S \cap T) : i[s] # j[s]}
<1> SUFFICES ASSUME C # {}
             PROVE  FALSE
  OBVIOUS
<1>1. \A s \in C : IsFiniteSet(s)
  BY FS_Subset
<1> HIDE DEF C
<1>2. PICK s \in C : \A t \in C : Cardinality(s) <= Cardinality(t)
  BY <1>1, SmallestSet
<1> USE DEF C
<1>3. s # {}
  BY <1>2 DEF Sums
<1>4. Rest(s) \in SUBSET (S \cap T) /\ Cardinality(Rest(s)) < Cardinality(s) /\ IsFiniteSet(s)
      /\ IsFiniteSet(Rest(s))
  BY <1>1, <1>2, <1>3, RestSmaller DEF Rest
<1>5. i[Rest(s)] = j[Rest(s)]
  <2>1. ~(Cardinality(s) <= Cardinality(Rest(s)))
    BY <1>4, FS_CardinalityType
  <2> QED BY <1>2, <1>4, <2>1
<1>6. i[s] = f[First(s)] + i[Rest(s)] /\ j[s] = f[First(s)] + j[Rest(s)]
  BY <1>2, <1>3 DEF Sums
<1> QED BY <1>2, <1>5, <1>6

LEMMA SumsExist ==
  ASSUME NEW f, NEW S, IsFiniteSet(S)
  PROVE  \E iter : Sums(iter, f, S)
<1> DEFINE C == {s \in SUBSET S : ~\E iter : Sums(iter, f, s)}
           Sum(s) == (CHOOSE iter : Sums(iter, f, s))[s]
<1> SUFFICES ASSUME C # {}
             PROVE  FALSE
  OBVIOUS
<1>1. \A s \in C : IsFiniteSet(s)
  BY FS_Subset
<1> HIDE DEF C
<1>2. PICK s \in C : \A t \in C : Cardinality(s) <= Cardinality(t)
  BY <1>1, SmallestSet
<1> USE DEF C
<1> DEFINE it == [t \in SUBSET s |-> IF t = {} THEN 0 ELSE f[First(t)] + Sum(Rest(t))]
<1>3. ASSUME NEW t \in SUBSET s, t # s
      PROVE  IsFiniteSet(t) /\ Sums(CHOOSE iter : Sums(iter, f, t), f, t)
  <2>1. IsFiniteSet(s) /\ IsFiniteSet(t)
    BY <1>1, <1>2, FS_Subset
  <2>2. Cardinality(t) < Cardinality(s)
    BY <2>1, <1>3, FS_Subset, FS_CardinalityType
  <2>3. ~(Cardinality(s) <= Cardinality(t))
    BY <2>1, <2>2, FS_CardinalityType
  <2>4. t \notin C
    BY <1>2, <2>3
  <2> QED BY <2>1, <2>4
<1>4. ASSUME NEW t \in SUBSET s, t # {}
      PROVE  it[Rest(t)] = Sum(Rest(t))
  <2> DEFINE u == Rest(t)
  <2>1. u \in SUBSET s /\ u # s
    BY <1>4 DEF Rest, First
  <2>2. CASE u = {}
    <3>1. Sums(CHOOSE iter : Sums(iter, f, u), f, u)
      BY <1>3, <2>1
    <3>2. Sum(u) = 0
      BY <2>2, <3>1 DEF Sums
    <3> QED BY <2>1, <2>2, <3>2
  <2>3. CASE u # {}
    <3>1. Rest(u) \in SUBSET s /\ Rest(u) # s /\ Rest(u) \in SUBSET u
      BY <2>1, <2>3 DEF Rest
    <3> DEFINE iu == CHOOSE iter : Sums(iter, f, u)
               iv == CHOOSE iter : Sums(iter, f, Rest(u))
    <3>2. Sums(iu, f, u) /\ Sums(iv, f, Rest(u)) /\ IsFiniteSet(u)
      BY <1>3, <2>1, <3>1
    <3>3. iu[u] = f[First(u)] + iu[Rest(u)]
      BY <3>2, <2>3 DEF Sums
    <3>4. iu[Rest(u)] = iv[Rest(u)]
      BY <3>1, <3>2, SumsAgree
    <3>5. it[u] = f[First(u)] + iv[Rest(u)]
      BY <2>1, <2>3
    <3> QED BY <3>3, <3>4, <3>5
  <2> QED BY <2>2, <2>3
<1>5. Sums(it, f, s)
  <2> HIDE DEF Sum
  <2>1. \A t \in SUBSET s : it[t] = IF t = {} THEN 0 ELSE f[First(t)] + it[Rest(t)]
    BY <1>4
  <2>2. it = [t \in SUBSET s |-> it[t]]
    OBVIOUS
  <2> HIDE DEF it
  <2>3. it = [t \in SUBSET s |-> IF t = {} THEN 0 ELSE f[First(t)] + it[Rest(t)]]
    BY <2>1, <2>2
  <2> QED BY <2>3 DEF Sums
<1> QED BY <1>2, <1>5

LEMMA SumOfNone ==
  ASSUME NEW f
  PROVE  SumFunctionOnSet(f, {}) = 0
BY SumIs, SumsExist, FS_EmptySet DEF Sums

LEMMA SumUnfold ==
  ASSUME NEW f, NEW S, IsFiniteSet(S), S # {}
  PROVE  SumFunctionOnSet(f, S) = f[First(S)] + SumFunctionOnSet(f, Rest(S))
<1> DEFINE i == CHOOSE iter : Sums(iter, f, S)
           j == CHOOSE iter : Sums(iter, f, Rest(S))
<1>1. IsFiniteSet(Rest(S)) /\ Rest(S) \in SUBSET S
  BY RestSmaller DEF Rest
<1>2. Sums(i, f, S) /\ Sums(j, f, Rest(S))
  BY <1>1, SumsExist
<1>3. i[S] = f[First(S)] + i[Rest(S)]
  BY <1>2 DEF Sums
<1>4. i[Rest(S)] = j[Rest(S)]
  BY <1>1, <1>2, SumsAgree
<1> QED BY <1>3, <1>4, SumIs

LEMMA SumOfNaturals ==
  ASSUME NEW S, NEW f, IsFiniteSet(S), \A x \in S : f[x] \in Nat
  PROVE  SumFunctionOnSet(f, S) \in Nat
<1> DEFINE C == {s \in SUBSET S : SumFunctionOnSet(f, s) \notin Nat}
<1> SUFFICES ASSUME C # {}
             PROVE  FALSE
  OBVIOUS
<1>1. \A s \in C : IsFiniteSet(s)
  BY FS_Subset
<1> HIDE DEF C
<1>2. PICK s \in C : \A t \in C : Cardinality(s) <= Cardinality(t)
  BY <1>1, SmallestSet
<1> USE DEF C
<1>3. s # {}
  BY <1>2, SumOfNone
<1>4. First(s) \in s /\ IsFiniteSet(s) /\ IsFiniteSet(Rest(s)) /\ Cardinality(Rest(s)) < Cardinality(s)
  BY <1>1, <1>3, RestSmaller
<1>5. SumFunctionOnSet(f, Rest(s)) \in Nat
  <2>1. ~(Cardinality(s) <= Cardinality(Rest(s)))
    BY <1>4, FS_CardinalityType
  <2>2. Rest(s) \in SUBSET S
    BY DEF Rest
  <2> QED BY <1>2, <2>1, <2>2
<1>6. SumFunctionOnSet(f, s) = f[First(s)] + SumFunctionOnSet(f, Rest(s))
  BY <1>3, <1>4, SumUnfold
<1>7. f[First(s)] \in Nat
  BY <1>4
<1> QED BY <1>2, <1>5, <1>6, <1>7

LEMMA SumWithout ==
  ASSUME NEW S, NEW f, IsFiniteSet(S), \A y \in S : f[y] \in Nat, NEW z \in S
  PROVE  SumFunctionOnSet(f, S) = f[z] + SumFunctionOnSet(f, S \ {z})
<1> DEFINE Splits(s, x) == SumFunctionOnSet(f, s) = f[x] + SumFunctionOnSet(f, s \ {x})
           C == {s \in SUBSET S : \E x \in s : ~Splits(s, x)}
<1> SUFFICES ASSUME C # {}
             PROVE  FALSE
  OBVIOUS
<1>1. \A s \in C : IsFiniteSet(s)
  BY FS_Subset
<1> HIDE DEF C
<1>2. PICK s \in C : \A t \in C : Cardinality(s) <= Cardinality(t)
  BY <1>1, SmallestSet
<1>3. PICK x \in s : ~Splits(s, x)
  BY <1>2 DEF C
<1>4. s \in SUBSET S /\ IsFiniteSet(s) /\ s # {}
  BY <1>1, <1>2, <1>3 DEF C
<1>5. ASSUME NEW t \in SUBSET s, NEW y \in s, y \notin t, NEW v \in t
      PROVE  Splits(t, v)
  <2>1. IsFiniteSet(t) /\ Cardinality(t) <= Cardinality(s) /\ (Cardinality(s) = Cardinality(t) => s = t)
    BY <1>4, FS_Subset
  <2>2. ~(Cardinality(s) <= Cardinality(t))
    BY <1>4, <1>5, <2>1, FS_CardinalityType
  <2>3. t \notin C
    BY <1>2, <2>2
  <2> QED BY <1>4, <2>3 DEF C
<1> DEFINE y == First(s)
           u == Rest(s) \ {x}
<1>6. y \in s /\ IsFiniteSet(Rest(s)) /\ Splits(s, y)
  BY <1>4, RestSmaller, SumUnfold DEF Rest
<1>7. y # x
  BY <1>3, <1>6
<1>8. Splits(Rest(s), x)
  BY <1>3, <1>5, <1>6, <1>7 DEF Rest
<1>9. Splits(s \ {x}, y)
  BY <1>3, <1>5, <1>6, <1>7
<1>10. (s \ {x}) \ {y} = u /\ IsFiniteSet(u) /\ s \ {y} = Rest(s)
  BY <1>6, FS_RemoveElement DEF Rest
<1>11. SumFunctionOnSet(f, u) \in Nat /\ f[x] \in Nat /\ f[y] \in Nat
  <2>1. \A v \in u : f[v] \in Nat
    BY <1>4 DEF Rest
  <2> QED BY <1>3, <1>4, <1>6, <1>10, <2>1, SumOfNaturals
<1>12. SumFunctionOnSet(f, s) = f[y] + (f[x] + SumFunctionOnSet(f, u))
  BY <1>6, <1>8, <1>10
<1>13. SumFunctionOnSet(f, s \ {x}) = f[y] + SumFunctionOnSet(f, u)
  BY <1>9, <1>10
<1>14. SumFunctionOnSet(f, s) = f[x] + SumFunctionOnSet(f, s \ {x})
  <2> HIDE DEF u, y
  <2> QED BY <1>11, <1>12, <1>13
<1> QED BY <1>3, <1>14

\* Sums over two sets, when one goes into the other and what it sums is no more.
LEMMA SumIntoLarger ==
  ASSUME NEW S, NEW T, NEW f, NEW g, NEW h, IsFiniteSet(S), IsFiniteSet(T),
         \A x \in S : h[x] \in T /\ f[x] \in Nat /\ f[x] <= g[h[x]],
         \A y \in T : g[y] \in Nat,
         \A x, y \in S : h[x] = h[y] => x = y
  PROVE  SumFunctionOnSet(f, S) <= SumFunctionOnSet(g, T)
<1> DEFINE Fits(s, t) == SumFunctionOnSet(f, s) <= SumFunctionOnSet(g, t)
           C == {s \in SUBSET S : \E t \in SUBSET T : (\A x \in s : h[x] \in t) /\ ~Fits(s, t)}
<1> SUFFICES ASSUME C # {}
             PROVE  FALSE
  OBVIOUS
<1>1. \A s \in C : IsFiniteSet(s)
  BY FS_Subset
<1> HIDE DEF C
<1>2. PICK s \in C : \A t \in C : Cardinality(s) <= Cardinality(t)
  BY <1>1, SmallestSet
<1>3. PICK t \in SUBSET T : (\A x \in s : h[x] \in t) /\ ~Fits(s, t)
  BY <1>2 DEF C
<1>4. s \in SUBSET S /\ IsFiniteSet(s) /\ IsFiniteSet(t) /\ (\A y \in t : g[y] \in Nat)
      /\ (\A x \in s : f[x] \in Nat)
  BY <1>1, <1>2, <1>3, FS_Subset DEF C
<1>5. s # {}
  BY <1>3, <1>4, SumOfNone, SumOfNaturals
<1> DEFINE x == First(s)
           y == h[x]
<1>6. x \in s /\ y \in t /\ IsFiniteSet(Rest(s)) /\ Cardinality(Rest(s)) < Cardinality(s)
  BY <1>3, <1>4, <1>5, RestSmaller
<1>7. Fits(Rest(s), t \ {y})
  <2>1. ~(Cardinality(s) <= Cardinality(Rest(s)))
    BY <1>4, <1>6, FS_CardinalityType
  <2>2. Rest(s) \notin C
    BY <1>2, <2>1
  <2>3. Rest(s) \in SUBSET S /\ t \ {y} \in SUBSET T
    BY <1>4, <1>3 DEF Rest
  <2>4. \A v \in Rest(s) : h[v] \in t \ {y}
    BY <1>3, <1>4, <1>6 DEF Rest
  <2> QED BY <2>2, <2>3, <2>4 DEF C
<1>8. SumFunctionOnSet(f, s) = f[x] + SumFunctionOnSet(f, Rest(s))
  BY <1>4, <1>5, SumUnfold
<1>9. SumFunctionOnSet(g, t) = g[y] + SumFunctionOnSet(g, t \ {y})
  BY <1>4, <1>6, SumWithout
<1>10. IsFiniteSet(t \ {y})
  BY <1>4, FS_RemoveElement
<1>11. SumFunctionOnSet(f, Rest(s)) \in Nat /\ SumFunctionOnSet(g, t \ {y}) \in Nat
  <2>1. \A v \in Rest(s) : f[v] \in Nat
    BY <1>4 DEF Rest
  <2>2. \A v \in t \ {y} : g[v] \in Nat
    BY <1>4
  <2> QED BY <1>6, <1>10, <2>1, <2>2, SumOfNaturals
<1>12. f[x] \in Nat /\ g[y] \in Nat /\ f[x] <= g[y]
  BY <1>4, <1>6
<1>13. Fits(s, t)
  <2> HIDE DEF x, y
  <2> QED BY <1>7, <1>8, <1>9, <1>11, <1>12
<1> QED BY <1>3, <1>13

\* What is summed bounds each of its parts.
LEMMA SumAtLeast ==
  ASSUME NEW S, NEW f, IsFiniteSet(S), \A y \in S : f[y] \in Nat, NEW x \in S
  PROVE  f[x] <= SumFunctionOnSet(f, S)
<1>1. SumFunctionOnSet(f, S) = f[x] + SumFunctionOnSet(f, S \ {x})
  BY SumWithout
<1>2. SumFunctionOnSet(f, S \ {x}) \in Nat
  <2>1. IsFiniteSet(S \ {x}) /\ \A y \in S \ {x} : f[y] \in Nat
    BY FS_RemoveElement
  <2> QED BY <2>1, SumOfNaturals
<1> QED BY <1>1, <1>2

-----------------------------------------------------------------------------
(* Sums over a whole domain *)

\* Naturals, and finitely many.
Summable(f) == IsFiniteSet(DOMAIN f) /\ \A x \in DOMAIN f : f[x] \in Nat

LEMMA SumInNat ==
  ASSUME NEW f, Summable(f)
  PROVE  SumFunction(f) \in Nat
BY SumOfNaturals DEF SumFunction, Summable

LEMMA SumOfPart ==
  ASSUME NEW f, NEW g, Summable(f), NEW S \in SUBSET DOMAIN f,
         \A x \in S : g[x] \in Nat /\ g[x] <= f[x]
  PROVE  SumFunctionOnSet(g, S) <= SumFunction(f) /\ SumFunctionOnSet(g, S) \in Nat
<1> DEFINE same == [x \in S |-> x]
<1>1. IsFiniteSet(S)
  BY FS_Subset DEF Summable
<1>2. /\ \A x \in S : same[x] \in DOMAIN f /\ g[x] \in Nat /\ g[x] <= f[same[x]]
      /\ \A x, y \in S : same[x] = same[y] => x = y
  OBVIOUS
<1> HIDE DEF same
<1> QED BY <1>1, <1>2, SumIntoLarger, SumOfNaturals DEF Summable, SumFunction

LEMMA SumOfFewer ==
  ASSUME NEW f, NEW g, Summable(f), Summable(g), DOMAIN g \subseteq DOMAIN f,
         \A x \in DOMAIN g : g[x] <= f[x]
  PROVE  SumFunction(g) <= SumFunction(f)
BY SumOfPart DEF Summable, SumFunction

LEMMA SumOfOneMore ==
  ASSUME NEW f, NEW g, Summable(f), Summable(g), NEW x, NEW n \in Nat,
         DOMAIN g \subseteq DOMAIN f \cup {x}, x \in DOMAIN g => g[x] <= n,
         \A y \in DOMAIN g \ {x} : g[y] <= f[y]
  PROVE  SumFunction(g) <= SumFunction(f) + n
<1> DEFINE S == DOMAIN g \ {x}
<1>1. SumFunctionOnSet(g, S) <= SumFunction(f) /\ SumFunctionOnSet(g, S) \in Nat
  BY SumOfPart DEF Summable
<1>2. SumFunction(f) \in Nat
  BY SumInNat
<1>3. CASE x \in DOMAIN g
  <2>1. SumFunction(g) = g[x] + SumFunctionOnSet(g, S) /\ g[x] \in Nat
    BY <1>3, SumWithout DEF Summable, SumFunction
  <2> HIDE DEF S
  <2> QED BY <1>1, <1>2, <1>3, <2>1
<1>4. CASE x \notin DOMAIN g
  <2>1. SumFunction(g) = SumFunctionOnSet(g, S)
    BY <1>4, S = DOMAIN g DEF SumFunction
  <2> HIDE DEF S
  <2> QED BY <1>1, <1>2, <2>1
<1> QED BY <1>3, <1>4

LEMMA SumOfOneLess ==
  ASSUME NEW f, NEW g, Summable(f), Summable(g), NEW x \in DOMAIN f,
         DOMAIN g \subseteq DOMAIN f \ {x}, \A y \in DOMAIN g : g[y] <= f[y]
  PROVE  SumFunction(g) + f[x] <= SumFunction(f)
<1> DEFINE S == DOMAIN f \ {x}
           rest == [y \in S |-> f[y]]
<1>1. SumFunction(f) = f[x] + SumFunctionOnSet(f, S) /\ f[x] \in Nat
  BY SumWithout DEF Summable, SumFunction
<1>2. IsFiniteSet(S)
  BY FS_RemoveElement DEF Summable
<1>3. Summable(rest) /\ DOMAIN rest = S /\ \A y \in S : rest[y] = f[y]
  BY <1>2 DEF Summable
<1> HIDE DEF rest, S
<1>4. SumFunction(rest) <= SumFunctionOnSet(f, S) /\ SumFunctionOnSet(f, S) \in Nat
  <2> DEFINE same == [y \in S |-> y]
  <2>1. /\ \A y \in S : same[y] \in S /\ rest[y] \in Nat /\ f[y] \in Nat /\ rest[y] <= f[same[y]]
        /\ \A y, z \in S : same[y] = same[z] => y = z
    BY <1>3 DEF Summable
  <2> HIDE DEF same
  <2> QED BY <1>2, <1>3, <2>1, SumIntoLarger, SumOfNaturals DEF SumFunction
<1>5. SumFunction(g) <= SumFunction(rest)
  BY <1>3, SumOfFewer DEF S
<1>6. SumFunction(g) \in Nat /\ SumFunction(rest) \in Nat
  BY <1>3, SumInNat
<1> QED BY <1>1, <1>4, <1>5, <1>6

-----------------------------------------------------------------------------
(* A member less, a member more *)

LEMMA OneFewerAtLeast ==
  ASSUME NEW S, NEW T, IsFiniteSet(S), NEW x \in S, T \subseteq S \ {x}
  PROVE  Cardinality(T) + 1 <= Cardinality(S) /\ Cardinality(T) \in Nat /\ Cardinality(S) \in Nat
<1>1. IsFiniteSet(S \ {x}) /\ Cardinality(S \ {x}) = Cardinality(S) - 1
  BY FS_RemoveElement
<1>2. IsFiniteSet(T) /\ Cardinality(T) <= Cardinality(S \ {x})
  BY <1>1, FS_Subset
<1>3. Cardinality(T) \in Nat /\ Cardinality(S) \in Nat
  BY <1>2, FS_CardinalityType
<1> QED BY <1>1, <1>2, <1>3

LEMMA OneMoreAtMost ==
  ASSUME NEW S, NEW T, IsFiniteSet(S), NEW x, T \subseteq S \cup {x}
  PROVE  Cardinality(T) <= Cardinality(S) + 1 /\ Cardinality(T) \in Nat /\ Cardinality(S) \in Nat
<1>1. /\ IsFiniteSet(S \cup {x})
      /\ Cardinality(S \cup {x}) = IF x \in S THEN Cardinality(S) ELSE Cardinality(S) + 1
  BY FS_AddElement
<1>2. IsFiniteSet(T) /\ Cardinality(T) <= Cardinality(S \cup {x})
  BY <1>1, FS_Subset
<1>3. Cardinality(T) \in Nat /\ Cardinality(S) \in Nat
  BY <1>2, FS_CardinalityType
<1> QED BY <1>1, <1>2, <1>3

=============================================================================
