--------------------------- MODULE Statistic_proofs ---------------------------
(***************************************************************************)
(* Values are enough at the latest when there are as many as are to be     *)
(* kept and may be left out, and never while there are fewer than are to   *)
(* be kept.                                                                *)
(*                                                                         *)
(* Enough and the sums it rests on are recursive functions, so that they   *)
(* exist has to be shown first: the smallest set of arguments and results  *)
(* that is closed under the recursion is such a function.  What they       *)
(* return then follows from the well-founded order of finite sets: of the  *)
(* sets that would be an exception one has no smaller one.                 *)
(***************************************************************************)
EXTENDS Statistic, Sequences, FiniteSetTheorems, TLAPS

-----------------------------------------------------------------------------
(* Recursion on finite sets                                                *)

\* Among the subsets of a finite set that do not have a property there would be a
\* smallest one.
LEMMA SmallestSubset ==
  ASSUME NEW S, IsFiniteSet(S), NEW C \in SUBSET SUBSET S, C # {}
  PROVE  \E s \in C : \A t \in C : t \subseteq s => t = s
<1> DEFINE R == StrictSubsetOrdering(S)
<1>1. IsWellFoundedOn(R, SUBSET S)
  <2>1. IsWellFoundedOn(R, FiniteSubsetsOf(S))
    BY FS_StrictSubsetOrderingWellFounded
  <2>2. QED
    BY <2>1, FS_FiniteSubsetsOfFinite
<1>2. \E s \in C : \A t \in C : <<t, s>> \notin R
  <2> HIDE DEF R
  <2>1. QED
    BY <1>1, WFMin
<1>3. QED
  BY <1>2 DEF StrictSubsetOrdering

first(s) == CHOOSE x \in s : TRUE

SumsUp(g, f, S) ==
  \A s \in SUBSET S : g[s] = IF s = {} THEN 0 ELSE f[first(s)] + g[s \ {first(s)}]

\* A function of sets that takes one of their elements out at a time exists.
LEMMA SumRecursion ==
  ASSUME NEW S, IsFiniteSet(S), NEW f \in [S -> Int]
  PROVE  \E g \in [SUBSET S -> Int] : SumsUp(g, f, S)
<1>0. \A s : s # {} => first(s) \in s
  BY DEF first
<1> DEFINE Pairs  == (SUBSET S) \X Int
           Base(p) == p[1] = {} /\ p[2] = 0
           Under(p) == <<p[1] \ {first(p[1])}, p[2] - f[first(p[1])]>>
           From(p, W) == Base(p) \/ (p[1] # {} /\ Under(p) \in W)
           Closed(W) == \A p \in Pairs : From(p, W) => p \in W
           Graph == {p \in Pairs : \A W \in SUBSET Pairs : Closed(W) => p \in W}
<1>p. \A s \in SUBSET S, m \in Int : <<s, m>> \in Pairs
  OBVIOUS
<1>1. Closed(Graph)
  OBVIOUS
<1>2. ASSUME NEW p \in Graph PROVE From(p, Graph)
  <2>1. SUFFICES ASSUME ~From(p, Graph) PROVE Closed(Graph \ {p})
    <3>1. Graph \ {p} \in SUBSET Pairs
      OBVIOUS
    <3>2. Closed(Graph \ {p}) => FALSE
      BY <3>1
    <3>3. QED
      BY <3>2, <2>1
  <2>2. ASSUME NEW q \in Pairs, From(q, Graph \ {p}) PROVE q \in Graph \ {p}
    <3>1. From(q, Graph)
      BY <2>2
    <3>2. q \in Graph /\ q # p
      BY <3>1, <1>1, <2>1
    <3>3. QED
      BY <3>2
  <2>3. QED
    BY <2>2
<1> HIDE DEF Graph
<1> DEFINE Single(s) == \E n \in Int : \A m \in Int : <<s, m>> \in Graph <=> m = n
<1>3. ASSUME NEW s \in SUBSET S,
             \A t \in SUBSET S : t \subseteq s /\ t # s => Single(t)
      PROVE  Single(s)
  <2>1. ASSUME NEW m \in Int
        PROVE  <<s, m>> \in Graph <=> From(<<s, m>>, Graph)
    <3>1. <<s, m>> \in Pairs
      BY <1>p
    <3>2. QED
      BY <3>1, <1>1, <1>2
  <2>2. CASE s = {}
    <3>1. \A m \in Int : <<s, m>> \in Graph <=> m = 0
      BY <2>1, <2>2
    <3>2. QED
      BY <3>1
  <2>3. CASE s # {}
    <3> DEFINE x == first(s)
    <3>1. x \in s /\ f[x] \in Int
      BY <1>0, <2>3
    <3>2. PICK n \in Int : \A m \in Int : <<s \ {x}, m>> \in Graph <=> m = n
      BY <3>1, <1>3
    <3>3. ASSUME NEW m \in Int
          PROVE  <<s, m>> \in Graph <=> m - f[x] = n
      <4>1. <<s, m>> \in Graph <=> <<s \ {x}, m - f[x]>> \in Graph
        BY <2>1, <2>3
      <4>2. m - f[x] \in Int
        BY <3>1
      <4>3. QED
        BY <3>2, <4>1, <4>2
    <3> HIDE DEF x
    <3>4. n + f[x] \in Int /\ \A m \in Int : m - f[x] = n <=> m = n + f[x]
      BY <3>1
    <3>5. QED
      BY <3>3, <3>4
  <2>4. QED
    BY <2>2, <2>3
<1>4. \A s \in SUBSET S : Single(s)
  <2> DEFINE C == {s \in SUBSET S : ~Single(s)}
  <2>1. SUFFICES C = {}
    OBVIOUS
  <2>2. SUFFICES ASSUME C # {} PROVE FALSE
    OBVIOUS
  <2>3. PICK s \in C : \A t \in C : t \subseteq s => t = s
    <3>1. C \in SUBSET SUBSET S
      OBVIOUS
    <3> HIDE DEF C
    <3>2. QED
      BY <3>1, <2>2, SmallestSubset
  <2>4. \A t \in SUBSET S : t \subseteq s /\ t # s => Single(t)
    BY <2>3
  <2>5. QED
    BY <2>3, <2>4, <1>3
<1> DEFINE g == [s \in SUBSET S |-> CHOOSE n \in Int : <<s, n>> \in Graph]
<1>5. \A s \in SUBSET S : g[s] \in Int /\ <<s, g[s]>> \in Graph
  BY <1>4
<1>6. ASSUME NEW s \in SUBSET S
      PROVE  g[s] = IF s = {} THEN 0 ELSE f[first(s)] + g[s \ {first(s)}]
  <2>1. From(<<s, g[s]>>, Graph)
    <3>1. <<s, g[s]>> \in Graph
      BY <1>5
    <3>2. QED
      BY <3>1, <1>2
  <2>2. CASE s = {}
    BY <2>1, <2>2
  <2>3. CASE s # {}
    <3> DEFINE t == s \ {first(s)}
    <3>1. t \in SUBSET S /\ f[first(s)] \in Int
      BY <1>0, <2>3
    <3>2. <<t, g[s] - f[first(s)]>> \in Graph /\ <<t, g[t]>> \in Graph
      BY <2>1, <2>3, <3>1, <1>5
    <3>3. g[s] - f[first(s)] \in Int /\ g[t] \in Int /\ g[s] \in Int
      <4>1. g[t] \in Int /\ g[s] \in Int
        BY <3>1, <1>5
      <4> HIDE DEF g
      <4>2. QED
        BY <3>1, <4>1
    <3>4. g[s] - f[first(s)] = g[t]
      BY <3>1, <3>2, <3>3, <1>4
    <3> HIDE DEF g, t
    <3>5. g[s] = f[first(s)] + g[t]
      BY <3>1, <3>3, <3>4
    <3>6. QED
      BY <3>5, <2>3 DEF t
  <2>4. QED
    BY <2>2, <2>3
<1>7. g \in [SUBSET S -> Int]
  BY <1>5
<1>8. QED
  BY <1>6, <1>7 DEF SumsUp

\* So the sums are numbers.
LEMMA SumType ==
  ASSUME NEW S, IsFiniteSet(S), NEW f, \A i \in S : f[i] \in Int
  PROVE  Sum(f, S) \in Int
<1> DEFINE F == [i \in S |-> f[i]]
           Eq(g, c) == g = [s \in SUBSET S |->
                         IF s = {} THEN 0 ELSE c[first(s)] + g[s \ {first(s)}]]
<1>1. \A s \in SUBSET S : s # {} => first(s) \in S
  BY DEF first
<1>2. PICK g \in [SUBSET S -> Int] : SumsUp(g, F, S)
  <2>1. F \in [S -> Int]
    OBVIOUS
  <2> HIDE DEF F
  <2>2. QED
    BY <2>1, SumRecursion
<1>3. Eq(g, f)
  BY <1>1, <1>2 DEF SumsUp
<1>4. Sum(f, S) = (CHOOSE h : Eq(h, f))[S]
  BY DEF Sum, MapThenSumSet, MapThenFoldSet, first
<1> DEFINE h == CHOOSE h : Eq(h, f)
<1>5. Eq(h, f)
  <2> HIDE DEF Eq
  <2>1. QED
    BY <1>3
<1> HIDE DEF h
<1>6. \A s \in SUBSET S : h[s] = IF s = {} THEN 0 ELSE f[first(s)] + h[s \ {first(s)}]
  BY <1>5
<1> HIDE DEF Eq
<1>7. \A s \in SUBSET S : h[s] \in Int
  <2> DEFINE C == {s \in SUBSET S : h[s] \notin Int}
  <2>1. SUFFICES ASSUME C # {} PROVE FALSE
    OBVIOUS
  <2>2. PICK s \in C : \A t \in C : t \subseteq s => t = s
    <3>1. C \in SUBSET SUBSET S
      OBVIOUS
    <3> HIDE DEF C
    <3>2. QED
      BY <3>1, <2>1, SmallestSubset
  <2>3. s # {}
    <3>1. h[{}] = 0
      <4>1. {} \in SUBSET S
        OBVIOUS
      <4>2. QED
        BY <1>6, <4>1, Zenon
    <3>2. h[s] \notin Int
      BY <2>2
    <3>3. QED
      BY <3>1, <3>2
  <2>4. first(s) \in s /\ f[first(s)] \in Int
    BY <2>3, <1>1 DEF first
  <2>5. h[s \ {first(s)}] \in Int
    BY <2>2, <2>4
  <2>6. h[s] = f[first(s)] + h[s \ {first(s)}]
    BY <1>6, <2>3
  <2>7. h[s] \in Int
    BY <2>4, <2>5, <2>6
  <2>8. QED
    BY <2>7
<1>8. QED
  BY <1>4, <1>7 DEF h

Chain(g, S, yes, go, next) == \A s \in S : g[s] = (yes[s] \/ (go[s] /\ g[next[s]]))

\* A chain of rounds that ends with yes, or goes on with another round, or neither.
LEMMA RoundsExist ==
  ASSUME NEW S, NEW yes \in [S -> BOOLEAN], NEW go \in [S -> BOOLEAN], NEW next \in [S -> S]
  PROVE  \E g \in [S -> BOOLEAN] : Chain(g, S, yes, go, next)
<1> DEFINE From(s, W) == yes[s] \/ (go[s] /\ next[s] \in W)
           Closed(W) == \A s \in S : From(s, W) => s \in W
           Good == {s \in S : \A W \in SUBSET S : Closed(W) => s \in W}
<1>1. Closed(Good)
  OBVIOUS
<1>2. ASSUME NEW s \in Good PROVE From(s, Good)
  <2>1. SUFFICES ASSUME ~From(s, Good) PROVE Closed(Good \ {s})
    <3>1. Good \ {s} \in SUBSET S
      OBVIOUS
    <3>2. Closed(Good \ {s}) => FALSE
      BY <3>1
    <3>3. QED
      BY <3>2, <2>1
  <2>2. ASSUME NEW q \in S, From(q, Good \ {s}) PROVE q \in Good \ {s}
    <3>1. From(q, Good)
      BY <2>2
    <3>2. q \in Good /\ q # s
      BY <3>1, <1>1, <2>1
    <3>3. QED
      BY <3>2
  <2>3. QED
    BY <2>2
<1> HIDE DEF Good
<1> DEFINE g == [s \in S |-> s \in Good]
<1>3. ASSUME NEW s \in S PROVE g[s] = (yes[s] \/ (go[s] /\ g[next[s]]))
  <2>1. next[s] \in S
    OBVIOUS
  <2>2. s \in Good <=> From(s, Good)
    BY <1>1, <1>2
  <2>3. QED
    BY <2>1, <2>2
<1>4. QED
  BY <1>3 DEF Chain

\* Complements.
LEMMA Complement ==
  ASSUME NEW S, IsFiniteSet(S), NEW T \in SUBSET S
  PROVE  /\ Cardinality(S) \in Nat /\ Cardinality(T) \in Nat /\ IsFiniteSet(T)
         /\ Cardinality(S \ T) = Cardinality(S) - Cardinality(T)
<1>1. IsFiniteSet(T) /\ S \cap T = T
  BY FS_Subset
<1>2. QED
  BY <1>1, FS_Difference, FS_CardinalityType

LEMMA FarthestIsOne ==
  ASSUME NEW v \in Seq(Int), NEW kept \in SUBSET DOMAIN v
  PROVE  Farthest(v, kept) = {} \/ \E i \in kept : Farthest(v, kept) = {i}
<1>1. IsFiniteSet(DOMAIN v) /\ IsFiniteSet(kept)
  BY FS_Interval, FS_Subset
<1>2. Sum(v, kept) \in Int /\ Cardinality(kept) \in Nat
  BY <1>1, SumType, FS_CardinalityType
<1> DEFINE n == Cardinality(kept)
           s == Sum(v, kept)
           d(j) == (n * v[j] - s) * (n * v[j] - s)
           far == {i \in kept : d(i) > 0 /\ \A j \in kept : d(j) < d(i) \/ (d(j) = d(i) /\ i <= j)}
<1>3. Farthest(v, kept) = far
  BY <1>2 DEF Farthest
<1>4. \A j \in kept : d(j) \in Int /\ j \in Int
  <2>1. \A j \in kept : v[j] \in Int
    OBVIOUS
  <2> HIDE DEF n, s
  <2>2. n \in Int /\ s \in Int
    BY <1>2 DEF n, s
  <2>3. QED
    BY <2>1, <2>2
<1> HIDE DEF d
<1>5. \A i, j \in far : i = j
  BY <1>4
<1>6. QED
  BY <1>3, <1>5

\* The rounds of Enough, one by one: what a round is about, whether it decides
\* that the values are enough, whether there may be another, and which.
At(v)         == (SUBSET DOMAIN v) \X BOOLEAN
Kept(v, at)   == DOMAIN v \ at[1]
NowClose(v, at) == IF Sum(v, Kept(v, at)) > 0 THEN Close(v, Kept(v, at)) ELSE at[2]
Suffice(v, at)  == Cardinality(Kept(v, at)) > 1 /\ Cardinality(Kept(v, at)) >= Replicates
Accepts(v, at) ==
  \/ Replicates = 1
  \/ /\ Suffice(v, at)
     /\ \/ NowClose(v, at)
        \/ Cardinality(Kept(v, at)) = Replicates /\ Cardinality(at[1]) >= Outliers
        \/ Farthest(v, Kept(v, at)) = {}
NextRound(v, at) == <<at[1] \cup Farthest(v, Kept(v, at)), NowClose(v, at)>>

IsRounds(g, v) ==
  \A at \in At(v) : g[at] = (Accepts(v, at) \/ (Suffice(v, at) /\ g[NextRound(v, at)]))

LEMMA CloseType ==
  ASSUME NEW v \in Seq(Int), NEW kept \in SUBSET DOMAIN v
  PROVE  Close(v, kept) \in BOOLEAN
<1>1. IsFiniteSet(kept)
  BY FS_Interval, FS_Subset
<1>2. \A i \in kept : v[i] \in Int
  OBVIOUS
<1> DEFINE f == [i \in kept |-> v[i] * v[i]]
<1>3. \A i \in kept : f[i] \in Int
  BY <1>2
<1> HIDE DEF f
<1>4. <<Sum(v, kept), Sum(f, kept)>> \in Int \X Int
  BY <1>1, <1>2, <1>3, SumType
<1>5. QED
  BY <1>4 DEF Close, f

LEMMA NextRoundType ==
  ASSUME NEW v \in Seq(Int), NEW at \in At(v)
  PROVE  NextRound(v, at) \in At(v) /\ NowClose(v, at) \in BOOLEAN
<1>1. Kept(v, at) \in SUBSET DOMAIN v
  BY DEF Kept
<1>2. Farthest(v, Kept(v, at)) \in SUBSET DOMAIN v
  BY <1>1, FarthestIsOne
<1>3. NowClose(v, at) \in BOOLEAN
  BY <1>1, CloseType DEF NowClose, At
<1>4. QED
  BY <1>1, <1>2, <1>3 DEF NextRound, At

\* Enough is the first of these rounds.
LEMMA EnoughRounds ==
  ASSUME NEW v \in Seq(Int)
  PROVE  \E g : IsRounds(g, v) /\ Enough(v) = g[<<{}, TRUE>>]
<1> DEFINE Body(g, at) ==
             \/ Replicates = 1
             \/ /\ Cardinality(DOMAIN v \ at[1]) > 1
                /\ Cardinality(DOMAIN v \ at[1]) >= Replicates
                /\ \/ IF Sum(v, DOMAIN v \ at[1]) > 0 THEN Close(v, DOMAIN v \ at[1])
                      ELSE at[2]
                   \/ /\ Cardinality(DOMAIN v \ at[1]) = Replicates
                      /\ Cardinality(at[1]) >= Outliers
                   \/ Farthest(v, DOMAIN v \ at[1]) = {}
                   \/ g[<<at[1] \cup Farthest(v, DOMAIN v \ at[1]),
                          IF Sum(v, DOMAIN v \ at[1]) > 0 THEN Close(v, DOMAIN v \ at[1])
                          ELSE at[2]>>]
           Eq(g) == g = [at \in (SUBSET DOMAIN v) \X BOOLEAN |-> Body(g, at)]
           h == CHOOSE g : Eq(g)
<1>1. Enough(v) = h[<<{}, TRUE>>]
  BY DEF Enough
<1>2. ASSUME NEW g, NEW at \in At(v)
      PROVE  Body(g, at) = (Accepts(v, at) \/ (Suffice(v, at) /\ g[NextRound(v, at)]))
  BY DEF Accepts, Suffice, NextRound, NowClose, Kept
<1> HIDE DEF Body
<1>3. \E g : Eq(g)
  <2> DEFINE yes  == [at \in At(v) |-> Accepts(v, at)]
             go   == [at \in At(v) |-> Suffice(v, at)]
             next == [at \in At(v) |-> NextRound(v, at)]
  <2>1. yes \in [At(v) -> BOOLEAN] /\ go \in [At(v) -> BOOLEAN]
    BY DEF Accepts, Suffice
  <2>2. next \in [At(v) -> At(v)]
    BY NextRoundType
  <2>3. PICK g \in [At(v) -> BOOLEAN] : Chain(g, At(v), yes, go, next)
    <3> HIDE DEF yes, go, next
    <3>1. QED
      BY <2>1, <2>2, RoundsExist
  <2>4. \A at \in At(v) : g[at] = Body(g, at)
    BY <1>2, <2>3 DEF Chain
  <2>5. Eq(g)
    BY <2>4 DEF At
  <2>6. QED
    BY <2>5
<1>4. Eq(h)
  <2> HIDE DEF Eq
  <2>1. QED
    BY <1>3
<1> HIDE DEF h
<1>5. IsRounds(h, v)
  BY <1>2, <1>4 DEF IsRounds, At
<1>6. QED
  BY <1>1, <1>5

\* However they scatter, the values that must be kept and the outliers together
\* are always enough.
THEOREM EnoughAtLast ==
  ASSUME NEW v \in Seq(Int), Len(v) >= Replicates + Outliers
  PROVE  Enough(v)
<1>1. PICK g : IsRounds(g, v) /\ Enough(v) = g[<<{}, TRUE>>]
  BY EnoughRounds
<1>2. CASE Replicates = 1
  <2>1. <<{}, TRUE>> \in At(v)
    BY DEF At
  <2>2. Accepts(v, <<{}, TRUE>>)
    BY <1>2 DEF Accepts
  <2>3. QED
    BY <1>1, <2>1, <2>2 DEF IsRounds
<1>3. CASE Replicates # 1
  <2> DEFINE N == Len(v)
             C == {kept \in SUBSET DOMAIN v :
                     /\ Cardinality(kept) >= Replicates
                     /\ \E near \in BOOLEAN : ~g[<<DOMAIN v \ kept, near>>]}
  <2>1. /\ N \in Nat /\ DOMAIN v = 1..N
        /\ IsFiniteSet(DOMAIN v) /\ Cardinality(DOMAIN v) = N
    <3>1. N \in Nat /\ DOMAIN v = 1..N
      OBVIOUS
    <3>2. IsFiniteSet(1..N) /\ Cardinality(1..N) = IF 1 > N THEN 0 ELSE N - 1 + 1
      BY <3>1, FS_Interval
    <3>3. QED
      BY <3>1, <3>2
  <2>2. Replicates \in Nat /\ Outliers \in Nat /\ Replicates > 1
    BY <1>3, StatisticAssumption
  <2>4. C = {}
    <3>1. SUFFICES ASSUME C # {} PROVE FALSE
      OBVIOUS
    <3>2. PICK kept \in C : \A other \in C : other \subseteq kept => other = kept
      <4>1. C \in SUBSET SUBSET DOMAIN v
        OBVIOUS
      <4> HIDE DEF C
      <4>2. QED
        BY <4>1, <2>1, <3>1, SmallestSubset
    <3>3. PICK near \in BOOLEAN : ~g[<<DOMAIN v \ kept, near>>]
      BY <3>2
    <3> DEFINE at  == <<DOMAIN v \ kept, near>>
               far == Farthest(v, kept)
    <3>4. at \in At(v) /\ Kept(v, at) = kept
      BY DEF At, Kept
    <3>5. Cardinality(kept) \in Nat /\ Cardinality(DOMAIN v \ kept) = N - Cardinality(kept)
      BY <2>1, Complement
    <3>6. Cardinality(kept) >= Replicates /\ N >= Replicates + Outliers
      BY <3>2
    <3>7. Suffice(v, at)
      BY <2>2, <3>4, <3>5, <3>6 DEF Suffice
    <3>8. ~Accepts(v, at) /\ ~g[NextRound(v, at)]
      BY <1>1, <3>3, <3>4, <3>7 DEF IsRounds
    <3>9. far # {} /\ Cardinality(kept) > Replicates
      <4>1. far # {}
        BY <3>4, <3>7, <3>8 DEF Accepts
      <4>2. ~(Cardinality(kept) = Replicates /\ Cardinality(DOMAIN v \ kept) >= Outliers)
        BY <3>4, <3>7, <3>8 DEF Accepts
      <4> HIDE DEF far, at
      <4>3. QED
        BY <2>1, <2>2, <3>5, <3>6, <4>1, <4>2
    <3>10. PICK i \in kept : far = {i}
      BY <3>9, FarthestIsOne
    <3>11. /\ Cardinality(kept \ {i}) >= Replicates
           /\ at[1] \cup far = DOMAIN v \ (kept \ {i})
      <4>1. Cardinality(kept \ {i}) = Cardinality(kept) - 1
        BY <2>1, FS_Subset, FS_RemoveElement
      <4>2. QED
        BY <2>2, <3>5, <3>9, <3>10, <4>1
    <3>12. NextRound(v, at) = <<DOMAIN v \ (kept \ {i}), NowClose(v, at)>>
      BY <3>4, <3>11 DEF NextRound
    <3>13. kept \ {i} \in C
      <4>1. NowClose(v, at) \in BOOLEAN
        BY <3>4, NextRoundType
      <4>2. QED
        BY <3>8, <3>11, <3>12, <4>1
    <3>14. QED
      BY <3>2, <3>10, <3>13
  <2>5. DOMAIN v \in SUBSET DOMAIN v /\ Cardinality(DOMAIN v) >= Replicates
    BY <2>1, <2>2
  <2>6. g[<<DOMAIN v \ DOMAIN v, TRUE>>]
    BY <2>4, <2>5
  <2>7. QED
    BY <1>1, <2>6
<1>4. QED
  BY <1>2, <1>3

\* Fewer values than must be kept are never enough.
THEOREM EnoughNotBefore ==
  ASSUME NEW v \in Seq(Int), v # <<>>, Enough(v)
  PROVE  Len(v) >= Replicates
<1>1. PICK g : IsRounds(g, v) /\ Enough(v) = g[<<{}, TRUE>>]
  BY EnoughRounds
<1> DEFINE at == <<{}, TRUE>>
<1>2. at \in At(v) /\ Kept(v, at) = DOMAIN v
  BY DEF At, Kept
<1>3. Replicates = 1 \/ Suffice(v, at)
  BY <1>1, <1>2 DEF IsRounds, Accepts
<1>4. Len(v) \in Nat /\ Len(v) >= 1 /\ Cardinality(DOMAIN v) = Len(v)
  <2>1. Len(v) \in Nat /\ Len(v) >= 1 /\ DOMAIN v = 1..Len(v)
    OBVIOUS
  <2>2. Cardinality(1..Len(v)) = IF 1 > Len(v) THEN 0 ELSE Len(v) - 1 + 1
    BY <2>1, FS_Interval
  <2>3. QED
    BY <2>1, <2>2
<1>5. QED
  BY <1>2, <1>3, <1>4 DEF Suffice

====
