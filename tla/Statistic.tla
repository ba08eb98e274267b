------------------------------ MODULE Statistic ------------------------------
(***************************************************************************)
(* When a channel has enough replicates                                    *)
(* (mkt_process_calculate_measurement_statistic): the values must be close *)
(* to each other.  As long as they are not, the one farthest from the mean *)
(* is left out, until too few are left or all the outliers are spent.      *)
(***************************************************************************)
EXTENDS Integers, FiniteSets, FiniteSetsExt

CONSTANTS
  Replicates,  \* values that must be kept
  Outliers,    \* values that may be left out
  MaxCv        \* bound of the coefficient of variation, in per cent

ASSUME StatisticAssumption ==
  Replicates \in Nat \ {0} /\ Outliers \in Nat /\ MaxCv \in Nat

Sum(v, kept) == MapThenSumSet(LAMBDA i : v[i], kept)

\* cv < max_cv || cv < 0.0099, squared and multiplied out.  Results are integers
\* in units so coarse that a cv below 0.0099 is that of equal values.
Close(v, kept) ==
  LET n == Cardinality(kept)
      near[s \in Int \X Int] == \* the sum of the values, and that of their squares
        LET d == n * s[2] - s[1] * s[1]
        IN  10000 * n * d < MaxCv * MaxCv * s[1] * s[1] * (n - 1) \/ d = 0
  IN  near[<<Sum(v, kept), Sum([i \in kept |-> v[i] * v[i]], kept)>>]

\* The first of the values farthest from the mean; none when all are equal.  (The
\* distances are squared and in multiples of one over the number of values.)
Farthest(v, kept) ==
  LET n == Cardinality(kept)
      from[sum \in Int] ==
        {i \in kept :
           LET d(j) == (n * v[j] - sum) * (n * v[j] - sum)
           IN  d(i) > 0 /\ \A j \in kept : d(j) < d(i) \/ (d(j) = d(i) /\ i <= j)}
  IN  from[Sum(v, kept)]

\* Wrong: only values that are close to each other are ever enough.
EnoughWhenClose(v) ==
  LET round[out \in SUBSET DOMAIN v] ==
        LET kept == DOMAIN v \ out
            n    == Cardinality(kept)
        IN  \/ Replicates = 1
            \/ /\ n > 1 /\ n >= Replicates
               /\ Close(v, kept) \/ round[out \cup Farthest(v, kept)]
  IN  round[{}]

\* Whether the values v are enough: the rounds, by what has been left out, and by
\* whether the values of the round before were close.  A mean that is not above
\* zero leaves the cv of that round, which is 0 in the first.  A round that leaves
\* nothing out is repeated until the rounds are used up, and then they are enough.
Enough(v) ==
  LET round[at \in (SUBSET DOMAIN v) \X BOOLEAN] ==
        LET kept  == DOMAIN v \ at[1]
            n     == Cardinality(kept)
            close == IF Sum(v, kept) > 0 THEN Close(v, kept) ELSE at[2]
            far   == Farthest(v, kept)
        IN  \/ Replicates = 1
            \/ /\ n > 1 /\ n >= Replicates
               /\ \/ close
                  \/ n = Replicates /\ Cardinality(at[1]) >= Outliers
                  \/ far = {}
                  \/ round[<<at[1] \cup far, close>>]
  IN  round[<<{}, TRUE>>]

=============================================================================
