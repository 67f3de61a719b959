--------------------------- MODULE ScoreBookProofs ---------------------------
(***************************************************************************)
(* For any reports: the score stays a mean of what was measured, and 100.0  *)
(* means that nothing measured weighs.  Both follow from an invariant that    *)
(* ties the score to the facets; the rest is the arithmetic of one rounded  *)
(* mean, done for each number of measured facets by itself.                 *)
(***************************************************************************)
EXTENDS ScoreBook, TLAPS

(* A facet shows 100 exactly when nothing that weighs was found, and what weighs
   is counted. *)
Honest(f) ==
    Measured(f) => /\ f.score = 100 <=> Penalty(f.sev) = 0
                   /\ f.findings = 0 => Penalty(f.sev) = 0

BookInv ==
    /\ facets \in [Scored -> Facet]
    /\ score = Composite(facets)
    /\ problems = Problems(facets)
    /\ \A s \in Scored : Honest(facets[s])

(* The sums of Penalty and FindingCount over their summands. *)
Weighted(b, c, h, m, l) == 25 * b + 20 * c + 10 * h + 4 * m + l
Unweighted(b, c, h, m, l) == b + c + h + m + l

(* Where no finding is counted there is no penalty. *)
LEMMA PenaltyCounts ==
    ASSUME NEW b \in Nat, NEW c \in Nat, NEW h \in Nat, NEW m \in Nat, NEW l \in Nat,
           NEW o \in Nat
    PROVE  /\ Weighted(b, c, h, m, l) \in Nat
           /\ Unweighted(b, c, h, m, l) + o \in Nat
           /\ Unweighted(b, c, h, m, l) + o = 0 => Weighted(b, c, h, m, l) = 0
  BY SMT DEF Weighted, Unweighted

(* scannerSubscore stays within 0 .. 100, and is 100 exactly when no finding weighs. *)
LEMMA SubscoreIsHonest ==
    ASSUME NEW w \in Severities
    PROVE  /\ FindingCount(w) \in Nat
           /\ Subscore(w) \in 0 .. 100
           /\ Subscore(w) = 100 <=> Penalty(w) = 0
           /\ FindingCount(w) = 0 => Penalty(w) = 0
<1>1. /\ w["blocker"] \in Nat /\ w["critical"] \in Nat /\ w["high"] \in Nat
      /\ w["medium"] \in Nat /\ w["low"] \in Nat /\ w["other"] \in Nat
  BY DEF Severities, Bands
<1>2. /\ Penalty(w) = Weighted(w["blocker"], w["critical"], w["high"], w["medium"], w["low"])
      /\ FindingCount(w) = Unweighted(w["blocker"], w["critical"], w["high"], w["medium"], w["low"])
                           + w["other"]
  BY DEF Penalty, FindingCount, Weighted, Unweighted
<1>3. /\ FindingCount(w) \in Nat /\ Penalty(w) \in Nat
      /\ FindingCount(w) = 0 => Penalty(w) = 0
  <2> PICK b \in Nat, c \in Nat, h \in Nat, m \in Nat, l \in Nat, o \in Nat :
        <<b, c, h, m, l, o>> =
        <<w["blocker"], w["critical"], w["high"], w["medium"], w["low"], w["other"]>>
    BY <1>1
  <2>1. /\ Weighted(b, c, h, m, l) \in Nat
        /\ Unweighted(b, c, h, m, l) + o \in Nat
        /\ Unweighted(b, c, h, m, l) + o = 0 => Weighted(b, c, h, m, l) = 0
    BY ONLY PenaltyCounts, b \in Nat, c \in Nat, h \in Nat, m \in Nat, l \in Nat, o \in Nat
  <2> QED BY <1>2, <2>1
<1> QED
  BY <1>3 DEF Subscore

(* A facet that was just measured is in range and honest. *)
LEMMA NewFacetIsHonest ==
    ASSUME NEW r \in Result
    PROVE  NewFacet(r) \in Facet /\ Measured(NewFacet(r)) /\ Honest(NewFacet(r))
<1>1. Weighed(r) \in Severities
  BY SMT DEF Weighed, Severities, Result, NoFindings, Bands
<1> QED
  BY <1>1, SubscoreIsHonest DEF NewFacet, Facet, Measured, Honest, Nil

-----------------------------------------------------------------------------
(* Sums over the five facets *)

(* A sum of naturals is nothing exactly when every summand is. *)
LEMMA PlainIsZero ==
    ASSUME NEW a \in Nat, NEW b \in Nat, NEW c \in Nat, NEW d \in Nat, NEW e \in Nat
    PROVE  /\ Unweighted(a, b, c, d, e) \in Nat
           /\ Unweighted(a, b, c, d, e) = 0 <=> a = 0 /\ b = 0 /\ c = 0 /\ d = 0 /\ e = 0
  BY SMT DEF Unweighted

(* The same of OverScored. *)
LEMMA OverScoredIsZero ==
    ASSUME NEW f \in [Scored -> Nat]
    PROVE  /\ OverScored(f) \in Nat
           /\ OverScored(f) = 0 <=> \A s \in Scored : f[s] = 0
<1> PICK a \in Nat, b \in Nat, c \in Nat, d \in Nat, e \in Nat :
      /\ a = f["secrets"] /\ b = f["sast"] /\ c = f["iac"] /\ d = f["cve"]
      /\ e = f["container"]
  BY DEF Scored
<1>1. OverScored(f) = Unweighted(a, b, c, d, e)
  BY DEF OverScored, Unweighted
<1>2. /\ Unweighted(a, b, c, d, e) \in Nat
      /\ Unweighted(a, b, c, d, e) = 0 <=> a = 0 /\ b = 0 /\ c = 0 /\ d = 0 /\ e = 0
  BY ONLY PlainIsZero, a \in Nat, b \in Nat, c \in Nat, d \in Nat, e \in Nat
<1>3. (\A s \in Scored : f[s] = 0) <=> a = 0 /\ b = 0 /\ c = 0 /\ d = 0 /\ e = 0
  BY DEF Scored
<1> QED
  BY <1>1, <1>2, <1>3

(* Where p says which facets count and v what they add: summands that are each
   at least k where they count add up to at least k times the number that
   count; likewise at most; and where each is at most 100 and one is less, so
   is the sum. *)
LEMMA OverScoredBounds ==
    ASSUME NEW p \in [Scored -> 0 .. 1], NEW v \in [Scored -> Int], NEW k \in Int
    PROVE  /\ OverScored(p) \in 0 .. 5 /\ OverScored(v) \in Int
           /\ (\A s \in Scored : p[s] * k <= 10 * v[s]) => OverScored(p) * k <= 10 * OverScored(v)
           /\ (\A s \in Scored : 10 * v[s] <= p[s] * k) => 10 * OverScored(v) <= OverScored(p) * k
           /\ ((\A s \in Scored : v[s] <= 100 * p[s]) /\ (\E s \in Scored : v[s] < 100 * p[s]))
              => OverScored(v) < 100 * OverScored(p)
<1> PICK pa \in 0 .. 1, pb \in 0 .. 1, pc \in 0 .. 1, pd \in 0 .. 1, pe \in 0 .. 1,
         va \in Int, vb \in Int, vc \in Int, vd \in Int, ve \in Int :
      /\ pa = p["secrets"] /\ pb = p["sast"] /\ pc = p["iac"] /\ pd = p["cve"]
      /\ pe = p["container"]
      /\ va = v["secrets"] /\ vb = v["sast"] /\ vc = v["iac"] /\ vd = v["cve"]
      /\ ve = v["container"]
  BY DEF Scored
<1> DEFINE n == Unweighted(pa, pb, pc, pd, pe)
           sum == Unweighted(va, vb, vc, vd, ve)
<1>1. OverScored(p) = n /\ OverScored(v) = sum
  BY DEF OverScored, Unweighted
<1>2. /\ n \in 0 .. 5 /\ sum \in Int
      /\ (pa * k <= 10 * va /\ pb * k <= 10 * vb /\ pc * k <= 10 * vc
          /\ pd * k <= 10 * vd /\ pe * k <= 10 * ve) => n * k <= 10 * sum
      /\ (10 * va <= pa * k /\ 10 * vb <= pb * k /\ 10 * vc <= pc * k
          /\ 10 * vd <= pd * k /\ 10 * ve <= pe * k) => 10 * sum <= n * k
      /\ (/\ va <= 100 * pa /\ vb <= 100 * pb /\ vc <= 100 * pc
          /\ vd <= 100 * pd /\ ve <= 100 * pe
          /\ \/ va < 100 * pa \/ vb < 100 * pb \/ vc < 100 * pc
             \/ vd < 100 * pd \/ ve < 100 * pe) => sum < 100 * n
  BY ONLY k \in Int,
          pa \in 0 .. 1, pb \in 0 .. 1, pc \in 0 .. 1, pd \in 0 .. 1, pe \in 0 .. 1,
          va \in Int, vb \in Int, vc \in Int, vd \in Int, ve \in Int, SMTT(30) DEF Unweighted
<1> HIDE DEF n, sum
<1>3. (\A s \in Scored : p[s] * k <= 10 * v[s]) =>
        /\ pa * k <= 10 * va /\ pb * k <= 10 * vb /\ pc * k <= 10 * vc
        /\ pd * k <= 10 * vd /\ pe * k <= 10 * ve
  BY DEF Scored
<1>4. (\A s \in Scored : 10 * v[s] <= p[s] * k) =>
        /\ 10 * va <= pa * k /\ 10 * vb <= pb * k /\ 10 * vc <= pc * k
        /\ 10 * vd <= pd * k /\ 10 * ve <= pe * k
  BY DEF Scored
<1>5. (\A s \in Scored : v[s] <= 100 * p[s]) =>
        /\ va <= 100 * pa /\ vb <= 100 * pb /\ vc <= 100 * pc
        /\ vd <= 100 * pd /\ ve <= 100 * pe
  BY DEF Scored
<1>6. (\E s \in Scored : v[s] < 100 * p[s]) =>
        \/ va < 100 * pa \/ vb < 100 * pb \/ vc < 100 * pc
        \/ vd < 100 * pd \/ ve < 100 * pe
  BY DEF Scored
<1> QED
  BY ONLY <1>1, <1>2, <1>3, <1>4, <1>5, <1>6

(* The mean of compositeScore, rounded half up to tenths, for one to five
   scores: it keeps every bound in tenths that the exact mean keeps, and only
   the exact mean 100 rounds to 1000 tenths. *)
LEMMA RoundedMean ==
    ASSUME NEW n \in 1 .. 5, NEW sum \in Int, NEW k \in Int
    PROVE  LET mean == (20 * sum + n) \div (2 * n) IN
           /\ mean \in Int
           /\ n * k <= 10 * sum => k <= mean
           /\ 10 * sum <= n * k => mean <= k
           /\ sum < 100 * n => mean < 1000
<1>1. CASE n = 1 BY <1>1, SMT
<1>2. CASE n = 2 BY <1>2, SMT
<1>3. CASE n = 3 BY <1>3, SMT
<1>4. CASE n = 4 BY <1>4, SMT
<1>5. CASE n = 5 BY <1>5, SMT
<1> QED BY <1>1, <1>2, <1>3, <1>4, <1>5

(* What the facets fs are to the mean: how many are measured, their sum, and
   the bounds that those have. *)
LEMMA SumBounds ==
    ASSUME NEW fs \in [Scored -> Facet], NEW k \in Int
    PROVE  /\ Parts(fs) \in 0 .. 5 /\ ScoreSum(fs) \in Int
           /\ Parts(fs) = 0 <=> \A s \in Scored : ~Measured(fs[s])
           /\ (\A s \in Scored : Measured(fs[s]) => k <= 10 * fs[s].score)
              => Parts(fs) * k <= 10 * ScoreSum(fs)
           /\ (\A s \in Scored : Measured(fs[s]) => 10 * fs[s].score <= k)
              => 10 * ScoreSum(fs) <= Parts(fs) * k
           /\ (\E s \in Scored : Measured(fs[s]) /\ fs[s].score < 100)
              => ScoreSum(fs) < 100 * Parts(fs)
<1> DEFINE p == [s \in Scored |-> IF Measured(fs[s]) THEN 1 ELSE 0]
           v == [s \in Scored |-> IF Measured(fs[s]) THEN fs[s].score ELSE 0]
<1>1. Parts(fs) = OverScored(p) /\ ScoreSum(fs) = OverScored(v)
  BY DEF Parts, ScoreSum
<1>2. p \in [Scored -> 0 .. 1] /\ p \in [Scored -> Nat] /\ v \in [Scored -> Int]
  BY DEF Facet, Measured, Nil
<1>3. \A s \in Scored :
         /\ p[s] = 0 <=> ~Measured(fs[s])
         /\ (Measured(fs[s]) => k <= 10 * fs[s].score) => p[s] * k <= 10 * v[s]
         /\ (Measured(fs[s]) => 10 * fs[s].score <= k) => 10 * v[s] <= p[s] * k
         /\ v[s] <= 100 * p[s]
         /\ (Measured(fs[s]) /\ fs[s].score < 100) => v[s] < 100 * p[s]
  BY DEF Facet, Measured, Nil
<1> HIDE DEF p, v
<1> QED
  BY <1>1, <1>2, <1>3, OverScoredBounds, OverScoredIsZero

(* compositeScore: undefined when nothing was measured, and otherwise a mean
   that rounding keeps between the worst and the best facet, and at 100.0 only
   when every measured facet is. *)
LEMMA CompositeIsMean ==
    ASSUME NEW fs \in [Scored -> Facet]
    PROVE  /\ Composite(fs) = Nil <=> \A s \in Scored : ~Measured(fs[s])
           /\ Composite(fs) # Nil =>
                /\ Composite(fs) \in 0 .. 1000
                /\ \E s \in Scored : Measured(fs[s]) /\ 10 * fs[s].score <= Composite(fs)
                /\ \E s \in Scored : Measured(fs[s]) /\ Composite(fs) <= 10 * fs[s].score
                /\ Composite(fs) = 1000 <=>
                     \A s \in Scored : Measured(fs[s]) => fs[s].score = 100
<1>1. CASE Parts(fs) = 0
  BY <1>1, SumBounds DEF Composite
<1>2. CASE Parts(fs) # 0
  <2>1. /\ Parts(fs) \in 1 .. 5 /\ ScoreSum(fs) \in Int
        /\ Composite(fs) = (20 * ScoreSum(fs) + Parts(fs)) \div (2 * Parts(fs))
    BY <1>2, SumBounds DEF Composite
  <2>2. Composite(fs) \in Int /\ (ScoreSum(fs) < 100 * Parts(fs) => Composite(fs) < 1000)
    BY <2>1, RoundedMean
  <2>3. \A s \in Scored : Measured(fs[s]) => fs[s].score \in 0 .. 100
    BY DEF Facet, Measured, Nil
  <2>4. ASSUME NEW k \in Int, \A s \in Scored : Measured(fs[s]) => k <= 10 * fs[s].score
        PROVE  k <= Composite(fs)
    <3>1. Parts(fs) * k <= 10 * ScoreSum(fs)
      BY <2>4, SumBounds
    <3> QED BY <2>1, <3>1, RoundedMean
  <2>5. ASSUME NEW k \in Int, \A s \in Scored : Measured(fs[s]) => 10 * fs[s].score <= k
        PROVE  Composite(fs) <= k
    <3>1. 10 * ScoreSum(fs) <= Parts(fs) * k
      BY <2>5, SumBounds
    <3> QED BY <2>1, <3>1, RoundedMean
  <2>6. Composite(fs) \in 0 .. 1000
    <3>1. \A s \in Scored : Measured(fs[s]) => 0 <= 10 * fs[s].score
      BY <2>3
    <3>2. \A s \in Scored : Measured(fs[s]) => 10 * fs[s].score <= 1000
      BY <2>3
    <3>3. 0 <= Composite(fs) /\ Composite(fs) <= 1000
      BY <3>1, <3>2, <2>4, <2>5
    <3>4. Composite(fs) \in Int
      BY <2>2
    <3> QED BY <3>3, <3>4
  <2>7. \E s \in Scored : Measured(fs[s]) /\ 10 * fs[s].score <= Composite(fs)
    <3> SUFFICES ASSUME \A s \in Scored : Measured(fs[s]) => ~(10 * fs[s].score <= Composite(fs))
                 PROVE  FALSE
      OBVIOUS
    <3>1. \A s \in Scored : Measured(fs[s]) => Composite(fs) + 1 <= 10 * fs[s].score
      BY <2>2, <2>3
    <3>2. Composite(fs) + 1 <= Composite(fs)
      BY <3>1, <2>2, <2>4
    <3> QED BY <3>2, <2>2
  <2>8. \E s \in Scored : Measured(fs[s]) /\ Composite(fs) <= 10 * fs[s].score
    <3> SUFFICES ASSUME \A s \in Scored : Measured(fs[s]) => ~(Composite(fs) <= 10 * fs[s].score)
                 PROVE  FALSE
      OBVIOUS
    <3>1. \A s \in Scored : Measured(fs[s]) => 10 * fs[s].score <= Composite(fs) - 1
      BY <2>2, <2>3
    <3>2. Composite(fs) <= Composite(fs) - 1
      BY <3>1, <2>2, <2>5
    <3> QED BY <3>2, <2>2
  <2>9. ASSUME Composite(fs) = 1000, NEW s \in Scored, Measured(fs[s])
        PROVE  fs[s].score = 100
    <3>1. ~(fs[s].score < 100)
      BY <2>2, <2>9, SumBounds
    <3> QED BY <2>3, <2>9, <3>1
  <2>10. ASSUME \A s \in Scored : Measured(fs[s]) => fs[s].score = 100
         PROVE  Composite(fs) = 1000
    <3>1. \A s \in Scored : Measured(fs[s]) => 1000 <= 10 * fs[s].score
      BY <2>10
    <3>2. 1000 <= Composite(fs)
      BY <3>1, <2>4
    <3> QED BY <3>2, <2>6
  <2>11. Composite(fs) # Nil /\ \E s \in Scored : Measured(fs[s])
    BY <2>6, <2>7 DEF Nil
  <2> QED
    BY <2>6, <2>7, <2>8, <2>9, <2>10, <2>11
<1> QED BY <1>1, <1>2

(* The number of problems is nothing exactly when no measured facet has one. *)
LEMMA ProblemsCount ==
    ASSUME NEW fs \in [Scored -> Facet]
    PROVE  /\ Problems(fs) \in Nat
           /\ Problems(fs) = 0 <=> \A s \in Scored : Measured(fs[s]) => fs[s].findings = 0
<1> DEFINE f == [s \in Scored |-> IF Measured(fs[s]) THEN fs[s].findings ELSE 0]
<1>1. f \in [Scored -> Nat] /\ Problems(fs) = OverScored(f)
  BY DEF Facet, Problems
<1>2. \A s \in Scored : f[s] = 0 <=> (Measured(fs[s]) => fs[s].findings = 0)
  OBVIOUS
<1> HIDE DEF f
<1> QED
  BY <1>1, <1>2, OverScoredIsZero

-----------------------------------------------------------------------------
(* BookInv implies the properties. *)
LEMMA BookInvImplies == BookInv => BookTypeOK /\ MeanOfMeasured /\ PerfectMeansNoPenalty
<1> SUFFICES ASSUME BookInv PROVE BookTypeOK /\ MeanOfMeasured /\ PerfectMeansNoPenalty
  OBVIOUS
<1> USE DEF BookInv
<1>1. BookTypeOK
  BY CompositeIsMean, ProblemsCount DEF BookTypeOK
<1>2. MeanOfMeasured
  BY CompositeIsMean DEF MeanOfMeasured
<1>3. PerfectMeansNoPenalty
  BY CompositeIsMean, ProblemsCount DEF PerfectMeansNoPenalty, Honest
<1> QED BY <1>1, <1>2, <1>3

(* A merge keeps the score tied to the facets, and every facet honest. *)
LEMMA BookInvInductive ==
    ASSUME ReportsAssumption
    PROVE  /\ BookInit => BookInv
           /\ BookInv /\ [BookNext]_bookVars => BookInv'
<1>1. BookInit => BookInv
  <2> SUFFICES ASSUME BookInit PROVE BookInv
    OBVIOUS
  <2>1. facets \in [Scored -> Facet] /\ \A s \in Scored : ~Measured(facets[s])
    BY DEF BookInit, Facet, NeverScanned, Measured, Nil, NoFindings, Severities
  <2>2. Composite(facets) = Nil
    BY <2>1, CompositeIsMean
  <2>3. Problems(facets) = 0
    BY <2>1, ProblemsCount
  <2> QED BY <2>1, <2>2, <2>3 DEF BookInit, BookInv, Honest
<1>2. ASSUME BookInv, NEW r \in Reports, Merge(r) PROVE BookInv'
  <2>1. DOMAIN r \subseteq Scored /\ \A s \in DOMAIN r : r[s] \in Result
    BY ReportsAssumption
  <2>2. \A s \in Scored : Merged(r)[s] = IF s \in DOMAIN r THEN NewFacet(r[s]) ELSE facets[s]
    BY DEF Merged
  <2>3. \A s \in Scored : Merged(r)[s] \in Facet /\ Honest(Merged(r)[s])
    BY <1>2, <2>1, <2>2, NewFacetIsHonest DEF BookInv
  <2>4. Merged(r) \in [Scored -> Facet]
    BY <2>3 DEF Merged
  <2> QED BY <1>2, <2>3, <2>4 DEF BookInv, Merge
<1>3. ASSUME BookInv, UNCHANGED bookVars PROVE BookInv'
  BY <1>3 DEF BookInv, bookVars
<1> QED BY <1>1, <1>2, <1>3 DEF BookNext

(* Every variable has its type, whatever reports are merged. *)
THEOREM BookTypeCorrect == BookSpec => []BookTypeOK
  BY BookInvImplies, BookInvInductive, ReportsAssumption, PTL DEF BookSpec

(* compositeScore is a mean of the measured facets, whatever is merged. *)
THEOREM MeanIsOfMeasured == BookSpec => []MeanOfMeasured
  BY BookInvImplies, BookInvInductive, ReportsAssumption, PTL DEF BookSpec

(* A repository shows 100.0 exactly when nothing that was found in it weighs, and
   whenever no problem is counted for it. *)
THEOREM PerfectIsUnweighed == BookSpec => []PerfectMeansNoPenalty
  BY BookInvImplies, BookInvInductive, ReportsAssumption, PTL DEF BookSpec
=============================================================================
