----------------------------- MODULE ScoreBook -----------------------------
(***************************************************************************)
(* repo_score.go, the arithmetic: the score of one repository, as scans of  *)
(* it are merged one after the other.  Each scan replaces the facets of the *)
(* scanners that ran, and the composite is the mean of the facets measured  *)
(* so far, rounded to one decimal: it is kept in tenths here.               *)
(*                                                                         *)
(* Where the previous state comes from and where the next one goes is       *)
(* RepoScore's part.                                                        *)
(***************************************************************************)
EXTENDS Integers

CONSTANT Reports  \* scanner results: a function from the scanners that ran

Scored == {"secrets", "sast", "iac", "cve", "container"}

(* "other" stands for a text that names no band: OSV's "moderate" gets here as
   it is. *)
Bands == {"blocker", "critical", "high", "medium", "low", "info", "unknown", "other"}
Severities == [Bands -> Nat]
NoFindings == [b \in Bands |-> 0]

(* What a scanner leaves of its run: the severities it remembered and the number
   it returned, which counts the findings that do not weigh as well.  An error
   it returned reaches the status of the run and not the score. *)
Result == [sev: Severities, count: Nat]

ASSUME ReportsAssumption ==
    \A r \in Reports : \E ran \in SUBSET Scored : r \in [ran -> Result]

VARIABLES facets, score, problems

bookVars == <<facets, score, problems>>

Nil == -1   \* of a score: nothing measured

Facet == [score: {Nil} \cup (0 .. 100), sev: Severities, findings: Nat]
NeverScanned == [score |-> Nil, sev |-> NoFindings, findings |-> 0]
Measured(f) == f.score # Nil

-----------------------------------------------------------------------------
(* One facet *)

Penalty(sev) == 25 * sev["blocker"] + 20 * sev["critical"] + 10 * sev["high"]
                + 4 * sev["medium"] + sev["low"]

(* A mutant: no floor. *)
SubscoreUnbounded(sev) == 100 - Penalty(sev)

(* scannerSubscore; the penalty is never negative. *)
Subscore(sev) == IF Penalty(sev) > 100 THEN 0 ELSE 100 - Penalty(sev)

(* All but info and unknown are counted, also what has no weight. *)
FindingCount(sev) ==
    sev["blocker"] + sev["critical"] + sev["high"] + sev["medium"] + sev["low"] + sev["other"]

(* Where none is counted, whatever the scanner returned is taken for medium. *)
Weighed(r) ==
    IF FindingCount(r.sev) = 0 /\ r.count > 0
    THEN [NoFindings EXCEPT !["medium"] = r.count]
    ELSE r.sev

NewFacet(r) ==
    [score |-> Subscore(Weighed(r)), sev |-> Weighed(r), findings |-> FindingCount(Weighed(r))]

-----------------------------------------------------------------------------
(* The composite *)

OverScored(f) == f["secrets"] + f["sast"] + f["iac"] + f["cve"] + f["container"]

Parts(fs) == OverScored([s \in Scored |-> IF Measured(fs[s]) THEN 1 ELSE 0])
ScoreSum(fs) == OverScored([s \in Scored |-> IF Measured(fs[s]) THEN fs[s].score ELSE 0])

(* Only a measured facet has findings. *)
Problems(fs) == OverScored([s \in Scored |-> IF Measured(fs[s]) THEN fs[s].findings ELSE 0])

(* A mutant: the mean is rounded to a whole number. *)
CompositeWhole(fs) ==
    IF Parts(fs) = 0 THEN Nil
    ELSE 10 * ((2 * ScoreSum(fs) + Parts(fs)) \div (2 * Parts(fs)))

(* A mutant: what was never scanned counts as nought. *)
CompositeOverAll(fs) == IF Parts(fs) = 0 THEN Nil ELSE (20 * ScoreSum(fs) + 5) \div 10

(* compositeScore in tenths: math.Round(sum / n * 10), half up. *)
Composite(fs) ==
    IF Parts(fs) = 0 THEN Nil
    ELSE (20 * ScoreSum(fs) + Parts(fs)) \div (2 * Parts(fs))

-----------------------------------------------------------------------------
BookInit ==
    /\ facets = [s \in Scored |-> NeverScanned]
    /\ score = Nil
    /\ problems = 0

(* mergeScannerFacets. *)
Merged(r) == [s \in Scored |-> IF s \in DOMAIN r THEN NewFacet(r[s]) ELSE facets[s]]

(* A run of none of the scored scanners leaves the state alone. *)
Merge(r) ==
    /\ DOMAIN r # {}
    /\ facets' = Merged(r)
    /\ score' = Composite(facets')
    /\ problems' = Problems(facets')

BookNext == \E r \in Reports : Merge(r)

BookSpec == BookInit /\ [][BookNext]_bookVars

-----------------------------------------------------------------------------
(* Properties *)

(* Every variable has its type. *)
BookTypeOK ==
    /\ facets \in [Scored -> Facet]
    /\ score \in {Nil} \cup (0 .. 1000)
    /\ problems \in Nat

(* The composite is a mean of what was measured: rounding does not take it
   below the worst facet or above the best one, and an unmeasured facet does
   not pull it down. *)
MeanOfMeasured ==
    /\ score = Nil <=> \A s \in Scored : ~Measured(facets[s])
    /\ score # Nil =>
          /\ \E s \in Scored : Measured(facets[s]) /\ 10 * facets[s].score <= score
          /\ \E s \in Scored : Measured(facets[s]) /\ score <= 10 * facets[s].score

(* Rounding hides no penalty: with at most five facets, one point in one of
   them survives it, so 100.0 is shown exactly when no severity kept of any
   measured facet weighs; and a repository without problems shows it.  (A problem
   by a name that is no band does not weigh, though repo_score.go:141 says "count
   only severities that affect the score": 100.0 is shown beside it.) *)
PerfectMeansNoPenalty ==
    score # Nil =>
        /\ score = 1000 <=> \A s \in Scored : Measured(facets[s]) => Penalty(facets[s].sev) = 0
        /\ problems = 0 => score = 1000
=============================================================================
