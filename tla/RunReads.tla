------------------------------- MODULE RunReads -------------------------------
(***************************************************************************)
(* The handlers of security_runs.go that read runs, beside the jobs, the    *)
(* writer and the merges of SecurityRuns and the ingests of CiIngest: GET of *)
(* a run looks at the process first and at the table, without FINAL, after  *)
(* it; the list looks at the table alone; the findings are counted one table *)
(* after the other, whoever filed them.                                     *)
(*                                                                         *)
(* What a reader has been told is kept in variables of its own.  A query    *)
(* that fails is answered with 404 or an empty table, which tells nothing:  *)
(* `shown` and `page` hold the last answers of queries that worked.         *)
(***************************************************************************)
EXTENDS CiIngest

VARIABLES shown,   \* run id -> the last row that GET answered, NoRow for a 404
          page,    \* run id -> the findings that GET .../findings answered
          listed   \* the runs that some list has shown

rvars == <<shown, page, listed>>

FindingTables == {"secret_findings", "sast_findings", "iac_findings", "cve_findings"}

(* The table insertFindingRow files a scanner's rows in. *)
FiledIn(s) == CASE s = "secrets"              -> "secret_findings"
                [] s = "sast"                 -> "sast_findings"
                [] s \in {"iac", "container"} -> "iac_findings"
                [] s = "cve"                  -> "cve_findings"
                [] s = "sbom"                 -> "service_dependencies"

RInit ==
    /\ CiInit
    /\ shown = [i \in RunIds |-> NoRow]
    /\ page = [i \in RunIds |-> {}]
    /\ listed = {}

Unmerged(i) == {row \in table : row.id = i}

(* A mutant: the table is asked before the process. *)
AnswersOfTable(i) ==
    IF Unmerged(i) # {} THEN Unmerged(i) ELSE {live[i]}

(* liveSecurityRun, or else LIMIT 1 of the rows of the run, in no order. *)
Answers(i) ==
    IF Known(i) THEN {live[i]}
    ELSE IF Unmerged(i) # {} THEN Unmerged(i)
    ELSE {NoRow}

handleSecurityRunGet(i) ==
    /\ \E row \in Answers(i) : shown' = [shown EXCEPT ![i] = row]
    /\ UNCHANGED <<vars, ci, page, listed>>

(* The rows of one table that are filed under the run, by its scanners or by
   CI; the page shows the 200 latest. *)
FoundIn(tableName, i) ==
    {f \in landed \cup ciLanded : f.id = i /\ FiledIn(f.scanner) = tableName}

(* Every table is a query of its own; jobs and landings go on between them. *)
handleSecurityRunFindings(i, tableName) ==
    /\ page' = [page EXCEPT ![i] = {f \in @ : FiledIn(f.scanner) # tableName}
                                       \cup FoundIn(tableName, i)]
    /\ UNCHANGED <<vars, ci, shown, listed>>

handleSecurityRunsList ==
    /\ listed' = listed \cup {row.id : row \in table}
    /\ UNCHANGED <<vars, ci, shown, page>>

RNext ==
    \/ \E i \in RunIds : \/ handleSecurityRunGet(i)
                         \/ \E t \in FindingTables : handleSecurityRunFindings(i, t)
    \/ handleSecurityRunsList
    \/ Ingests /\ UNCHANGED rvars
    \/ RunsGoOn /\ UNCHANGED rvars

RSpec == RInit /\ [][RNext]_<<vars, ci, rvars>>

-----------------------------------------------------------------------------
(* Properties *)

(* What readers were told has its type. *)
ReadsTypeOK ==
    /\ shown \in [RunIds -> Row \cup {NoRow}]
    /\ page \in [RunIds -> SUBSET Finding]
    /\ listed \subseteq RunIds

Rank(row) == IF row = NoRow THEN 0
             ELSE IF row.status = "queued" THEN 1
             ELSE IF row.status = "running" THEN 2
             ELSE 3

(* A reader never sees a run go back, from finished to running, from running to
   queued, from found to not found, as long as the process that made it lives:
   only the rows a restart leaves unmerged can show it an earlier one.  And a
   run that was in a list is found by GET ever after, restarts included. *)
ReadsGoForward ==
    [][DistinctIds => \A i \in RunIds :
          /\ Known(i) => Rank(shown'[i]) >= Rank(shown[i])
          /\ i \in listed /\ shown'[i] # shown[i] => shown'[i] # NoRow]_<<vars, ci, rvars>>

(* The page of findings and the run tell the same story whichever of the two
   is read first: a run that is shown as completed has every finding in its
   summary that the page showed, before or after, even if the process has
   restarted since, but those that CI filed under the run's id, which are in no
   summary. *)
PageAgrees ==
    DistinctIds => \A i \in RunIds :
        shown[i] # NoRow /\ shown[i].status \in Completed =>
            \A f \in page[i] \ ciLanded : shown[i].sev[f.scanner][f.severity] > 0
=============================================================================
