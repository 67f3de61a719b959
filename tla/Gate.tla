-------------------------------- MODULE Gate --------------------------------
(***************************************************************************)
(* What CI asks about findings, beside the runs of SecurityRuns.            *)
(*                                                                         *)
(*   gate.go    evaluateScopedGate counts the blocking findings of a run in *)
(*              three tables, one query after the other, and falls back on  *)
(*              the summary the process remembers, which covers findings    *)
(*              that have not landed yet;                                   *)
(*   appsec.go  handleSecurityPRCheck asks the same tables about a run,     *)
(*              about the runs of a commit or about the whole tenant, and   *)
(*              looks at no summary.                                        *)
(*                                                                         *)
(* Both count the findings that CI brought along (CiIngest) like those of    *)
(* the scanners.  Jobs, landings, drops, ingests and restarts go on between  *)
(* the steps.                                                               *)
(* One caller at a time: evaluations do not affect each other.              *)
(***************************************************************************)
EXTENDS CiIngest

CONSTANTS Forms,          \* "gate", and PR checks by "run", "commit" or "tenant"
          MinSeverities,  \* values of min_severity that are asked for
          Scopes,         \* how the caller's tenant relates to the run's
          OfCommit,       \* the runs with the repo and sha a PR check names
          RunLimit,       \* the 20 rows that the lookup of a commit's runs is cut to
          MaxErrors       \* bound on ClickHouse queries that fail

(* "Medium" stands for any spelling of medium but the lower-case one, "other"
   for a text that names no band. *)
ASSUME GateAssumption ==
    /\ Forms \subseteq {"gate", "run", "commit", "tenant"}
    /\ MinSeverities \subseteq {"critical", "high", "medium", "Medium", "low", "other"}
    /\ Scopes \subseteq {"own", "noOrg", "otherOrg", "otherProject"}
    /\ OfCommit \subseteq RunIds
    /\ RunLimit \in Nat \ {0} /\ MaxErrors \in Nat

VARIABLES gate, errors

gvars == <<gate, errors>>

(* Which table a scanner's findings are in; cve_findings is none of the three. *)
TableOf(s) == CASE s = "secrets" -> "secret_findings"
                [] s = "sast" -> "sast_findings"
                [] s \in {"iac", "container"} -> "iac_findings"
                [] OTHER -> "other"

(* The queries in their order; a gate looks at the remembered run after them. *)
Tables == {"secret_findings", "sast_findings", "iac_findings"}
After(at) == CASE at \in {"security_runs", "vuln_findings"} -> "secret_findings"
               [] at = "secret_findings" -> "sast_findings"
               [] at = "sast_findings" -> "iac_findings"
               [] at = "iac_findings" -> IF gate.form = "gate" THEN "live" ELSE "nothing"

Lower(min) == IF min = "Medium" THEN "medium" ELSE min

(* sevFilter: anything that is no band filters like high; a gate at low takes
   every row, a PR check the rows of the four bands. *)
StoredBands(form, min) ==
    CASE Lower(min) = "critical" -> {"critical"}
      [] Lower(min) \in {"high", "other"} -> {"critical", "high"}
      [] Lower(min) = "medium" -> {"critical", "high", "medium"}
      [] Lower(min) = "low" -> IF form = "gate" THEN Severities
                               ELSE {"critical", "high", "medium", "low"}

(* A mutant: the remembered severities are compared to critical only. *)
LiveBandsCritical(min) == {"critical"}

(* liveBlockingCount: anything that is no band counts everything. *)
LiveBands(min) ==
    IF Lower(min) \in {"low", "other"} THEN Severities ELSE StoredBands("gate", min)

(* The findings of some runs the checks are there for, whichever table they
   are in and whoever found them. *)
Blockers(ids, form, min) ==
    {f \in landed \cup ciLanded :
        /\ f.id \in ids /\ f.scanner \in {"secrets", "sast", "iac", "container"}
        /\ f.severity \in StoredBands(form, min)}

BlockedRuns(ids, form, min) == {f.id : f \in Blockers(ids, form, min)}

(* The findings a query of the evaluation sees: the caller's tenant is in the
   WHERE, and the runs are unless the check is the tenant's. *)
Blocking(tableName) ==
    {f \in landed \cup ciLanded :
        /\ gate.scope = "own" /\ f.id \in gate.ids
        /\ TableOf(f.scanner) = tableName
        /\ f.severity \in StoredBands(gate.form, gate.min)}

AnyOf(counts, bands) == \E v \in bands : counts[v] > 0

IacFails(row, min) == row.counts["iac"] > 0 /\ min \in {"medium", "low"}

(* What the summary of a remembered run fails the gate for. *)
LiveFails(row, min) ==
    \/ AnyOf(row.sev["secrets"], LiveBands(min))
    \/ /\ row.counts["sast"] > 0 /\ Lower(min) # "critical"
       /\ AnyOf(row.sev["sast"], LiveBands(min)) \/ row.sev["sast"] = NoSeverities
    \/ IacFails(row, min)

CompletedRun(i) == Known(i) /\ live[i].status \in Completed

(* The rows of the commit's runs, one for each status until they are merged,
   and the runs they are of. *)
CommitRows == {row \in table : row.id \in OfCommit}
Recorded == {row.id : row \in CommitRows}

(* ORDER BY started_at DESC LIMIT 20, rows with the same stamp in any order.  A
   row of updateSecurityRun starts when it finishes, its base has no
   started_at.  A row that landed twice, and is not merged yet, takes two of
   the places, so fewer rows than the limit may be left. *)
NewestRows ==
    {rows \in SUBSET CommitRows :
        /\ rows # {} /\ Cardinality(rows) <= RunLimit
        /\ \A row \in rows, older \in CommitRows \ rows : older.finished <= row.finished}

(* at: what the evaluation looks at next, "nothing" between evaluations.  erred
   says that a query failed, missed which recorded runs the lookup left out;
   stored (the runs that are asked about and had a blocking finding in
   ClickHouse) and known are what was the case at the beginning. *)
NoGate == [at |-> "nothing", form |-> "gate", ids |-> {}, min |-> "high", scope |-> "own",
           fail |-> FALSE, verdict |-> "none", erred |-> FALSE, missed |-> {},
           stored |-> {}, known |-> FALSE]

GInit == CiInit /\ gate = NoGate /\ errors = 0

-----------------------------------------------------------------------------
(* The evaluations *)

Idle == gate.at = "nothing"

(* A gate: an organization is required under auth; otherwise the queries begin. *)
evaluateScopedGate(i, min, scope) ==
    /\ Idle /\ "gate" \in Forms
    /\ gate' = IF scope = "noOrg" THEN [NoGate EXCEPT !.verdict = "fail"]
               ELSE [NoGate EXCEPT
                       !.at = "secret_findings", !.ids = {i}, !.min = min, !.scope = scope,
                       !.stored = BlockedRuns({i}, "gate", min),
                       !.known = CompletedRun(i)]
    /\ UNCHANGED <<errors, ci, vars>>

(* A PR check: of a run, of the runs of a commit, which are looked up first, or
   of the tenant, whose observed vulnerabilities are.  The band is put in lower
   case at once; a caller of another tenant has no rows to see. *)
handleSecurityPRCheck(form, i, min, scope) ==
    /\ Idle /\ form \in Forms \ {"gate"}
    /\ LET ids == IF scope # "own" THEN {}
                  ELSE CASE form = "run"    -> {i}
                         [] form = "commit" -> Recorded
                         [] form = "tenant" -> RunIds
       IN  gate' = [NoGate EXCEPT
                       !.at = CASE form = "run"    -> "secret_findings"
                                [] form = "commit" -> "security_runs"
                                [] form = "tenant" -> "vuln_findings",
                       !.form = form, !.ids = ids, !.min = Lower(min), !.scope = scope,
                       !.stored = BlockedRuns(ids, form, min)]
    /\ UNCHANGED <<errors, ci, vars>>

(* The answer.  Of an evaluation that fails nothing else is kept. *)
Ended(fails) ==
    IF fails THEN [NoGate EXCEPT !.verdict = "fail"]
    ELSE [gate EXCEPT !.at = "nothing", !.verdict = "pass"]

(* The next query has been answered. *)
Onward(fails) ==
    IF After(gate.at) = "nothing" THEN Ended(fails)
    ELSE [gate EXCEPT !.at = After(@), !.fail = fails]

(* Without runs of the commit there is nothing to ask: "repo_sha_empty". *)
QueryRuns ==
    /\ gate.at = "security_runs"
    /\ IF gate.scope = "own" /\ CommitRows # {}
       THEN \E rows \in NewestRows :
               gate' = [gate EXCEPT !.at = "secret_findings", !.ids = {row.id : row \in rows},
                                    !.missed = Recorded \ {row.id : row \in rows}]
       ELSE gate' = Ended(FALSE)
    /\ UNCHANGED <<errors, ci, vars>>

QueryVulns ==
    /\ gate.at = "vuln_findings"
    /\ \E observed \in BOOLEAN : gate' = Onward(observed)
    /\ UNCHANGED <<errors, ci, vars>>

(* A mutant: a table's answer replaces the one before. *)
FailAfterForgets(tableName) == Blocking(tableName) # {}

FailAfter(tableName) == gate.fail \/ Blocking(tableName) # {}

QueryTable ==
    /\ gate.at \in Tables
    /\ gate' = Onward(FailAfter(gate.at))
    /\ UNCHANGED <<errors, ci, vars>>

(* A query that fails is passed over; a lookup that fails finds no runs. *)
QueryFails ==
    /\ gate.at \in Tables \cup {"security_runs", "vuln_findings"}
    /\ errors < MaxErrors
    /\ errors' = errors + 1
    /\ LET next == IF gate.at = "security_runs" THEN Ended(FALSE) ELSE Onward(gate.fail)
       IN  gate' = [next EXCEPT !.erred = (next.verdict # "fail")]
    /\ UNCHANGED <<ci, vars>>

(* Another organization's run fails, another project's passes, an unknown run
   is judged by the queries alone. *)
LookAtLive ==
    /\ gate.at = "live"
    /\ gate' = Ended(\/ gate.fail
                     \/ \E i \in gate.ids :
                          /\ Known(i)
                          /\ \/ gate.scope = "otherOrg"
                             \/ gate.scope = "own" /\ LiveFails(live[i], gate.min))
    /\ UNCHANGED <<errors, ci, vars>>

-----------------------------------------------------------------------------
(* The runs go on.  A restart takes the evaluation with it. *)
Runs ==
    /\ RunsGoOn /\ UNCHANGED errors
    /\ IF crashes' = crashes THEN UNCHANGED gate ELSE gate' = NoGate

GNext ==
    \/ \E i \in RunIds, min \in MinSeverities, scope \in Scopes :
          \/ evaluateScopedGate(i, min, scope)
          \/ \E form \in Forms : handleSecurityPRCheck(form, i, min, scope)
    \/ QueryRuns \/ QueryVulns \/ QueryTable \/ QueryFails \/ LookAtLive
    \/ Ingests /\ UNCHANGED <<gate, errors>>
    \/ Runs

GSpec == GInit /\ [][GNext]_<<vars, ci, gvars>>

-----------------------------------------------------------------------------
(* Properties *)

(* The evaluation is a record of the expected shape, CI's rows are findings. *)
GateTypeOK ==
    /\ gate \in [at: {"security_runs", "vuln_findings", "live", "nothing"} \cup Tables,
                 form: Forms \cup {"gate"}, ids: SUBSET RunIds,
                 min: MinSeverities \cup {"high", "medium"}, scope: Scopes \cup {"own"},
                 fail: BOOLEAN, verdict: {"none", "pass", "fail"}, erred: BOOLEAN,
                 missed: SUBSET RunIds, stored: SUBSET RunIds, known: BOOLEAN]
    /\ gate.verdict = "none" \/ Idle
    /\ ciSending \subseteq Finding /\ ciLanded \subseteq Finding

Passed == gate.verdict = "pass" /\ gate.scope = "own"

(* A pass after queries that worked, of a gate or of a PR check, means that no
   run that it looked at had a blocking finding in ClickHouse when the
   evaluation began: not the run, none of the tenant, and none of the commit's
   runs that the table knew of by then but those which the lookup left out;
   container findings and those that CI had brought included. *)
PassMeansNoneStored == Passed /\ ~gate.erred => gate.stored \subseteq gate.missed

(* What a check by repo and sha is there for, "Scoped by repo/sha via
   security_runs join": none of the commit's recorded runs had a blocking
   finding stored when a check began that passes.  The lookup's limit counts
   status rows, so runs are left out. *)
CommitPassMeansNoneStored == Passed /\ ~gate.erred => gate.stored = {}

(* The remembered summary covers what ClickHouse does not show: if the run had
   completed when the gate's evaluation began, a pass means that no secret,
   SAST or IaC finding of the run blocks, though its rows may still be on their
   way, dropped by the writer, or hidden by failing queries.  (Not container
   findings, not what CI brought, and not an IaC finding when the severity is
   spelt "Medium".) *)
PassCoversUnlanded ==
    DistinctIds /\ Passed /\ gate.known /\ gate.min # "Medium" =>
        \A i \in gate.ids : \A s \in {"secrets", "sast", "iac"} :
            ~AnyOf(live[i].sev[s], StoredBands("gate", gate.min))
=============================================================================
