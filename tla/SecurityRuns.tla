---------------------------- MODULE SecurityRuns ----------------------------
(***************************************************************************)
(* security_runs.go, with the parts of security_scan.go, hub_github.go and  *)
(* peer_scm_events.go a scan job runs through: a request records a run in   *)
(* the process (securityRunLive) and in ClickHouse, and may dispatch a      *)
(* goroutine that checks out the code, runs the scanners one after the      *)
(* other and records the outcome.                                           *)
(*                                                                         *)
(* Two copies of a run's status drift apart: `live` is updated at once and  *)
(* lost with the process; the rows of security_runs land asynchronously     *)
(* (as AsyncInsert promises) and are merged by finished_at.                 *)
(*                                                                         *)
(* What a scanner finds in the code is an arbitrary sequence of findings;   *)
(* of a row only the columns that some reader decides on are kept.          *)
(***************************************************************************)
EXTENDS Naturals, Sequences, FiniteSets

CONSTANTS
    Requests,      \* accepted POSTs, from the API or from a peer's SCM event
    RunIds,
    IdOf,          \* request -> the run id it is given or brings along
    PeerRequests,  \* requests that come from createPeerCVESecurityRun
    CloneRequests, \* requests with repo_full_name and connector_id
    Scans,         \* request -> its scanners in order, as normalized
    Seen,          \* severity bands that occur in the scanned code
    NoRow,
    MaxFindings,   \* bound on the findings of one scanner of one job
    MaxTime,       \* bound on the clock, in the milliseconds finished_at keeps
    MaxStored,     \* bound on the rows ClickHouse holds at a time
    MaxDrops,      \* bound on the rows the writer gives up on
    MaxCrashes

Scanners == {"secrets", "sast", "iac", "container", "sbom", "cve"}
Severities == {"critical", "high", "medium", "low", "info", "unknown", "other"}

(* The bands each scanner gives its findings; sbom rows have none.  An OSV
   advisory may carry any text, which is passed on in lower case: "other" stands
   for those that name no band. *)
SecretBands == {"critical", "high", "medium"}
SastBands == {"high", "medium"}
IacBands == {"medium", "low", "info"}
ContainerBands == {"medium", "low"}
CveBands == {"critical", "high", "medium", "low", "unknown", "other"}

Bands(s) == CASE s = "secrets"   -> SecretBands
              [] s = "sast"      -> SastBands
              [] s = "iac"       -> IacBands
              [] s = "container" -> ContainerBands
              [] s = "cve"       -> CveBands
              [] s = "sbom"      -> {}

ASSUME RunsAssumption ==
    /\ IdOf \in [Requests -> RunIds]
    /\ PeerRequests \subseteq CloneRequests
    /\ CloneRequests \subseteq Requests
    /\ Scans \in [Requests -> Seq(Scanners)]
    /\ \A q \in Requests : \A i, j \in 1 .. Len(Scans[q]) :
          Scans[q][i] = Scans[q][j] => i = j
    /\ \A q \in PeerRequests : Scans[q] = <<"cve">>
    /\ {MaxFindings, MaxTime, MaxStored, MaxDrops, MaxCrashes} \subseteq Nat

VARIABLES
    live,       \* securityRunLive: run id -> the last row recorded
    outbox,     \* rows of security_runs handed to the writer, not landed yet
    table,      \* rows of security_runs in ClickHouse
    acc,        \* findingSevByRun: run id and scanner -> severity -> count
    secretAcc,  \* secretSevByRun: run id -> severity -> count
    pc,         \* where the job of each request is
    job,        \* the locals of runSecurityScanJob
    clones,     \* jobs whose temporary checkout directory exists
    sending,    \* finding rows handed to the writer, not landed yet
    landed,     \* finding rows in ClickHouse
    now, drops, crashes

store == <<outbox, table, sending, landed>>
bounds == <<now, drops, crashes>>
vars == <<live, store, acc, secretAcc, pc, job, clones, bounds>>

NoCounts == [s \in Scanners |-> 0]
NoSeverities == [v \in Severities |-> 0]
NoSummary == [s \in Scanners |-> NoSeverities]
NewJob(q) == [todo |-> Scans[q], n |-> 0, counts |-> NoCounts,
              sev |-> NoSummary, firstErr |-> "nil"]

Statuses == {"queued", "running", "error", "completed", "completed_with_errors"}
Errors == {"nil", "error"}

(* What a scanner may return.  Files that cannot be read are passed over, and a
   gitleaks that fails before it has reported anything is followed by the
   embedded scanner, which does not fail. *)
ErrorsOf(s) == IF s = "cve" THEN Errors ELSE {"nil"}

Completed == {"completed", "completed_with_errors"}
Terminal == Completed \cup {"error"}
Working == {"dispatched", "checkout", "cloning", "scanning", "scoring"}
Places == Working \cup {"none", "idle", "done", "dead"}

SeverityCounts == [Severities -> Nat]
Row == [id: RunIds, status: Statuses, finished: Nat, counts: [Scanners -> Nat], sev: [Scanners -> SeverityCounts]]
Finding == [id: RunIds, scanner: Scanners, severity: Severities]
Job == [todo: Seq(Scanners), n: Nat, counts: [Scanners -> Nat],
        sev: [Scanners -> SeverityCounts], firstErr: Errors]

ASSUME NoRowAssumption == NoRow \notin Row

Init ==
    /\ live = [i \in RunIds |-> NoRow]
    /\ outbox = {} /\ table = {} /\ sending = {} /\ landed = {}
    /\ acc = [i \in RunIds |-> NoSummary]
    /\ secretAcc = [i \in RunIds |-> NoSeverities]
    /\ pc = [q \in Requests |-> "none"]
    /\ job = [q \in Requests |-> NewJob(q)]
    /\ clones = {}
    /\ now = 0 /\ drops = 0 /\ crashes = 0

-----------------------------------------------------------------------------
(* Recording a run *)

(* rememberSecurityRun and insertAsync, as every writer of a run does. *)
Record(row) ==
    /\ live' = [live EXCEPT ![row.id] = row]
    /\ outbox' = outbox \cup {row}

(* A new run past the checks: the queued row, and the job unless the body says
   dispatch: false. *)
Create(q) ==
    /\ pc[q] = "none"
    /\ Record([id |-> IdOf[q], status |-> "queued", finished |-> now,
               counts |-> NoCounts, sev |-> NoSummary])
    /\ \E dispatch \in BOOLEAN :
          pc' = [pc EXCEPT ![q] = IF dispatch THEN "dispatched" ELSE "idle"]
    /\ UNCHANGED <<table, acc, secretAcc, job, clones, sending, landed, bounds>>

(* The two handlers that make runs; a peer's id is never brought along. *)
createSecurityRun(q) == q \notin PeerRequests /\ Create(q)
createPeerCVESecurityRun(q) == q \in PeerRequests /\ Create(q)

(* Mutants: finished_at is taken once, when the service starts; an error is
   recorded under a status that no reader knows. *)
UpdateRunStampedOnce(q, status, counts, sev) ==
    Record([id |-> IdOf[q], status |-> status, finished |-> 0,
            counts |-> counts, sev |-> sev])

UpdateRunFailed(q, status, counts, sev) ==
    Record([id |-> IdOf[q], status |-> IF status = "error" THEN "failed" ELSE status,
            finished |-> now, counts |-> counts, sev |-> sev])

(* updateSecurityRun: a row built from the job's base. *)
UpdateRun(q, status, counts, sev) ==
    Record([id |-> IdOf[q], status |-> status, finished |-> now,
            counts |-> counts, sev |-> sev])

-----------------------------------------------------------------------------
(* runSecurityScanJob, up to the scanners *)

Start(q) ==
    /\ pc[q] = "dispatched"
    /\ UpdateRun(q, "running", NoCounts, NoSummary)
    /\ pc' = [pc EXCEPT ![q] = "checkout"]
    /\ UNCHANGED <<table, acc, secretAcc, job, clones, sending, landed, bounds>>

(* A mutant: the return after the error is missing. *)
CheckoutFailsGoesOn(q) ==
    /\ pc[q] = "checkout"
    /\ UpdateRun(q, "error", NoCounts, NoSummary)
    /\ pc' = [pc EXCEPT ![q] = "scanning"]
    /\ UNCHANGED <<table, acc, secretAcc, job, clones, sending, landed, bounds>>

(* No clone credentials, no temporary directory, a path outside the
   workspace, a workspace that cannot be made. *)
CheckoutFails(q) ==
    /\ pc[q] = "checkout"
    /\ UpdateRun(q, "error", NoCounts, NoSummary)
    /\ pc' = [pc EXCEPT ![q] = "done"]
    /\ UNCHANGED <<table, acc, secretAcc, job, clones, sending, landed, bounds>>

WorkspaceOK(q) ==
    /\ pc[q] = "checkout" /\ q \notin CloneRequests
    /\ pc' = [pc EXCEPT ![q] = "scanning"]
    /\ UNCHANGED <<live, store, acc, secretAcc, job, clones, bounds>>

(* ephemeralClone has its credentials and makes a directory to clone into. *)
MkdirTemp(q) ==
    /\ pc[q] = "checkout" /\ q \in CloneRequests
    /\ pc' = [pc EXCEPT ![q] = "cloning"]
    /\ clones' = clones \cup {q}
    /\ UNCHANGED <<live, store, acc, secretAcc, job, bounds>>

CloneOK(q) ==
    /\ pc[q] = "cloning"
    /\ pc' = [pc EXCEPT ![q] = "scanning"]
    /\ UNCHANGED <<live, store, acc, secretAcc, job, clones, bounds>>

(* Mutants: the directory of a failed clone stays; its error is not recorded. *)
CloneFailsLeavesDir(q) ==
    /\ pc[q] = "cloning"
    /\ UpdateRun(q, "error", NoCounts, NoSummary)
    /\ pc' = [pc EXCEPT ![q] = "done"]
    /\ UNCHANGED <<table, acc, secretAcc, job, clones, sending, landed, bounds>>

CloneFailsSilently(q) ==
    /\ pc[q] = "cloning"
    /\ clones' = clones \ {q}
    /\ pc' = [pc EXCEPT ![q] = "done"]
    /\ UNCHANGED <<live, store, acc, secretAcc, job, bounds>>

(* git clone fails, or the ten minutes of the context are over. *)
CloneFails(q) ==
    /\ pc[q] = "cloning"
    /\ clones' = clones \ {q}
    /\ UpdateRun(q, "error", NoCounts, NoSummary)
    /\ pc' = [pc EXCEPT ![q] = "done"]
    /\ UNCHANGED <<table, acc, secretAcc, job, sending, landed, bounds>>

-----------------------------------------------------------------------------
(* The scanners *)

Scanner(q) == Head(job[q].todo)
Scanning(q) == pc[q] = "scanning" /\ job[q].todo # << >>

(* A mutant: the accumulator is keyed by the scanner alone. *)
RememberedForAll(i, s, v) == [k \in RunIds |-> [acc[k] EXCEPT ![s][v] = @ + 1]]

(* rememberFindingSeverity. *)
Remembered(i, s, v) == [acc EXCEPT ![i][s][v] = @ + 1]

(* rememberSecretSeverity, and the clearing by takeSecretSeverityCounts. *)
SecretRemembered(i, v) == [secretAcc EXCEPT ![i][v] = @ + 1]
SecretTaken(i) == [secretAcc EXCEPT ![i] = NoSeverities]

(* insertFindingRow for one finding: rememberFindingSeverity, insertAsync and,
   for a secret, rememberSecretSeverity before them. *)
Find(q, v) ==
    /\ Scanning(q)
    /\ job[q].n < MaxFindings
    /\ v \in Bands(Scanner(q)) \cap Seen
    /\ acc' = Remembered(IdOf[q], Scanner(q), v)
    /\ secretAcc' = IF Scanner(q) = "secrets"
                    THEN SecretRemembered(IdOf[q], v)
                    ELSE secretAcc
    /\ sending' = sending \cup {[id |-> IdOf[q], scanner |-> Scanner(q), severity |-> v]}
    /\ job' = [job EXCEPT ![q].n = @ + 1]
    /\ UNCHANGED <<live, outbox, table, pc, clones, landed, bounds>>

(* A row of service_dependencies, which belongs to no run. *)
FindDependency(q) ==
    /\ Scanning(q)
    /\ Scanner(q) = "sbom"
    /\ job[q].n < MaxFindings
    /\ job' = [job EXCEPT ![q].n = @ + 1]
    /\ UNCHANGED <<live, store, acc, secretAcc, pc, clones, bounds>>

(* A mutant: only the secrets' severities are taken. *)
TallySecretsOnly(q, s) ==
    IF s = "secrets" /\ secretAcc[IdOf[q]] # NoSeverities THEN secretAcc[IdOf[q]]
    ELSE job[q].sev[s]

(* What severityCounts[s] becomes: the finding accumulator if it has anything,
   for secrets the other accumulator before it, else nothing new. *)
Tally(q, s) ==
    IF acc[IdOf[q]][s] # NoSeverities THEN acc[IdOf[q]][s]
    ELSE IF s = "secrets" /\ secretAcc[IdOf[q]] # NoSeverities THEN secretAcc[IdOf[q]]
    ELSE job[q].sev[s]

(* The scanner returns, with or without an error, and the loop takes and
   clears its accumulators. *)
ScannerReturns(q) ==
    /\ Scanning(q)
    /\ \E err \in ErrorsOf(Scanner(q)) :
          job' = [job EXCEPT ![q] =
                    [todo |-> Tail(@.todo), n |-> 0,
                     counts |-> [@.counts EXCEPT ![Scanner(q)] = job[q].n],
                     sev |-> [@.sev EXCEPT ![Scanner(q)] = Tally(q, Scanner(q))],
                     firstErr |-> IF @.firstErr = "nil" THEN err ELSE @.firstErr]]
    /\ acc' = [acc EXCEPT ![IdOf[q]][Scanner(q)] = NoSeverities]
    /\ secretAcc' = IF Scanner(q) = "secrets"
                    THEN SecretTaken(IdOf[q])
                    ELSE secretAcc
    /\ UNCHANGED <<live, store, pc, clones, bounds>>

(* The final update; the repository score is brought up to date after it. *)
Report(q) ==
    /\ pc[q] = "scanning" /\ job[q].todo = << >>
    /\ UpdateRun(q, IF job[q].firstErr = "nil" THEN "completed" ELSE "completed_with_errors",
                 job[q].counts, job[q].sev)
    /\ pc' = [pc EXCEPT ![q] = "scoring"]
    /\ UNCHANGED <<table, acc, secretAcc, job, clones, sending, landed, bounds>>

(* The job returns and its deferred RemoveAll takes the checkout away. *)
Return(q) ==
    /\ pc[q] = "scoring"
    /\ pc' = [pc EXCEPT ![q] = "done"]
    /\ clones' = clones \ {q}
    /\ UNCHANGED <<live, store, acc, secretAcc, job, bounds>>

JobStep(q) ==
    \/ Start(q) \/ CheckoutFails(q) \/ WorkspaceOK(q)
    \/ MkdirTemp(q) \/ CloneOK(q) \/ CloneFails(q)
    \/ (\E v \in Severities : Find(q, v)) \/ FindDependency(q)
    \/ ScannerReturns(q) \/ Report(q) \/ Return(q)

-----------------------------------------------------------------------------
(* The writer, ClickHouse, the clock and the process *)

Room == Cardinality(table) + Cardinality(landed) < MaxStored

(* A row lands; unless the reply got through it is sent, and lands, again. *)
LandRow(row) ==
    /\ row \in outbox /\ Room
    /\ table' = table \cup {row}
    /\ outbox' \in {outbox, outbox \ {row}}
    /\ UNCHANGED <<live, sending, landed, acc, secretAcc, pc, job, clones, bounds>>

LandFinding(f) ==
    /\ f \in sending /\ Room
    /\ landed' = landed \cup {f}
    /\ sending' = sending \ {f}
    /\ UNCHANGED <<live, outbox, table, acc, secretAcc, pc, job, clones, bounds>>

(* All attempts failed: "dropping batch". *)
DropRow(row) ==
    /\ drops < MaxDrops /\ row \in outbox
    /\ outbox' = outbox \ {row}
    /\ drops' = drops + 1
    /\ UNCHANGED <<live, table, sending, landed, acc, secretAcc, pc, job, clones,
                   now, crashes>>

DropFinding(f) ==
    /\ drops < MaxDrops /\ f \in sending
    /\ sending' = sending \ {f}
    /\ drops' = drops + 1
    /\ UNCHANGED <<live, outbox, table, landed, acc, secretAcc, pc, job, clones,
                   now, crashes>>

(* ReplacingMergeTree(finished_at) keeps, of the rows of a run, one with the
   latest finished_at. *)
Merge(old, row) ==
    /\ {old, row} \subseteq table /\ old # row
    /\ old.id = row.id /\ old.finished <= row.finished
    /\ table' = table \ {old}
    /\ UNCHANGED <<live, outbox, sending, landed, acc, secretAcc, pc, job, clones, bounds>>

Tick ==
    /\ now < MaxTime
    /\ now' = now + 1
    /\ UNCHANGED <<live, store, acc, secretAcc, pc, job, clones, drops, crashes>>

(* The process dies and starts again: the maps and the goroutines are gone,
   requests that had left for ClickHouse may still be applied, checkouts stay
   on the disk. *)
Crash ==
    /\ crashes < MaxCrashes
    /\ crashes' = crashes + 1
    /\ live' = [i \in RunIds |-> NoRow]
    /\ acc' = [i \in RunIds |-> NoSummary]
    /\ secretAcc' = [i \in RunIds |-> NoSeverities]
    /\ pc' = [q \in Requests |-> IF pc[q] \in Working THEN "dead" ELSE pc[q]]
    /\ outbox' \in SUBSET outbox
    /\ sending' \in SUBSET sending
    /\ UNCHANGED <<table, landed, job, clones, now, drops>>

Landing == (\E row \in outbox : LandRow(row)) \/ (\E f \in sending : LandFinding(f))

Next ==
    \/ \E q \in Requests :
          createSecurityRun(q) \/ createPeerCVESecurityRun(q) \/ JobStep(q)
    \/ Landing
    \/ \E row \in outbox : DropRow(row)
    \/ \E f \in sending : DropFinding(f)
    \/ \E old, row \in table : Merge(old, row)
    \/ Tick \/ Crash

(* A job is a goroutine whose every step ends: the clone, gitleaks and the OSV
   queries run under a deadline and the other scanners walk finitely many
   files.  The writer settles every row it accepted, and ClickHouse merges. *)
Fairness ==
    /\ \A q \in Requests : WF_vars(JobStep(q))
    /\ WF_vars(Landing \/ (\E row \in outbox : DropRow(row))
                       \/ (\E f \in sending : DropFinding(f)))

Spec == Init /\ [][Next]_vars
FairSpec == Spec /\ Fairness

-----------------------------------------------------------------------------
(* Properties *)

(* Every variable has its type. *)
TypeOK ==
    /\ live \in [RunIds -> Row \cup {NoRow}]
    /\ outbox \subseteq Row /\ table \subseteq Row
    /\ acc \in [RunIds -> [Scanners -> SeverityCounts]]
    /\ secretAcc \in [RunIds -> SeverityCounts]
    /\ pc \in [Requests -> Places]
    /\ job \in [Requests -> Job]
    /\ clones \subseteq CloneRequests
    /\ sending \subseteq Finding /\ landed \subseteq Finding
    /\ now \in 0 .. MaxTime /\ drops \in 0 .. MaxDrops /\ crashes \in 0 .. MaxCrashes

(* The ids are the default ones, a hash over the nanosecond clock, or chosen
   apart: no request brings the security_run_id of another along. *)
DistinctIds == \A p, q \in Requests : IdOf[p] = IdOf[q] => p = q

Known(i) == live[i] # NoRow
RowsOf(i) == {row \in outbox \cup table : row.id = i}

Sent(i, s, v) == [id |-> i, scanner |-> s, severity |-> v] \in sending \cup landed

Total(f) == f["critical"] + f["high"] + f["medium"] + f["low"] + f["info"] + f["unknown"]
            + f["other"]

(* The summary of a completed run accounts for its findings: the number a
   scanner returned is the sum of its severities, every row sent to the findings
   tables is in the summary, and what the summary counts has been sent (and is
   there or on its way, unless the writer dropped it). *)
Accounted(i) ==
    Known(i) /\ live[i].status \in Completed =>
        /\ \A s \in Scanners \ {"sbom"} : live[i].counts[s] = Total(live[i].sev[s])
        /\ \A s \in Scanners, v \in Severities :
              /\ Sent(i, s, v) => live[i].sev[s][v] > 0
              /\ drops = 0 /\ live[i].sev[s][v] > 0 => Sent(i, s, v)

(* With distinct ids, no other job that runs at the same time gets into a
   run's summary or takes anything out of it. *)
SummaryAccounts == DistinctIds => \A i \in RunIds : Accounted(i)

(* The stamps of a run's rows follow the order of its updates, so neither
   landing out of order nor merging loses the latest outcome: it is in the
   table or on its way unless the writer dropped a row, or another row of the
   run carries the same millisecond. *)
LatestRowKept ==
    \A i \in RunIds : Known(i) =>
        /\ \A row \in RowsOf(i) : row.finished <= live[i].finished
        /\ (drops = 0 /\ \A row \in RowsOf(i) \ {live[i]} : row.finished < live[i].finished)
              => live[i] \in RowsOf(i)

(* A checkout directory outlives the job that made it only when the process
   dies under the job: every way out of runSecurityScanJob removes it. *)
CheckoutRemoved ==
    \A q \in clones : pc[q] \in {"cloning", "scanning", "scoring", "dead"}

(* As long as the process lives, a run that GET answered as finished is never
   seen unfinished, or finished otherwise, again. *)
OutcomeIsFinal ==
    [][DistinctIds => \A i \in RunIds :
          Known(i) /\ live[i].status \in Terminal => live'[i] \in {live[i], NoRow}]_vars

(* A dispatched job records an outcome, however its steps fail, unless the
   process dies under it. *)
DispatchedFinishes ==
    \A q \in Requests :
        pc[q] = "dispatched" ~>
            \/ pc[q] = "dead"
            \/ Known(IdOf[q]) /\ live[IdOf[q]].status \in Terminal
=============================================================================
