------------------------- MODULE SecurityRunsProofs -------------------------
(***************************************************************************)
(* What holds of the runs for any requests, ids, scanner lists, clock,      *)
(* drops and crashes.                                                       *)
(***************************************************************************)
EXTENDS Gate, RunReads, SequenceTheorems, TLAPS

(* The rows a request writes are rows. *)
LEMMA RecordType ==
    ASSUME TypeOK, NEW row \in Row, Record(row)
    PROVE  live' \in [RunIds -> Row \cup {NoRow}] /\ outbox' \subseteq Row
  BY DEF TypeOK, Record

(* The counts and the job a request begins with have their types. *)
LEMMA ZeroTypes ==
    /\ NoSeverities \in SeverityCounts
    /\ NoCounts \in [Scanners -> Nat]
    /\ NoSummary \in [Scanners -> SeverityCounts]
  BY DEF NoSeverities, NoCounts, NoSummary, SeverityCounts

(* The initial state is well typed. *)
LEMMA InitType == Init => TypeOK
  <1> SUFFICES ASSUME Init PROVE TypeOK
    OBVIOUS
  <1>1. \A q \in Requests : NewJob(q) \in Job
    BY RunsAssumption, ZeroTypes DEF NewJob, Job, Errors
  <1>2. QED
    BY <1>1, ZeroTypes, RunsAssumption DEF Init, TypeOK, Places, SeverityCounts

(* Create keeps the types. *)
LEMMA CreateType == ASSUME TypeOK, NEW q \in Requests, Create(q) PROVE TypeOK'
  <1> DEFINE row == [id |-> IdOf[q], status |-> "queued", finished |-> now,
                     counts |-> NoCounts, sev |-> NoSummary]
  <1>1. row \in Row
    BY RunsAssumption, ZeroTypes DEF TypeOK, Row, Statuses, Terminal, Completed
  <1>2. live' \in [RunIds -> Row \cup {NoRow}] /\ outbox' \subseteq Row
    BY <1>1, RecordType DEF Create
  <1>3. pc' \in [Requests -> Places]
    <2>1. pc' = [pc EXCEPT ![q] = "dispatched"] \/ pc' = [pc EXCEPT ![q] = "idle"]
      BY DEF Create
    <2>2. QED
      BY <2>1 DEF TypeOK, Places, Working
  <1>4. QED
    BY <1>2, <1>3 DEF TypeOK, Create, bounds

(* A row of updateSecurityRun is a row. *)
LEMMA UpdateType ==
    ASSUME TypeOK, NEW q \in Requests, NEW status \in Statuses,
           NEW counts \in [Scanners -> Nat], NEW sev \in [Scanners -> SeverityCounts],
           UpdateRun(q, status, counts, sev)
    PROVE  live' \in [RunIds -> Row \cup {NoRow}] /\ outbox' \subseteq Row
  <1>1. [id |-> IdOf[q], status |-> status, finished |-> now,
         counts |-> counts, sev |-> sev] \in Row
    BY RunsAssumption DEF TypeOK, Row
  <1>2. QED
    BY <1>1, RecordType DEF UpdateRun

(* The steps up to the first scanner keep the types. *)
LEMMA CheckoutType ==
    ASSUME TypeOK, NEW q \in Requests,
           \/ Start(q) \/ CheckoutFails(q) \/ WorkspaceOK(q)
           \/ MkdirTemp(q) \/ CloneOK(q) \/ CloneFails(q)
    PROVE  TypeOK'
  <1>1. {"running", "error"} \subseteq Statuses
    BY DEF Statuses
  <1>2. CASE Start(q) \/ CheckoutFails(q) \/ CloneFails(q)
    <2>1. live' \in [RunIds -> Row \cup {NoRow}] /\ outbox' \subseteq Row
      BY <1>1, <1>2, UpdateType, ZeroTypes DEF Start, CheckoutFails, CloneFails
    <2>2. QED
      BY <1>2, <2>1 DEF TypeOK, Start, CheckoutFails, CloneFails, Places, Working, bounds
  <1>3. CASE WorkspaceOK(q) \/ MkdirTemp(q) \/ CloneOK(q)
    BY <1>3 DEF TypeOK, WorkspaceOK, MkdirTemp, CloneOK, Places, Working, store, bounds
  <1>4. QED
    BY <1>2, <1>3

(* The scanner a job is at is one of the scanners, and its rest is a list. *)
LEMMA ScannerType ==
    ASSUME TypeOK, NEW q \in Requests, Scanning(q)
    PROVE  /\ Scanner(q) \in Scanners
           /\ Tail(job[q].todo) \in Seq(Scanners)
           /\ job[q] \in Job
           /\ IdOf[q] \in RunIds
  BY RunsAssumption, HeadTailProperties DEF TypeOK, Job, Scanning, Scanner

(* One more finding of the scanner a job is at. *)
LEMMA CountJob == \A j \in Job : [j EXCEPT !.n = @ + 1] \in Job
  BY SMTT(30) DEF Job

(* A job with one more finding is a job. *)
LEMMA CountType ==
    ASSUME TypeOK, NEW q \in Requests, job' = [job EXCEPT ![q].n = @ + 1]
    PROVE  job' \in [Requests -> Job]
  <1>1. job' = [job EXCEPT ![q] = [job[q] EXCEPT !.n = @ + 1]]
    BY DEF TypeOK
  <1>2. QED
    BY <1>1, CountJob DEF TypeOK

(* A finding keeps the types. *)
LEMMA FindType ==
    ASSUME TypeOK, NEW q \in Requests, NEW v \in Severities, Find(q, v)
    PROVE  TypeOK'
  <1> USE ScannerType DEF Find, Remembered, SecretRemembered
  <1>1. acc' \in [RunIds -> [Scanners -> SeverityCounts]]
    <2> DEFINE m == acc[IdOf[q]][Scanner(q)]
    <2>1. m \in [Severities -> Nat] /\ [m EXCEPT ![v] = @ + 1] \in [Severities -> Nat]
      BY DEF TypeOK, SeverityCounts
    <2>2. acc' = [acc EXCEPT ![IdOf[q]] =
                    [acc[IdOf[q]] EXCEPT ![Scanner(q)] = [m EXCEPT ![v] = @ + 1]]]
      BY DEF TypeOK
    <2>3. QED
      BY <2>1, <2>2 DEF TypeOK, SeverityCounts
  <1>2. secretAcc' \in [RunIds -> SeverityCounts]
    BY DEF TypeOK, SeverityCounts
  <1>3. sending' \subseteq Finding
    BY DEF TypeOK, Finding
  <1>4. job' \in [Requests -> Job]
    BY CountType
  <1>5. QED
    BY <1>1, <1>2, <1>3, <1>4 DEF TypeOK, bounds

(* What a scanner's severities become are counts. *)
LEMMA TallyType ==
    ASSUME TypeOK, NEW q \in Requests, NEW s \in Scanners
    PROVE  Tally(q, s) \in SeverityCounts
  BY RunsAssumption DEF TypeOK, Tally, Job

(* The steps of the scanners keep the types. *)
LEMMA ScannersType ==
    ASSUME TypeOK, NEW q \in Requests, FindDependency(q) \/ ScannerReturns(q)
    PROVE  TypeOK'
  <1>1. CASE FindDependency(q)
    BY <1>1, CountType DEF TypeOK, FindDependency, store, bounds
  <1>2. CASE ScannerReturns(q)
    <2> DEFINE s == Scanner(q)
    <2>1. s \in Scanners /\ Tally(q, s) \in SeverityCounts
      BY <1>2, ScannerType, TallyType DEF ScannerReturns
    <2>2. job' \in [Requests -> Job]
      BY <1>2, <2>1, ScannerType DEF ScannerReturns, TypeOK, Job, Errors, ErrorsOf
    <2>3. acc' \in [RunIds -> [Scanners -> SeverityCounts]]
      BY <1>2, <2>1, ZeroTypes DEF ScannerReturns, TypeOK
    <2>4. secretAcc' \in [RunIds -> SeverityCounts]
      BY <1>2, ZeroTypes DEF ScannerReturns, SecretTaken, TypeOK
    <2>5. QED
      BY <1>2, <2>2, <2>3, <2>4 DEF ScannerReturns, TypeOK, store, bounds
  <1>3. QED
    BY <1>1, <1>2

(* Report and Return keep the types. *)
LEMMA EndType ==
    ASSUME TypeOK, NEW q \in Requests, Report(q) \/ Return(q)
    PROVE  TypeOK'
  <1>1. CASE Report(q)
    <2>1. {"completed", "completed_with_errors"} \subseteq Statuses
      BY DEF Statuses
    <2>2. job[q].counts \in [Scanners -> Nat] /\ job[q].sev \in [Scanners -> SeverityCounts]
      BY DEF TypeOK, Job
    <2>3. live' \in [RunIds -> Row \cup {NoRow}] /\ outbox' \subseteq Row
      BY <1>1, <2>1, <2>2, UpdateType DEF Report
    <2>4. QED
      BY <1>1, <2>3 DEF TypeOK, Report, Places, Working, bounds
  <1>2. CASE Return(q)
    BY <1>2 DEF TypeOK, Return, Places, Working, store, bounds
  <1>3. QED
    BY <1>1, <1>2

(* The steps no job takes. *)
Environment ==
    \/ Landing
    \/ \E row \in outbox : DropRow(row)
    \/ \E f \in sending : DropFinding(f)
    \/ \E old, row \in table : Merge(old, row)
    \/ Tick \/ Crash

(* The writer, ClickHouse, the clock and a crash keep the types. *)
LEMMA EnvironmentType == ASSUME TypeOK, Environment PROVE TypeOK'
  <1> USE RunsAssumption DEF TypeOK, bounds
  <1>1. CASE Landing
    BY <1>1 DEF Landing, LandRow, LandFinding
  <1>2. CASE (\E row \in outbox : DropRow(row)) \/ (\E f \in sending : DropFinding(f))
    BY <1>2 DEF DropRow, DropFinding
  <1>3. CASE \E old, row \in table : Merge(old, row)
    BY <1>3 DEF Merge
  <1>4. CASE Tick
    BY <1>4 DEF Tick, store
  <1>5. CASE Crash
    BY <1>5, ZeroTypes DEF Crash, Places
  <1>6. QED
    BY <1>1, <1>2, <1>3, <1>4, <1>5 DEF Environment

(* A step is one of these. *)
LEMMA Steps ==
    ASSUME [Next]_vars
    PROVE  \/ \E q \in Requests : Create(q) \/ JobStep(q)
           \/ Environment
           \/ UNCHANGED vars
  BY DEF Next, Environment, createSecurityRun, createPeerCVESecurityRun

(* Every step keeps the types. *)
LEMMA NextType == TypeOK /\ [Next]_vars => TypeOK'
  <1> SUFFICES ASSUME TypeOK, [Next]_vars PROVE TypeOK'
    OBVIOUS
  <1>1. CASE \E q \in Requests : Create(q)
    BY <1>1, CreateType
  <1>2. CASE \E q \in Requests : JobStep(q)
    BY <1>2, CheckoutType, FindType, ScannersType, EndType DEF JobStep
  <1>3. CASE Environment
    BY <1>3, EnvironmentType
  <1>4. CASE UNCHANGED vars
    BY <1>4 DEF vars, store, bounds, TypeOK
  <1>5. QED
    BY <1>1, <1>2, <1>3, <1>4, Steps

(* Every variable keeps its type: rows, findings and summaries are what their
   readers take them for, and the clock and the failures stay in bounds. *)
THEOREM TypeCorrect == Spec => []TypeOK
  BY InitType, NextType, PTL DEF Spec

-----------------------------------------------------------------------------
(* The checkout directory and the stamps of the rows *)

LEMMA CheckoutStep == TypeOK /\ CheckoutRemoved /\ [Next]_vars => CheckoutRemoved'
  <1> SUFFICES ASSUME TypeOK, CheckoutRemoved, [Next]_vars PROVE CheckoutRemoved'
    OBVIOUS
  <1> USE RunsAssumption DEF TypeOK, CheckoutRemoved
  <1>1. CASE \E q \in Requests : Create(q)
    <2>1. PICK q \in Requests : Create(q)
      BY <1>1
    <2>2. \A p \in Requests \ {q} : pc'[p] = pc[p]
      BY <2>1 DEF Create
    <2>3. QED
      BY <2>1, <2>2 DEF Create
  <1>2. CASE \E q \in Requests : JobStep(q)
    <2>1. PICK q \in Requests : JobStep(q)
      BY <1>2
    <2>2. CASE Start(q) \/ CheckoutFails(q) \/ WorkspaceOK(q) \/ MkdirTemp(q)
      BY <2>2, ZenonT(60) DEF Start, CheckoutFails, WorkspaceOK, MkdirTemp
    <2>3. CASE CloneOK(q) \/ CloneFails(q) \/ Report(q) \/ Return(q)
      BY <2>3 DEF CloneOK, CloneFails, Report, Return
    <2>4. CASE (\E v \in Severities : Find(q, v)) \/ FindDependency(q) \/ ScannerReturns(q)
      BY <2>4 DEF Find, Remembered, FindDependency, ScannerReturns
    <2>5. QED
      BY <2>1, <2>2, <2>3, <2>4 DEF JobStep
  <1>3. CASE Environment
    BY <1>3 DEF Environment, Landing, LandRow, LandFinding, DropRow, DropFinding, Merge,
                Tick, Crash, Working
  <1>4. CASE UNCHANGED vars
    BY <1>4 DEF vars
  <1>5. QED
    BY <1>1, <1>2, <1>3, <1>4, Steps

(* No way out of runSecurityScanJob leaves a checkout behind; only a crash
   does, whatever the jobs and however they interleave. *)
THEOREM CheckoutIsRemoved == Spec => []CheckoutRemoved
  <1>1. Init => CheckoutRemoved
    BY DEF Init, CheckoutRemoved
  <1>2. QED
    BY <1>1, CheckoutStep, TypeCorrect, PTL DEF Spec

(* Every row was stamped in the past, the rows of a run not after the one the
   process remembers; and one with that latest stamp survives until the writer
   drops something. *)
LatestInv ==
    /\ \A row \in outbox \cup table : row.finished <= now
    /\ \A i \in RunIds : Known(i) =>
          /\ live[i].id = i
          /\ live[i].finished <= now
          /\ \A row \in RowsOf(i) : row.finished <= live[i].finished
          /\ drops = 0 => \E row \in RowsOf(i) : row.finished = live[i].finished

(* Recording a row stamped with the present time makes it the latest of
   its run and leaves the other runs alone. *)
LEMMA LatestRecord ==
    ASSUME TypeOK, LatestInv, NEW row \in Row, row.finished = now, Record(row),
           UNCHANGED <<table, now, drops>>
    PROVE  LatestInv'
  <1>1. row.id \in RunIds /\ now \in Nat
    BY DEF TypeOK, Row
  <1>2. live'[row.id] = row /\ \A i \in RunIds \ {row.id} : live'[i] = live[i]
    BY <1>1 DEF TypeOK, Record
  <1>3. \A i \in RunIds \ {row.id} : RowsOf(i)' = RowsOf(i)
    BY DEF Record, RowsOf
  <1>4. row \in RowsOf(row.id)' /\ \A r \in RowsOf(row.id)' : r.finished <= now
    BY <1>1 DEF LatestInv, RowsOf, Record
  <1>5. \A r \in (outbox \cup table)' : r.finished <= now'
    BY <1>1 DEF LatestInv, Record
  <1>6. QED
    BY <1>1, <1>2, <1>3, <1>4, <1>5 DEF LatestInv, Known

(* updateSecurityRun stamps its row with the present time. *)
LEMMA LatestUpdate ==
    ASSUME TypeOK, LatestInv, NEW q \in Requests, NEW status \in Statuses,
           NEW counts \in [Scanners -> Nat], NEW sev \in [Scanners -> SeverityCounts],
           UpdateRun(q, status, counts, sev), UNCHANGED <<table, now, drops>>
    PROVE  LatestInv'
  <1> DEFINE row == [id |-> IdOf[q], status |-> status, finished |-> now,
                     counts |-> counts, sev |-> sev]
  <1>1. row \in Row /\ row.finished = now
    BY RunsAssumption DEF TypeOK, Row
  <1>2. QED
    BY <1>1, LatestRecord DEF UpdateRun

(* The steps that record a row keep LatestInv. *)
LEMMA LatestRecords ==
    ASSUME TypeOK, LatestInv, NEW q \in Requests,
           Create(q) \/ Start(q) \/ CheckoutFails(q) \/ CloneFails(q) \/ Report(q)
    PROVE  LatestInv'
  <1>1. CASE Create(q)
    <2> DEFINE row == [id |-> IdOf[q], status |-> "queued", finished |-> now,
                       counts |-> NoCounts, sev |-> NoSummary]
    <2>1. row \in Row /\ row.finished = now
      BY RunsAssumption, ZeroTypes DEF TypeOK, Row, Statuses, Terminal, Completed
    <2>2. QED
      BY <1>1, <2>1, LatestRecord DEF Create, bounds
  <1>2. CASE Start(q) \/ CheckoutFails(q) \/ CloneFails(q)
    <2>1. {"running", "error"} \subseteq Statuses
      BY DEF Statuses
    <2>2. QED
      BY <1>2, <2>1, LatestUpdate, ZeroTypes DEF Start, CheckoutFails, CloneFails, bounds
  <1>3. CASE Report(q)
    <2>1. {"completed", "completed_with_errors"} \subseteq Statuses
      BY DEF Statuses
    <2>2. job[q].counts \in [Scanners -> Nat] /\ job[q].sev \in [Scanners -> SeverityCounts]
      BY DEF TypeOK, Job
    <2>3. QED
      BY <1>3, <2>1, <2>2, LatestUpdate DEF Report, bounds
  <1>4. QED
    BY <1>1, <1>2, <1>3

(* A merge removes a row only beside one of the run that is as late. *)
LEMMA LatestMerge ==
    ASSUME TypeOK, LatestInv, NEW old \in table, NEW row \in table, Merge(old, row)
    PROVE  LatestInv'
  <1> USE DEF Merge, bounds
  <1>1. \A r \in outbox \cup table : r.finished \in Nat
    BY DEF TypeOK, Row
  <1>2. \A i \in RunIds : RowsOf(i)' \subseteq RowsOf(i)
    BY DEF RowsOf
  <1>3. ASSUME NEW i \in RunIds, Known(i), drops = 0
        PROVE  \E r \in RowsOf(i)' : r.finished = live[i].finished
    <2>1. PICK r \in RowsOf(i) : r.finished = live[i].finished
      BY <1>3 DEF LatestInv
    <2>2. CASE r # old
      BY <2>1, <2>2 DEF RowsOf
    <2>3. CASE r = old
      <3>1. row \in RowsOf(i) /\ row \in RowsOf(i)'
        BY <2>1, <2>3 DEF RowsOf
      <3>2. row.finished <= live[i].finished
        BY <1>3, <3>1 DEF LatestInv
      <3>3. live[i].finished \in Nat
        BY <1>1, <2>1 DEF RowsOf
      <3>4. row.finished = live[i].finished
        BY <1>1, <2>1, <2>3, <3>2, <3>3
      <3>5. QED
        BY <3>1, <3>4
    <2>4. QED
      BY <2>2, <2>3
  <1>4. QED
    BY <1>2, <1>3 DEF LatestInv, Known

(* Landing, dropping, merging, the clock and a crash keep LatestInv. *)
LEMMA LatestEnvironment == ASSUME TypeOK, LatestInv, Environment PROVE LatestInv'
  <1>1. CASE Landing
    <2>1. \A i \in RunIds : RowsOf(i)' = RowsOf(i)
      BY <1>1 DEF Landing, LandRow, LandFinding, RowsOf
    <2>2. (outbox \cup table)' = outbox \cup table
      BY <1>1 DEF Landing, LandRow, LandFinding
    <2>3. UNCHANGED <<live, now, drops>>
      BY <1>1 DEF Landing, LandRow, LandFinding, bounds
    <2>4. QED
      BY <2>1, <2>2, <2>3 DEF LatestInv, Known
  <1>2. CASE (\E row \in outbox : DropRow(row)) \/ (\E f \in sending : DropFinding(f))
    <2>1. drops' # 0 /\ UNCHANGED <<live, table, now>> /\ outbox' \subseteq outbox
      BY <1>2 DEF DropRow, DropFinding, TypeOK
    <2>2. \A i \in RunIds : RowsOf(i)' \subseteq RowsOf(i)
      BY <2>1 DEF RowsOf
    <2>3. QED
      BY <2>1, <2>2 DEF LatestInv, Known
  <1>3. CASE \E old, row \in table : Merge(old, row)
    BY <1>3, LatestMerge
  <1>4. CASE Tick
    <2>1. \A i \in RunIds : RowsOf(i)' = RowsOf(i)
      BY <1>4 DEF Tick, store, RowsOf
    <2>2. UNCHANGED <<live, outbox, table, drops>> /\ now' = now + 1 /\ now \in Nat
      BY <1>4 DEF Tick, store, TypeOK
    <2>3. \A r \in outbox \cup table : r.finished \in Nat
      BY DEF TypeOK, Row
    <2>4. \A i \in RunIds : Known(i) => live[i].finished \in Nat
      BY DEF TypeOK, Known, Row
    <2>5. QED
      BY <2>1, <2>2, <2>3, <2>4 DEF LatestInv, Known
  <1>5. CASE Crash
    BY <1>5 DEF Crash, LatestInv, Known
  <1>6. QED
    BY <1>1, <1>2, <1>3, <1>4, <1>5 DEF Environment

(* Every step keeps LatestInv. *)
LEMMA LatestStep == TypeOK /\ LatestInv /\ [Next]_vars => LatestInv'
  <1> SUFFICES ASSUME TypeOK, LatestInv, [Next]_vars PROVE LatestInv'
    OBVIOUS
  <1>1. CASE \E q \in Requests : Create(q)
    BY <1>1, LatestRecords
  <1>2. CASE \E q \in Requests : JobStep(q)
    <2>1. PICK q \in Requests : JobStep(q)
      BY <1>2
    <2>2. CASE Start(q) \/ CheckoutFails(q) \/ CloneFails(q) \/ Report(q)
      BY <2>2, LatestRecords
    <2>3. CASE ~(Start(q) \/ CheckoutFails(q) \/ CloneFails(q) \/ Report(q))
      <3>1. UNCHANGED <<live, outbox, table, now, drops>>
        BY <2>1, <2>3 DEF JobStep, WorkspaceOK, MkdirTemp, CloneOK, Find, Remembered, FindDependency,
                          ScannerReturns, Return, store, bounds
      <3>2. QED
        BY <3>1 DEF LatestInv, Known, RowsOf
    <2>4. QED
      BY <2>2, <2>3
  <1>3. CASE Environment
    BY <1>3, LatestEnvironment
  <1>4. CASE UNCHANGED vars
    BY <1>4 DEF vars, store, bounds, LatestInv, Known, RowsOf
  <1>5. QED
    BY <1>1, <1>2, <1>3, <1>4, Steps

LEMMA LatestInvariant == Spec => []LatestInv
  <1>1. Init => LatestInv
    BY DEF Init, LatestInv, Known
  <1>2. QED
    BY <1>1, LatestStep, TypeCorrect, PTL DEF Spec

(* Whatever order the rows of a run land and are merged in, the latest outcome
   survives unless the writer drops a row or a millisecond is shared. *)
THEOREM LatestRowIsKept == Spec => []LatestRowKept
  <1>1. TypeOK /\ LatestInv => LatestRowKept
    <2> SUFFICES ASSUME TypeOK, LatestInv, NEW i \in RunIds, Known(i), drops = 0,
                        \A row \in RowsOf(i) \ {live[i]} : row.finished < live[i].finished
                 PROVE  live[i] \in RowsOf(i)
      BY DEF LatestRowKept, LatestInv
    <2>1. PICK row \in RowsOf(i) : row.finished = live[i].finished
      BY DEF LatestInv
    <2>2. row.finished \in Nat
      BY DEF TypeOK, RowsOf, Row
    <2>3. row = live[i]
      BY <2>1, <2>2
    <2>4. QED
      BY <2>1, <2>3
  <1>2. QED
    BY <1>1, LatestInvariant, TypeCorrect, PTL

-----------------------------------------------------------------------------
(* The outcome of a run, with distinct ids *)

(* What recording a row does to the runs. *)
LEMMA RecordEffect ==
    ASSUME TypeOK, NEW row \in Row, Record(row)
    PROVE  /\ live'[row.id] = row
           /\ Known(row.id)'
           /\ \A i \in RunIds \ {row.id} : live'[i] = live[i]
  BY NoRowAssumption DEF TypeOK, Record, Row, Known

(* What updateSecurityRun leaves in the process and hands to the writer. *)
LEMMA UpdateEffect ==
    ASSUME TypeOK, NEW q \in Requests, NEW status \in Statuses,
           NEW counts \in [Scanners -> Nat], NEW sev \in [Scanners -> SeverityCounts],
           UpdateRun(q, status, counts, sev)
    PROVE  /\ Known(IdOf[q])'
           /\ live'[IdOf[q]].status = status
           /\ live'[IdOf[q]].counts = counts
           /\ live'[IdOf[q]].sev = sev
           /\ \A i \in RunIds \ {IdOf[q]} : live'[i] = live[i]
  <1> DEFINE row == [id |-> IdOf[q], status |-> status, finished |-> now,
                     counts |-> counts, sev |-> sev]
  <1>1. row \in Row
    BY RunsAssumption DEF TypeOK, Row
  <1>2. QED
    BY <1>1, RecordEffect DEF UpdateRun

(* What Create leaves behind. *)
LEMMA CreateEffect ==
    ASSUME TypeOK, NEW q \in Requests, Create(q)
    PROVE  /\ Known(IdOf[q])'
           /\ live'[IdOf[q]].status = "queued"
           /\ \A i \in RunIds \ {IdOf[q]} : live'[i] = live[i]
           /\ pc' = [pc EXCEPT ![q] = "dispatched"] \/ pc' = [pc EXCEPT ![q] = "idle"]
  <1> DEFINE row == [id |-> IdOf[q], status |-> "queued", finished |-> now,
                     counts |-> NoCounts, sev |-> NoSummary]
  <1>1. row \in Row
    BY RunsAssumption, ZeroTypes DEF TypeOK, Row, Statuses, Terminal, Completed
  <1>2. Record(row)
    BY DEF Create
  <1>3. pc' = [pc EXCEPT ![q] = "dispatched"] \/ pc' = [pc EXCEPT ![q] = "idle"]
    BY DEF Create
  <1>4. QED
    BY <1>1, <1>2, <1>3, RecordEffect

(* What the final update leaves behind. *)
LEMMA ReportEffect ==
    ASSUME TypeOK, NEW q \in Requests, Report(q)
    PROVE  /\ Known(IdOf[q])'
           /\ live'[IdOf[q]].status \in Completed
           /\ live'[IdOf[q]].counts = job[q].counts
           /\ live'[IdOf[q]].sev = job[q].sev
           /\ \A i \in RunIds \ {IdOf[q]} : live'[i] = live[i]
  <1>1. job[q].counts \in [Scanners -> Nat] /\ job[q].sev \in [Scanners -> SeverityCounts]
    BY DEF TypeOK, Job
  <1>2. PICK status \in Completed : UpdateRun(q, status, job[q].counts, job[q].sev)
    BY DEF Report, Completed
  <1>3. status \in Statuses
    BY DEF Completed, Statuses
  <1>4. QED
    BY <1>1, <1>2, <1>3, UpdateEffect

(* What Start and the failures of the checkout leave behind. *)
LEMMA EarlyEffect ==
    ASSUME TypeOK, NEW q \in Requests, Start(q) \/ CheckoutFails(q) \/ CloneFails(q)
    PROVE  /\ Known(IdOf[q])'
           /\ live'[IdOf[q]].status \in {"running", "error"}
           /\ live'[IdOf[q]].status = "error" => pc'[q] = "done"
           /\ \A i \in RunIds \ {IdOf[q]} : live'[i] = live[i]
  <1>1. {"running", "error"} \subseteq Statuses
    BY DEF Statuses
  <1>2. CASE Start(q)
    BY <1>1, <1>2, UpdateEffect, ZeroTypes DEF Start
  <1>3. CASE CheckoutFails(q) \/ CloneFails(q)
    BY <1>1, <1>3, UpdateEffect, ZeroTypes DEF CheckoutFails, CloneFails, TypeOK
  <1>4. QED
    BY <1>2, <1>3

(* The other steps of a job record nothing. *)
Silent(q) ==
    \/ WorkspaceOK(q) \/ MkdirTemp(q) \/ CloneOK(q)
    \/ (\E v \in Severities : Find(q, v)) \/ FindDependency(q)
    \/ ScannerReturns(q) \/ Return(q)

(* A request is on its own in its run: the run is unknown before the request
   and after a crash under its job, and finished only once the job has told. *)
PlaceInv ==
    DistinctIds =>
        /\ \A i \in RunIds : Known(i) => \E q \in Requests : i = IdOf[q]
        /\ \A q \in Requests :
              /\ pc[q] \in {"none", "dead"} => ~Known(IdOf[q])
              /\ Known(IdOf[q]) /\ live[IdOf[q]].status \in Terminal
                    => pc[q] \in {"scoring", "done"}

(* A run whose row and job are left alone keeps its part of PlaceInv. *)
LEMMA PlaceKept ==
    ASSUME PlaceInv, NEW q \in Requests,
           \A p \in Requests \ {q} : pc'[p] = pc[p],
           \A i \in RunIds \ {IdOf[q]} : live'[i] = live[i],
           pc'[q] \notin {"none", "dead"},
           live'[IdOf[q]].status \in Terminal => pc'[q] \in {"scoring", "done"}
    PROVE  PlaceInv'
  <1> SUFFICES ASSUME DistinctIds
               PROVE  /\ \A i \in RunIds : Known(i)' => \E p \in Requests : i = IdOf[p]
                      /\ \A p \in Requests :
                            /\ pc'[p] \in {"none", "dead"} => ~Known(IdOf[p])'
                            /\ Known(IdOf[p])' /\ live'[IdOf[p]].status \in Terminal
                                  => pc'[p] \in {"scoring", "done"}
    BY DEF PlaceInv, DistinctIds, Known, Terminal, Completed
  <1>1. ASSUME NEW i \in RunIds, Known(i)' PROVE \E p \in Requests : i = IdOf[p]
    BY <1>1 DEF PlaceInv, Known
  <1>2. ASSUME NEW p \in Requests, p # q
        PROVE  pc'[p] = pc[p] /\ live'[IdOf[p]] = live[IdOf[p]]
    BY <1>2, RunsAssumption DEF DistinctIds
  <1>3. QED
    BY <1>1, <1>2 DEF PlaceInv, Known

(* Every step keeps PlaceInv: a finished row belongs to a job at its end. *)
LEMMA PlaceStep == TypeOK /\ PlaceInv /\ [Next]_vars => PlaceInv'
  <1> SUFFICES ASSUME TypeOK, PlaceInv, [Next]_vars, DistinctIds PROVE PlaceInv'
    BY DEF PlaceInv, DistinctIds
  <1> USE RunsAssumption DEF PlaceInv, Terminal, Completed
  <1>1. ASSUME NEW q \in Requests, Create(q) PROVE PlaceInv'
    <2>1. pc[q] = "none" /\ pc'[q] \in {"dispatched", "idle"}
          /\ \A p \in Requests \ {q} : pc'[p] = pc[p]
      BY <1>1, CreateEffect DEF Create, TypeOK
    <2>2. QED
      BY <1>1, <2>1, CreateEffect, PlaceKept
  <1>2. ASSUME NEW q \in Requests, Start(q) \/ CheckoutFails(q) \/ CloneFails(q)
        PROVE  PlaceInv'
    <2>1. pc'[q] \notin {"none", "dead"} /\ \A p \in Requests \ {q} : pc'[p] = pc[p]
      BY <1>2 DEF TypeOK, Start, CheckoutFails, CloneFails
    <2>2. QED
      BY <1>2, <2>1, EarlyEffect, PlaceKept
  <1>3. ASSUME NEW q \in Requests, Report(q) PROVE PlaceInv'
    <2>1. pc'[q] = "scoring" /\ \A p \in Requests \ {q} : pc'[p] = pc[p]
      BY <1>3 DEF TypeOK, Report
    <2>2. QED
      BY <1>3, <2>1, ReportEffect, PlaceKept
  <1>4. ASSUME NEW q \in Requests, Silent(q) PROVE PlaceInv'
    <2>1. /\ live' = live
          /\ \A p \in Requests \ {q} : pc'[p] = pc[p]
          /\ pc[q] \notin {"none", "dead"} /\ pc'[q] \notin {"none", "dead"}
          /\ pc[q] \in {"scoring", "done"} => pc'[q] \in {"scoring", "done"}
      BY <1>4 DEF TypeOK, Silent, WorkspaceOK, MkdirTemp, CloneOK, Find, Remembered, FindDependency,
                  ScannerReturns, Scanning, Return
    <2>2. QED
      BY <2>1 DEF Known
  <1>5. CASE Environment
    <2>1. CASE Crash
      BY <2>1 DEF Crash, Known
    <2>2. CASE ~Crash
      <3>1. UNCHANGED <<live, pc>>
        BY <1>5, <2>2 DEF Environment, Landing, LandRow, LandFinding, DropRow, DropFinding,
                          Merge, Tick
      <3>2. QED
        BY <3>1 DEF Known
    <2>3. QED
      BY <2>1, <2>2
  <1>6. CASE UNCHANGED vars
    BY <1>6 DEF vars, Known
  <1>7. QED
    BY <1>1, <1>2, <1>3, <1>4, <1>5, <1>6, Steps DEF JobStep, Silent

(* A finished row belongs to a job at its end, in every behaviour. *)
LEMMA PlaceInvariant == Spec => []PlaceInv
  <1>1. Init => PlaceInv
    BY RunsAssumption DEF Init, PlaceInv, Known
  <1>2. QED
    BY <1>1, PlaceStep, TypeCorrect, PTL DEF Spec

(* No step but the death of the process touches a finished row. *)
LEMMA OutcomeKept ==
    ASSUME TypeOK, PlaceInv, [Next]_vars, DistinctIds, NEW i \in RunIds,
           Known(i), live[i].status \in Terminal
    PROVE  live'[i] = live[i] \/ Crash
  <1> USE RunsAssumption DEF PlaceInv
  <1>1. PICK p \in Requests : i = IdOf[p] /\ pc[p] \in {"scoring", "done"}
    OBVIOUS
  <1>2. ASSUME NEW q \in Requests, q # p, Create(q) \/ JobStep(q) PROVE live'[i] = live[i]
    <2>1. i # IdOf[q]
      BY <1>1, <1>2 DEF DistinctIds
    <2>2. CASE Silent(q)
      BY <2>2 DEF Silent, WorkspaceOK, MkdirTemp, CloneOK, Find, Remembered, FindDependency,
                  ScannerReturns, Return
    <2>3. QED
      BY <1>2, <2>1, <2>2, CreateEffect, EarlyEffect, ReportEffect DEF JobStep, Silent
  <1>3. ASSUME Create(p) \/ JobStep(p) PROVE live'[i] = live[i]
    BY <1>1, <1>3 DEF Create, JobStep, Start, CheckoutFails, WorkspaceOK, MkdirTemp,
                      CloneOK, CloneFails, Find, Remembered, FindDependency, ScannerReturns, Scanning,
                      Report, Return
  <1>4. CASE Environment
    BY <1>4 DEF Environment, Landing, LandRow, LandFinding, DropRow, DropFinding, Merge,
                Tick
  <1>5. CASE UNCHANGED vars
    BY <1>5 DEF vars
  <1>6. QED
    BY <1>2, <1>3, <1>4, <1>5, Steps

LEMMA OutcomeStep ==
    ASSUME TypeOK, PlaceInv, [Next]_vars, DistinctIds, NEW i \in RunIds,
           Known(i), live[i].status \in Terminal
    PROVE  live'[i] \in {live[i], NoRow}
  BY OutcomeKept DEF Crash

(* A finished run never changes again while the process lives. *)
THEOREM OutcomeStays == Spec => OutcomeIsFinal
  <1>1. TypeOK /\ PlaceInv /\ [Next]_vars =>
          [DistinctIds => \A i \in RunIds :
             Known(i) /\ live[i].status \in Terminal => live'[i] \in {live[i], NoRow}]_vars
    BY OutcomeStep
  <1>2. QED
    BY <1>1, TypeCorrect, PlaceInvariant, PTL DEF Spec, OutcomeIsFinal

-----------------------------------------------------------------------------
(* The summary of a run, with distinct ids *)

Early == {"none", "idle", "dispatched", "checkout", "cloning"}

InTodo(q, s) == \E k \in 1 .. Len(job[q].todo) : job[q].todo[k] = s
AtScanner(q, s) == job[q].todo # << >> /\ s = Head(job[q].todo)

(* Until the job reports, a finding of scanner s is in the accumulator while s
   runs and in the job's own summary from then on, and is nowhere before. *)
PartInv(q, s) ==
    /\ InTodo(q, s) => job[q].sev[s] = NoSeverities
    /\ ~AtScanner(q, s) => acc[IdOf[q]][s] = NoSeverities
    /\ s # "sbom" =>
          IF AtScanner(q, s) THEN job[q].n = Total(acc[IdOf[q]][s])
          ELSE InTodo(q, s) \/ job[q].counts[s] = Total(job[q].sev[s])
    /\ \A v \in Severities :
          /\ Sent(IdOf[q], s, v) => acc[IdOf[q]][s][v] + job[q].sev[s][v] > 0
          /\ drops = 0 /\ acc[IdOf[q]][s][v] + job[q].sev[s][v] > 0 => Sent(IdOf[q], s, v)

TodoInv(q) ==
    \A k, l \in 1 .. Len(job[q].todo) : job[q].todo[k] = job[q].todo[l] => k = l

JobInv(q) ==
    /\ pc[q] \in Early \cup {"scanning"} =>
          TodoInv(q) /\ \A s \in Scanners : PartInv(q, s)
    /\ pc[q] \in Early => acc[IdOf[q]] = NoSummary /\ job[q].sev = NoSummary

SecretsInv == \A i \in RunIds : secretAcc[i] = acc[i]["secrets"]

SumInv ==
    /\ SecretsInv
    /\ DistinctIds => \A q \in Requests : JobInv(q) /\ Accounted(IdOf[q])

(* The sum of the severities of well-typed counts is a number. *)
LEMMA TotalTypes ==
    /\ Total(NoSeverities) = 0
    /\ \A m \in SeverityCounts, v \in Severities :
          /\ Total(m) \in Nat
          /\ Total([m EXCEPT ![v] = @ + 1]) = Total(m) + 1
  <1>1. Total(NoSeverities) = 0
    BY DEF Total, NoSeverities, Severities
  <1>2. ASSUME NEW m \in SeverityCounts, NEW v \in Severities
        PROVE  /\ Total(m) \in Nat
               /\ Total([m EXCEPT ![v] = @ + 1]) = Total(m) + 1
    <2> DEFINE n == [m EXCEPT ![v] = @ + 1]
    <2>1. /\ m["critical"] \in Nat /\ m["high"] \in Nat /\ m["medium"] \in Nat /\ m["low"] \in Nat
          /\ m["info"] \in Nat /\ m["unknown"] \in Nat /\ m["other"] \in Nat
      BY DEF SeverityCounts, Severities
    <2>2. \A b \in Severities : n[b] = IF b = v THEN m[b] + 1 ELSE m[b]
      BY DEF SeverityCounts
    <2>3. /\ {"critical", "high", "medium", "low", "info", "unknown", "other"} = Severities
          /\ Total(m) \in Nat
      BY <2>1 DEF Total, Severities
    <2> HIDE DEF n
    <2>4. /\ n["critical"] = IF v = "critical" THEN m["critical"] + 1 ELSE m["critical"]
          /\ n["high"] = IF v = "high" THEN m["high"] + 1 ELSE m["high"]
          /\ n["medium"] = IF v = "medium" THEN m["medium"] + 1 ELSE m["medium"]
          /\ n["low"] = IF v = "low" THEN m["low"] + 1 ELSE m["low"]
          /\ n["info"] = IF v = "info" THEN m["info"] + 1 ELSE m["info"]
          /\ n["unknown"] = IF v = "unknown" THEN m["unknown"] + 1 ELSE m["unknown"]
          /\ n["other"] = IF v = "other" THEN m["other"] + 1 ELSE m["other"]
      BY <2>2 DEF Severities
    <2>5. v \in {"critical", "high", "medium", "low", "info", "unknown", "other"}
      BY <2>3
    <2>6. Total(n) = Total(m) + 1
      <3>1. ASSUME v = "critical" PROVE Total(n) = Total(m) + 1
        BY <2>1, <2>4, <3>1, SMTT(30) DEF Total
      <3>2. ASSUME v = "high" PROVE Total(n) = Total(m) + 1
        BY <2>1, <2>4, <3>2, SMTT(30) DEF Total
      <3>3. ASSUME v = "medium" PROVE Total(n) = Total(m) + 1
        BY <2>1, <2>4, <3>3, SMTT(30) DEF Total
      <3>4. ASSUME v = "low" PROVE Total(n) = Total(m) + 1
        BY <2>1, <2>4, <3>4, SMTT(30) DEF Total
      <3>5. ASSUME v = "info" PROVE Total(n) = Total(m) + 1
        BY <2>1, <2>4, <3>5, SMTT(30) DEF Total
      <3>6. ASSUME v = "unknown" PROVE Total(n) = Total(m) + 1
        BY <2>1, <2>4, <3>6, SMTT(30) DEF Total
      <3>7. ASSUME v = "other" PROVE Total(n) = Total(m) + 1
        BY <2>1, <2>4, <3>7, SMTT(30) DEF Total
      <3>8. QED
        BY <2>5, <3>1, <3>2, <3>3, <3>4, <3>5, <3>6, <3>7
    <2>7. QED
      BY <2>3, <2>6 DEF n
  <1>3. QED
    BY <1>1, <1>2

(* Nothing has been counted at first. *)
LEMMA InitSum == Init => SumInv
  <1> SUFFICES ASSUME Init PROVE SumInv
    OBVIOUS
  <1> USE RunsAssumption
  <1>1. SecretsInv
    BY DEF Init, SecretsInv, NoSummary, Scanners
  <1>2. ASSUME NEW q \in Requests PROVE JobInv(q)
    <2>1. job[q] = NewJob(q) /\ acc[IdOf[q]] = NoSummary
      BY DEF Init
    <2>2. TodoInv(q)
      BY <2>1 DEF TodoInv, NewJob
    <2>3. ASSUME NEW s \in Scanners PROVE PartInv(q, s)
      <3>1. acc[IdOf[q]][s] = NoSeverities /\ job[q].sev[s] = NoSeverities
            /\ job[q].n = 0 /\ job[q].counts[s] = 0
        BY <2>1 DEF NoSummary, NewJob, NoCounts
      <3>2. \A v \in Severities : NoSeverities[v] = 0 /\ ~Sent(IdOf[q], s, v)
        BY DEF Init, Sent, NoSeverities
      <3>3. QED
        BY <3>1, <3>2, TotalTypes DEF PartInv
    <2>4. QED
      BY <2>1, <2>2, <2>3 DEF JobInv, NewJob
  <1>3. ASSUME NEW q \in Requests PROVE Accounted(IdOf[q])
    BY DEF Init, Accounted, Known
  <1>4. QED
    BY <1>1, <1>2, <1>3 DEF SumInv

-----------------------------------------------------------------------------
(* A step that leaves a run's accumulators and findings alone, and the locals
   of its job, leaves what is known of them alone. *)

LEMMA JobInvKept ==
    ASSUME NEW q \in Requests, JobInv(q),
           job'[q] = job[q], acc'[IdOf[q]] = acc[IdOf[q]], drops' = drops,
           \A s \in Scanners, v \in Severities :
              Sent(IdOf[q], s, v)' = Sent(IdOf[q], s, v),
           pc'[q] \in Early => pc[q] \in Early,
           pc'[q] = "scanning" => pc[q] \in Early \cup {"scanning"}
    PROVE  JobInv(q)'
  <1>1. TodoInv(q)' = TodoInv(q)
    BY DEF TodoInv
  <1>2. \A s \in Scanners : PartInv(q, s) => PartInv(q, s)'
    BY DEF PartInv, InTodo, AtScanner
  <1>3. QED
    BY <1>1, <1>2 DEF JobInv

(* A run whose summary, accumulators and findings are left alone keeps its
   accounts. *)
LEMMA AccountedKept ==
    ASSUME NEW i \in RunIds, Accounted(i), live'[i] = live[i], drops' = drops,
           \A s \in Scanners, v \in Severities : Sent(i, s, v)' = Sent(i, s, v)
    PROVE  Accounted(i)'
  BY DEF Accounted, Known

(* One more finding of the scanner the job is at. *)
LEMMA FindJobInv ==
    ASSUME TypeOK, SumInv, DistinctIds, NEW q \in Requests, NEW v \in Severities,
           Find(q, v)
    PROVE  JobInv(q)'
  <1> DEFINE i == IdOf[q]
  <1> USE RunsAssumption
  <1>0. PICK h \in Scanners, m \in SeverityCounts : h = Scanner(q) /\ m = acc[i][h]
    BY ScannerType DEF Find, Remembered, TypeOK
  <1>1. i \in RunIds
    BY ScannerType DEF Find, Remembered
  <1>2. JobInv(q) /\ pc[q] = "scanning" /\ pc'[q] = "scanning"
    BY DEF SumInv, Find, Remembered, Scanning
  <1>3. /\ job'[q].todo = job[q].todo /\ job'[q].sev = job[q].sev
        /\ job'[q].counts = job[q].counts /\ job'[q].n = job[q].n + 1
    BY DEF Find, Remembered, TypeOK, Job
  <1>4. /\ acc'[i][h] = [m EXCEPT ![v] = @ + 1]
        /\ \A s \in Scanners \ {h} : acc'[i][s] = acc[i][s]
    BY <1>0, <1>1 DEF Find, Remembered, TypeOK
  <1>5. /\ Sent(i, h, v)'
        /\ \A s \in Scanners, u \in Severities :
              s # h \/ u # v => Sent(i, s, u)' = Sent(i, s, u)
    <2>1. /\ sending' = sending \cup {[id |-> i, scanner |-> h, severity |-> v]}
          /\ landed' = landed
      BY <1>0 DEF Find, Remembered
    <2>2. QED
      BY <2>1 DEF Sent
  <1>6. TodoInv(q)'
    BY <1>2, <1>3 DEF JobInv, TodoInv, Early
  <1>7. ASSUME NEW s \in Scanners, s # h PROVE PartInv(q, s)'
    <2>1. PartInv(q, s)
      BY <1>2 DEF JobInv
    <2>2. drops' = drops /\ ~AtScanner(q, s)
      BY <1>0, <1>7 DEF Find, Remembered, bounds, AtScanner, Scanner
    <2>3. InTodo(q, s)' = InTodo(q, s) /\ AtScanner(q, s)' = AtScanner(q, s)
      BY <1>3 DEF InTodo, AtScanner
    <2>4. QED
      BY <1>3, <1>4, <1>5, <1>7, <2>1, <2>2, <2>3 DEF PartInv
  <1>8. PartInv(q, h)'
    <2>1. PartInv(q, h)
      BY <1>1, <1>2 DEF JobInv
    <2>2. drops' = drops /\ AtScanner(q, h)
      BY <1>0 DEF Find, Remembered, Scanning, Scanner, bounds, AtScanner
    <2>3. InTodo(q, h)' = InTodo(q, h) /\ AtScanner(q, h)' = AtScanner(q, h)
      BY <1>3 DEF InTodo, AtScanner
    <2>4. h # "sbom" => job'[q].n = Total(acc'[i][h])
      <3>1. h # "sbom" => job[q].n = Total(m)
        BY <1>0, <2>1, <2>2 DEF PartInv
      <3>2. Total([m EXCEPT ![v] = @ + 1]) = Total(m) + 1
        BY TotalTypes
      <3>3. acc'[i][h] = [m EXCEPT ![v] = @ + 1]
        BY <1>0, <1>4
      <3>4. QED
        BY <1>3, <3>1, <3>2, <3>3
    <2>5. m[v] \in Nat /\ job[q].sev[h][v] \in Nat
      BY <1>1 DEF TypeOK, Job, SeverityCounts
    <2>6. acc'[i][h][v] = m[v] + 1
          /\ \A u \in Severities \ {v} : acc'[i][h][u] = m[u]
      BY <1>0, <1>4 DEF SeverityCounts
    <2>7. acc'[i][h][v] + job'[q].sev[h][v] > 0
      BY <1>3, <2>5, <2>6, SMTT(30)
    <2>8. QED
      BY <1>0, <1>3, <1>5, <2>1, <2>2, <2>3, <2>4, <2>6, <2>7 DEF PartInv
  <1>9. QED
    BY <1>2, <1>6, <1>7, <1>8 DEF JobInv, Early

(* A dependency is counted for sbom, which has no severities. *)
LEMMA DependencyJobInv ==
    ASSUME TypeOK, SumInv, DistinctIds, NEW q \in Requests, FindDependency(q)
    PROVE  JobInv(q)'
  <1>1. JobInv(q) /\ pc[q] = "scanning" /\ pc' = pc /\ AtScanner(q, "sbom")
    BY DEF SumInv, FindDependency, Scanning, Scanner, AtScanner
  <1>2. /\ job'[q].todo = job[q].todo /\ job'[q].sev = job[q].sev
        /\ job'[q].counts = job[q].counts
    BY DEF FindDependency, TypeOK, Job
  <1>3. /\ acc' = acc /\ drops' = drops
        /\ \A s \in Scanners, v \in Severities :
              Sent(IdOf[q], s, v)' = Sent(IdOf[q], s, v)
    BY DEF FindDependency, store, bounds, Sent
  <1>4. TodoInv(q)'
    BY <1>1, <1>2 DEF JobInv, TodoInv, Early
  <1>5. ASSUME NEW s \in Scanners PROVE PartInv(q, s)'
    <2>1. PartInv(q, s)
      BY <1>1 DEF JobInv
    <2>2. InTodo(q, s)' = InTodo(q, s) /\ AtScanner(q, s)' = AtScanner(q, s)
      BY <1>2 DEF InTodo, AtScanner
    <2>3. s # "sbom" => ~AtScanner(q, s)
      BY <1>1 DEF AtScanner
    <2>4. QED
      BY <1>2, <1>3, <2>1, <2>2, <2>3 DEF PartInv
  <1>6. QED
    BY <1>1, <1>4, <1>5 DEF JobInv, Early

(* What the scanner that returns leaves in the summary is what it found. *)
LEMMA TallyIsAcc ==
    ASSUME TypeOK, SumInv, NEW q \in Requests, NEW s \in Scanners,
           job[q].sev[s] = NoSeverities
    PROVE  Tally(q, s) = acc[IdOf[q]][s]
  <1>1. secretAcc[IdOf[q]] = acc[IdOf[q]]["secrets"]
    BY RunsAssumption DEF SumInv, SecretsInv
  <1>2. QED
    BY <1>1 DEF Tally

(* The scanner returns: its findings move from the accumulator to the job. *)
LEMMA ReturnsJobInv ==
    ASSUME TypeOK, SumInv, DistinctIds, NEW q \in Requests, ScannerReturns(q)
    PROVE  JobInv(q)'
  <1> DEFINE i == IdOf[q]
  <1> USE RunsAssumption
  <1>0. PICK h \in Scanners : h = Scanner(q)
    BY ScannerType DEF ScannerReturns
  <1>1. /\ JobInv(q) /\ pc[q] = "scanning" /\ pc' = pc /\ i \in RunIds
        /\ AtScanner(q, h) /\ job[q] \in Job /\ job[q].todo \in Seq(Scanners)
    BY <1>0, ScannerType DEF SumInv, ScannerReturns, Scanning, Scanner, AtScanner, Job
  <1>2. /\ Len(job[q].todo) \in Nat \ {0}
        /\ job[q].todo[1] = h
        /\ Len(Tail(job[q].todo)) = Len(job[q].todo) - 1
        /\ \A k \in 1 .. Len(Tail(job[q].todo)) : Tail(job[q].todo)[k] = job[q].todo[k + 1]
    BY <1>1, HeadTailProperties, EmptySeq DEF AtScanner
  <1>3. /\ job'[q].todo = Tail(job[q].todo) /\ job'[q].n = 0
        /\ job'[q].counts = [job[q].counts EXCEPT ![h] = job[q].n]
        /\ job'[q].sev = [job[q].sev EXCEPT ![h] = Tally(q, h)]
    BY <1>0 DEF ScannerReturns, TypeOK
  <1>4. acc'[i] = [acc[i] EXCEPT ![h] = NoSeverities]
    BY <1>0, <1>1 DEF ScannerReturns, TypeOK
  <1>5. /\ drops' = drops
        /\ \A s \in Scanners, v \in Severities : Sent(i, s, v)' = Sent(i, s, v)
    BY DEF ScannerReturns, store, bounds, Sent
  <1>6. /\ job[q].sev \in [Scanners -> SeverityCounts]
        /\ job[q].counts \in [Scanners -> Nat]
        /\ acc[i] \in [Scanners -> SeverityCounts]
    BY <1>1 DEF TypeOK, Job
  <1>7. InTodo(q, h) /\ TodoInv(q) /\ \A s \in Scanners : PartInv(q, s)
    BY <1>1, <1>2 DEF InTodo, JobInv
  <1>8. TodoInv(q)'
    BY <1>2, <1>3, <1>7 DEF TodoInv
  <1>9. ~InTodo(q, h)'
    <2>1. ASSUME NEW k \in 1 .. Len(Tail(job[q].todo)), Tail(job[q].todo)[k] = h PROVE FALSE
      <3>1. k + 1 \in 1 .. Len(job[q].todo) /\ 1 \in 1 .. Len(job[q].todo)
        BY <1>2, SMTT(30)
      <3>2. job[q].todo[k + 1] = job[q].todo[1]
        BY <1>2, <2>1
      <3>3. k + 1 = 1
        BY <1>7, <3>1, <3>2 DEF TodoInv
      <3>4. QED
        BY <3>3
    <2>2. QED
      BY <1>3, <2>1 DEF InTodo
  <1>10. ASSUME NEW s \in Scanners, InTodo(q, s)' PROVE InTodo(q, s)
    <2>1. PICK k \in 1 .. Len(Tail(job[q].todo)) : Tail(job[q].todo)[k] = s
      BY <1>3, <1>10 DEF InTodo
    <2>2. k + 1 \in 1 .. Len(job[q].todo) /\ job[q].todo[k + 1] = s
      BY <1>2, <2>1
    <2>3. QED
      BY <2>2 DEF InTodo
  <1>11. ASSUME NEW s \in Scanners, AtScanner(q, s)' PROVE InTodo(q, s)'
    <2>1. Tail(job[q].todo) \in Seq(Scanners) /\ Tail(job[q].todo) # << >>
          /\ s = Head(Tail(job[q].todo))
      BY <1>1, <1>3, <1>11, ScannerType DEF AtScanner, ScannerReturns
    <2>2. 1 \in 1 .. Len(Tail(job[q].todo)) /\ s = Tail(job[q].todo)[1]
      BY <2>1, EmptySeq
    <2>3. QED
      BY <1>3, <2>2 DEF InTodo
  <1>12. PartInv(q, h)'
    <2>1. job[q].sev[h] = NoSeverities /\ Tally(q, h) = acc[i][h]
      BY <1>7, TallyIsAcc DEF PartInv
    <2>2. /\ acc'[i][h] = NoSeverities /\ job'[q].sev[h] = acc[i][h]
          /\ job'[q].counts[h] = job[q].n
      BY <1>3, <1>4, <1>6, <2>1
    <2>3. ~AtScanner(q, h)'
      BY <1>9, <1>11
    <2>4. h # "sbom" => job'[q].counts[h] = Total(job'[q].sev[h])
      BY <1>1, <1>7, <2>2 DEF PartInv
    <2>5. ASSUME NEW v \in Severities
          PROVE  acc'[i][h][v] + job'[q].sev[h][v] = acc[i][h][v] + job[q].sev[h][v]
      <3>1. NoSeverities[v] = 0 /\ acc[i][h][v] \in Nat
        BY <1>6 DEF NoSeverities, SeverityCounts
      <3>2. QED
        BY <2>1, <2>2, <3>1
    <2>6. PartInv(q, h)
      BY <1>7
    <2>7. QED
      BY <1>5, <1>9, <2>2, <2>3, <2>4, <2>5, <2>6 DEF PartInv
  <1>13. ASSUME NEW s \in Scanners, s # h PROVE PartInv(q, s)'
    <2>1. PartInv(q, s) /\ ~AtScanner(q, s)
      BY <1>1, <1>7, <1>13 DEF AtScanner
    <2>2. /\ acc'[i][s] = acc[i][s] /\ job'[q].sev[s] = job[q].sev[s]
          /\ job'[q].counts[s] = job[q].counts[s] /\ acc[i][s] = NoSeverities
      BY <1>3, <1>4, <1>6, <1>13, <2>1 DEF PartInv
    <2>3. s # "sbom" =>
            IF AtScanner(q, s)' THEN job'[q].n = Total(acc'[i][s])
            ELSE InTodo(q, s)' \/ job'[q].counts[s] = Total(job'[q].sev[s])
      <3>1. CASE AtScanner(q, s)'
        BY <1>3, <2>2, <3>1, TotalTypes
      <3>2. CASE ~AtScanner(q, s)' /\ ~InTodo(q, s)'
        <4>1. ~InTodo(q, s)
          <5>1. ASSUME NEW k \in 1 .. Len(job[q].todo), job[q].todo[k] = s PROVE FALSE
            <6>1. k # 1 /\ k - 1 \in 1 .. Len(Tail(job[q].todo))
              BY <1>2, <1>13, <5>1
            <6>2. Tail(job[q].todo)[k - 1] = s
              BY <1>2, <5>1, <6>1
            <6>3. QED
              BY <1>3, <3>2, <6>1, <6>2 DEF InTodo
          <5>2. QED
            BY <5>1 DEF InTodo
        <4>2. QED
          BY <2>1, <2>2, <3>2, <4>1 DEF PartInv
      <3>3. QED
        BY <3>1, <3>2
    <2>4. QED
      BY <1>5, <1>10, <1>13, <2>1, <2>2, <2>3 DEF PartInv
  <1>14. QED
    BY <1>1, <1>8, <1>12, <1>13 DEF JobInv, Early

(* The steps of one job leave the accumulators and findings of other runs. *)
LEMMA OthersKept ==
    ASSUME TypeOK, DistinctIds, NEW q \in Requests, Create(q) \/ JobStep(q),
           NEW p \in Requests, p # q
    PROVE  /\ pc'[p] = pc[p] /\ job'[p] = job[p] /\ live'[IdOf[p]] = live[IdOf[p]]
           /\ acc'[IdOf[p]] = acc[IdOf[p]] /\ drops' = drops
           /\ \A s \in Scanners, v \in Severities :
                 Sent(IdOf[p], s, v)' = Sent(IdOf[p], s, v)
  <1> USE RunsAssumption DEF TypeOK
  <1>1. IdOf[p] \in RunIds \ {IdOf[q]}
    BY DEF DistinctIds
  <1>2. CASE Create(q)
    BY <1>1, <1>2, CreateEffect, ZenonT(60) DEF Create, Sent, bounds
  <1>3. CASE Start(q) \/ CheckoutFails(q) \/ CloneFails(q)
    BY <1>1, <1>3, EarlyEffect DEF Start, CheckoutFails, CloneFails, Sent, bounds
  <1>4. CASE Report(q)
    BY <1>1, <1>4, ReportEffect DEF Report, Sent, bounds
  <1>5. CASE WorkspaceOK(q) \/ MkdirTemp(q) \/ CloneOK(q) \/ Return(q)
    BY <1>5 DEF WorkspaceOK, MkdirTemp, CloneOK, Return, Sent, store, bounds
  <1>6. CASE FindDependency(q) \/ ScannerReturns(q)
    BY <1>1, <1>6 DEF FindDependency, ScannerReturns, Sent, store, bounds
  <1>7. CASE \E v \in Severities : Find(q, v)
    <2>1. PICK v \in Severities : Find(q, v)
      BY <1>7
    <2>2. /\ sending' = sending \cup
                {[id |-> IdOf[q], scanner |-> Scanner(q), severity |-> v]}
          /\ landed' = landed
      BY <2>1 DEF Find, Remembered
    <2>3. \A s \in Scanners, u \in Severities : Sent(IdOf[p], s, u)' = Sent(IdOf[p], s, u)
      BY <1>1, <2>2 DEF Sent
    <2>4. QED
      BY <1>1, <2>1, <2>3 DEF Find, Remembered, bounds
  <1>8. QED
    BY <1>2, <1>3, <1>4, <1>5, <1>6, <1>7 DEF JobStep

(* The job's own run: the job's steps keep what is known of it ... *)
LEMMA OwnJobInv ==
    ASSUME TypeOK, SumInv, DistinctIds, NEW q \in Requests, Create(q) \/ JobStep(q)
    PROVE  JobInv(q)'
  <1> USE RunsAssumption
  <1>1. JobInv(q)
    BY DEF SumInv
  <1>2. CASE \/ Start(q) \/ CheckoutFails(q) \/ WorkspaceOK(q)
             \/ MkdirTemp(q) \/ CloneOK(q) \/ CloneFails(q) \/ Report(q) \/ Return(q)
    <2>1. /\ job'[q] = job[q] /\ acc'[IdOf[q]] = acc[IdOf[q]] /\ drops' = drops
          /\ \A s \in Scanners, v \in Severities :
                Sent(IdOf[q], s, v)' = Sent(IdOf[q], s, v)
      BY <1>2 DEF Start, CheckoutFails, WorkspaceOK, MkdirTemp, CloneOK, CloneFails,
                  Report, Return, Sent, store, bounds
    <2>2. /\ pc'[q] \in Early => pc[q] \in Early
          /\ pc'[q] = "scanning" => pc[q] \in Early \cup {"scanning"}
      BY <1>2 DEF TypeOK, Start, CheckoutFails, WorkspaceOK, MkdirTemp, CloneOK, CloneFails,
                  Report, Return, Early
    <2>3. QED
      BY <1>1, <2>1, <2>2, JobInvKept
  <1>3. CASE Create(q)
    <2>1. /\ job'[q] = job[q] /\ acc'[IdOf[q]] = acc[IdOf[q]] /\ drops' = drops
          /\ \A s \in Scanners, v \in Severities :
                Sent(IdOf[q], s, v)' = Sent(IdOf[q], s, v)
      BY <1>3 DEF Create, Sent, bounds
    <2>2. pc[q] \in Early /\ pc'[q] # "scanning"
      BY <1>3, CreateEffect DEF TypeOK, Create, Early
    <2>3. QED
      BY <1>1, <2>1, <2>2, JobInvKept
  <1>4. QED
    BY <1>2, <1>3, FindJobInv, DependencyJobInv, ReturnsJobInv DEF JobStep

(* ... and its report takes it over into the run. *)
LEMMA OwnAccounted ==
    ASSUME TypeOK, SumInv, PlaceInv, DistinctIds, NEW q \in Requests,
           Create(q) \/ JobStep(q)
    PROVE  Accounted(IdOf[q])'
  <1> USE RunsAssumption
  <1>1. CASE Create(q)
    BY <1>1, CreateEffect DEF Accounted, Completed
  <1>2. CASE Start(q) \/ CheckoutFails(q) \/ CloneFails(q)
    BY <1>2, EarlyEffect DEF Accounted, Completed
  <1>3. CASE Report(q)
    <2>1. /\ JobInv(q) /\ pc[q] = "scanning" /\ job[q].todo = << >>
          /\ drops' = drops
          /\ \A s \in Scanners, v \in Severities :
                Sent(IdOf[q], s, v)' = Sent(IdOf[q], s, v)
      BY <1>3 DEF SumInv, Report, Sent, bounds
    <2>2. ASSUME NEW s \in Scanners
          PROVE  /\ s # "sbom" => job[q].counts[s] = Total(job[q].sev[s])
                 /\ \A v \in Severities :
                      /\ Sent(IdOf[q], s, v) => job[q].sev[s][v] > 0
                      /\ drops = 0 /\ job[q].sev[s][v] > 0 => Sent(IdOf[q], s, v)
      <3>1. PartInv(q, s) /\ ~InTodo(q, s) /\ ~AtScanner(q, s)
        BY <2>1 DEF JobInv, InTodo, AtScanner
      <3>2. acc[IdOf[q]][s] = NoSeverities
            /\ \A v \in Severities : NoSeverities[v] = 0 /\ job[q].sev[s][v] \in Nat
        BY <3>1 DEF PartInv, NoSeverities, TypeOK, Job, SeverityCounts
      <3>3. QED
        BY <3>1, <3>2 DEF PartInv
    <2>3. QED
      BY <1>3, <2>1, <2>2, ReportEffect DEF Accounted
  <1>4. CASE Silent(q)
    <2>1. CASE pc[q] \in {"scoring", "done"}
      <3>1. Return(q)
        BY <1>4, <2>1 DEF Silent, WorkspaceOK, MkdirTemp, CloneOK, Find, Remembered, FindDependency,
                          ScannerReturns, Scanning
      <3>2. /\ live' = live /\ drops' = drops
            /\ \A s \in Scanners, v \in Severities :
                  Sent(IdOf[q], s, v)' = Sent(IdOf[q], s, v)
        BY <3>1 DEF Return, Sent, store, bounds
      <3>3. QED
        BY <3>2, AccountedKept DEF SumInv
    <2>2. CASE pc[q] \notin {"scoring", "done"}
      <3>1. live' = live
        BY <1>4 DEF Silent, WorkspaceOK, MkdirTemp, CloneOK, Find, Remembered, FindDependency,
                    ScannerReturns, Return
      <3>2. ~(Known(IdOf[q]) /\ live[IdOf[q]].status \in Completed)
        BY <2>2 DEF PlaceInv, Terminal
      <3>3. QED
        BY <3>1, <3>2 DEF Accounted, Known
    <2>3. QED
      BY <2>1, <2>2
  <1>5. QED
    BY <1>1, <1>2, <1>3, <1>4 DEF JobStep, Silent

(* Every step keeps the two accumulators of the secrets scanner equal. *)
LEMMA SecretsStep == TypeOK /\ SecretsInv /\ [Next]_vars => SecretsInv'
  <1> SUFFICES ASSUME TypeOK, SecretsInv, [Next]_vars, NEW i \in RunIds
               PROVE  secretAcc'[i] = acc'[i]["secrets"]
    BY DEF SecretsInv
  <1> USE RunsAssumption DEF SecretsInv
  <1>1. "secrets" \in Scanners
    BY DEF Scanners
  <1>2. ASSUME NEW q \in Requests, NEW v \in Severities, Find(q, v)
        PROVE  secretAcc'[i] = acc'[i]["secrets"]
    <2>1. PICK h \in Scanners : h = Scanner(q)
      BY <1>2, ScannerType DEF Find, Remembered
    <2>2. /\ acc' = [acc EXCEPT ![IdOf[q]][h][v] = @ + 1]
          /\ secretAcc' = IF h = "secrets" THEN [secretAcc EXCEPT ![IdOf[q]][v] = @ + 1]
                          ELSE secretAcc
      BY <1>2, <2>1 DEF Find, Remembered, SecretRemembered
    <2>3. QED
      BY <1>1, <2>2 DEF TypeOK, SeverityCounts
  <1>3. ASSUME NEW q \in Requests, ScannerReturns(q)
        PROVE  secretAcc'[i] = acc'[i]["secrets"]
    <2>1. PICK h \in Scanners : h = Scanner(q)
      BY <1>3, ScannerType DEF ScannerReturns
    <2>2. /\ acc' = [acc EXCEPT ![IdOf[q]][h] = NoSeverities]
          /\ secretAcc' = IF h = "secrets" THEN [secretAcc EXCEPT ![IdOf[q]] = NoSeverities]
                          ELSE secretAcc
      BY <1>3, <2>1 DEF ScannerReturns, SecretTaken
    <2>3. QED
      BY <1>1, <2>2 DEF TypeOK
  <1>4. CASE Crash
    BY <1>1, <1>4 DEF Crash, NoSummary
  <1>5. CASE UNCHANGED <<acc, secretAcc>>
    BY <1>5
  <1>6. QED
    BY <1>2, <1>3, <1>4, <1>5 DEF Next, JobStep, createSecurityRun,
       createPeerCVESecurityRun, Create, Start, CheckoutFails, WorkspaceOK,
       MkdirTemp, CloneOK, CloneFails, FindDependency, Report, Return, Landing, LandRow,
       LandFinding, DropRow, DropFinding, Merge, Tick, vars

(* Dropping a row keeps the accounts: the exact half of them is given up. *)
LEMMA DropSum ==
    ASSUME TypeOK, SumInv, DistinctIds, NEW q \in Requests, drops' # 0,
           UNCHANGED <<live, acc, job, pc>>,
           \A s \in Scanners, v \in Severities :
              Sent(IdOf[q], s, v)' => Sent(IdOf[q], s, v)
    PROVE  JobInv(q)' /\ Accounted(IdOf[q])'
  <1>1. JobInv(q) /\ Accounted(IdOf[q])
    BY DEF SumInv
  <1>2. TodoInv(q)' = TodoInv(q)
    BY DEF TodoInv
  <1>3. \A s \in Scanners : PartInv(q, s) => PartInv(q, s)'
    BY DEF PartInv, InTodo, AtScanner
  <1>4. Accounted(IdOf[q])'
    BY <1>1 DEF Accounted, Known
  <1>5. QED
    BY <1>1, <1>2, <1>3, <1>4 DEF JobInv

(* A crash keeps the accounts: no run is remembered after it. *)
LEMMA CrashSum ==
    ASSUME TypeOK, SumInv, DistinctIds, NEW q \in Requests, Crash
    PROVE  JobInv(q)' /\ Accounted(IdOf[q])'
  <1> USE RunsAssumption
  <1>1. Accounted(IdOf[q])'
    BY DEF Crash, Accounted, Known
  <1>2. CASE pc'[q] \in Early \cup {"scanning"}
    <2>1. pc'[q] \in {"none", "idle"} /\ pc'[q] = pc[q]
      BY <1>2 DEF TypeOK, Crash, Working, Places, Early
    <2>2. /\ JobInv(q) /\ pc[q] \in Early
          /\ acc[IdOf[q]] = NoSummary /\ acc'[IdOf[q]] = NoSummary
          /\ job'[q] = job[q] /\ job[q].sev = NoSummary
      BY <2>1 DEF SumInv, JobInv, Early, Crash
    <2>3. ASSUME NEW s \in Scanners PROVE PartInv(q, s)'
      <3>1. PartInv(q, s)
        BY <2>2 DEF JobInv
      <3>2. /\ acc[IdOf[q]][s] = NoSeverities /\ acc'[IdOf[q]][s] = NoSeverities
            /\ job[q].sev[s] = NoSeverities
            /\ \A v \in Severities : NoSeverities[v] = 0
        BY <2>2 DEF NoSummary, NoSeverities
      <3>3. \A v \in Severities : ~Sent(IdOf[q], s, v)
        BY <3>1, <3>2 DEF PartInv
      <3>4. \A v \in Severities : ~Sent(IdOf[q], s, v)'
        BY <3>3 DEF Crash, Sent
      <3>5. QED
        BY <2>2, <3>1, <3>2, <3>4 DEF PartInv, InTodo, AtScanner
    <2>4. TodoInv(q)'
      BY <2>2 DEF JobInv, TodoInv
    <2>5. QED
      BY <1>1, <2>2, <2>3, <2>4 DEF JobInv
  <1>3. CASE pc'[q] \notin Early \cup {"scanning"}
    BY <1>1, <1>3 DEF JobInv
  <1>4. QED
    BY <1>2, <1>3

(* The writer, ClickHouse and the clock keep the accounts. *)
LEMMA EnvironmentSum ==
    ASSUME TypeOK, SumInv, DistinctIds, NEW q \in Requests, Environment
    PROVE  JobInv(q)' /\ Accounted(IdOf[q])'
  <1> USE RunsAssumption
  <1>1. JobInv(q) /\ Accounted(IdOf[q])
    BY DEF SumInv
  <1>2. CASE Landing \/ (\E old, row \in table : Merge(old, row)) \/ Tick
    <2>1. UNCHANGED <<live, acc, job, pc, drops>>
          /\ (sending \cup landed)' = sending \cup landed
      BY <1>2 DEF Landing, LandRow, LandFinding, Merge, Tick, store, bounds
    <2>2. \A s \in Scanners, v \in Severities : Sent(IdOf[q], s, v)' = Sent(IdOf[q], s, v)
      BY <2>1 DEF Sent
    <2>3. QED
      BY <1>1, <2>1, <2>2, JobInvKept, AccountedKept
  <1>3. CASE (\E row \in outbox : DropRow(row)) \/ (\E f \in sending : DropFinding(f))
    <2>1. /\ UNCHANGED <<live, acc, job, pc>> /\ drops' # 0
          /\ (sending \cup landed)' \subseteq sending \cup landed
      BY <1>3 DEF DropRow, DropFinding, TypeOK
    <2>2. QED
      BY <2>1, DropSum DEF Sent
  <1>4. CASE Crash
    BY <1>4, CrashSum
  <1>5. QED
    BY <1>2, <1>3, <1>4 DEF Environment

(* Every step keeps the accounts. *)
LEMMA SumStep == TypeOK /\ PlaceInv /\ SumInv /\ [Next]_vars => SumInv'
  <1> SUFFICES ASSUME TypeOK, PlaceInv, SumInv, [Next]_vars PROVE SumInv'
    OBVIOUS
  <1>1. SecretsInv'
    BY SecretsStep DEF SumInv
  <1>2. ASSUME DistinctIds, NEW p \in Requests PROVE JobInv(p)' /\ Accounted(IdOf[p])'
    <2>1. JobInv(p) /\ Accounted(IdOf[p]) /\ IdOf[p] \in RunIds
      BY <1>2, RunsAssumption DEF SumInv
    <2>2. ASSUME NEW q \in Requests, Create(q) \/ JobStep(q), p # q
          PROVE  JobInv(p)' /\ Accounted(IdOf[p])'
      BY <1>2, <2>1, <2>2, OthersKept, JobInvKept, AccountedKept
    <2>3. ASSUME Create(p) \/ JobStep(p) PROVE JobInv(p)' /\ Accounted(IdOf[p])'
      BY <1>2, <2>3, OwnJobInv, OwnAccounted
    <2>4. CASE UNCHANGED vars
      BY <2>1, <2>4, JobInvKept, AccountedKept DEF vars, store, bounds, Sent
    <2>5. QED
      BY <1>2, <2>2, <2>3, <2>4, EnvironmentSum, Steps
  <1>3. QED
    BY <1>1, <1>2 DEF SumInv, DistinctIds

(* With distinct ids, and however many jobs run at the same time, whatever
   crashes and whatever the writer drops: the summary of a completed run counts
   what its scanners returned, and has exactly the findings of its own job. *)
THEOREM SummaryIsExact == Spec => []SummaryAccounts
  <1>1. TypeOK /\ PlaceInv /\ SumInv => SummaryAccounts
    <2> SUFFICES ASSUME PlaceInv, SumInv, DistinctIds, NEW i \in RunIds PROVE Accounted(i)
      BY DEF SummaryAccounts
    <2>1. CASE Known(i)
      BY <2>1 DEF PlaceInv, SumInv
    <2>2. CASE ~Known(i)
      BY <2>2 DEF Accounted
    <2>3. QED
      BY <2>1, <2>2
  <1>2. QED
    BY <1>1, InitSum, SumStep, TypeCorrect, PlaceInvariant, PTL DEF Spec

-----------------------------------------------------------------------------
(* The gate and the PR checks, beside the runs *)

Evaluations ==
    \/ \E i \in RunIds, min \in MinSeverities, scope \in Scopes :
          \/ evaluateScopedGate(i, min, scope)
          \/ \E form \in Forms : handleSecurityPRCheck(form, i, min, scope)
    \/ QueryRuns \/ QueryVulns \/ QueryTable \/ QueryFails \/ LookAtLive

(* An evaluation leaves the runs and CI's rows alone, an ingest the runs and
   the evaluation. *)
LEMMA GateSteps ==
    ASSUME [GNext]_<<vars, ci, gvars>>
    PROVE  \/ Evaluations /\ UNCHANGED <<vars, ci>>
           \/ Ingests /\ UNCHANGED <<vars, gate, errors>>
           \/ Runs
           \/ UNCHANGED <<vars, ci, gvars>>
  <1>1. Evaluations => UNCHANGED <<vars, ci>>
    BY DEF Evaluations, evaluateScopedGate, handleSecurityPRCheck, QueryRuns, QueryVulns,
           QueryTable, QueryFails, LookAtLive
  <1>2. Ingests => UNCHANGED vars
    BY DEF Ingests, Ingest, SettleIngested
  <1>3. QED
    BY <1>1, <1>2 DEF GNext, Evaluations

(* Beside the checks, the runs do what they do without them. *)
LEMMA GateRefinesRuns == GSpec => Spec
  <1>1. GInit => Init
    BY DEF GInit, CiInit
  <1>2. [GNext]_<<vars, ci, gvars>> => [Next]_vars
    BY GateSteps DEF Runs, RunsGoOn
  <1>3. QED
    BY <1>1, <1>2, PTL DEF GSpec, Spec

(* What the answers are records of. *)
Ats == {"security_runs", "vuln_findings", "live", "nothing"} \cup Tables
Evaluation == [at: Ats, form: Forms \cup {"gate"}, ids: SUBSET RunIds,
               min: MinSeverities \cup {"high", "medium"}, scope: Scopes \cup {"own"},
               fail: BOOLEAN, verdict: {"none", "pass", "fail"}, erred: BOOLEAN,
               missed: SUBSET RunIds, stored: SUBSET RunIds, known: BOOLEAN]

LEMMA NoGateType == NoGate \in Evaluation
  BY DEF NoGate, Evaluation, Ats

LEMMA EndedType ==
    ASSUME gate \in Evaluation, NEW fails \in BOOLEAN
    PROVE  Ended(fails) \in Evaluation /\ Ended(fails).at = "nothing"
  <1>1. CASE fails
    BY <1>1 DEF Ended, NoGate, Evaluation, Ats
  <1>2. CASE ~fails
    BY <1>2 DEF Ended, NoGate, Evaluation, Ats
  <1>3. QED
    BY <1>1, <1>2

LEMMA OnwardType ==
    ASSUME gate \in Evaluation, NEW fails \in BOOLEAN,
           gate.at \in Tables \cup {"security_runs", "vuln_findings"},
           gate.verdict = "none"
    PROVE  /\ Onward(fails) \in Evaluation
           /\ Onward(fails).verdict = "none" \/ Onward(fails).at = "nothing"
  <1>1. After(gate.at) \in Ats
    BY DEF After, Tables, Ats, Evaluation
  <1>2. CASE After(gate.at) = "nothing"
    BY <1>2, EndedType DEF Onward
  <1>3. CASE After(gate.at) # "nothing"
    <2>1. Onward(fails) = [gate EXCEPT !.at = After(@), !.fail = fails]
      BY <1>3 DEF Onward
    <2>2. QED
      BY <1>1, <2>1 DEF Evaluation
  <1>4. QED
    BY <1>2, <1>3

(* The evaluations and the ingests keep the types. *)
LEMMA GateTypeStep == TypeOK /\ GateTypeOK /\ [GNext]_<<vars, ci, gvars>> => GateTypeOK'
  <1> SUFFICES ASSUME TypeOK, GateTypeOK, [GNext]_<<vars, ci, gvars>> PROVE GateTypeOK'
    OBVIOUS
  <1> DEFINE Shaped == gate \in Evaluation /\ (gate.verdict = "none" \/ Idle)
             CiRows == ciSending \subseteq Finding /\ ciLanded \subseteq Finding
  <1> USE GateAssumption
  <1>a. ASSUME NEW ids \in SUBSET RunIds, NEW form, NEW min PROVE BlockedRuns(ids, form, min) \in SUBSET RunIds
    BY DEF BlockedRuns, Blockers
  <1>0. Shaped /\ CiRows
    BY DEF GateTypeOK, Evaluation, Ats
  <1>1. Shaped' /\ CiRows' => GateTypeOK'
    BY DEF GateTypeOK, Evaluation, Ats
  <1>2. CASE Evaluations /\ UNCHANGED <<vars, ci>>
    <2>1. ASSUME NEW i \in RunIds, NEW min \in MinSeverities, NEW scope \in Scopes,
                 evaluateScopedGate(i, min, scope)
          PROVE  Shaped'
      <3>1. CASE scope = "noOrg"
        BY <2>1, <3>1 DEF evaluateScopedGate, NoGate, Evaluation, Ats, Idle
      <3>2. CASE scope # "noOrg"
        BY <2>1, <3>2, <1>a DEF evaluateScopedGate, NoGate, Evaluation, Ats, Idle, Tables, CompletedRun
      <3>3. QED
        BY <3>1, <3>2
    <2>2. ASSUME NEW i \in RunIds, NEW min \in MinSeverities, NEW scope \in Scopes,
                 NEW form \in Forms, handleSecurityPRCheck(form, i, min, scope)
          PROVE  Shaped'
      <3>1. Recorded \subseteq RunIds /\ Lower(min) \in MinSeverities \cup {"high", "medium"}
        BY DEF Recorded, CommitRows, Lower, TypeOK, Row
      <3>2. CASE form = "run"
        BY <2>2, <3>1, <3>2, <1>a DEF handleSecurityPRCheck, NoGate, Evaluation, Ats, Idle, Tables
      <3>3. CASE form = "commit"
        BY <2>2, <3>1, <3>3, <1>a DEF handleSecurityPRCheck, NoGate, Evaluation, Ats, Idle, Tables
      <3>4. CASE form = "tenant"
        BY <2>2, <3>1, <3>4, <1>a DEF handleSecurityPRCheck, NoGate, Evaluation, Ats, Idle, Tables
      <3>5. QED
        BY <2>2, <3>2, <3>3, <3>4 DEF handleSecurityPRCheck
    <2>3. ASSUME QueryRuns PROVE Shaped'
      <3>1. Recorded \subseteq RunIds /\ gate.verdict = "none"
        BY <1>0, <2>3 DEF Recorded, CommitRows, QueryRuns, Idle, TypeOK, Row
      <3>2. CASE gate.scope = "own" /\ CommitRows # {}
        <4>1. PICK rows \in NewestRows :
                 gate' = [gate EXCEPT !.at = "secret_findings", !.ids = {row.id : row \in rows},
                                      !.missed = Recorded \ {row.id : row \in rows}]
          BY <2>3, <3>2 DEF QueryRuns
        <4>2. "secret_findings" \in Ats
          BY DEF Ats, Tables
        <4>3. {row.id : row \in rows} \subseteq RunIds
          BY DEF NewestRows, CommitRows, TypeOK, Row
        <4>4. QED
          BY <1>0, <3>1, <4>1, <4>2, <4>3 DEF Evaluation
      <3>3. CASE ~(gate.scope = "own" /\ CommitRows # {})
        BY <1>0, <2>3, <3>3, EndedType DEF QueryRuns, Idle
      <3>4. QED
        BY <3>2, <3>3
    <2>4. ASSUME QueryVulns PROVE Shaped'
      BY <1>0, <2>4, OnwardType DEF QueryVulns, Idle
    <2>5. ASSUME QueryTable PROVE Shaped'
      <3>1. FailAfter(gate.at) \in BOOLEAN
        BY <1>0 DEF FailAfter, Evaluation
      <3>2. QED
        BY <1>0, <2>5, <3>1, OnwardType DEF QueryTable, Idle, Tables
    <2>6. ASSUME QueryFails PROVE Shaped'
      <3>1. gate.fail \in BOOLEAN /\ gate.verdict = "none"
        BY <1>0, <2>6 DEF Evaluation, QueryFails, Idle, Tables
      <3> DEFINE next == IF gate.at = "security_runs" THEN Ended(FALSE) ELSE Onward(gate.fail)
      <3>2. next \in Evaluation /\ (next.verdict = "none" \/ next.at = "nothing")
        BY <1>0, <2>6, <3>1, EndedType, OnwardType DEF QueryFails
      <3>3. gate' = [next EXCEPT !.erred = (next.verdict # "fail")]
        BY <2>6 DEF QueryFails
      <3> HIDE DEF next
      <3>4. QED
        BY <3>2, <3>3 DEF Evaluation, Idle
    <2>7. ASSUME LookAtLive PROVE Shaped'
      <3>1. gate.fail \in BOOLEAN
        BY <1>0 DEF Evaluation
      <3> DEFINE fails == \/ gate.fail
                          \/ \E i \in gate.ids :
                               /\ Known(i)
                               /\ \/ gate.scope = "otherOrg"
                                  \/ gate.scope = "own" /\ LiveFails(live[i], gate.min)
      <3>2. fails \in BOOLEAN /\ gate' = Ended(fails)
        BY <2>7, <3>1 DEF LookAtLive
      <3> HIDE DEF fails
      <3>3. QED
        BY <1>0, <3>2, EndedType DEF Idle
    <2>8. Shaped'
      BY <1>2, <2>1, <2>2, <2>3, <2>4, <2>5, <2>6, <2>7 DEF Evaluations
    <2>9. QED
      BY <1>0, <1>1, <1>2, <2>8 DEF ci
  <1>3. CASE Ingests /\ UNCHANGED <<vars, gate, errors>>
    <2> USE IngestAssumption
    <2>1. ASSUME NEW f \in Posted PROVE RowFor(f) \in Finding
      <3>1. f \in [id: RunIds, scanner: {"secrets", "sast", "iac", "container"},
                   severity: Severities \cup {"none"}]
        OBVIOUS
      <3>2. QED
        BY <3>1 DEF RowFor, handleSecuritySecretsIngest, handleSecuritySASTIngest,
            handleSecurityIaCIngest, handleSecurityContainerIngest, nz, Finding, Severities,
            Scanners
    <2>2. CiRows'
      BY <1>0, <1>3, <2>1 DEF Ingests, Ingest, SettleIngested
    <2>3. QED
      BY <1>0, <1>1, <1>3, <2>2 DEF Idle
  <1>4. CASE Runs
    <2>1. CiRows'
      BY <1>0, <1>4 DEF Runs, RunsGoOn
    <2>2. CASE gate' = NoGate
      BY <1>1, <2>1, <2>2, NoGateType DEF Idle, NoGate
    <2>3. CASE gate' = gate
      BY <1>0, <1>1, <2>1, <2>3 DEF Idle
    <2>4. QED
      BY <1>4, <2>2, <2>3 DEF Runs
  <1>5. CASE UNCHANGED <<vars, ci, gvars>>
    BY <1>0, <1>1, <1>5 DEF gvars, ci, Idle
  <1>6. QED
    BY <1>2, <1>3, <1>4, <1>5, GateSteps

(* An evaluation of either endpoint is at a query or has answered, and what CI
   files is a finding like any other. *)
THEOREM GateTypeCorrect == GSpec => []GateTypeOK
  <1>1. GInit => GateTypeOK
    BY NoGateType DEF GInit, CiInit, GateTypeOK, Evaluation, Ats, Idle, NoGate
  <1>2. QED
    BY <1>1, GateTypeStep, GateRefinesRuns, TypeCorrect, PTL DEF GSpec

-----------------------------------------------------------------------------
(* A pass and what was stored *)

(* The tables an evaluation has yet to ask. *)
Ahead(at) == CASE at \in {"security_runs", "vuln_findings", "secret_findings"} -> Tables
               [] at = "sast_findings" -> {"sast_findings", "iac_findings"}
               [] at = "iac_findings" -> {"iac_findings"}
               [] OTHER -> {}

(* A blocking finding of run i is in a table the evaluation has yet to ask. *)
Unseen(i) == \E f \in Blockers({i}, gate.form, gate.min) : TableOf(f.scanner) \in Ahead(gate.at)

(* An evaluation that asks all it has to, and has found nothing, has the runs
   that were blocked when it began ahead of it, but for those the lookup left
   out. *)
Asking == gate.scope = "own" /\ ~gate.erred /\ ~gate.fail
AllAhead == \A i \in gate.stored \ gate.missed : i \in gate.ids /\ Unseen(i)

StoredInv ==
    /\ gate.at = "security_runs" => gate.ids \subseteq Recorded /\ gate.missed = {}
    /\ gate.at \in {"security_runs", "vuln_findings"} => ~gate.fail
    /\ Asking /\ gate.verdict = "none" => AllAhead
    /\ PassMeansNoneStored

(* What is stored stays: a finding, and some row of a run. *)
LEMMA StoreGrows ==
    ASSUME [Next]_vars
    PROVE  landed \subseteq landed' /\ Recorded \subseteq Recorded'
  <1>1. CASE \E q \in Requests : Create(q) \/ JobStep(q)
    <2>1. UNCHANGED <<table, landed>>
      BY <1>1 DEF Create, JobStep, Start, CheckoutFails, WorkspaceOK, MkdirTemp, CloneOK,
                  CloneFails, Find, FindDependency, ScannerReturns, Report, Return, store
    <2>2. QED
      BY <2>1 DEF Recorded, CommitRows
  <1>2. CASE Environment
    <2>1. CASE \E old, row \in table : Merge(old, row)
      BY <2>1 DEF Merge, Recorded, CommitRows
    <2>2. CASE ~\E old, row \in table : Merge(old, row)
      <3>1. table \subseteq table' /\ landed \subseteq landed'
        BY <1>2, <2>2 DEF Environment, Landing, LandRow, LandFinding, DropRow, DropFinding,
                          Tick, Crash, store
      <3>2. QED
        BY <3>1 DEF Recorded, CommitRows
    <2>3. QED
      BY <2>1, <2>2
  <1>3. CASE UNCHANGED vars
    BY <1>3 DEF vars, store, Recorded, CommitRows
  <1>4. QED
    BY <1>1, <1>2, <1>3, Steps

(* The bands of a PR check are those of its severity in lower case. *)
LEMMA LowerBands ==
    ASSUME NEW form, NEW min
    PROVE  StoredBands(form, Lower(min)) = StoredBands(form, min)
  <1>1. Lower(Lower(min)) = Lower(min)
    BY DEF Lower
  <1>2. QED
    BY <1>1 DEF StoredBands

(* A blocker is in one of the three tables. *)
LEMMA BlockerTable ==
    ASSUME NEW ids, NEW form, NEW min, NEW f \in Blockers(ids, form, min)
    PROVE  TableOf(f.scanner) \in Tables
  BY DEF Blockers, TableOf, Tables

(* Asking a table either finds an unseen blocker or leaves it in a later one. *)
LEMMA QueryKeeps ==
    ASSUME GateTypeOK, StoredInv, QueryTable
    PROVE  StoredInv'
  <1> DEFINE fails == FailAfter(gate.at)
  <1>1. gate \in Evaluation /\ gate.verdict = "none" /\ gate.at \in Tables
        /\ UNCHANGED <<ci, vars>> /\ gate' = Onward(fails)
    BY DEF GateTypeOK, Evaluation, Ats, Idle, QueryTable, Tables
  <1>2. CASE After(gate.at) = "nothing"
    <2>1. gate.at = "iac_findings"
      BY <1>1, <1>2 DEF After, Tables
    <2>2. CASE fails
      BY <1>1, <1>2, <2>2 DEF Onward, Ended, NoGate, StoredInv, PassMeansNoneStored, Passed
    <2>3. CASE ~fails
      <3>1. gate' = [gate EXCEPT !.at = "nothing", !.verdict = "pass"]
        BY <1>1, <1>2, <2>3 DEF Onward, Ended
      <3>2. ASSUME gate.scope = "own", ~gate.erred, NEW i \in gate.stored \ gate.missed
            PROVE  FALSE
        <4>1. ~gate.fail
          BY <2>3 DEF FailAfter
        <4>2. i \in gate.ids /\ Unseen(i)
          BY <1>1, <3>2, <4>1 DEF StoredInv, Asking, AllAhead
        <4>3. PICK f \in Blockers({i}, gate.form, gate.min) :
                 TableOf(f.scanner) \in Ahead(gate.at)
          BY <4>2 DEF Unseen
        <4>4. TableOf(f.scanner) = gate.at
          BY <2>1, <4>3 DEF Ahead
        <4>5. QED
          BY <2>3, <3>2, <4>2, <4>3, <4>4 DEF FailAfter, Blocking, Blockers
      <3>3. gate.scope = "own" /\ ~gate.erred => gate.stored \subseteq gate.missed
        BY <3>2
      <3>4. /\ gate'.at = "nothing" /\ gate'.verdict = "pass" /\ gate'.scope = gate.scope
            /\ gate'.erred = gate.erred /\ gate'.stored = gate.stored
            /\ gate'.missed = gate.missed
        BY <1>1, <3>1 DEF Evaluation
      <3>5. QED
        BY <3>3, <3>4 DEF StoredInv, PassMeansNoneStored, Passed
    <2>4. QED
      BY <2>2, <2>3
  <1>3. CASE After(gate.at) # "nothing"
    <2>1. gate' = [gate EXCEPT !.at = After(gate.at), !.fail = fails]
      BY <1>1, <1>3 DEF Onward
    <2>2. After(gate.at) \notin {"security_runs", "vuln_findings"}
      BY <1>1 DEF After, Tables
    <2>3. /\ gate'.ids = gate.ids /\ gate'.form = gate.form /\ gate'.min = gate.min
          /\ gate'.at = After(gate.at) /\ gate'.fail = fails /\ gate'.scope = gate.scope
          /\ gate'.erred = gate.erred /\ gate'.stored = gate.stored
          /\ gate'.missed = gate.missed /\ gate'.verdict = gate.verdict
      BY <1>1, <2>1 DEF Evaluation
    <2>4. ASSUME Asking', NEW i \in gate.stored \ gate.missed PROVE i \in gate.ids /\ Unseen(i)'
      <3>1. Asking /\ ~fails
        BY <2>3, <2>4 DEF Asking, FailAfter
      <3>2. i \in gate.ids /\ Unseen(i)
        BY <1>1, <2>4, <3>1 DEF StoredInv, AllAhead
      <3>3. PICK f \in Blockers({i}, gate.form, gate.min) :
               TableOf(f.scanner) \in Ahead(gate.at)
        BY <3>2 DEF Unseen
      <3>4. TableOf(f.scanner) # gate.at
        BY <3>1, <3>2, <3>3 DEF FailAfter, Blocking, Blockers, Asking
      <3>5. TableOf(f.scanner) \in Ahead(After(gate.at))
        BY <1>1, <1>3, <3>3, <3>4 DEF Ahead, After, Tables
      <3>6. f \in Blockers({i}, gate.form, gate.min)'
        BY <1>1, <2>3, <3>3 DEF Blockers, vars, store, ci
      <3>7. QED
        BY <2>3, <3>2, <3>5, <3>6 DEF Unseen
    <2>5. QED
      BY <1>1, <2>2, <2>3, <2>4 DEF StoredInv, AllAhead, PassMeansNoneStored, Passed
  <1>4. QED
    BY <1>2, <1>3

(* An evaluation begins with every stored blocker ahead of it. *)
LEMMA BeginKeeps ==
    ASSUME GateTypeOK, StoredInv, NEW i \in RunIds, NEW min \in MinSeverities, NEW scope \in Scopes,
           \/ evaluateScopedGate(i, min, scope)
           \/ \E form \in Forms : handleSecurityPRCheck(form, i, min, scope)
    PROVE  StoredInv'
  <1>1. ASSUME evaluateScopedGate(i, min, scope) PROVE StoredInv'
    <2>1. CASE scope = "noOrg"
      BY <1>1, <2>1 DEF evaluateScopedGate, NoGate, StoredInv, PassMeansNoneStored, Passed
    <2>2. CASE scope # "noOrg"
      <3>1. /\ gate'.at = "secret_findings" /\ gate'.ids = {i} /\ gate'.min = min
            /\ gate'.form = "gate" /\ gate'.verdict = "none"
            /\ gate'.stored = BlockedRuns({i}, "gate", min)
            /\ UNCHANGED <<ci, vars>>
        BY <1>1, <2>2 DEF evaluateScopedGate, NoGate
      <3>2. ASSUME NEW j \in gate'.stored PROVE j \in gate'.ids /\ Unseen(j)'
        <4> PICK f \in Blockers({i}, "gate", min) : f.id = j
          BY <3>1, <3>2 DEF BlockedRuns
        <4>1. j = i /\ f \in Blockers({j}, gate.form, gate.min)'
          BY <3>1 DEF Blockers, vars, store, ci
        <4>2. TableOf(f.scanner) \in Ahead(gate'.at)
          BY <3>1, BlockerTable DEF Ahead
        <4>3. QED
          BY <3>1, <4>1, <4>2 DEF Unseen
      <3>3. QED
        BY <3>1, <3>2 DEF StoredInv, AllAhead, PassMeansNoneStored, Passed
    <2>3. QED
      BY <2>1, <2>2
  <1>2. ASSUME NEW form \in Forms, handleSecurityPRCheck(form, i, min, scope) PROVE StoredInv'
    <2> DEFINE ids == IF scope # "own" THEN {}
                      ELSE CASE form = "run"    -> {i}
                             [] form = "commit" -> Recorded
                             [] form = "tenant" -> RunIds
    <2>1. form \in {"run", "commit", "tenant"}
      BY <1>2, GateAssumption DEF handleSecurityPRCheck
    <2>2. /\ gate'.at \in {"secret_findings", "security_runs", "vuln_findings"}
          /\ gate'.at = "security_runs" => form = "commit"
          /\ ~gate'.fail
          /\ gate'.ids = ids /\ gate'.min = Lower(min) /\ gate'.form = form
          /\ gate'.verdict = "none"
          /\ gate'.stored = BlockedRuns(ids, form, min) /\ gate'.missed = {}
          /\ UNCHANGED <<ci, vars>>
      BY <1>2, <2>1 DEF handleSecurityPRCheck, NoGate
    <2>3. gate'.at = "security_runs" => gate'.ids \subseteq Recorded'
      BY <2>2 DEF Recorded, CommitRows, vars, store
    <2> HIDE DEF ids
    <2>4. ASSUME NEW j \in gate'.stored PROVE j \in gate'.ids /\ Unseen(j)'
      <3> PICK f \in Blockers(ids, form, min) : f.id = j
        BY <2>2, <2>4 DEF BlockedRuns
      <3>1. j \in ids /\ f \in Blockers({j}, gate.form, gate.min)'
        <4>1. f \in Blockers({j}, form, Lower(min)) /\ j \in ids
          BY LowerBands DEF Blockers
        <4>2. QED
          BY <2>2, <4>1 DEF Blockers, vars, store, ci
      <3>2. TableOf(f.scanner) \in Ahead(gate'.at)
        BY <2>2, BlockerTable DEF Ahead
      <3>3. QED
        BY <2>2, <3>1, <3>2 DEF Unseen
    <2>5. QED
      BY <2>2, <2>3, <2>4 DEF StoredInv, AllAhead, PassMeansNoneStored, Passed
  <1>3. QED
    BY <1>1, <1>2

(* Looking the commit's runs up finds those that were recorded at first, or
   notes which it leaves out. *)
LEMMA LookupKeeps ==
    ASSUME GateTypeOK, StoredInv, QueryRuns
    PROVE  StoredInv'
  <1>1. gate \in Evaluation /\ gate.verdict = "none" /\ gate.at = "security_runs"
        /\ gate.ids \subseteq Recorded /\ gate.missed = {} /\ ~gate.fail /\ UNCHANGED <<ci, vars>>
    BY DEF GateTypeOK, Evaluation, Ats, Idle, QueryRuns, StoredInv
  <1>2. CASE gate.scope = "own" /\ CommitRows # {}
    <2> PICK rows \in NewestRows :
           gate' = [gate EXCEPT !.at = "secret_findings", !.ids = {row.id : row \in rows},
                                !.missed = Recorded \ {row.id : row \in rows}]
      BY <1>2 DEF QueryRuns
    <2> DEFINE found == {row.id : row \in rows}
    <2>1. /\ gate'.at = "secret_findings" /\ gate'.ids = found /\ gate'.form = gate.form
          /\ gate'.min = gate.min /\ gate'.stored = gate.stored /\ gate'.erred = gate.erred
          /\ gate'.scope = gate.scope /\ gate'.verdict = "none" /\ gate'.fail = gate.fail
          /\ gate'.missed = Recorded \ found
      BY <1>1 DEF Evaluation
    <2> HIDE DEF found
    <2>2. ASSUME Asking', NEW i \in gate.stored \ gate'.missed PROVE i \in gate'.ids /\ Unseen(i)'
      <3>1. i \in gate.ids /\ Unseen(i)
        BY <1>1, <2>1, <2>2 DEF StoredInv, Asking, AllAhead
      <3>2. PICK f \in Blockers({i}, gate.form, gate.min) :
               TableOf(f.scanner) \in Ahead(gate.at)
        BY <3>1 DEF Unseen
      <3>3. f \in Blockers({i}, gate.form, gate.min)'
        BY <1>1, <2>1, <3>2 DEF Blockers, vars, store, ci
      <3>4. TableOf(f.scanner) \in Ahead(gate'.at)
        BY <2>1, <3>2, BlockerTable DEF Ahead
      <3>5. QED
        BY <1>1, <2>1, <2>2, <3>1, <3>3, <3>4 DEF Unseen
    <2>3. QED
      BY <1>1, <2>1, <2>2 DEF StoredInv, AllAhead, PassMeansNoneStored, Passed
  <1>3. CASE ~(gate.scope = "own" /\ CommitRows # {})
    <2>1. gate' = [gate EXCEPT !.at = "nothing", !.verdict = "pass"]
      BY <1>3 DEF QueryRuns, Ended
    <2>2. /\ gate'.at = "nothing" /\ gate'.stored = gate.stored /\ gate'.erred = gate.erred
          /\ gate'.scope = gate.scope /\ gate'.verdict = "pass" /\ gate'.missed = gate.missed
      BY <1>1, <2>1 DEF Evaluation
    <2>3. gate.scope = "own" /\ ~gate.erred => gate.stored \subseteq gate.missed
      <3> SUFFICES ASSUME gate.scope = "own", ~gate.erred, NEW i \in gate.stored \ gate.missed
                   PROVE  FALSE
        OBVIOUS
      <3>1. gate.ids = {}
        BY <1>1, <1>3 DEF Recorded
      <3>2. QED
        BY <1>1, <3>1 DEF StoredInv, Asking, AllAhead
    <2>4. QED
      BY <2>2, <2>3 DEF StoredInv, PassMeansNoneStored, Passed
  <1>4. QED
    BY <1>2, <1>3

(* The observed vulnerabilities of the tenant, a query that fails and the look
   at the remembered run hide no stored blocker. *)
LEMMA OthersKeep ==
    ASSUME GateTypeOK, StoredInv, QueryVulns \/ QueryFails \/ LookAtLive
    PROVE  StoredInv'
  <1>1. gate \in Evaluation /\ gate.verdict = "none" /\ UNCHANGED <<ci, vars>>
    BY DEF GateTypeOK, Evaluation, Ats, Idle, QueryVulns, QueryFails, LookAtLive, Tables
  <1>2. CASE QueryVulns
    <2>1. PICK observed \in BOOLEAN : gate' = Onward(observed)
      BY <1>2 DEF QueryVulns
    <2>2. gate.at = "vuln_findings" /\ After(gate.at) = "secret_findings"
      BY <1>2 DEF QueryVulns, After
    <2>3. gate' = [gate EXCEPT !.at = "secret_findings", !.fail = observed]
      BY <2>1, <2>2 DEF Onward
    <2>4. /\ gate'.at = "secret_findings" /\ gate'.ids = gate.ids /\ gate'.form = gate.form
          /\ gate'.min = gate.min /\ gate'.stored = gate.stored /\ gate'.erred = gate.erred
          /\ gate'.scope = gate.scope /\ gate'.verdict = "none" /\ gate'.missed = gate.missed
      BY <1>1, <2>3 DEF Evaluation
    <2>5. ~gate.fail
      BY <2>2 DEF StoredInv
    <2>6. ASSUME Asking', NEW i \in gate.stored \ gate.missed PROVE i \in gate.ids /\ Unseen(i)'
      <3>1. i \in gate.ids /\ Unseen(i)
        BY <1>1, <2>4, <2>5, <2>6 DEF StoredInv, Asking, AllAhead
      <3>2. PICK f \in Blockers({i}, gate.form, gate.min) :
               TableOf(f.scanner) \in Ahead(gate.at)
        BY <3>1 DEF Unseen
      <3>3. f \in Blockers({i}, gate.form, gate.min)'
        BY <1>1, <2>4, <3>2 DEF Blockers, vars, store, ci
      <3>4. QED
        BY <2>4, <3>1, <3>2, <3>3, BlockerTable DEF Unseen, Ahead
    <2>7. QED
      BY <2>4, <2>6 DEF StoredInv, AllAhead, PassMeansNoneStored, Passed
  <1>3. CASE QueryFails
    <2> DEFINE next == IF gate.at = "security_runs" THEN Ended(FALSE) ELSE Onward(gate.fail)
    <2>1. gate.fail \in BOOLEAN
      BY <1>1 DEF Evaluation
    <2>2. next \in Evaluation /\ next.at \notin {"security_runs", "vuln_findings"}
      <3>1. CASE gate.at = "security_runs"
        BY <1>1, <3>1, EndedType
      <3>2. CASE gate.at # "security_runs"
        <4>1. gate.at \in Tables \cup {"vuln_findings"}
          BY <1>3, <3>2 DEF QueryFails
        <4>2. After(gate.at) \notin {"security_runs", "vuln_findings"}
          BY <4>1 DEF After, Tables
        <4>3. CASE After(gate.at) = "nothing"
          BY <1>1, <2>1, <3>2, <4>3, EndedType DEF Onward
        <4>4. CASE After(gate.at) # "nothing"
          <5>1. next = [gate EXCEPT !.at = After(gate.at), !.fail = gate.fail]
            BY <3>2, <4>4 DEF Onward
          <5>2. next \in Evaluation
            BY <1>1, <2>1, <3>2, <4>1, OnwardType
          <5>3. QED
            BY <1>1, <4>2, <5>1, <5>2 DEF Evaluation
        <4>5. QED
          BY <4>3, <4>4
      <3>3. QED
        BY <3>1, <3>2
    <2>3. gate' = [next EXCEPT !.erred = (next.verdict # "fail")]
      BY <1>3 DEF QueryFails
    <2> HIDE DEF next
    <2>4. gate'.at \notin {"security_runs", "vuln_findings"} /\ (gate'.erred \/ gate'.verdict = "fail")
      BY <2>2, <2>3 DEF Evaluation
    <2>5. QED
      BY <2>4 DEF StoredInv, Asking, PassMeansNoneStored, Passed
  <1>4. CASE LookAtLive
    <2>1. gate.at = "live"
      BY <1>4 DEF LookAtLive
    <2> DEFINE fails == \/ gate.fail
                        \/ \E i \in gate.ids :
                             /\ Known(i)
                             /\ \/ gate.scope = "otherOrg"
                                \/ gate.scope = "own" /\ LiveFails(live[i], gate.min)
    <2>2. gate' = Ended(fails) /\ (gate.fail => fails)
      BY <1>4 DEF LookAtLive
    <2> HIDE DEF fails
    <2>3. CASE fails
      BY <2>2, <2>3 DEF Ended, NoGate, StoredInv, PassMeansNoneStored, Passed
    <2>4. CASE ~fails
      <3>1. gate' = [gate EXCEPT !.at = "nothing", !.verdict = "pass"]
        BY <2>2, <2>4 DEF Ended
      <3>2. ASSUME gate.scope = "own", ~gate.erred, NEW i \in gate.stored \ gate.missed
            PROVE  FALSE
        <4>1. Unseen(i)
          BY <1>1, <2>2, <2>4, <3>2 DEF StoredInv, Asking, AllAhead
        <4>2. QED
          BY <2>1, <4>1 DEF Unseen, Ahead
      <3>3. gate.scope = "own" /\ ~gate.erred => gate.stored \subseteq gate.missed
        BY <3>2
      <3>4. /\ gate'.at = "nothing" /\ gate'.verdict = "pass" /\ gate'.scope = gate.scope
            /\ gate'.erred = gate.erred /\ gate'.stored = gate.stored
            /\ gate'.missed = gate.missed
        BY <1>1, <3>1 DEF Evaluation
      <3>5. QED
        BY <3>3, <3>4 DEF StoredInv, PassMeansNoneStored, Passed
    <2>5. QED
      BY <2>3, <2>4
  <1>5. QED
    BY <1>2, <1>3, <1>4

(* Every step keeps the unseen blockers ahead. *)
LEMMA StoredStep == TypeOK /\ GateTypeOK /\ StoredInv /\ [GNext]_<<vars, ci, gvars>> => StoredInv'
  <1> SUFFICES ASSUME TypeOK, GateTypeOK, StoredInv, [GNext]_<<vars, ci, gvars>> PROVE StoredInv'
    OBVIOUS
  <1>1. CASE Evaluations
    BY <1>1, BeginKeeps, LookupKeeps, QueryKeeps, OthersKeep DEF Evaluations
  <1>2. CASE gate' = gate /\ landed \subseteq landed' /\ ciLanded \subseteq ciLanded'
             /\ Recorded \subseteq Recorded'
    <2>1. ASSUME NEW i, Unseen(i) PROVE Unseen(i)'
      <3>1. Blockers({i}, gate.form, gate.min) \subseteq Blockers({i}, gate.form, gate.min)'
        BY <1>2 DEF Blockers
      <3>2. QED
        BY <1>2, <2>1, <3>1 DEF Unseen
    <2>2. AllAhead => AllAhead'
      BY <1>2, <2>1 DEF AllAhead
    <2>3. QED
      BY <1>2, <2>2 DEF StoredInv, Asking, PassMeansNoneStored, Passed
  <1>3. CASE Ingests /\ UNCHANGED <<vars, gate, errors>>
    <2>1. ciLanded \subseteq ciLanded'
      BY <1>3 DEF Ingests, Ingest, SettleIngested
    <2>2. QED
      BY <1>2, <1>3, <2>1 DEF vars, store, Recorded, CommitRows
  <1>4. CASE Runs
    <2>1. CASE gate' = NoGate
      BY <2>1 DEF NoGate, StoredInv, AllAhead, PassMeansNoneStored, Passed
    <2>2. CASE gate' = gate
      BY <1>2, <1>4, <2>2, StoreGrows DEF Runs, RunsGoOn
    <2>3. QED
      BY <1>4, <2>1, <2>2 DEF Runs
  <1>5. CASE UNCHANGED <<vars, ci, gvars>>
    BY <1>2, <1>5 DEF vars, store, gvars, ci, Recorded, CommitRows
  <1>6. QED
    BY <1>1, <1>3, <1>4, <1>5, GateSteps

(* Whatever lands, is ingested, merged or dropped between its queries, a gate
   or a PR check whose queries worked passes only if none of its runs had a
   blocking finding stored when it began, but for those of a commit that the
   limit of the lookup left out. *)
THEOREM PassIsOfNoneStored == GSpec => []PassMeansNoneStored
  <1>1. GInit => StoredInv
    BY DEF GInit, NoGate, StoredInv, AllAhead, PassMeansNoneStored, Passed
  <1>2. StoredInv => PassMeansNoneStored
    BY DEF StoredInv
  <1>3. QED
    BY <1>1, <1>2, StoredStep, GateTypeCorrect, GateRefinesRuns, TypeCorrect, PTL DEF GSpec

-----------------------------------------------------------------------------
(* A pass and what had not landed *)

(* Counters and summaries have only the bands that their scanners give. *)
BandsInv ==
    \A s \in Scanners : \A v \in Severities \ Bands(s) :
        /\ \A i \in RunIds : /\ acc[i][s][v] = 0
                             /\ s = "secrets" => secretAcc[i][v] = 0
                             /\ Known(i) => live[i].sev[s][v] = 0
        /\ \A q \in Requests : job[q].sev[s][v] = 0

(* A row recorded before the scanners have run has an empty summary. *)
LEMMA EarlyRows ==
    ASSUME TypeOK, NEW q \in Requests,
           Create(q) \/ Start(q) \/ CheckoutFails(q) \/ CloneFails(q)
    PROVE  /\ \A i \in RunIds : live'[i] = live[i] \/ live'[i].sev = NoSummary
           /\ UNCHANGED <<acc, secretAcc, job>>
  BY RunsAssumption DEF TypeOK, Create, Start, CheckoutFails, CloneFails, UpdateRun, Record

(* One more finding changes no severities that a job has taken. *)
LEMMA SevKept ==
    ASSUME TypeOK, NEW q \in Requests, job' = [job EXCEPT ![q].n = @ + 1]
    PROVE  \A p \in Requests : job'[p].sev = job[p].sev
  <1>1. job' = [job EXCEPT ![q] = [job[q] EXCEPT !.n = @ + 1]]
    BY DEF TypeOK
  <1>2. [job[q] EXCEPT !.n = @ + 1].sev = job[q].sev
    BY DEF TypeOK, Job
  <1>3. QED
    BY <1>1, <1>2 DEF TypeOK

(* BandsInv part by part. *)
LEMMA BandsParts ==
    ASSUME \A s \in Scanners : \A v \in Severities \ Bands(s) : \A i \in RunIds : acc'[i][s][v] = 0,
           \A v \in Severities \ Bands("secrets") : \A i \in RunIds : secretAcc'[i][v] = 0,
           \A s \in Scanners : \A v \in Severities \ Bands(s) : \A i \in RunIds :
              live'[i] # NoRow => live'[i].sev[s][v] = 0,
           \A s \in Scanners : \A v \in Severities \ Bands(s) : \A q \in Requests :
              job'[q].sev[s][v] = 0
    PROVE  BandsInv'
  BY DEF BandsInv, Known

(* Every step keeps to the bands. *)
LEMMA BandsStep == TypeOK /\ BandsInv /\ [Next]_vars => BandsInv'
  <1> SUFFICES ASSUME TypeOK, BandsInv, [Next]_vars PROVE BandsInv'
    OBVIOUS
  <1> USE RunsAssumption
  <1>0. \A s \in Scanners, v \in Severities : NoSummary[s][v] = 0 /\ NoSeverities[v] = 0
    BY DEF NoSummary, NoSeverities
  <1>s. \A v \in Severities \ Bands("secrets") : \A i \in RunIds : secretAcc[i][v] = 0
    <2>1. "secrets" \in Scanners
      BY DEF Scanners
    <2>2. QED
      BY <2>1 DEF BandsInv
  <1>1. ASSUME NEW q \in Requests, Create(q) \/ Start(q) \/ CheckoutFails(q) \/ CloneFails(q)
        PROVE  BandsInv'
    <2>1. /\ \A i \in RunIds : live'[i] = live[i] \/ live'[i].sev = NoSummary
          /\ UNCHANGED <<acc, secretAcc, job>>
      BY <1>1, EarlyRows
    <2>2. QED
      BY <1>0, <2>1 DEF BandsInv, Known
  <1>2. ASSUME NEW q \in Requests, Report(q) PROVE BandsInv'
    <2>1. /\ live'[IdOf[q]].sev = job[q].sev
          /\ \A i \in RunIds \ {IdOf[q]} : live'[i] = live[i]
          /\ UNCHANGED <<acc, secretAcc, job>>
      BY <1>2, ReportEffect DEF Report
    <2>2. QED
      BY <2>1 DEF BandsInv, Known
  <1>3. ASSUME NEW q \in Requests, NEW v \in Severities, Find(q, v) PROVE BandsInv'
    <2>1. PICK h \in Scanners : h = Scanner(q)
      BY <1>3, ScannerType DEF Find
    <2>2. /\ v \in Bands(h) /\ live' = live
          /\ acc' = [acc EXCEPT ![IdOf[q]][h][v] = @ + 1]
          /\ secretAcc' = IF h = "secrets" THEN [secretAcc EXCEPT ![IdOf[q]][v] = @ + 1]
                          ELSE secretAcc
      BY <1>3, <2>1 DEF Find, Remembered, SecretRemembered
    <2>3. \A p \in Requests : job'[p].sev = job[p].sev
      BY <1>3, SevKept DEF Find
    <2>4. ASSUME NEW s \in Scanners, NEW w \in Severities \ Bands(s), NEW i \in RunIds
          PROVE  acc'[i][s][w] = 0
      <3>1. acc[i][s][w] = 0
        BY DEF BandsInv
      <3>2. CASE i # IdOf[q] \/ s # h
        BY <2>2, <3>1, <3>2 DEF TypeOK
      <3>3. CASE i = IdOf[q] /\ s = h
        BY <2>2, <3>1, <3>3 DEF TypeOK, SeverityCounts
      <3>4. QED
        BY <3>2, <3>3
    <2>5. ASSUME NEW w \in Severities \ Bands("secrets"), NEW i \in RunIds
          PROVE  secretAcc'[i][w] = 0
      <3>1. CASE h = "secrets"
        BY <1>s, <2>2, <3>1 DEF TypeOK, SeverityCounts
      <3>2. CASE h # "secrets"
        BY <1>s, <2>2, <3>2
      <3>3. QED
        BY <3>1, <3>2
    <2>6. /\ \A s \in Scanners : \A w \in Severities \ Bands(s) : \A i \in RunIds : acc'[i][s][w] = 0
          /\ \A w \in Severities \ Bands("secrets") : \A i \in RunIds : secretAcc'[i][w] = 0
      BY <2>4, <2>5
    <2>7. \A s \in Scanners : \A w \in Severities \ Bands(s) :
             /\ \A i \in RunIds : live'[i] # NoRow => live'[i].sev[s][w] = 0
             /\ \A p \in Requests : job'[p].sev[s][w] = 0
      BY <2>2, <2>3 DEF BandsInv, Known
    <2>8. QED
      BY <2>6, <2>7, BandsParts
  <1>4. ASSUME NEW q \in Requests, ScannerReturns(q) PROVE BandsInv'
    <2>1. PICK h \in Scanners : h = Scanner(q)
      BY <1>4, ScannerType DEF ScannerReturns
    <2>2. /\ live' = live
          /\ acc' = [acc EXCEPT ![IdOf[q]][h] = NoSeverities]
          /\ secretAcc' = IF h = "secrets" THEN [secretAcc EXCEPT ![IdOf[q]] = NoSeverities]
                          ELSE secretAcc
          /\ \A p \in Requests \ {q} : job'[p] = job[p]
          /\ job'[q].sev = [job[q].sev EXCEPT ![h] = Tally(q, h)]
      BY <1>4, <2>1 DEF ScannerReturns, SecretTaken, TypeOK
    <2>3. \A w \in Severities \ Bands(h) : Tally(q, h)[w] = 0
      BY DEF Tally, BandsInv
    <2>4. ASSUME NEW s \in Scanners, NEW w \in Severities \ Bands(s)
          PROVE  job'[q].sev[s][w] = 0
      BY <2>2, <2>3 DEF BandsInv, TypeOK, Job
    <2>5. ASSUME NEW s \in Scanners, NEW w \in Severities \ Bands(s), NEW i \in RunIds
          PROVE  acc'[i][s][w] = 0
      <3>1. CASE i # IdOf[q] \/ s # h
        BY <2>2, <3>1 DEF BandsInv, TypeOK
      <3>2. CASE i = IdOf[q] /\ s = h
        BY <1>0, <2>2, <3>2 DEF TypeOK
      <3>3. QED
        BY <3>1, <3>2
    <2>6. ASSUME NEW w \in Severities \ Bands("secrets"), NEW i \in RunIds
          PROVE  secretAcc'[i][w] = 0
      <3>1. secretAcc[i][w] = 0
        BY <1>s
      <3>2. CASE h = "secrets" /\ i = IdOf[q]
        BY <1>0, <2>2, <3>2 DEF TypeOK
      <3>3. CASE h # "secrets" \/ i # IdOf[q]
        BY <2>2, <3>1, <3>3 DEF TypeOK
      <3>4. QED
        BY <3>2, <3>3
    <2>7. /\ \A s \in Scanners : \A w \in Severities \ Bands(s) :
                \A i \in RunIds : live'[i] # NoRow => live'[i].sev[s][w] = 0
          /\ \A s \in Scanners : \A w \in Severities \ Bands(s) :
                \A p \in Requests \ {q} : job'[p].sev[s][w] = 0
      BY <2>2 DEF BandsInv, Known
    <2>8. \A s \in Scanners : \A w \in Severities \ Bands(s) :
             \A p \in Requests : job'[p].sev[s][w] = 0
      BY <2>4, <2>7
    <2>9. /\ \A s \in Scanners : \A w \in Severities \ Bands(s) : \A i \in RunIds : acc'[i][s][w] = 0
          /\ \A w \in Severities \ Bands("secrets") : \A i \in RunIds : secretAcc'[i][w] = 0
      BY <2>5, <2>6
    <2>10. QED
      BY <2>7, <2>8, <2>9, BandsParts
  <1>5. ASSUME NEW q \in Requests, WorkspaceOK(q) \/ MkdirTemp(q) \/ CloneOK(q) \/ FindDependency(q) \/ Return(q)
        PROVE  BandsInv'
    <2>1. UNCHANGED <<live, acc, secretAcc>>
      BY <1>5 DEF WorkspaceOK, MkdirTemp, CloneOK, FindDependency, Return
    <2>2. \A p \in Requests : job'[p].sev = job[p].sev
      BY <1>5, SevKept DEF WorkspaceOK, MkdirTemp, CloneOK, FindDependency, Return
    <2>3. /\ \A s \in Scanners : \A w \in Severities \ Bands(s) :
                \A i \in RunIds : acc'[i][s][w] = 0 /\ (live'[i] # NoRow => live'[i].sev[s][w] = 0)
          /\ \A w \in Severities \ Bands("secrets") : \A i \in RunIds : secretAcc'[i][w] = 0
      BY <1>s, <2>1 DEF BandsInv, Known
    <2>4. \A s \in Scanners : \A w \in Severities \ Bands(s) : \A p \in Requests :
             job'[p].sev[s][w] = 0
      BY <2>2 DEF BandsInv
    <2>5. QED
      BY <2>3, <2>4, BandsParts
  <1>6. CASE Environment
    <2>1. CASE Crash
      BY <1>0, <2>1 DEF Crash, BandsInv, Known
    <2>2. CASE ~Crash
      <3>1. UNCHANGED <<live, acc, secretAcc, job>>
        BY <1>6, <2>2 DEF Environment, Landing, LandRow, LandFinding, DropRow, DropFinding,
                          Merge, Tick
      <3>2. QED
        BY <3>1 DEF BandsInv, Known
    <2>3. QED
      BY <2>1, <2>2
  <1>7. CASE UNCHANGED vars
    BY <1>7 DEF vars, BandsInv, Known
  <1>8. QED
    BY <1>1, <1>2, <1>3, <1>4, <1>5, <1>6, <1>7, Steps DEF JobStep

LEMMA BandsInvariant == Spec => []BandsInv
  <1>1. Init => BandsInv
    <2> SUFFICES ASSUME Init PROVE BandsInv
      OBVIOUS
    <2>1. \A s \in Scanners, v \in Severities : NoSummary[s][v] = 0 /\ NoSeverities[v] = 0
      BY DEF NoSummary, NoSeverities
    <2>2. QED
      BY <2>1, RunsAssumption DEF Init, BandsInv, Known, NewJob
  <1>2. QED
    BY <1>1, BandsStep, TypeCorrect, PTL DEF Spec

(* A gate that found its run completed goes on to the remembered run, which
   stays what it was. *)
CoverInv ==
    /\ gate.known =>
          /\ gate.form = "gate" /\ gate.at \notin {"security_runs", "vuln_findings"}
          /\ DistinctIds => \A i \in gate.ids : CompletedRun(i)
    /\ PassCoversUnlanded

(* What a gate fails for when it is stored, it fails for when it is
   remembered. *)
LEMMA LiveBandsCover ==
    ASSUME NEW min \in {"critical", "high", "medium", "Medium", "low", "other"}
    PROVE  StoredBands("gate", min) \subseteq LiveBands(min) \cap Severities
  BY DEF StoredBands, LiveBands, Lower, Severities

(* Counts of which one is not zero have a sum that is not. *)
LEMMA TotalPositive ==
    ASSUME NEW m \in SeverityCounts, NEW v \in Severities, m[v] > 0
    PROVE  Total(m) > 0
  BY DEF Total, SeverityCounts, Severities

(* The summary of a completed run shows the gate every finding in it. *)
LEMMA SummaryShows ==
    ASSUME TypeOK, BandsInv, NEW i \in RunIds, Accounted(i), CompletedRun(i),
           NEW min \in {"critical", "high", "medium", "low", "other"},
           NEW s \in {"secrets", "sast", "iac"},
           AnyOf(live[i].sev[s], StoredBands("gate", min))
    PROVE  LiveFails(live[i], min)
  <1>1. PICK v \in StoredBands("gate", min) : live[i].sev[s][v] > 0
    BY DEF AnyOf
  <1>2. v \in LiveBands(min) /\ v \in Severities
    BY LiveBandsCover
  <1>3. s \in Scanners \ {"sbom"} /\ live[i] \in Row
    BY DEF Scanners, CompletedRun, Known, TypeOK
  <1>4. live[i].sev[s] \in SeverityCounts
    BY <1>3 DEF Row
  <1>5. live[i].counts[s] > 0
    <2>1. live[i].counts[s] = Total(live[i].sev[s])
      BY <1>3 DEF Accounted, CompletedRun
    <2>2. Total(live[i].sev[s]) > 0
      BY <1>1, <1>2, <1>4, TotalPositive
    <2>3. QED
      BY <2>1, <2>2
  <1>6. v \in Bands(s)
    BY <1>1, <1>2, <1>3 DEF BandsInv, CompletedRun
  <1>7. CASE s = "secrets"
    BY <1>1, <1>2, <1>7 DEF LiveFails, AnyOf
  <1>8. CASE s = "sast"
    <2>1. Lower(min) # "critical"
      BY <1>6, <1>8 DEF Bands, SastBands, StoredBands, Lower
    <2>2. QED
      BY <1>1, <1>2, <1>5, <1>8, <2>1 DEF LiveFails, AnyOf
  <1>9. CASE s = "iac"
    <2>1. min \in {"medium", "low"}
      BY <1>6, <1>9 DEF Bands, IacBands, StoredBands, Lower
    <2>2. QED
      BY <1>5, <1>9, <2>1 DEF LiveFails, IacFails
  <1>10. QED
    BY <1>7, <1>8, <1>9

(* The look at the remembered run finds what is in its summary. *)
LEMMA LookCovers ==
    ASSUME TypeOK, BandsInv, SummaryAccounts, GateTypeOK, CoverInv, LookAtLive
    PROVE  CoverInv'
  <1>1. gate \in Evaluation /\ UNCHANGED vars
    BY DEF GateTypeOK, Evaluation, Ats, LookAtLive
  <1> DEFINE fails == \/ gate.fail
                      \/ \E i \in gate.ids :
                           /\ Known(i)
                           /\ \/ gate.scope = "otherOrg"
                              \/ gate.scope = "own" /\ LiveFails(live[i], gate.min)
  <1>2. gate' = Ended(fails)
    BY DEF LookAtLive
  <1>3. CASE fails
    BY <1>2, <1>3 DEF Ended, NoGate, CoverInv, PassCoversUnlanded, Passed
  <1>4. CASE ~fails
    <2>1. gate' = [gate EXCEPT !.at = "nothing", !.verdict = "pass"]
      BY <1>2, <1>4 DEF Ended
    <2>2. /\ gate'.at = "nothing" /\ gate'.ids = gate.ids /\ gate'.form = gate.form
          /\ gate'.min = gate.min /\ gate'.known = gate.known /\ gate'.scope = gate.scope
      BY <1>1, <2>1 DEF Evaluation
    <2>3. ASSUME DistinctIds, gate.known, gate.scope = "own", gate.min # "Medium",
                 NEW i \in gate.ids, NEW s \in {"secrets", "sast", "iac"}
          PROVE  ~AnyOf(live[i].sev[s], StoredBands("gate", gate.min))
      <3>1. i \in RunIds /\ CompletedRun(i) /\ Accounted(i)
        BY <1>1, <2>3 DEF CoverInv, SummaryAccounts, Evaluation
      <3>2. gate.min \in {"critical", "high", "medium", "low", "other"}
        BY <1>1, <2>3, GateAssumption DEF Evaluation
      <3>3. ~LiveFails(live[i], gate.min)
        BY <1>4, <2>3, <3>1 DEF CompletedRun
      <3>4. QED
        BY <3>1, <3>2, <3>3, SummaryShows
    <2>4. PassCoversUnlanded'
      BY <1>1, <2>2, <2>3 DEF PassCoversUnlanded, Passed, vars, DistinctIds
    <2>5. QED
      BY <1>1, <2>2, <2>4 DEF CoverInv, CompletedRun, Known, vars, DistinctIds
  <1>5. QED
    BY <1>3, <1>4

(* Until then a gate that found its run completed has not passed. *)
LEMMA OthersCover ==
    ASSUME GateTypeOK, CoverInv, Evaluations, ~LookAtLive
    PROVE  CoverInv'
  <1> USE GateAssumption
  <1>1. gate \in Evaluation /\ (gate.verdict = "none" \/ Idle)
    BY DEF GateTypeOK, Evaluation, Ats
  <1>2. ASSUME NEW i \in RunIds, NEW min \in MinSeverities, NEW scope \in Scopes,
               evaluateScopedGate(i, min, scope)
        PROVE  CoverInv'
    <2>1. CASE scope = "noOrg"
      BY <1>2, <2>1 DEF evaluateScopedGate, NoGate, CoverInv, PassCoversUnlanded, Passed
    <2>2. CASE scope # "noOrg"
      BY <1>2, <2>2 DEF evaluateScopedGate, NoGate, CoverInv, PassCoversUnlanded, Passed,
                        CompletedRun, Known, vars
    <2>3. QED
      BY <2>1, <2>2
  <1>3. ASSUME NEW i \in RunIds, NEW min \in MinSeverities, NEW scope \in Scopes,
               NEW form \in Forms, handleSecurityPRCheck(form, i, min, scope)
        PROVE  CoverInv'
    <2>1. gate'.known = FALSE
      BY <1>3 DEF handleSecurityPRCheck, NoGate
    <2>2. QED
      BY <2>1 DEF CoverInv, PassCoversUnlanded
  <1>4. ASSUME QueryRuns \/ QueryVulns PROVE CoverInv'
    <2>1. gate.known = FALSE
      BY <1>1, <1>4 DEF QueryRuns, QueryVulns, CoverInv, Evaluation
    <2>2. gate'.known = FALSE
      <3>1. \A fails : Ended(fails).known = FALSE /\ Onward(fails).known = FALSE
        BY <1>1, <2>1 DEF Ended, Onward, NoGate, Evaluation
      <3>2. CASE QueryVulns
        BY <3>1, <3>2 DEF QueryVulns
      <3>3. CASE QueryRuns
        BY <1>1, <2>1, <3>1, <3>3 DEF QueryRuns, Evaluation
      <3>4. QED
        BY <1>4, <3>2, <3>3
    <2>3. QED
      BY <2>2 DEF CoverInv, PassCoversUnlanded
  <1>5. ASSUME QueryTable \/ QueryFails PROVE CoverInv'
    <2>1. CASE gate.known
      <3>1. gate.form = "gate" /\ gate.at \in Tables /\ gate.verdict = "none"
        BY <1>1, <1>5, <2>1 DEF QueryTable, QueryFails, CoverInv, Idle, Tables
      <3>2. After(gate.at) \in Tables \cup {"live"}
        BY <3>1 DEF After, Tables
      <3>3. ASSUME NEW fail \in BOOLEAN
            PROVE  /\ Onward(fail) \in Evaluation
                   /\ Onward(fail).at \in Tables \cup {"live"} /\ Onward(fail).form = "gate"
                   /\ Onward(fail).verdict = "none" /\ Onward(fail).ids = gate.ids
        <4>1. Onward(fail) = [gate EXCEPT !.at = After(gate.at), !.fail = fail]
          BY <3>2 DEF Onward, Tables
        <4>2. Onward(fail) \in Evaluation
          BY <1>1, <3>1, OnwardType
        <4>3. QED
          BY <1>1, <3>1, <3>2, <4>1, <4>2 DEF Evaluation
      <3>4. /\ gate'.at \in Tables \cup {"live"} /\ gate'.form = "gate"
            /\ gate'.verdict = "none" /\ gate'.ids = gate.ids /\ UNCHANGED vars
        <4>1. CASE QueryTable
          <5>1. FailAfter(gate.at) \in BOOLEAN
            BY <1>1 DEF FailAfter, Evaluation
          <5>2. QED
            BY <3>3, <4>1, <5>1 DEF QueryTable
        <4>2. CASE QueryFails
          <5> DEFINE next == Onward(gate.fail)
          <5>1. gate' = [next EXCEPT !.erred = (next.verdict # "fail")] /\ UNCHANGED vars
            BY <3>1, <4>2 DEF QueryFails, Tables
          <5>2. gate.fail \in BOOLEAN
            BY <1>1 DEF Evaluation
          <5>3. /\ next \in Evaluation
                /\ next.at \in Tables \cup {"live"} /\ next.form = "gate"
                /\ next.verdict = "none" /\ next.ids = gate.ids
            BY <3>3, <5>2
          <5> HIDE DEF next
          <5>4. QED
            BY <5>1, <5>3 DEF Evaluation
        <4>3. QED
          BY <1>5, <4>1, <4>2
      <3>5. PassCoversUnlanded'
        BY <3>4 DEF PassCoversUnlanded, Passed
      <3>6. QED
        BY <2>1, <3>4, <3>5 DEF CoverInv, CompletedRun, Known, vars, DistinctIds, Tables
    <2>2. CASE ~gate.known
      <3>1. gate'.known = FALSE
        BY <1>1, <1>5, <2>2 DEF QueryTable, QueryFails, Onward, Ended, NoGate, Evaluation
      <3>2. QED
        BY <3>1 DEF CoverInv, PassCoversUnlanded
    <2>3. QED
      BY <2>1, <2>2
  <1>6. QED
    BY <1>2, <1>3, <1>4, <1>5 DEF Evaluations

(* The runs go on beside the gate without touching a completed one. *)
LEMMA RunsCover ==
    ASSUME TypeOK, PlaceInv, GateTypeOK, CoverInv, Runs
    PROVE  CoverInv'
  <1>1. CASE crashes' = crashes
    <2>1. gate' = gate /\ [Next]_vars /\ ~Crash
      BY <1>1 DEF Runs, RunsGoOn, Crash, TypeOK
    <2>2. ASSUME DistinctIds, gate.known, NEW i \in gate.ids PROVE live'[i] = live[i]
      <3>1. i \in RunIds /\ Known(i) /\ live[i].status \in Terminal
        BY <2>2 DEF GateTypeOK, CoverInv, CompletedRun, Terminal
      <3>2. QED
        BY <2>1, <2>2, <3>1, OutcomeKept
    <2>3. QED
      BY <2>1, <2>2 DEF CoverInv, PassCoversUnlanded, Passed, CompletedRun, Known, DistinctIds
  <1>2. CASE crashes' # crashes
    BY <1>2 DEF Runs, NoGate, CoverInv, PassCoversUnlanded
  <1>3. QED
    BY <1>1, <1>2

LEMMA CoverStep ==
    /\ TypeOK /\ PlaceInv /\ BandsInv /\ SummaryAccounts /\ GateTypeOK /\ CoverInv
    /\ [GNext]_<<vars, ci, gvars>>
    => CoverInv'
  <1> SUFFICES ASSUME TypeOK, PlaceInv, BandsInv, SummaryAccounts, GateTypeOK, CoverInv,
                      [GNext]_<<vars, ci, gvars>>
               PROVE  CoverInv'
    OBVIOUS
  <1>1. CASE Evaluations
    BY <1>1, LookCovers, OthersCover
  <1>2. CASE UNCHANGED <<vars, gate>>
    BY <1>2 DEF vars, CoverInv, PassCoversUnlanded, Passed, CompletedRun, Known, DistinctIds
  <1>3. QED
    BY <1>1, <1>2, RunsCover, GateSteps DEF gvars

(* With distinct ids, and whatever the writer has not landed or has dropped,
   whichever queries fail: a gate that found its run completed passes only if
   the secret, SAST and IaC findings in the run's summary do not block. *)
THEOREM PassIsOfNoneSummed == GSpec => []PassCoversUnlanded
  <1>1. GInit => CoverInv
    BY DEF GInit, NoGate, CoverInv, PassCoversUnlanded
  <1>2. CoverInv => PassCoversUnlanded
    BY DEF CoverInv
  <1>3. QED
    BY <1>1, <1>2, CoverStep, GateRefinesRuns, GateTypeCorrect, TypeCorrect, PlaceInvariant,
       BandsInvariant, SummaryIsExact, PTL DEF GSpec

-----------------------------------------------------------------------------
(* What readers are told *)

Reads == \E i \in RunIds : \/ handleSecurityRunGet(i)
                          \/ \E t \in FindingTables : handleSecurityRunFindings(i, t)
                          \/ handleSecurityRunsList

(* A reader leaves the runs and CI's rows alone; the runs and an ingest leave
   alone what readers know, and what CI brought stays where it is. *)
LEMMA ReadSteps ==
    ASSUME [RNext]_<<vars, ci, rvars>>
    PROVE  \/ Reads /\ UNCHANGED vars /\ UNCHANGED ci
           \/ handleSecurityRunsList /\ UNCHANGED vars /\ UNCHANGED ci
           \/ [Next]_vars /\ UNCHANGED rvars /\ ciLanded \subseteq ciLanded'
  <1>1. Reads \/ handleSecurityRunsList => UNCHANGED vars /\ UNCHANGED ci
    BY DEF Reads, handleSecurityRunGet, handleSecurityRunFindings, handleSecurityRunsList
  <1>2. Ingests => UNCHANGED vars /\ ciLanded \subseteq ciLanded'
    BY DEF Ingests, Ingest, SettleIngested
  <1>3. RunsGoOn => Next /\ ciLanded \subseteq ciLanded'
    BY DEF RunsGoOn
  <1>4. UNCHANGED ci => ciLanded \subseteq ciLanded'
    BY DEF ci
  <1>5. QED
    BY <1>1, <1>2, <1>3, <1>4 DEF RNext, Reads

(* CI's rows are findings. *)
CiRowsOK == ciSending \subseteq Finding /\ ciLanded \subseteq Finding

LEMMA CiRowsStep == CiRowsOK /\ [RNext]_<<vars, ci, rvars>> => CiRowsOK'
  <1> SUFFICES ASSUME CiRowsOK, [RNext]_<<vars, ci, rvars>> PROVE CiRowsOK'
    OBVIOUS
  <1> USE DEF CiRowsOK
  <1>1. ASSUME NEW f \in Posted PROVE RowFor(f) \in Finding
    <2>1. f \in [id: RunIds, scanner: {"secrets", "sast", "iac", "container"},
                 severity: Severities \cup {"none"}]
      BY IngestAssumption
    <2>2. QED
      BY <2>1 DEF RowFor, handleSecuritySecretsIngest, handleSecuritySASTIngest,
          handleSecurityIaCIngest, handleSecurityContainerIngest, nz, Finding, Severities,
          Scanners
  <1>2. CASE Ingests
    BY <1>1, <1>2 DEF Ingests, Ingest, SettleIngested
  <1>3. CASE RunsGoOn
    BY <1>3 DEF RunsGoOn
  <1>4. CASE UNCHANGED ci
    BY <1>4 DEF ci
  <1>5. QED
    BY <1>2, <1>3, <1>4 DEF RNext, handleSecurityRunGet, handleSecurityRunFindings,
       handleSecurityRunsList, ci

LEMMA CiRowsInvariant == RSpec => []CiRowsOK
  <1>1. RInit => CiRowsOK
    BY DEF RInit, CiInit, CiRowsOK
  <1>2. QED
    BY <1>1, CiRowsStep, PTL DEF RSpec

(* Beside their readers, the runs do what they do without them. *)
LEMMA ReadsRefineRuns == RSpec => Spec
  <1>1. RInit => Init
    BY DEF RInit, CiInit
  <1>2. [RNext]_<<vars, ci, rvars>> => [Next]_vars
    BY ReadSteps DEF vars
  <1>3. QED
    BY <1>1, <1>2, PTL DEF RSpec, Spec

(* What GET answers is a row, or none. *)
LEMMA AnswerType ==
    ASSUME TypeOK, NEW i \in RunIds, NEW row \in Answers(i)
    PROVE  row \in Row \cup {NoRow}
  BY DEF Answers, Unmerged, TypeOK, Known

LEMMA ReadsTypeStep ==
    TypeOK /\ CiRowsOK /\ ReadsTypeOK /\ [RNext]_<<vars, ci, rvars>> => ReadsTypeOK'
  <1> SUFFICES ASSUME TypeOK, CiRowsOK, ReadsTypeOK, [RNext]_<<vars, ci, rvars>> PROVE ReadsTypeOK'
    OBVIOUS
  <1> USE DEF ReadsTypeOK
  <1>1. ASSUME NEW i \in RunIds, handleSecurityRunGet(i) PROVE ReadsTypeOK'
    BY <1>1, AnswerType DEF handleSecurityRunGet
  <1>2. ASSUME NEW i \in RunIds, NEW t \in FindingTables, handleSecurityRunFindings(i, t)
        PROVE  ReadsTypeOK'
    <2>1. FoundIn(t, i) \subseteq Finding
      BY DEF FoundIn, TypeOK, CiRowsOK
    <2>2. QED
      BY <1>2, <2>1 DEF handleSecurityRunFindings
  <1>3. ASSUME handleSecurityRunsList PROVE ReadsTypeOK'
    <2>1. {row.id : row \in table} \subseteq RunIds
      BY DEF TypeOK, Row
    <2>2. QED
      BY <1>3, <2>1 DEF handleSecurityRunsList
  <1>4. CASE UNCHANGED rvars
    BY <1>4 DEF rvars
  <1>5. QED
    BY <1>1, <1>2, <1>3, <1>4, ReadSteps DEF Reads

(* Readers are told rows and findings. *)
THEOREM ReadsTypeCorrect == RSpec => []ReadsTypeOK
  <1>1. RInit => ReadsTypeOK
    BY DEF RInit, ReadsTypeOK
  <1>2. QED
    BY <1>1, ReadsTypeStep, CiRowsInvariant, ReadsRefineRuns, TypeCorrect, PTL DEF RSpec

(* The job of a run that has a completed row, wherever the row is, has told. *)
Over == {"scoring", "done", "dead"}

(* A completed row has every finding of its run. *)
Full(row) ==
    row.status \in Completed =>
        /\ \A q \in Requests : IdOf[q] = row.id => pc[q] \in Over
        /\ \A s \in Scanners, v \in Severities : Sent(row.id, s, v) => row.sev[s][v] > 0

(* The rows of completed runs are full, those that readers hold included. *)
FullInv ==
    DistinctIds =>
        /\ \A row \in outbox \cup table : Full(row)
        /\ \A i \in RunIds : shown[i] # NoRow => shown[i].id = i /\ Full(shown[i])

(* A page holds findings of the run that are in ClickHouse. *)
PageInv == \A i \in RunIds : \A f \in page[i] : f \in landed \cup ciLanded /\ f.id = i

(* A full row stays full: a job that has told finds nothing more. *)
LEMMA FullKept ==
    ASSUME TypeOK, DistinctIds, [Next]_vars, NEW row \in Row, Full(row)
    PROVE  Full(row)'
  <1> USE RunsAssumption
  <1> SUFFICES ASSUME row.status \in Completed
               PROVE  /\ \A q \in Requests : IdOf[q] = row.id => pc'[q] \in Over
                      /\ \A s \in Scanners, v \in Severities :
                            Sent(row.id, s, v)' => Sent(row.id, s, v)
    BY DEF Full, Completed
  <1>1. \A q \in Requests : IdOf[q] = row.id => pc[q] \in Over
    BY DEF Full
  <1>2. ASSUME NEW q \in Requests, Create(q) \/ JobStep(q), NEW p \in Requests, IdOf[p] = row.id
        PROVE  pc'[p] \in Over
    <2>1. CASE p = q
      BY <1>1, <1>2, <2>1 DEF Create, JobStep, Start, CheckoutFails, WorkspaceOK, MkdirTemp,
                        CloneOK, CloneFails, Find, FindDependency, ScannerReturns, Scanning,
                        Report, Return, Over, TypeOK
    <2>2. CASE p # q
      <3>1. pc'[p] = pc[p]
        BY <1>2, <2>2 DEF Create, JobStep, Start, CheckoutFails, WorkspaceOK, MkdirTemp,
                        CloneOK, CloneFails, Find, FindDependency, ScannerReturns,
                        Report, Return, TypeOK
      <3>2. QED
        BY <1>1, <1>2, <3>1
    <2>3. QED
      BY <2>1, <2>2
  <1>3. ASSUME NEW q \in Requests, Create(q) \/ JobStep(q), NEW s \in Scanners, NEW v \in Severities,
               Sent(row.id, s, v)'
        PROVE  Sent(row.id, s, v)
    <2>1. CASE \E w \in Severities : Find(q, w)
      <3>1. IdOf[q] # row.id
        BY <1>1, <2>1 DEF Find, Scanning, Over
      <3>2. QED
        BY <1>3, <2>1, <3>1 DEF Find, Sent
    <2>2. CASE ~\E w \in Severities : Find(q, w)
      <3>1. UNCHANGED <<sending, landed>>
        BY <1>3, <2>2 DEF Create, JobStep, Start, CheckoutFails, WorkspaceOK, MkdirTemp, store,
                          CloneOK, CloneFails, FindDependency, ScannerReturns, Report, Return
      <3>2. QED
        BY <1>3, <3>1 DEF Sent
    <2>3. QED
      BY <2>1, <2>2
  <1>4. CASE Environment
    <2>1. \A q \in Requests : IdOf[q] = row.id => pc'[q] \in Over
      <3>1. CASE Crash
        BY <1>1, <3>1 DEF Crash, Over
      <3>2. CASE ~Crash
        BY <1>1, <1>4, <3>2 DEF Environment, Landing, LandRow, LandFinding, DropRow, DropFinding,
                                Merge, Tick
      <3>3. QED
        BY <3>1, <3>2
    <2>2. (sending \cup landed)' \subseteq sending \cup landed
      BY <1>4 DEF Environment, Landing, LandRow, LandFinding, DropRow, DropFinding,
                  Merge, Tick, Crash, store
    <2>3. QED
      BY <2>1, <2>2 DEF Sent
  <1>5. CASE UNCHANGED vars
    BY <1>1, <1>5 DEF vars, store, Sent
  <1>6. QED
    BY <1>2, <1>3, <1>4, <1>5, Steps

(* A row that is recorded is full, and no step makes rows otherwise. *)
LEMMA FullRows ==
    ASSUME TypeOK, DistinctIds, SummaryAccounts', PlaceInv', LatestInv', TypeOK',
           [Next]_vars, \A row \in outbox \cup table : Full(row)
    PROVE  \A row \in (outbox \cup table)' : Full(row)'
  <1> USE RunsAssumption
  <1>1. ASSUME NEW i \in RunIds, Known(i)' PROVE Full(live[i])'
    <2>1. DistinctIds' /\ live'[i].id = i
      BY <1>1 DEF DistinctIds, LatestInv
    <2>2. live'[i].status \in Completed =>
             /\ \A q \in Requests : IdOf[q] = i => pc'[q] \in Over
             /\ \A s \in Scanners, v \in Severities : Sent(i, s, v)' => live'[i].sev[s][v] > 0
      BY <1>1, <2>1 DEF PlaceInv, SummaryAccounts, Accounted, Terminal, Over
    <2>3. QED
      BY <2>1, <2>2 DEF Full, Sent
  <1>2. ASSUME NEW q \in Requests, Create(q) \/ JobStep(q),
               NEW row \in (outbox \cup table)', row \notin outbox \cup table
        PROVE  Full(row)'
    <2>1. \E r : Record(r) /\ table' = table /\ r.id \in RunIds
      BY <1>2 DEF Create, JobStep, Start, CheckoutFails, WorkspaceOK, MkdirTemp, CloneOK,
                  CloneFails, Find, FindDependency, ScannerReturns, Report, Return, store,
                  UpdateRun, TypeOK
    <2>2. Record(row) /\ row.id \in RunIds
      BY <1>2, <2>1 DEF Record
    <2>3. row \in Row
      BY <1>2 DEF TypeOK
    <2>4. live'[row.id] = row /\ Known(row.id)'
      BY <2>2, <2>3, RecordEffect
    <2>5. QED
      BY <1>1, <2>2, <2>4 DEF Full
  <1>3. CASE Environment \/ UNCHANGED vars
    BY <1>3, FullKept DEF Environment, Landing, LandRow, LandFinding, DropRow, DropFinding,
                Merge, Tick, Crash, vars, store, TypeOK
  <1>4. QED
    <2>1. ASSUME NEW row \in (outbox \cup table)', row \in outbox \cup table PROVE Full(row)'
      BY <2>1, FullKept DEF TypeOK
    <2>2. QED
      BY <1>2, <1>3, <2>1, Steps

(* Nothing that readers are told is less than full. *)
LEMMA FullStep ==
    /\ TypeOK /\ TypeOK' /\ SummaryAccounts /\ SummaryAccounts' /\ PlaceInv /\ PlaceInv'
    /\ LatestInv /\ LatestInv' /\ ReadsTypeOK /\ FullInv /\ [RNext]_<<vars, ci, rvars>>
    => FullInv'
  <1> SUFFICES ASSUME TypeOK, TypeOK', SummaryAccounts, SummaryAccounts', PlaceInv, PlaceInv',
                      LatestInv, LatestInv', ReadsTypeOK, FullInv, [RNext]_<<vars, ci, rvars>>,
                      DistinctIds
               PROVE  FullInv'
    BY DEF FullInv, DistinctIds
  <1>0. /\ \A row \in outbox \cup table : Full(row)
        /\ \A i \in RunIds : shown[i] # NoRow => shown[i].id = i /\ Full(shown[i])
    BY DEF FullInv
  <1>1. CASE [Next]_vars /\ UNCHANGED rvars
    <2>1. \A row \in (outbox \cup table)' : Full(row)'
      BY <1>0, <1>1, FullRows
    <2>2. ASSUME NEW i \in RunIds, shown[i] # NoRow PROVE shown[i].id = i /\ Full(shown[i])'
      <3>1. PICK row \in Row : row = shown[i]
        BY <2>2 DEF ReadsTypeOK
      <3>2. Full(row)'
        BY <1>0, <1>1, <2>2, <3>1, FullKept
      <3>3. shown'[i] = row
        BY <1>1, <3>1 DEF rvars
      <3>4. QED
        BY <1>0, <2>2, <3>1, <3>2, <3>3 DEF Full
    <2>3. QED
      BY <1>1, <2>1, <2>2 DEF FullInv, rvars, Full
  <1>2. CASE UNCHANGED vars /\ shown' = shown
    <2>1. \A row : Full(row)' = Full(row)
      BY <1>2 DEF Full, vars, store, Sent
    <2>2. QED
      BY <1>0, <1>2, <2>1 DEF FullInv, vars, store, Full
  <1>3. ASSUME UNCHANGED vars, NEW i \in RunIds, handleSecurityRunGet(i) PROVE FullInv'
    <2>1. \A row : Full(row)' = Full(row)
      BY <1>3 DEF Full, vars, store, Sent
    <2>2. PICK row \in Answers(i) : shown' = [shown EXCEPT ![i] = row]
      BY <1>3 DEF handleSecurityRunGet
    <2>3. row # NoRow => row.id = i /\ Full(row)
      <3>1. CASE Known(i)
        <4>1. row = live[i] /\ row.id = i
          BY <2>2, <3>1 DEF Answers, LatestInv
        <4>2. row.status \in Completed =>
                 /\ \A q \in Requests : IdOf[q] = i => pc[q] \in Over
                 /\ \A s \in Scanners, v \in Severities : Sent(i, s, v) => row.sev[s][v] > 0
          BY <3>1, <4>1 DEF PlaceInv, SummaryAccounts, Accounted, Terminal, Over
        <4>3. QED
          BY <4>1, <4>2 DEF Full
      <3>2. CASE ~Known(i)
        BY <1>0, <2>2, <3>2 DEF Answers, Unmerged
      <3>3. QED
        BY <3>1, <3>2
    <2>4. \A j \in RunIds : shown'[j] # NoRow => shown'[j].id = j /\ Full(shown'[j])
      BY <1>0, <2>2, <2>3 DEF ReadsTypeOK
    <2>5. QED
      BY <1>0, <1>3, <2>1, <2>4 DEF FullInv, vars, store, Full
  <1>4. QED
    BY <1>1, <1>2, <1>3, ReadSteps DEF Reads, handleSecurityRunFindings, handleSecurityRunsList,
       rvars

(* What is on a page has landed, and stays. *)
LEMMA PageStep == TypeOK /\ ReadsTypeOK /\ PageInv /\ [RNext]_<<vars, ci, rvars>> => PageInv'
  <1> SUFFICES ASSUME TypeOK, ReadsTypeOK, PageInv, [RNext]_<<vars, ci, rvars>> PROVE PageInv'
    OBVIOUS
  <1>1. ASSUME NEW i \in RunIds, NEW t \in FindingTables, handleSecurityRunFindings(i, t)
        PROVE  PageInv'
    <2>1. \A f \in FoundIn(t, i) : f \in landed \cup ciLanded /\ f.id = i
      BY DEF FoundIn
    <2>2. \A j \in RunIds : \A f \in page'[j] : f \in landed \cup ciLanded /\ f.id = j
      BY <1>1, <2>1 DEF handleSecurityRunFindings, PageInv, ReadsTypeOK
    <2>3. QED
      BY <1>1, <2>2 DEF handleSecurityRunFindings, PageInv, vars, ci, store
  <1>2. CASE page' = page /\ UNCHANGED vars /\ UNCHANGED ci
    BY <1>2 DEF PageInv, vars, ci, store
  <1>3. CASE page' = page /\ [Next]_vars /\ ciLanded \subseteq ciLanded'
    <2>1. landed \subseteq landed'
      BY <1>3, StoreGrows
    <2>2. QED
      BY <1>3, <2>1 DEF PageInv
  <1>4. QED
    BY <1>1, <1>2, <1>3, ReadSteps
       DEF Reads, rvars, handleSecurityRunGet, handleSecurityRunsList

LEMMA FullInvariant == RSpec => [](FullInv /\ PageInv)
  <1>1. RInit => FullInv /\ PageInv
    BY DEF RInit, CiInit, Init, FullInv, PageInv
  <1>2. QED
    BY <1>1, FullStep, PageStep, ReadsRefineRuns, TypeCorrect, ReadsTypeCorrect,
       SummaryIsExact, PlaceInvariant, LatestInvariant, PTL DEF RSpec

(* Whatever lands, drops, merges and crashes between two requests: a run that a
   reader is told has completed has, in its summary, every finding that a page
   of its findings shows, in whichever order the two are read, unless CI filed
   the finding under the run. *)
THEOREM PageIsInSummary == RSpec => []PageAgrees
  <1>1. FullInv /\ PageInv /\ ReadsTypeOK => PageAgrees
    <2> SUFFICES ASSUME FullInv, PageInv, ReadsTypeOK, DistinctIds, NEW i \in RunIds,
                        shown[i] # NoRow, shown[i].status \in Completed, NEW f \in page[i] \ ciLanded
                 PROVE  shown[i].sev[f.scanner][f.severity] > 0
      BY DEF PageAgrees
    <2>1. f \in Finding /\ f \in landed /\ f.id = i
      BY DEF PageInv, ReadsTypeOK
    <2>2. f.scanner \in Scanners /\ f.severity \in Severities
          /\ f = [id |-> f.id, scanner |-> f.scanner, severity |-> f.severity]
      BY <2>1 DEF Finding
    <2>3. Sent(i, f.scanner, f.severity)
      BY <2>1, <2>2 DEF Sent
    <2>4. shown[i].id = i /\ Full(shown[i])
      BY DEF FullInv
    <2>5. QED
      BY <2>2, <2>3, <2>4 DEF Full
  <1>2. QED
    BY <1>1, FullInvariant, ReadsTypeCorrect, PTL

(* As long as a run is in the process no reader knows better, and of a run
   nobody has asked for nothing is known at all; of a run in a list a row
   stays in the table. *)
ForwardInv ==
    /\ DistinctIds =>
          /\ \A i \in RunIds : Known(i) => Rank(shown[i]) <= Rank(live[i])
          /\ \A q \in Requests :
                /\ pc[q] = "none" => /\ shown[IdOf[q]] = NoRow
                                     /\ RowsOf(IdOf[q]) = {}
                /\ pc[q] \in {"dispatched", "checkout", "cloning", "scanning"} => Known(IdOf[q])
    /\ \A i \in listed : Unmerged(i) # {}

LEMMA RankType ==
    /\ \A row : Rank(row) \in 0 .. 3
    /\ Rank(NoRow) = 0
    /\ \A row \in Row : row.status \in Terminal => Rank(row) = 3
    /\ \A row \in Row : row.status = "queued" => Rank(row) = 1
    /\ \A row \in Row : row.status = "running" => Rank(row) = 2
    /\ \A row \in Row : row.status \notin Terminal => Rank(row) <= 2
  BY NoRowAssumption DEF Rank, Row, Statuses, Terminal, Completed

(* The row that a step of a job leaves ranks no lower than the one before it. *)
LEMMA RankGrows ==
    ASSUME TypeOK, TypeOK', PlaceInv, DistinctIds, NEW q \in Requests, JobStep(q), NEW i \in RunIds,
           Known(i)
    PROVE  Known(i)' /\ Rank(live[i]) <= Rank(live'[i])
  <1> USE RunsAssumption
  <1>1. CASE i # IdOf[q] \/ Silent(q)
    <2>1. live'[i] = live[i]
      <3>1. CASE Silent(q)
        BY <3>1 DEF Silent, WorkspaceOK, MkdirTemp, CloneOK, Find, FindDependency,
                    ScannerReturns, Return
      <3>2. CASE ~Silent(q)
        BY <1>1, <3>2, EarlyEffect, ReportEffect DEF JobStep, Silent
      <3>3. QED
        BY <3>1, <3>2
    <2>2. QED
      BY <2>1, RankType DEF Known
  <1>2. CASE i = IdOf[q] /\ ~Silent(q)
    <2>1. Known(i)' /\ live'[i].status \in Terminal \cup {"running"}
      BY <1>2, EarlyEffect, ReportEffect DEF JobStep, Silent, Terminal
    <2>2. pc[q] \notin {"scoring", "done"}
      BY <1>2 DEF JobStep, Silent, Start, CheckoutFails, CloneFails, Report
    <2>3. live[i] \in Row /\ live'[i] \in Row
      BY <2>1 DEF TypeOK, Known
    <2>4. live[i].status \notin Terminal
      BY <1>2, <2>2 DEF PlaceInv
    <2>5. QED
      BY <2>1, <2>3, <2>4, RankType
  <1>3. QED
    BY <1>1, <1>2

(* The runs keep it, whatever readers know. *)
LEMMA ForwardRuns ==
    ASSUME TypeOK, TypeOK', PlaceInv, ReadsTypeOK, ForwardInv, [Next]_vars, UNCHANGED rvars
    PROVE  ForwardInv'
  <1> USE RunsAssumption
  <1>0. \A i \in listed' : Unmerged(i)' # {}
    <2> SUFFICES ASSUME NEW i \in listed PROVE Unmerged(i)' # {}
      BY DEF rvars
    <2>1. Unmerged(i) # {}
      BY DEF ForwardInv
    <2>2. CASE \E old, row \in table : Merge(old, row)
      BY <2>1, <2>2 DEF Merge, Unmerged
    <2>3. CASE ~\E old, row \in table : Merge(old, row)
      <3>1. table \subseteq table'
        <4>1. CASE \E q \in Requests : Create(q) \/ JobStep(q)
          BY <4>1 DEF Create, JobStep, Start, CheckoutFails, WorkspaceOK, MkdirTemp, CloneOK,
                      CloneFails, Find, FindDependency, ScannerReturns, Report, Return, store
        <4>2. CASE Environment \/ UNCHANGED vars
          BY <2>3, <4>2 DEF Environment, Landing, LandRow, LandFinding, DropRow, DropFinding,
                            Tick, Crash, vars, store
        <4>3. QED
          BY <4>1, <4>2, Steps
      <3>2. QED
        BY <2>1, <3>1 DEF Unmerged
    <2>4. QED
      BY <2>2, <2>3
  <1> SUFFICES ASSUME DistinctIds
               PROVE  /\ \A i \in RunIds : Known(i)' => Rank(shown[i]) <= Rank(live'[i])
                      /\ \A q \in Requests :
                            /\ pc'[q] = "none" => /\ shown[IdOf[q]] = NoRow
                                                  /\ RowsOf(IdOf[q])' = {}
                            /\ pc'[q] \in {"dispatched", "checkout", "cloning", "scanning"}
                                  => Known(IdOf[q])'
    BY <1>0 DEF ForwardInv, DistinctIds, rvars, Rank, Known
  <1> USE DEF ForwardInv
  <1>1. ASSUME NEW q \in Requests, Create(q)
        PROVE  /\ \A i \in RunIds : Known(i)' => Rank(shown[i]) <= Rank(live'[i])
               /\ \A p \in Requests :
                     /\ pc'[p] = "none" => /\ shown[IdOf[p]] = NoRow
                                           /\ RowsOf(IdOf[p])' = {}
                     /\ pc'[p] \in {"dispatched", "checkout", "cloning", "scanning"}
                           => Known(IdOf[p])'
    <2>1. /\ pc[q] = "none" /\ shown[IdOf[q]] = NoRow
          /\ pc'[q] # "none" /\ \A p \in Requests \ {q} : pc'[p] = pc[p]
          /\ Known(IdOf[q])' /\ \A i \in RunIds \ {IdOf[q]} : live'[i] = live[i]
      <3>1. pc[q] = "none" /\ shown[IdOf[q]] = NoRow
        BY <1>1 DEF Create
      <3>2. pc' = [pc EXCEPT ![q] = "dispatched"] \/ pc' = [pc EXCEPT ![q] = "idle"]
        BY <1>1, CreateEffect
      <3>3. pc'[q] # "none" /\ \A p \in Requests \ {q} : pc'[p] = pc[p]
        BY <3>2 DEF TypeOK
      <3>4. QED
        BY <1>1, <3>1, <3>3, CreateEffect
    <2>2. \A i \in RunIds : Known(i)' => Rank(shown[i]) <= Rank(live'[i])
      BY <2>1, RankType DEF Known
    <2>3. ASSUME NEW p \in Requests, p # q
          PROVE  RowsOf(IdOf[p])' = RowsOf(IdOf[p]) /\ live'[IdOf[p]] = live[IdOf[p]]
      <3>1. IdOf[p] # IdOf[q]
        BY <2>3 DEF DistinctIds
      <3>2. QED
        BY <1>1, <2>1, <3>1 DEF Create, Record, RowsOf
    <2>4. QED
      BY <2>1, <2>2, <2>3 DEF Known
  <1>2. ASSUME NEW q \in Requests, JobStep(q)
        PROVE  /\ \A i \in RunIds : Known(i)' => Rank(shown[i]) <= Rank(live'[i])
               /\ \A p \in Requests :
                     /\ pc'[p] = "none" => /\ shown[IdOf[p]] = NoRow
                                           /\ RowsOf(IdOf[p])' = {}
                     /\ pc'[p] \in {"dispatched", "checkout", "cloning", "scanning"}
                           => Known(IdOf[p])'
    <2>1. /\ \A p \in Requests \ {q} : pc'[p] = pc[p]
          /\ pc[q] \in {"dispatched", "checkout", "cloning", "scanning", "scoring"}
          /\ pc'[q] # "none"
          /\ pc[q] = "scoring" => pc'[q] = "done"
      BY <1>2 DEF JobStep, Start, CheckoutFails, WorkspaceOK, MkdirTemp, CloneOK, CloneFails, Find,
                  FindDependency, ScannerReturns, Scanning, Report, Return, TypeOK
    <2>2. \A i \in RunIds : i # IdOf[q] => live'[i] = live[i]
      <3>1. CASE Silent(q)
        BY <3>1 DEF Silent, WorkspaceOK, MkdirTemp, CloneOK, Find, FindDependency,
                    ScannerReturns, Return
      <3>2. CASE ~Silent(q)
        BY <1>2, <3>2, EarlyEffect, ReportEffect DEF JobStep, Silent
      <3>3. QED
        BY <3>1, <3>2
    <2>3. pc[q] = "scoring" => live' = live
      BY <1>2 DEF JobStep, Start, CheckoutFails, WorkspaceOK, MkdirTemp, CloneOK, CloneFails, Find,
                  FindDependency, ScannerReturns, Scanning, Report, Return
    <2>4. \A i \in RunIds : Known(i)' => Rank(shown[i]) <= Rank(live'[i])
      <3> SUFFICES ASSUME NEW i \in RunIds, Known(i)' PROVE Rank(shown[i]) <= Rank(live'[i])
        OBVIOUS
      <3>1. Known(i)
        BY <2>1, <2>2, <2>3 DEF Known
      <3>2. Rank(shown[i]) <= Rank(live[i]) /\ Rank(live[i]) <= Rank(live'[i])
        BY <1>2, <3>1, RankGrows
      <3>3. QED
        BY <3>2, RankType
    <2>5. ASSUME NEW p \in Requests, pc'[p] = "none"
          PROVE  shown[IdOf[p]] = NoRow /\ RowsOf(IdOf[p])' = {}
      <3>1. p # q /\ pc[p] = "none"
        BY <2>1, <2>5
      <3>2. IdOf[p] # IdOf[q]
        BY <3>1 DEF DistinctIds
      <3>3. RowsOf(IdOf[p])' = RowsOf(IdOf[p])
        BY <1>2, <3>2 DEF JobStep, Start, CheckoutFails, WorkspaceOK, MkdirTemp, CloneOK, CloneFails,
                    Find, FindDependency, ScannerReturns, Report, Return, UpdateRun, Record, RowsOf,
                    store
      <3>4. QED
        BY <3>1, <3>3
    <2>6. ASSUME NEW p \in Requests, pc'[p] \in {"dispatched", "checkout", "cloning", "scanning"}
          PROVE  Known(IdOf[p])'
      <3>1. Known(IdOf[p])
        BY <2>1, <2>6
      <3>2. QED
        BY <1>2, <3>1, RankGrows
    <2>7. QED
      BY <2>4, <2>5, <2>6
  <1>3. CASE Environment
    <2>1. \A i \in RunIds : RowsOf(i)' \subseteq RowsOf(i)
      BY <1>3 DEF Environment, Landing, LandRow, LandFinding, DropRow, DropFinding, Merge,
                  Tick, Crash, RowsOf, store
    <2>2. CASE Crash
      BY <2>1, <2>2 DEF Crash, Known, Working
    <2>3. CASE ~Crash
      <3>1. UNCHANGED <<live, pc>>
        BY <1>3, <2>3 DEF Environment, Landing, LandRow, LandFinding, DropRow, DropFinding,
                          Merge, Tick
      <3>2. QED
        BY <2>1, <3>1 DEF Known
    <2>4. QED
      BY <2>2, <2>3
  <1>4. CASE UNCHANGED vars
    BY <1>4 DEF vars, store, Known, RowsOf
  <1>5. QED
    BY <1>1, <1>2, <1>3, <1>4, Steps

(* A reader keeps it: the process is asked first. *)
LEMMA ForwardReads ==
    ASSUME TypeOK, PlaceInv, LatestInv, ReadsTypeOK, ForwardInv, UNCHANGED vars,
           Reads \/ handleSecurityRunsList
    PROVE  ForwardInv'
  <1> USE RunsAssumption
  <1>1. ASSUME NEW i \in RunIds, handleSecurityRunGet(i) PROVE ForwardInv'
    <2>1. PICK row \in Answers(i) : shown' = [shown EXCEPT ![i] = row] /\ listed' = listed
      BY <1>1 DEF handleSecurityRunGet
    <2>2. Known(i) => row = live[i]
      BY <2>1 DEF Answers
    <2>3. ASSUME DistinctIds, NEW q \in Requests, pc[q] = "none", IdOf[q] = i PROVE row = NoRow
      <3>1. ~Known(i) /\ RowsOf(i) = {}
        BY <2>3 DEF PlaceInv, ForwardInv
      <3>2. QED
        BY <2>1, <3>1 DEF Answers, Unmerged, RowsOf
    <2>4. ASSUME DistinctIds, NEW j \in RunIds, Known(j) PROVE Rank(shown'[j]) <= Rank(live[j])
      BY <2>1, <2>2, <2>4, RankType DEF ForwardInv, ReadsTypeOK
    <2>5. ASSUME DistinctIds, NEW q \in Requests, pc[q] = "none" PROVE shown'[IdOf[q]] = NoRow
      BY <2>1, <2>3, <2>5 DEF ForwardInv, ReadsTypeOK
    <2>6. QED
      BY <2>1, <2>4, <2>5 DEF ForwardInv, vars, store, Known, RowsOf, Unmerged, DistinctIds
  <1>2. ASSUME handleSecurityRunsList PROVE ForwardInv'
    <2>1. \A i \in listed' : Unmerged(i) # {}
      BY <1>2 DEF handleSecurityRunsList, ForwardInv, Unmerged
    <2>2. QED
      BY <1>2, <2>1 DEF handleSecurityRunsList, ForwardInv, vars, store, Known, RowsOf, Unmerged,
                        DistinctIds
  <1>3. ASSUME NEW i \in RunIds, NEW t \in FindingTables, handleSecurityRunFindings(i, t)
        PROVE  ForwardInv'
    BY <1>3 DEF handleSecurityRunFindings, ForwardInv, vars, store, Known, RowsOf, Unmerged,
                DistinctIds
  <1>4. QED
    BY <1>1, <1>2, <1>3 DEF Reads

LEMMA ForwardInvariant == RSpec => []ForwardInv
  <1>1. RInit => ForwardInv
    BY RunsAssumption DEF RInit, CiInit, Init, ForwardInv, Known, RowsOf
  <1>2. QED
    BY <1>1, ForwardRuns, ForwardReads, ReadSteps, ReadsRefineRuns, TypeCorrect, ReadsTypeCorrect,
       PlaceInvariant, LatestInvariant, PTL DEF RSpec

(* While a process lives no reader sees its runs go back, and a run that a list
   has shown is found ever after, restarts, drops and merges included. *)
THEOREM ReadersGoForward == RSpec => ReadsGoForward
  <1> DEFINE Forward == DistinctIds => \A i \in RunIds :
                /\ Known(i) => Rank(shown'[i]) >= Rank(shown[i])
                /\ i \in listed /\ shown'[i] # shown[i] => shown'[i] # NoRow
  <1>1. TypeOK /\ ReadsTypeOK /\ ForwardInv /\ [RNext]_<<vars, ci, rvars>> => Forward
    <2> SUFFICES ASSUME TypeOK, ReadsTypeOK, ForwardInv, [RNext]_<<vars, ci, rvars>>, DistinctIds,
                        NEW i \in RunIds
                 PROVE  /\ Known(i) => Rank(shown'[i]) >= Rank(shown[i])
                        /\ i \in listed /\ shown'[i] # shown[i] => shown'[i] # NoRow
      OBVIOUS
    <2>1. CASE shown'[i] = shown[i]
      BY <2>1, RankType
    <2>2. CASE shown'[i] # shown[i]
      <3>1. PICK row \in Answers(i) : shown'[i] = row
        BY <2>2, ReadSteps DEF Reads, handleSecurityRunGet, handleSecurityRunFindings,
                               handleSecurityRunsList, rvars, ReadsTypeOK
      <3>2. Known(i) => row = live[i] /\ Rank(shown[i]) <= Rank(live[i])
        BY <3>1 DEF Answers, ForwardInv
      <3>3. i \in listed => row # NoRow
        BY <3>1, NoRowAssumption DEF Answers, ForwardInv, Unmerged, Known, TypeOK
      <3>4. QED
        BY <3>1, <3>2, <3>3, RankType
    <2>3. QED
      BY <2>1, <2>2
  <1>2. TypeOK /\ ReadsTypeOK /\ ForwardInv /\ [RNext]_<<vars, ci, rvars>> => [Forward]_<<vars, ci, rvars>>
    BY <1>1
  <1>3. QED
    BY <1>2, ReadsRefineRuns, TypeCorrect, ReadsTypeCorrect, ForwardInvariant,
       PTL DEF RSpec, ReadsGoForward
=============================================================================
