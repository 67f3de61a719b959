# OSA-API: TLA+ specifications

OSA-API is the application-security product of a family of services: it takes
scan requests, checks repositories out, runs scanners over them, stores the
findings and a score of each repository in ClickHouse, and answers a CI gate.
This directory holds TLA+ models of its core logic, the TLC configurations that
check them on small instances, and proofs, checked by TLAPS, of what matters
most for instances of any size. Paths are relative to `src/`.

Contents: [the system](#the-system), [the modules](#the-modules),
[the runs](#the-runs), [fairness](#fairness), [the proofs](#the-proofs),
[where code and documentation disagree](#where-code-and-documentation-disagree),
[what is not modelled](#what-is-not-modelled), [plan](#plan).

    tlc -workers 2 -config writer.cfg MCClickHouseWriter   # a run
    tlapm ClickHouseWriterProofs.tla                       # proofs

## The system

The service is one Go process (several replicas may run), handlers and jobs are
goroutines. ClickHouse holds all data that outlives the process. The account
manager (OAM), the repository service (ORA), the OSV database and git hosts
are asked over HTTP. The last column of each table names what makes a component correct.

### Components and their state

| Component | State | Operations | Correct when |
| --- | --- | --- | --- |
| ClickHouse writer, `clickhouse.go` | the semaphore `w.sem`; a goroutine per insert | `insertAsync` (blocks when `maxInFlightInserts` are out), `insert` (three attempts, back-off) | no token leaks; a blocked caller gets through; a row lands at most once per attempt and is called stored only if it landed |
| Security runs, `security_runs.go`, `security_scan.go`, `hub_github.go` | `securityRunLive` (run id to row), `findingSevByRun` and `secretSevByRun` (severity counters of all running jobs), checkout directories, rows of `security_runs` and the findings tables | `createSecurityRun`, `createPeerCVESecurityRun`, `runSecurityScanJob`, `updateSecurityRun`, `insertFindingRow` | a run's summary counts its own findings and no other's; an outcome stays; it survives late and repeated rows; checkouts go away; every job ends |
| Run admission, `security_runs.go`, `connector_scope.go`, `oam_product_guard.go`, `peer_scm_events.go` | none of its own: it depends on OAM's projects and ORA's connectors | `createSecurityRun`'s checks, `handleSecurityRunsBatch`, `handlePeerSCMEvents` | every run was admitted; the answer tells what was made |
| Readers of runs, `security_runs.go` | none; `securityRunLive`, then the tables without FINAL | `handleSecurityRunGet`, `handleSecurityRunFindings`, `handleSecurityRunsList` | nobody sees a run go back, or a page of its scanners' findings that disagrees with its run |
| AppSec gate and PR check, `gate.go`, `appsec.go` | none; read three or four tables, the gate `securityRunLive` too | `evaluateScopedGate`, `handleSecurityPRCheck` | a pass covers the findings that have landed, of every run that was asked about, and the gate's those that have not |
| Ingest of CI's findings, `appsec.go`, `appsec_deep.go` | rows of the findings tables, in no summary | `handleSecuritySecretsIngest`, `…SASTIngest`, `…IaCIngest`, `…ContainerIngest` | what CI brought counts in the checks like what a scan found |
| Repository score, `repo_score.go` | `repoScoreCache`, `repoScoreUpdateLocks`, rows of `repo_security_scores` | `mergeScannerFacets`, `compositeScore`, `updateRepoScoreAfterRun`, `loadRepoScore`, `persistRepoScore` | partial re-scans keep the other facets; the composite is an honest mean |
| CVE scan, `cve_scan.go`, `cve_http.go` | cache, singleflight map, request budget, a token bucket per host; one of each per process | `scanCVE`, `queryOSV`, `postJSON`, `tokenBucket.wait` | no failure makes a vulnerable dependency look clean; OSV is asked once; the rate holds; nobody waits for ever |
| Version ranges, `cve_version.go`, `vuln.go` | pure | `cmpVersion`, `nearestFix`, `introducedVersion`; `cmpSemver`, `versionLikelyVulnerable` | an order; the nearest upgrade; nobody is told there is no fix when there is one |
| Lockfile collection, `cve_collect.go` | pure | `collectLockfileDeps` and eight parsers | every pin is asked about, once, under its name and with its version |
| Legacy backfill, `legacy_ch_backfill.go` | rows of a table in two databases | count, compare, `INSERT SELECT` at boot | rows are copied, and once |
| Vulnerability inventory, `vuln.go`, `appsec.go`, `cve_scan.go` | `service_dependencies` and `vuln_findings`, both replacing; call sites of a week | `handleSBOMIngest`, `handleVulnMatch`, `rankReachability`, `rankReachabilityBatch`, `handleOSVEnrich`, `scanCVE`'s rows | an ingest is matched; "observed" and "not_observed" are true of the package they are said of |
| Lists, sums and policies, `appsec*.go`, `cve_status.go`; the IAST recorders | none | a page out per request | |
| Scanners, `security_scan.go`, `secret_placeholders.go`, `scripts/` | pure | text to findings | |
| Tenancy and authentication, `tenant*.go`, `auth_wire.go`, `peer_auth.go` | none | middlewares on external libraries | |
| Schema, `ch_config.go`, `ch_default.go`; start-up and runner arguments, `main.go`, `osa_job_min.go`; `helpers.go` | none | DDL at boot, argument lists, conversions | |

### How they interact

A request passes run admission, which asks OAM and ORA one question at a time.
It then records a queued row in `securityRunLive` and, through the writer, in
ClickHouse, and starts a job. The job records `running`, checks the code out,
calls the scanners one after the other, each sending findings through the
writer and counting them in the maps all jobs share, records the outcome, and
updates the repository's score. The cve scanner collects the pins of lockfiles,
asks OSV through the process's one cache, singleflight, budget and bucket,
chooses fixes with the version comparator, and ranks and files what it found in
the inventory that SBOM ingests, matches and enrichments share. The gate, the PR
check and the readers of runs see what has landed and, some of them, what the
process remembers. Before any of it a replica copies the hub's old rows.

### What is hard

* **Two copies that drift apart.** Runs and scores are in memory at once and in
  ClickHouse later, out of order, more than once, or not at all, because the
  writer gives up after three attempts. Reads mix the two. A restart leaves the second only.
* **Versions in milliseconds.** `ReplacingMergeTree` keeps the newest row by a
  time the process took before it took its lock or queued its row.
* **Shared counters.** All jobs count severities in the same two maps.
* **Questions one after the other.** Admission, the gate, the backfill and the
  matching put together answers of different moments; a question may fail in
  the middle, and a statement that failed may have been carried out.
* **Limits.** A query that orders by time and takes the newest rows depends on
  who has written since, and on whether rows of one key have been merged.
* **Shared waiting.** Semaphore, repository lock, flight and bucket make
  goroutines wait for each other; every error path has to release what it holds.
* **Numbers and forms.** Fractions of tokens, a rounded mean, versions of any
  length, eight lockfile formats of several generations each.

`PROJECT.json` lists the hazards, each at its line, with the properties that would
catch it, or with a note where no property does.

## The modules

    AsyncInsert  <--implements-- ClickHouseWriter
                                   (its promise: rows land late, again, or never)
                                      |                          |
    RunAdmission --makes--> SecurityRuns                     RepoScore
                            ^ EXTENDS                            : facet = run
                          CiIngest                           ScoreBook
                         ^ EXTENDS  ^ EXTENDS
                        Gate      RunReads
    Lockfiles ..deps.. CveFetch ..waits.. TokenBucket
                          : findings
    LegacyBackfill    VulnInventory    CveVersion <--EXTENDS-- FixChoice

Each is parameterised by constants; `MC…` modules give the sets of an instance,
`…Proofs` modules hold theorems. Definitions that start "A mutant:" are not
part of a model: each is a definition with a plausible mistake, kept beside the
right one; with it in the right one's place, the property `PROJECT.json` pairs it with fails.

**AsyncInsert** is what the rest of the service may rely on when it hands over
a row: zero to `Attempts` copies, in no order, "stored" only if it landed,
settled in the end.

**ClickHouseWriter** (`clickhouse.go`). `Acquire` is the send on `w.sem` in the
caller's goroutine, and the other steps of a row are `insert` in its own:
`ServerApplies` and `Reply200`/`ReplyLost` keep the request and its reply apart,
`TimedOut` leaves the request on its way (`late`), `Wake` begins the next
attempt, `Release` is the deferred receive. A row is one payload, handed over once.

**SecurityRuns** (`security_runs.go`, `security_scan.go`, `hub_github.go`,
`peer_scm_events.go`). `live` is `securityRunLive`, `acc` and `secretAcc` are the
two accumulators, `outbox`/`table` and `sending`/`landed` the rows of runs and
of findings on their way and in ClickHouse, `clones` the checkouts on the disk,
`pc`/`job` the goroutine of each request. `Record` is `rememberSecurityRun` with
`insertAsync`, so each status update is a row and an entry in the same step;
`Find` is `insertFindingRow`; `ScannerReturns` is the end of the loop body, which
takes and clears the accumulators; `Merge` is the engine's. The outbox behaves as
AsyncInsert promises: `LandRow` may leave the row in it, `DropRow` takes it away.

**CiIngest** (`appsec.go`, `appsec_deep.go`) EXTENDS SecurityRuns with the four handlers by
which CI files findings under a run's id (`Ingest`), with the severity that each
supplies, and their rows' way into the tables (`SettleIngested`). `RunsGoOn` is any
step of the runs beside them. No accumulator hears of these rows, so they are in
no summary; Gate and RunReads EXTEND this module, because a check counts them and
a page shows them.

**RunReads** (`security_runs.go`) has the handlers that read.
`Answers` is the remembered row or else any unmerged row of the table, and
`handleSecurityRunFindings` is one table's query, since the tables are
asked one after the other; it finds what scanners and CI have filed.
`shown`, `page` and `listed` are what readers were told.

**Gate** (`gate.go`, `appsec.go`): jobs and ingests go on between its queries.
`evaluateScopedGate` and `handleSecurityPRCheck`
begin an evaluation (the first with the organization check, the second with
the three ways to name runs), `QueryRuns`, `QueryVulns` and `QueryTable` are the
queries, passed over by `QueryFails`, `LookAtLive` the remembered run that only
the gate looks at. `NewestRows` is what the lookup of a commit's runs returns: at most
`RunLimit` (20) of their status rows, the latest first, of which a run has several
until they are merged; `missed` remembers which runs that left out. In `Ended`
the record falls back to its idle form, as the handler's variables go out of scope.

**ScoreBook** and **RepoScore** (`repo_score.go`) split the score: the first is
the arithmetic on sequences of reports (the composite in tenths, since the code
rounds to one decimal; the band "other" is any severity by a name that is none, as
OSV's "moderate", which is counted and has no weight), the second the storage, where a facet is the run that
measured it last. `Finish` takes the stamp, `Lock`, `Load` and `Store` are
`updateRepoScoreAfterRun`. `ledger`, `lastStamp` and `harm` are history variables: what
the facets should be by now, and which mishaps have happened: two stamps
in a millisecond ("tie"), a run overtaken between stamp and lock ("order"), a
row lost ("lost"), a load that failed while the cache was empty ("blind").

**TokenBucket** (`cve_http.go`) counts units, `Unit` to a token, and time in
ticks, so that the fractions a float64 holds are whole numbers. A pass through the loop of
`wait` under the lock is `Take`, `Sleep` or `Leave`; a sleeper may wake early
(truncation) or late (`Oversleep`).

**CveFetch** (`cve_scan.go`, `cve_http.go`). `Lookup` is the first look into the
cache, `Join`/`Lead` the map of flights, `LookAgain` the second look, `Ask`,
`Reply`, `Exhausted` the attempts of `postJSON`, `Unregister` and `Close` the
end of a flight, two steps in the code, `Use` the loop of `scanCVE`.

**RunAdmission** is the life of one request among peers that change: a
step per question, `PeersChange` between them, `seen` the history of
what held at some moment. Requests share nothing else, so one at a time suffices.

**CveVersion** and **FixChoice** (`cve_version.go`, `vuln.go`). A version text is
kept as the pieces its characters fall into (numbers, the text after a number,
identifiers after a dash), and the comparators are defined on them.
FixChoice reads an advisory event by event in any order; `Rank` is the order
the ecosystems intend (semver, PEP 440), given from outside and used only by properties.

**Lockfiles** (`cve_collect.go`). A lockfile is the sequence of its entries, and an
entry says in which of its format's forms it is written, what it is installed
below, and its version. A poetry.lock also has its version lines apart, since its
parser takes all names and all versions and pairs them by place (`parsePoetryLock`);
any other parser is the set of forms it reads. `NameOf` is what it makes
of the name; `Visit` is one file of the walk, a fold of `add`, which drops what it has,
over the file's entries, and `Return` the cap.

**LegacyBackfill** (`legacy_ch_backfill.go`). `CountHub`, `CountProduct`, `Columns`,
`Copy` are the requests of a boot; the statement lands on its own (`Lands`,
`LandsInPart`), whether or not its sender lives, while tables merge, expire and are
written to. The product's table may have rows of its own from the beginning, since
earlier builds never copied (legacy_ch_backfill.go:130). `counted`, `stale`, `failed`,
`halved`, `expired` are history variables that count accidents, and `outnumbered` tells that
a boot met, before any copy, as many own rows as it had counted in the hub.

**VulnInventory** (`vuln.go`, `appsec.go`, `cve_scan.go`). Requests of four kinds,
one step per query: `Store` a dependency, under the organization as it was
written; `Select` the newest rows under the limit, of the organization without the
blanks around it, `SelectNone` for a blank one or all of them, or `SelectSome` any;
`rankReachability` for one finding or `rankReachabilityBatch` for a scan, which
credits the first package of the scan (`FirstName`) with any call site that holds one of them;
`PutRanked` and `PutFromOsv` the rows of the rollup. Any query may fail with its effect or
without it, and statements may share a millisecond (`Tick`).

MCParts and MCCve put modules that share no variable side by side: a behaviour is
one of the part chosen at its beginning, and the others do not move.

## The runs

Every run sets `CHECK_DEADLOCK FALSE`: with bounded clocks, requests and
failures each system comes to rest.

| Run | Instance | What it asks |
| --- | --- | --- |
| `writer` | 2 callers, 3 payloads, one empty; 1 token, 3 attempts, 1 restart | `InFlightBounded`: tokens taken are goroutines that hold one. `CopiesMatchAttempts`: what is stored landed, copies are bounded. `CallerReleased`: backpressure ends. `ImplementsAsyncInsert`: the promise the other modules build on. |
| `runs_two` | 2 requests with ids of their own, an API one with cve and secrets and a peer's; up to 2 findings per scanner; nothing is lost (`CalmSpec`) | `SummaryAccounts`: jobs side by side keep their findings apart, failing scanners included. `OutcomeIsFinal`. `DispatchedFinishes`: every early return records an outcome. |
| `runs_store` | 1 request with a checkout and sast, its readers, and a finding that CI files under its id; 3 milliseconds, 2 rows at a time, 1 drop, 1 restart | `LatestRowKept`: rows that land late, twice or out of order, and merging, cost the latest outcome only with a drop or a tie. `CheckoutRemoved`. `ReadsGoForward`: no reader sees the run go back while its process lives, and what was listed is found. `PageAgrees`: the page's findings of its own scanners are in the summary, restarts included. |
| `gate` | sast and IaC of a scan, container findings of CI, high and medium; gates and PR checks of all three forms; callers of the run's tenant, of none, of another organization; 1 failing query, 1 restart | `PassMeansNoneStored`: a pass after queries that worked covers what had landed when the evaluation began, of the runs that were looked at. `PassCoversUnlanded`: a gate that passes a completed, remembered run covers what has not landed, was dropped, or is hidden by a failing query. |
| `gate_commit` | 2 runs of one commit; a lookup cut to one row; a finding of CI | `CommitPassMeansNoneStored` is **violated**, see below. |
| `score` | 3 runs (secrets; secrets and sast; sbom alone), 3 milliseconds, 1 drop, 1 failing query, 1 restart | `FacetsKept`: with no mishap in `harm` what is loaded is exactly what was merged. `UpdateCompletes`: the lock is passed on. |
| `score_restart` | 2 runs, 1 failing query, 1 restart | `HistoryKept` is **violated**, see below. |
| `cve` | 3 scans that share a dependency, one of them asks for a second one; 2 attempts, a budget of 2, 1 eviction each. Beside it the bucket: 3 callers, a token every tick and a half, 1 token at most, 10 ticks | `NothingMissed`: no failure, joined flight or cache entry makes a vulnerable dependency look clean. `AnsweredOnce`: OSV answers once per cache entry. `ScansEnd`: no flight leaves its waiters. `WindowBound`: no window hands out more than a full bucket and what it earns. `WaitEnds`: nobody polls for ever. |
| `cve_budget` | the same scans | `BudgetIsPerScan` is **violated**, see below. |
| `admission` | 14 requests of all kinds, 3 connectors of two organizations, 1 project; batches of at most 2, 3 changes, 1 question unanswered | `Admitted`: connector and project of a run were in order during the request. `AnswerTells`: status and counts tell what was made. `RequestAnswered`. |
| `parts`: book | reports of one and two scanners, severities that cross the floor, round, and weigh nothing, one by a name that is no band | `MeanOfMeasured`: rounding keeps the composite between worst and best. `PerfectMeansNoPenalty`: no weight is rounded away, so 100.0 means that nothing weighs. |
| `parts`: fix | 10 version texts of known order, a commit, up to 3 different events, every installed version or none | `NearestUpgrade`, `LowestIntroduction`: in the intended order. `GitFixIsTold`. `LikelyAgrees`: both comparators agree on plain versions. |
| `parts`: lock | every checkout of up to two of 18 lockfiles of all formats; a cap of 3 | `PlainPinsCollected`: every pin of the plain form is asked about once, two versions of a package too, and under a plain name nothing but pins, workspaces, and what a poetry.lock out of step pairs. |
| `parts`: backfill | 2 replicas, 3 boots, 2 hub rows of one key, plain and replacing tables, up to 2 rows of the product's own, at the beginning or later, 1 accident | `CopiedOnce`: a row is there again only by an accident, once for each. `LegacyPresent`: without one a replica serves only after the newest row of every key is there, unless own rows stood in for the copies before there were any. |
| `parts`: vuln | 6 requests of 4 kinds, 2 at a time, one for " all" organizations, over a limit of 2 that the stock fills; 2 call sites, 1 failure | `IngestMatched`: an ingest's own packages are matched however full the inventory is and whatever shares their millisecond. `ObservedHasSite`: "observed" rests on a call site of its own organization and service. |
| `vuln_batch` | the inventory of `parts`, no failure | `ObservedWasCalled` is **violated**, see below. |

A type invariant goes with every module, and each is proved; the runs check it too
(`PartsTypeOK` and `CveTypesOK` join those of the parts), except those of Gate and RunReads.

The passing runs visit between 17,000 (`writer`) and 650,000 (`parts`) distinct
states and end within four minutes each.

### Bounds, and why they are enough

Every bound is a constant named in its module.

* Restarts, drops, failing queries, evictions: one of each meets every other
  step in every order; a second finds nothing the first did not leave.
  Where the count could matter, the proofs take any number.
* `MaxClock` and `MaxTime` leave room for ties and for all orders of three
  stamps; `MaxStored` for a run's rows of every status beside one another.
* `runs_two` has no restart and no clock, `runs_store` a single request: what the
  two share is proved for any number of requests with all of it (below). The
  scanners of an instance are one with the second accumulator (secrets), one
  that may fail (cve), one of neither kind, and sbom, which counts no findings.
* In `writer` one token and two callers suffice for blocking; in `cve` two
  scans and a third that comes after the flight; the budget runs out in
  the middle of a query and between two. The bucket's rate does not divide a
  token, so fractions occur; the calls begin in the first three ticks and the
  clock goes on until all are served.
* `gate`, `runs_store`: one run and one finding per scanner; the questions are
  whether there is one, and a reader asks about one run. The proofs take any number,
  and any limit of the lookup: with one run none is left out, with two
  (`gate_commit`) the rows of one may take all the places, as seven runs of a commit
  do with the twenty of the code.
* `parts`, fix: three events are the least in which the nearest fix is neither
  first nor last; the texts contain each kind of piece the parser knows.
* `parts`, lock: deduplication and the cap need two files; a file's
  entries include two versions of one package and each form of its format, and a
  poetry.lock an entry without a version and a version without an entry.
* `parts`, backfill: two replicas that boot together and one that boots again;
  two rows of one key for merges, and as many rows of the product's own as the hub has.
  Nothing tells the replicas apart, so TLC takes them as symmetric (`parts` checks
  no liveness).
* `parts`, vuln: a limit of two that the stock fills, so that each new row pushes
  one out; any two of the six requests side by side, one of them under another
  spelling; each statement in the millisecond of the one before it or in the next.

## Fairness

Liveness is checked under the fairness of what the code waits for:

* A runnable goroutine runs, an HTTP round trip ends by its timeout, a sleep
  ends: weak fairness of the next step of each insert (`Insert`), job
  (`JobStep`: clone, gitleaks and OSV queries run under deadlines, files are
  finitely many), load and store, scan (`Query`), and request (`Handle`: lookups end after 30 s).
* Two steps compete with others and are enabled only now and then: the send on
  `w.sem` (`Acquire`; senders on a Go channel queue first in, first out) and the
  repository's lock (`Lock`; `sync.Mutex` hands itself to a waiter that
  starves). They get strong fairness.
* In TokenBucket time passes (`Tick`) and a caller that is awake asks
  (`Wait`), weakly. No caller is promised a token: a caller is served or cancelled
  because a bounded number of calls compete. Unbounded arrivals could starve one.
* The writer settles its rows (SecurityRuns), as AsyncInsert promises.
* MCCve asks for less: while some query can go on one does, and while time
  can pass or a caller wake it does. Queries and calls take a bounded number
  of steps, so this suffices.
* LegacyBackfill, Lockfiles, VulnInventory, RunReads and Gate promise nothing in
  the end (their requests are finite sequences of queries) and state no fairness.

A restart is never assumed, nor that any request arrives, any context ends, or any
cache entry is lost.

## The proofs

Each holds for every value of the constants that satisfies the module's named
assumption (`WriterAssumption` and `RowsFinite`, `RunsAssumption` and `NoRowAssumption`, `IngestAssumption`,
`ReportsAssumption`, `RepoScoreAssumption` and `NoStateAssumption`,
`GateAssumption`, `BucketAssumption`, `CveAssumption`, `AdmissionAssumption`,
`VersionAssumption`, `FixAssumption`, `LockfilesAssumption`, `BackfillAssumption`
and `VulnAssumption`). These say what the constants are (that
bounds are numbers, that "no row" is no row, that a table has finitely many rows),
that `RunsAssumption`'s scanner lists have no repetitions, which
`normalizeSecurityScanners` sees to, and that an entry of a lockfile names one
package unless it is installed below another. Any numbers
of restarts, drops and failures are covered.

| Module | Theorem | Argument |
| --- | --- | --- |
| ClickHouseWriterProofs | `InFlight`, `Copies`, `Refinement` (with `TypeCorrect`) | `IInv`: a blocked row belongs to one caller, a row's copies and late requests fit its attempts, the tokens are as many as the holders. Each step of the writer is a step of AsyncInsert or none, under `RowState`. |
| SecurityRunsProofs | `CheckoutIsRemoved`, `LatestRowIsKept`, `OutcomeStays`, `SummaryIsExact` (with `TypeCorrect`) | Checkouts: inductive as it stands. Rows: `LatestInv` bounds all stamps by the clock and keeps one row with the latest stamp alive. Outcomes: `PlaceInv`, a run is finished only once its own job has told. Summaries: `SumInv` says where a finding is counted at every moment: in the accumulator while its scanner runs, in the job's summary afterwards, nowhere before; and that the two accumulators of secrets agree. |
| SecurityRunsProofs, of RunReads | `PageIsInSummary`, `ReadersGoForward` (with `ReadsTypeCorrect`) | `FullInv`: every row of a completed run, on its way, stored or in a reader's hands, counts all that its jobs have sent (what CI sends is kept apart), and none of them sends more; with `PageInv`, that is what pages hold. `ForwardInv`: of a remembered run no reader knows better than the process; of a listed run a row stays in the table. |
| SecurityRunsProofs, of Gate | `PassIsOfNoneStored`, `PassIsOfNoneSummed` (with `GateTypeCorrect`) | `StoredInv`: of an evaluation that began with a blocking finding stored, and has not failed, every run that had one and that the lookup did not leave out still has such a finding in a table it has yet to ask; what is stored stays. `CoverInv`: a gate that found its run completed goes on to the remembered run, which stays what it was; `BandsInv`: summaries have only the bands their scanners give, so that what blocks when stored blocks when remembered. |
| ScoreBookProofs | `MeanIsOfMeasured`, `PerfectIsUnweighed` (with `BookTypeCorrect`) | `BookInv`: a measured facet has the subscore of its severities, and is at 100 exactly when they weigh nothing. The rest is arithmetic of rounded means of at most five parts. |
| RepoScoreProofs | `FacetsAreKept` (with `TypeCorrect`) | `KeptInv`: with `harm` empty the newest of table, outbox and cache is the ledger; `LockInv`: one job works at a time. |
| CveProofs, of CveFetch | `NoneIsMissed`, `OneAnswer` (with `TypeCorrect`) | `FlightInv`: the map names exactly the scan that fetches a key; `CacheInv`: that scan found the entry missing, so only it can fill it; `AnswerInv`: results and passed dependencies are true. |
| CveProofs, of TokenBucket | `RateIsKept` (with `BucketTypeCorrect`) | `Accounted`: what was handed out since a tick and what is left is within a full bucket and what was earned up to the last fill. Said of now instead of the last fill, it would not be inductive. |
| RunAdmissionProofs | `RunsAreAdmitted`, `AnswerTellsRuns` (with `TypeCorrect`) | `StageInv`: what the questions asked so far have established by the one that is next; `SeenNow` lets answers outlast the peers' changes. `BatchInv`: before an item, made and failed together are as many as the listed positions before it (`NextItem`: none is left out), and every run is of such a position, so that no repository has two. A bijection takes positions to distinct names. |
| FixChoiceProofs | `VersionsAreOrdered`, `NearestFixFound`, `NearestUpgradeFound`, `LowestIntroductionFound`, `GitFixTold`, `ComparatorsAgree` (with `FixTypeCorrect`) | `cmpVersion` is a total preorder on all texts: two that differ have a least position where they do. `BestInv`: no event read so far names a fix between the installed version and the result. `IntroInv`: the introduction kept is one of those read, and none of them is lower. Of a plain text both comparators read the same three numbers (`PlainReads`). `NearestUpgradeFound` and `LowestIntroductionFound` assume that the comparator and `Rank` agree on the advisory's texts; `parts` checks that they do on the ladder. |
| PartsProofs, of LegacyBackfill | `CopiesCounted`, `ServesWithRows` (with `BackfillTypeCorrect`) | `CopyInv`: once more statements have landed than there were accidents, every row of the hub is there, so no replica that counts from then on copies again (`RowsCounted`: with every row there, the count is at least the hub's). `PresentInv`: a replica past a question has seen what the question is about. With `outnumbered` false, own rows alone never stop a copy. `ServesWithRows` assumes that the two tables share a column, as those of this program do; `Columns` serves without a copy otherwise. |
| PartsProofs, of VulnInventory | `ObservedHasEvidence`, `IngestsMatched` (with `VulnTypeCorrect`) | `Evidence`: each package a request knows to be called, and each row that says so, has its call site among those there have ever been: one that held it (`Called`), or one that held some package of a scan of which it is the first (`Credited`). `IngestOf` follows an ingest from its rows, stamped no earlier than it began, through the selection to the rollup; `NewestAreTaken`: of at most as many rows as the limit that are no older than a time, each is among the rows that are taken. |
| PartsProofs, of Lockfiles | `PlainPins` (with `LockTypeCorrect`) | `CollectInv`: until the cap cuts it, the result is what the files visited so far give, without repetition, and the cap cuts nothing short of it. `FileAdded`: what a file's fold of `add` leaves; `PlainTaken`: where names and versions are paired, an entry is read as it is. |
| CveProofs, PartsProofs | `CveTypesCorrect`, `CveKeep`, `PartsTypesCorrect`, `PartsKeep` | A behaviour of MCCve or MCParts is one of each part (`PartsOfCve`, `PartsOfParts`), so what is proved of a part holds beside the others. |

Only model-checked: liveness (`CallerReleased`, `DispatchedFinishes`,
`UpdateCompletes`, `ScansEnd`, `WaitEnds`, `RequestAnswered`, and `ASettles` of the
refinement), since the prover has neither fairness nor ENABLED. Every invariant and every
action property that a passing run checks is proved; `NearestUpgrade`,
`LowestIntroduction` and `LegacyPresent` with the hypotheses named above.
Induction over data is out of the prover's reach. Texts and
sequences are therefore compared by quantifiers over positions, what a fold does
is shown of the least position where it could go wrong (`FoldExists`, `OneByOne`), and
no module that is proved about declares a RECURSIVE operator.

## Where code and documentation disagree

Four disagreements are shown by runs that must fail:

* **`score_restart`.** repo_score.go:105 says that "other facets are preserved so a
  secrets-only re-scan cannot wipe SAST history". After a restart the cache is
  empty; if the first query fails, `loadRepoScore` answers with the empty cache,
  the merge starts from nothing, and the row it stores replaces the history.
* **`cve_budget`.** docs/configuration.md:17 calls `OSA_CVE_BUDGET` the requests
  "per CVE scan". `initCVEStack` makes one for the process and nothing refills
  it: one scan ends because another spent it.
* **`vuln_batch`.** vuln.go:567 says that "multiSearchAnyCaseInsensitive returns the
  1-based index of the FIRST needle found". That is what
  multiSearchFirstIndexCaseInsensitive does; multiSearchAny answers 1 or 0. `idx` is
  1 for any call site that holds any package of the scan, and `want[0]` is credited:
  a scan of lodash and axios files lodash as observed because axios was called, and
  axios as not_observed.
* **`gate_commit`.** appsec.go:174 calls a check by repo and sha "scoped by repo/sha via
  security_runs join". The lookup is `ORDER BY started_at DESC LIMIT 20` over rows that are
  not merged, three or so for a run: older runs of the commit are not asked
  about, and the check passes with their blocking findings stored.

Others were seen while modelling. The models follow the code; no property states them, and
those that concern a property are excepted in it:

* Runs. A request may bring the id of a run in progress (security_runs.go:177);
  then two jobs increment one map without a lock (security_scan.go:271, whose
  comment says that scans are single-threaded per run), so that the counts of that run
  are undefined; the properties assume `DistinctIds`. No reaper exists
  (main.go:106 and docs/architecture.md:39 speak of one). `ref` is in the queued row only
  (ch_config.go:262, security_runs.go:615). After a restart GET
  takes any unmerged row of a run, and the list shows all of them. Findings that CI files
  under a run's id are on the run's page and in no summary (`PageAgrees` is about the others).
* Gate. It passes over failing queries (gate.go:95; "fail-closed" in gate.go:10 and
  docs/api.md:193). `min_severity` is compared with regard to case for IaC alone
  (gate.go:149). Container findings are in no remembered count. The PR
  check looks at no remembered summary.
* Lockfiles. A poetry.lock's names and versions are collected apart and paired by their
  places (cve_collect.go:320-325), so that an entry without a version, or a version
  of another table, gives every later package a wrong one. A workspace of a
  package-lock.json (`packages/app`) is taken for a package, for only the empty key is left
  out (163-165). `node_modules/q/node_modules/p` is kept, as cve_collect.go:161 says,
  but under the name `q/node_modules/p`, which no registry has, so that OSV is never
  asked about that version of `p`. Lost altogether: packages inside packages
  (lockfileVersion 1), yarn 2 entries, merged yarn entries (the name keeps all patterns but the
  last one's range), pnpm's `name@version`, requirements with extras. A Pipfile.lock with the `_meta`
  that pipenv writes holds a number where the code decodes maps, so nothing of it is
  read. A root directory named like a skipped one is passed over as well.
* Inventory. A reachability query that fails also yields not_observed (vuln.go:336);
  an ingest whose organization is blank, "all" or has blanks around it answers ok and
  matches nothing, for its rows are stored as it is written and matched as it is
  trimmed (vuln.go:122, 138, 178). reachability_test.go:19 says that "not_observed" must
  mean "we looked and saw nothing"; `handleOSVEnrich` (appsec.go:317) files every finding
  as not_observed and asks the call graph nothing, and its row, the newest of its key,
  also replaces an "observed". `handleOSVEnrich` files
  everything as high and counts what it failed to insert; a scan stamps its
  rows with the time of its beginning, so that they may lose against older answers.
* Score. repo_score.go:141 says "count only severities that affect the score (exclude
  info/unknown)", but only those two names are excluded; cve_scan.go:179 hands on whatever
  OSV's `database_specific.severity` says, so "moderate" is counted as a problem, weighs
  nothing, and 100.0 is shown beside it. Informational findings alone are scored as medium (repo_score.go:145,
  docs/api.md:110); a scanner that failed gets 100 (repo_score.go:151, docs/api.md:112);
  the stamp is taken before the lock (security_runs.go:718); the writer may block under the lock.
* CVE. A failed query is skipped without a trace (cve_scan.go:240), so is a
  budget that ran out; an empty body is cached as an absence; further
  pages of OSV are not asked for; the limiter counts queries and not their retries.
* Versions. In vuln.go:247 the `<` branch precedes `<=`, so "<=1.2.3" is
  read as "<" with the bound "=1.2.3", whose first number is lost; `cmpSemver` ignores prereleases; "1.0.post1"
  is below 1.0; a fix below the installed version yields "none"; the
  introduction skips "0" and may be a later range's; overlapping ranges may name
  a fix that is still affected; a number too large for an int ends the comparison.
* Admission. A peer's event does not ask OAM (peer_scm_events.go:77, docs/api.md:44); a
  batch verifies its connector once, before its first item.
* Backfill. The rows the product wrote itself count as copied
  (legacy_ch_backfill.go:58), so that a table that the product has begun to fill, as
  every one has that earlier builds served (130-133), is never copied into once it has as many
  rows as the hub's, though no question fails; two replicas that
  boot together both copy; a table that its TTL shrinks is copied again.

## What is not modelled

* **Lists, sums and policies** (`handleServices`, the lists in `appsec*.go`,
  `cve_status.go`): one query and a page out, no state. The IAST recorders have no caller.
* **Scanners** (`security_scan.go`'s tools, `secret_placeholders.go`, `scripts/`): text in,
  findings out. What they find is nondeterministic, as is which text is of which form.
* **Tenancy, authentication, locality**: decisions of external libraries, constants here.
* **Schema and configuration**: replayed at boot; the engine of a table
  (`ReplacingMergeTree`, its version column) is part of the modules that read it.
* **The orchestrator and runner arguments**: a health endpoint and pure functions.
* **Batching in the writer** (`Add`, `AddFull`, `Flush`, …) and `getJSON`:
  no caller in this service.
* External and modelled as the code uses them: ClickHouse (rows land when it
  applies a request, `ReplacingMergeTree` keeps a newest row), OAM, ORA and
  OSV (may answer anything their data allow, or not), the cache (may lose an entry).

Left out of what is modelled: a query of RunReads that fails is answered with 404 or
an empty table, tells nothing and is no step; the page's cut to 200 findings of a
table; a request that the writer cannot even build (clickhouse.go:86-91);
a scan's dependency rows land when they are stored (VulnInventory), its cap of
5000 findings ends nothing (CveFetch), and project, release and the
ecosystem "npm" that the enrichment puts in where a row has none are not told apart;
rows of the product's own in LegacyBackfill are not merged; the
number that the backfill logs at its end; scope,
depth and manifest of a dependency; the fields of a finding that no property tells apart.

## Plan

Built, in this order: the writer and its promise; runs; the gate on the runs;
the score; limiter and fetches; admission; versions; readers; the PR check and
CI's findings; backfill; lockfiles; the inventory. Runs and score take the
writer's promise for their outboxes. What would add most next:

1. The delays of `postJSON` (`parseRetryAfter`) between CveFetch and TokenBucket.
2. `handleServices`, which sums up five tables for one answer.
3. Proofs: that the landing of rows in SecurityRuns is AsyncInsert's, which needs
   a history of the attempts made for a row.
