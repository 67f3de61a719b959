--------------------------- MODULE VulnInventory ---------------------------
(***************************************************************************)
(* vuln.go, the OSV enrichment of appsec.go and the second write of scanCVE *)
(* (cve_scan.go): the requests that fill, side by side, the inventory of    *)
(* dependencies and the rollup of the findings about them.                  *)
(*                                                                         *)
(* Every query is a step.  Project and release are left out: they narrow a  *)
(* scope as the service does.  The constraint of an advisory is a bound that *)
(* a version is below; CveVersion compares the texts.                       *)
(***************************************************************************)
EXTENDS Naturals, Sequences, FiniteSets

CONSTANTS
    Requests,
    Req,            \* what each is: kind, org, service, ecosystem, packages
    Stock,          \* the inventory there is at the beginning
    CallSites,      \* that agents may report: org, service, the names they hold
    Catalog,        \* advisories: id, package, ecosystem, below, symbols
    Osv,            \* the advisories that OSV has
    Unknown,        \* the empty version
    AuthEnforced,   \* requests must name an organization
    MatchLimit,     \* 5000
    EnrichLimit,    \* 50
    MaxBusy,        \* bound: requests that begin
    MaxFailures     \* bound: queries that fail

Package == [name: STRING, version: {Unknown} \cup Nat]

(* A row of the inventory. *)
Row(times) == [org: STRING, service: STRING, ecosystem: STRING, name: STRING,
               version: {Unknown} \cup Nat, at: times]

ASSUME VulnAssumption ==
    /\ \A r \in Requests : /\ Req[r].kind \in {"sbom", "match", "enrich", "scan"}
                           /\ Req[r].packages \in Seq(Package)
    /\ Stock \subseteq Row({0}) /\ IsFiniteSet(Stock)
    /\ AuthEnforced \in BOOLEAN
    /\ {MatchLimit, EnrichLimit, MaxBusy, MaxFailures} \subseteq Nat

VARIABLES
    inventory,  \* rows of service_dependencies
    rollup,     \* rows of vuln_findings
    calls,      \* call sites of the last seven days
    clock,      \* of ClickHouse, in milliseconds
    pc,         \* of every request
    stored,     \* packages it has stored, or tried to
    since,      \* the clock at its beginning
    todo,       \* findings it has still to write
    next,       \* the one it writes next
    seen,       \* packages it knows to be called
    failures,
    everCalled, \* ghost: call sites there have been
    broken,     \* ghost: requests that had a query fail
    crowded     \* ghost: requests that more rows came with or after than the limit

requestVars == <<pc, stored, since, todo, next, seen, broken, crowded>>
vulnVars == <<inventory, rollup, calls, clock, failures, everCalled, requestVars>>

Kind(r) == Req[r].kind
NoName == ""
NoFinding == [dep |-> NoName, adv |-> NoName]

VulnInit ==
    /\ inventory = Stock /\ rollup = {} /\ clock = 1
    /\ calls = {} /\ everCalled = {}
    /\ pc = [r \in Requests |-> "idle"]
    /\ stored = [r \in Requests |-> 0] /\ since = [r \in Requests |-> 0]
    /\ todo = [r \in Requests |-> {}] /\ seen = [r \in Requests |-> {}]
    /\ next = [r \in Requests |-> NoFinding]
    /\ failures = 0 /\ broken = {} /\ crowded = {}

Go(r, p) == pc' = [pc EXCEPT ![r] = p]

(* A statement that fails may have been carried out: its answer is lost. *)
Fails(r) ==
    /\ failures < MaxFailures
    /\ failures' = failures + 1
    /\ broken' = broken \cup {r}

Works == UNCHANGED <<failures, broken>>

strings_ToLower(ecosystem) == IF ecosystem = "NPM" THEN "npm" ELSE ecosystem
strings_TrimSpace(org) ==
    CASE org = " " -> NoName [] org = " acme" -> "acme" [] org = " all" -> "all" [] OTHER -> org

tenantAll == "all"
NoTenant(r) == strings_TrimSpace(Req[r].org) \in {NoName, tenantAll}

(* Statements of one millisecond have one time.  A scan has its rows stamped already. *)
Tick(r) == clock' \in IF Kind(r) = "scan" THEN {clock} ELSE {clock, clock + 1}

-----------------------------------------------------------------------------
(* The inventory *)

(* A blank organization, or all of them. *)
Refused(r) == NoTenant(r) /\ Kind(r) \in (IF AuthEnforced THEN {"match", "sbom"} ELSE {"match"})

Begin(r) ==
    /\ pc[r] = "idle"
    /\ Cardinality({x \in Requests : pc[x] # "idle"}) < MaxBusy
    /\ Go(r, IF Refused(r) THEN "done"
             ELSE IF Kind(r) \in {"sbom", "scan"} THEN "storing" ELSE "selecting")
    /\ since' = [since EXCEPT ![r] = clock]
    /\ UNCHANGED <<inventory, rollup, calls, clock, stored, todo, next, seen,
                   failures, broken, crowded, everCalled>>

(* A scan stamps its rows with the time of its beginning, and hands them to the
   writer; the others let ClickHouse stamp them. *)
Stamp(r, now) == IF Kind(r) = "scan" THEN since[r] ELSE now

Dependency(r, p, now) ==
    [org |-> Req[r].org, service |-> Req[r].service,
     ecosystem |-> strings_ToLower(Req[r].ecosystem),
     name |-> p.name, version |-> p.version, at |-> Stamp(r, now)]

Store(r) ==
    /\ pc[r] = "storing" /\ stored[r] < Len(Req[r].packages)
    /\ stored' = [stored EXCEPT ![r] = @ + 1]
    /\ LET p == Req[r].packages[stored'[r]]
       IN \/ /\ p.name # NoName /\ (Works \/ Fails(r))
             /\ Tick(r) /\ inventory' = inventory \cup {Dependency(r, p, clock')}
          \/ p.name = NoName /\ Works /\ UNCHANGED <<inventory, clock>>
          \/ p.name # NoName /\ Fails(r) /\ UNCHANGED <<inventory, clock>>
    /\ UNCHANGED <<rollup, calls, pc, since, todo, next, seen, crowded, everCalled>>

StoredAll(r) ==
    /\ pc[r] = "storing" /\ stored[r] = Len(Req[r].packages)
    /\ Go(r, IF Kind(r) = "scan" THEN "ranking" ELSE "selecting")
    /\ UNCHANGED <<inventory, rollup, calls, clock, stored, since, todo, next, seen,
                   failures, broken, crowded, everCalled>>

-----------------------------------------------------------------------------
(* matchAdvisoriesForService *)

Where(r, d) ==
    /\ d.org = strings_TrimSpace(Req[r].org)
    /\ Req[r].service # NoName => d.service = Req[r].service
    /\ Req[r].ecosystem # NoName => d.ecosystem = strings_ToLower(Req[r].ecosystem)

(* LIMIT: as many of the rows as it lets through. *)
Limited(rows, limit) ==
    {s \in SUBSET rows :
        Cardinality(s) = IF Cardinality(rows) < limit THEN Cardinality(rows) ELSE limit}

(* A mutant: the oldest rows are taken. *)
OldestOf(rows) ==
    {s \in Limited(rows, MatchLimit) : \A x \in s, y \in rows \ s : x.at <= y.at}

(* ORDER BY scraped_at DESC LIMIT 5000; rows of one time come in any order. *)
NewestOf(rows) ==
    {s \in Limited(rows, MatchLimit) : \A x \in s, y \in rows \ s : x.at >= y.at}

(* versionLikelyVulnerable: an unknown version is kept. *)
Affects(adv, d) ==
    /\ adv.package = d.name
    /\ d.ecosystem # NoName => adv.ecosystem = d.ecosystem
    /\ d.version = Unknown \/ d.version < adv.below

Findings(rows, advisories) ==
    {[dep |-> t[1], adv |-> t[2]] : t \in {x \in rows \X advisories : Affects(x[2], x[1])}}

(* A blank organization, or all of them, is not asked about. *)
SelectNone(r) ==
    /\ pc[r] = "selecting" /\ Kind(r) \in {"sbom", "match"} /\ NoTenant(r)
    /\ Go(r, "done")
    /\ UNCHANGED <<inventory, rollup, calls, clock, stored, since, todo, next, seen,
                   failures, broken, crowded, everCalled>>

Select(r) ==
    /\ pc[r] = "selecting" /\ Kind(r) \in {"sbom", "match"} /\ ~NoTenant(r)
    /\ LET rows == {d \in inventory : Where(r, d)}
       IN \/ /\ Works /\ Go(r, "matching")
             /\ \E s \in NewestOf(rows) :
                   todo' = [todo EXCEPT ![r] = Findings(s, Catalog)]
             /\ crowded' = IF Cardinality({d \in rows : d.at >= since[r]}) > MatchLimit
                           THEN crowded \cup {r} ELSE crowded
          \/ Fails(r) /\ Go(r, "done") /\ UNCHANGED <<todo, crowded>>
    /\ UNCHANGED <<inventory, rollup, calls, clock, stored, since, next, seen, everCalled>>

Terms(adv) == ({adv.package} \cup adv.symbols) \ {NoName}

(* A mutant: the calls of any organization and service are evidence. *)
SitesOfAll(org, service) == calls

Sites(org, service) ==
    {c \in calls : (org # NoName => c.org = org) /\ (service # NoName => c.service = service)}

(* For the next finding; a query that fails says nothing. *)
rankReachability(r) ==
    /\ pc[r] = "matching" /\ Kind(r) \in {"sbom", "match"}
    /\ \E f \in todo[r] :
          /\ next' = [next EXCEPT ![r] = f]
          /\ todo' = [todo EXCEPT ![r] = @ \ {f}]
          /\ \/ /\ Works
                /\ seen' = [seen EXCEPT ![r] =
                      IF \E c \in Sites(f.dep.org, f.dep.service) : c.names \cap Terms(f.adv) # {}
                      THEN {f.dep.name} ELSE {}]
             \/ Fails(r) /\ seen' = [seen EXCEPT ![r] = {}]
    /\ Go(r, "ranked")
    /\ UNCHANGED <<inventory, rollup, calls, clock, stored, since, crowded, everCalled>>

(* What is inserted, for the key that the rollup keeps one row of. *)
Finding(r, f, now) ==
    [org |-> f.dep.org, service |-> f.dep.service, id |-> f.adv.id,
     name |-> f.dep.name, version |-> f.dep.version,
     reachability |-> IF f.dep.name \in seen[r] THEN "observed" ELSE "not_observed",
     at |-> Stamp(r, now)]

Put(r, f) ==
    /\ \/ /\ Works \/ Fails(r)
          /\ Tick(r) /\ rollup' = rollup \cup {Finding(r, f, clock')}
       \/ Fails(r) /\ UNCHANGED <<rollup, clock>>
    /\ UNCHANGED <<inventory, calls, stored, since, crowded, everCalled>>

(* Its variables go out of scope. *)
Forgets(r) ==
    /\ next' = [next EXCEPT ![r] = NoFinding]
    /\ seen' = [seen EXCEPT ![r] = {}]

PutRanked(r) ==
    /\ pc[r] = "ranked"
    /\ Put(r, next[r])
    /\ Go(r, "matching") /\ Forgets(r)
    /\ UNCHANGED todo

-----------------------------------------------------------------------------
(* handleOSVEnrich and the rows of scanCVE: no query of its own for a finding *)

SelectSome(r) ==
    /\ pc[r] = "selecting" /\ Kind(r) = "enrich"
    /\ LET rows == {[d EXCEPT !.at = 0] : d \in {x \in inventory : x.org = Req[r].org}}
       IN \/ /\ Works /\ Go(r, "matching")
             /\ \E s \in Limited(rows, EnrichLimit) : todo' = [todo EXCEPT ![r] = Findings(s, Osv)]
          \/ Fails(r) /\ Go(r, "done") /\ UNCHANGED todo
    /\ UNCHANGED <<inventory, rollup, calls, clock, stored, since, next, seen,
                   crowded, everCalled>>

(* What is asked about: a blank name would be found in every call site. *)
ScanNames(r) == {Req[r].packages[i].name : i \in DOMAIN Req[r].packages} \ {NoName}

FirstName(r) ==
    LET named == {i \in DOMAIN Req[r].packages : Req[r].packages[i].name # NoName}
    IN {Req[r].packages[i].name : i \in {j \in named : \A k \in named : j <= k}}

(* multiSearchAny tells of a call site whether it holds any of the names, 1 or 0,
   and the answer is taken for the place of one: it is the first, whichever the
   site holds (vuln.go:578, 607). *)
rankReachabilityBatch(r) ==
    /\ pc[r] = "ranking"
    /\ \/ /\ Works
          /\ seen' = [seen EXCEPT ![r] =
                IF \E c \in Sites(Req[r].org, Req[r].service) : c.names \cap ScanNames(r) # {}
                THEN FirstName(r) ELSE {}]
       \/ Fails(r) /\ UNCHANGED seen
    /\ Go(r, "matching")
    /\ todo' = [todo EXCEPT ![r] =
          Findings({Dependency(r, Req[r].packages[i], clock) : i \in DOMAIN Req[r].packages}, Osv)]
    /\ UNCHANGED <<inventory, rollup, calls, clock, stored, since, next, crowded, everCalled>>

PutFromOsv(r) ==
    /\ pc[r] = "matching" /\ Kind(r) \in {"enrich", "scan"}
    /\ \E f \in todo[r] : todo' = [todo EXCEPT ![r] = @ \ {f}] /\ Put(r, f)
    /\ UNCHANGED <<pc, next, seen>>

(* OSV does not answer for a dependency. *)
NoAnswer(r) ==
    /\ pc[r] = "matching" /\ Kind(r) \in {"enrich", "scan"}
    /\ \E f \in todo[r] : todo' = [todo EXCEPT ![r] = {g \in @ : g.dep # f.dep}]
    /\ Fails(r)
    /\ UNCHANGED <<inventory, rollup, calls, clock, pc, stored, since, next, seen,
                   crowded, everCalled>>

Answer(r) ==
    /\ pc[r] = "matching" /\ todo[r] = {}
    /\ Go(r, "done") /\ Forgets(r)
    /\ UNCHANGED <<inventory, rollup, calls, clock, stored, since, todo, failures, broken,
                   crowded, everCalled>>

-----------------------------------------------------------------------------
(* Agents report call sites, which are forgotten after a week, and both tables
   keep the newest row of a key, one of them if their times are the same. *)

Report(c) ==
    /\ c \notin everCalled
    /\ calls' = calls \cup {c} /\ everCalled' = everCalled \cup {c}
    /\ UNCHANGED <<inventory, rollup, clock, failures, requestVars>>

Forget(c) ==
    /\ c \in calls
    /\ calls' = calls \ {c}
    /\ UNCHANGED <<inventory, rollup, clock, failures, everCalled, requestVars>>

Superseded(rows, KeyOf(_)) ==
    {x \in rows : \E y \in rows : y # x /\ KeyOf(y) = KeyOf(x) /\ y.at >= x.at}

MergeInventory ==
    /\ \E x \in Superseded(inventory, LAMBDA d : [d EXCEPT !.at = 0]) : inventory' = inventory \ {x}
    /\ UNCHANGED <<rollup, calls, clock, failures, everCalled, requestVars>>

MergeRollup ==
    /\ \E x \in Superseded(rollup, LAMBDA f : <<f.org, f.service, f.id, f.name, f.version>>) :
          rollup' = rollup \ {x}
    /\ UNCHANGED <<inventory, calls, clock, failures, everCalled, requestVars>>

Request(r) ==
    \/ Begin(r) \/ Store(r) \/ StoredAll(r) \/ SelectNone(r) \/ Select(r)
    \/ rankReachability(r) \/ PutRanked(r) \/ SelectSome(r) \/ rankReachabilityBatch(r)
    \/ PutFromOsv(r) \/ NoAnswer(r) \/ Answer(r)

VulnNext ==
    \/ \E r \in Requests : Request(r)
    \/ \E c \in CallSites : Report(c) \/ Forget(c)
    \/ MergeInventory \/ MergeRollup

VulnSpec == VulnInit /\ [][VulnNext]_vulnVars

-----------------------------------------------------------------------------
(* Properties *)

(* Every variable has its type, and no row is from the future. *)
VulnTypeOK ==
    /\ clock \in Nat /\ \A d \in inventory \cup rollup : d.at \in 0 .. clock
    /\ calls \subseteq everCalled /\ everCalled \subseteq CallSites
    /\ pc \in [Requests -> {"idle", "storing", "selecting", "ranking", "matching", "ranked", "done"}]
    /\ \A r \in Requests :
          /\ stored[r] \in 0 .. Len(Req[r].packages) /\ since[r] \in 0 .. clock
          /\ Kind(r) = "scan" => seen[r] \subseteq ScanNames(r)
    /\ failures \in 0 .. MaxFailures
    /\ broken \cup crowded \subseteq Requests

(* An ingest for one organization, named without blanks around it, that answers has
   brought the catalog's findings about its packages into the rollup, however full
   the inventory was and whatever else was written or merged meanwhile: unless one
   of its queries failed, or more rows than the limit came into its scope from the
   millisecond of its beginning on (vuln.go:198).  Of any other ingest the rows are
   stored (138) and matched with nothing (178-182). *)
IngestMatched ==
    \A r \in Requests :
        /\ pc[r] = "done" /\ Kind(r) = "sbom" /\ r \notin broken \cup crowded
        /\ ~NoTenant(r) /\ Req[r].org = strings_TrimSpace(Req[r].org)
        => \A i \in DOMAIN Req[r].packages, adv \in Catalog :
              LET d == Dependency(r, Req[r].packages[i], clock)
              IN d.name # NoName /\ Affects(adv, d) =>
                    \E f \in rollup :
                        /\ f.org = d.org /\ f.service = d.service /\ f.id = adv.id
                        /\ f.name = d.name /\ f.version = d.version

InScope(c, f) ==
    (f.org # NoName => c.org = f.org) /\ (f.service # NoName => c.service = f.service)

(* A call site of its organization and service held its package, or a symbol of the
   advisory. *)
WasCalled(f) ==
    \E c \in everCalled, adv \in Catalog \cup Osv :
        InScope(c, f) /\ adv.id = f.id /\ c.names \cap Terms(adv) # {}

(* vuln.go:567: "multiSearchAnyCaseInsensitive returns the 1-based index of the
   FIRST needle found, so one pass over the call graph attributes each row to a
   package".  A package is observed by a call site that held it. *)
ObservedWasCalled == \A f \in rollup : f.reachability = "observed" => WasCalled(f)

(* It is the first package of a scan, and a call site held some package of that scan. *)
SharesItsSite(f) ==
    \E r \in Requests, c \in everCalled :
        /\ Kind(r) = "scan" /\ Req[r].org = f.org /\ Req[r].service = f.service
        /\ f.name \in FirstName(r)
        /\ InScope(c, f) /\ c.names \cap ScanNames(r) # {}

(* Evidence never comes from another organization or service, nor from nowhere
   (vuln.go:311): a package that was not called itself is the first of a scan, and
   a call site of its organization and service held some package of that scan. *)
ObservedHasSite ==
    \A f \in rollup : f.reachability = "observed" => WasCalled(f) \/ SharesItsSite(f)
=============================================================================
