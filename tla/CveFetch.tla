----------------------------- MODULE CveFetch -----------------------------
(***************************************************************************)
(* cve_scan.go and cve_http.go: CVE scans that ask OSV about each of their  *)
(* dependencies, through one cache, one singleflight and one request budget *)
(* for the whole process.                                                   *)
(*                                                                         *)
(* An advisory list is "vulns" when it is not empty and "negative" when it  *)
(* is.  The delays (token bucket, back-off, Retry-After) are left out:      *)
(* TokenBucket shows that a wait for a token ends.                          *)
(***************************************************************************)
EXTENDS Integers, Sequences

CONSTANTS
    Scans,
    Keys,           \* ecosystem, package and version of a dependency
    Deps,           \* the dependencies each scan read from the lockfiles
    Vulnerable,     \* the keys that OSV has advisories for
    NoScan,
    Attempts,       \* requests for one query
    Budget,         \* OSA_CVE_BUDGET
    MaxEvictions    \* bound: cache entries of one key that expire or are evicted

ASSUME CveAssumption ==
    /\ Deps \in [Scans -> Seq(Keys)]
    /\ Vulnerable \subseteq Keys
    /\ NoScan \notin Scans
    /\ Attempts \in Nat \ {0} /\ Budget \in Nat \ {0} /\ MaxEvictions \in Nat

VARIABLES
    phase,     \* of every scan, in the query of its current dependency
    at,        \* the place of that dependency
    result,    \* what the query has come to
    tries,     \* requests of the query so far, with the one in progress
    leaderOf,  \* whose flight a scan waits for
    flights,   \* singleflight.m: the leader for every key
    cache,     \* none, negative or vulns
    spent,     \* of the budget
    found,     \* the dependencies a scan has written findings for
    skipped,   \* ghost: those whose query failed, which nothing records
    short,     \* the scans that the budget ended
    spenders,  \* ghost: the scans that made requests
    answered,  \* ghost: definite answers to requests for a key
    evicted,   \* ghost: cache entries of a key that are gone
    denied     \* ghost: keys OSV answered with 404 or nothing

vars == <<phase, at, result, tries, leaderOf, flights, cache, spent,
          found, skipped, short, spenders, answered, evicted, denied>>

ghosts == <<spenders, answered, evicted, denied>>
report == <<at, found, skipped, short>>

Phases == {"next", "entering", "waiting", "leading", "trying", "asked",
           "returned", "closing", "got", "ended"}
Results == {"none", "negative", "vulns", "broken", "error", "exhausted"}

HasDep(s) == at[s] <= Len(Deps[s])
Key(s) == Deps[s][at[s]]

Init ==
    /\ phase = [s \in Scans |-> "next"]
    /\ at = [s \in Scans |-> 1]
    /\ result = [s \in Scans |-> "none"]
    /\ tries = [s \in Scans |-> 0]
    /\ leaderOf = [s \in Scans |-> NoScan]
    /\ flights = [k \in Keys |-> NoScan]
    /\ cache = [k \in Keys |-> "none"]
    /\ spent = 0
    /\ found = [s \in Scans |-> {}] /\ skipped = [s \in Scans |-> {}]
    /\ short = {}
    /\ spenders = {}
    /\ answered = [k \in Keys |-> 0] /\ evicted = [k \in Keys |-> 0]
    /\ denied = {}

Move(s, p) == phase' = [phase EXCEPT ![s] = p]

Return(s, p, r) == Move(s, p) /\ result' = [result EXCEPT ![s] = r]

Fetched(s, r) == Return(s, "returned", r) /\ tries' = [tries EXCEPT ![s] = 0]

-----------------------------------------------------------------------------
(* queryOSV up to the flight, and the flight's map *)

Lookup(s) ==
    /\ phase[s] = "next" /\ HasDep(s)
    /\ IF cache[Key(s)] # "none"
       THEN Return(s, "got", cache[Key(s)])
       ELSE Move(s, "entering") /\ UNCHANGED result
    /\ UNCHANGED <<tries, leaderOf, flights, cache, spent, report, ghosts>>

Join(s) ==
    /\ phase[s] = "entering" /\ flights[Key(s)] # NoScan
    /\ Move(s, "waiting")
    /\ leaderOf' = [leaderOf EXCEPT ![s] = flights[Key(s)]]
    /\ UNCHANGED <<result, tries, flights, cache, spent, report, ghosts>>

Lead(s) ==
    /\ phase[s] = "entering" /\ flights[Key(s)] = NoScan
    /\ Move(s, "leading")
    /\ flights' = [flights EXCEPT ![Key(s)] = s]
    /\ UNCHANGED <<result, tries, leaderOf, cache, spent, report, ghosts>>

(* A mutant: the leader trusts the look it took before the flight. *)
LookOnce(s) ==
    /\ phase[s] = "leading"
    /\ Move(s, "trying") /\ tries' = [tries EXCEPT ![s] = 1]
    /\ UNCHANGED <<result, leaderOf, flights, cache, spent, report, ghosts>>

LookAgain(s) ==
    /\ phase[s] = "leading"
    /\ IF cache[Key(s)] # "none"
       THEN Fetched(s, cache[Key(s)])
       ELSE Move(s, "trying") /\ tries' = [tries EXCEPT ![s] = 1] /\ UNCHANGED result
    /\ UNCHANGED <<leaderOf, flights, cache, spent, report, ghosts>>

-----------------------------------------------------------------------------
(* postJSON: the limiter, and up to Attempts requests.  The half hour of a scan
   may be up at any time; a retry that would end after it is not made. *)

(* The deadline passes while the first request waits for a token. *)
LeaveLimiter(s) ==
    /\ phase[s] = "trying" /\ tries[s] = 1
    /\ Fetched(s, "error")
    /\ UNCHANGED <<leaderOf, flights, cache, spent, report, ghosts>>

(* A mutant: one request too many. *)
MaySpendOneMore == spent <= Budget

MaySpend == spent < Budget

Ask(s) ==
    /\ phase[s] = "trying" /\ MaySpend
    /\ spent' = spent + 1
    /\ spenders' = spenders \cup {s}
    /\ Move(s, "asked")
    /\ UNCHANGED <<result, tries, leaderOf, flights, cache, report,
                   answered, evicted, denied>>

(* An error of an earlier attempt is preferred. *)
Exhausted(s) ==
    /\ phase[s] = "trying" /\ ~MaySpend
    /\ Fetched(s, IF tries[s] > 1 THEN "error" ELSE "exhausted")
    /\ UNCHANGED <<leaderOf, flights, cache, spent, report, ghosts>>

(* What OSV, the network or the client's timeout make of a request: "absent"
   is a 404 or an empty body, "broken" a body that is not JSON. *)
Replies(s) ==
    {"absent", "broken", "retryable", "fatal",
     IF Key(s) \in Vulnerable THEN "vulns" ELSE "negative"}

Definite == {"absent", "negative", "vulns"}

(* What the fetch returns for a reply that no retry follows. *)
Outcome(r) ==
    CASE r \in {"absent", "negative"} -> "negative"
      [] r \in {"retryable", "fatal"} -> "error"
      [] OTHER -> r

(* A mutant: a rejected request is remembered as an absence. *)
RememberedAlsoFatal(r, k) ==
    IF r \in Definite \cup {"fatal"} THEN IF r = "vulns" THEN r ELSE "negative" ELSE cache[k]

Remembered(r, k) == IF r \in Definite THEN Outcome(r) ELSE cache[k]

Retries(s, r) == r = "retryable" /\ tries[s] < Attempts

Reply(s) ==
    /\ phase[s] = "asked"
    /\ \E r \in Replies(s) :
        /\ \/ /\ Retries(s, r)
              /\ Move(s, "trying") /\ tries' = [tries EXCEPT ![s] = @ + 1]
              /\ UNCHANGED result
           \/ Fetched(s, Outcome(r))
        /\ cache' = [cache EXCEPT ![Key(s)] = Remembered(r, Key(s))]
        /\ answered' = IF r \in Definite THEN [answered EXCEPT ![Key(s)] = @ + 1] ELSE answered
        /\ denied' = IF r = "absent" THEN denied \cup {Key(s)} ELSE denied
    /\ UNCHANGED <<leaderOf, flights, spent, report, spenders, evicted>>

(* The recover() of do turns a panic of the fetch into an error. *)
Panic(s) ==
    /\ phase[s] \in {"leading", "trying", "asked"}
    /\ Fetched(s, "error")
    /\ UNCHANGED <<leaderOf, flights, cache, spent, report, ghosts>>

-----------------------------------------------------------------------------
(* The end of a flight, and what a scan makes of the result *)

Unregister(s) ==
    /\ phase[s] = "returned"
    /\ flights' = [flights EXCEPT ![Key(s)] = NoScan]
    /\ Move(s, "closing")
    /\ UNCHANGED <<result, tries, leaderOf, cache, spent, report, ghosts>>

Waiters(s) == {w \in Scans : phase[w] = "waiting" /\ leaderOf[w] = s}

Deliver(s, to) ==
    /\ phase[s] = "closing"
    /\ phase' = [w \in Scans |-> IF w \in to \cup {s} THEN "got" ELSE phase[w]]
    /\ result' = [w \in Scans |-> IF w \in to THEN result[s] ELSE result[w]]
    /\ leaderOf' = [w \in Scans |-> IF w \in to THEN NoScan ELSE leaderOf[w]]
    /\ UNCHANGED <<tries, flights, cache, spent, report, ghosts>>

(* A mutant: the channel is closed only after a fetch that went well. *)
CloseOnSuccess(s) == Deliver(s, IF result[s] = "error" THEN {} ELSE Waiters(s))

Close(s) == Deliver(s, Waiters(s))

Use(s) ==
    /\ phase[s] = "got"
    /\ IF result[s] = "exhausted"
       THEN Return(s, "ended", "none") /\ short' = short \cup {s} /\ UNCHANGED <<at, found, skipped>>
       ELSE /\ Return(s, "next", "none")
            /\ at' = [at EXCEPT ![s] = @ + 1]
            /\ found' = [found EXCEPT ![s] = IF result[s] = "vulns" THEN @ \cup {Key(s)} ELSE @]
            /\ skipped' = [skipped EXCEPT ![s] =
                               IF result[s] \in {"broken", "error"} THEN @ \cup {Key(s)} ELSE @]
            /\ UNCHANGED short
    /\ UNCHANGED <<tries, leaderOf, flights, cache, spent, ghosts>>

Finish(s) ==
    /\ phase[s] = "next" /\ ~HasDep(s)
    /\ Move(s, "ended")
    /\ UNCHANGED <<result, tries, leaderOf, flights, cache, spent, report, ghosts>>

-----------------------------------------------------------------------------

Evict(k) ==
    /\ cache[k] # "none" /\ evicted[k] < MaxEvictions
    /\ cache' = [cache EXCEPT ![k] = "none"]
    /\ evicted' = [evicted EXCEPT ![k] = @ + 1]
    /\ UNCHANGED <<phase, result, tries, leaderOf, flights, spent, report,
                   spenders, answered, denied>>

Query(s) ==
    \/ Lookup(s) \/ Join(s) \/ Lead(s) \/ LookAgain(s)
    \/ LeaveLimiter(s) \/ Ask(s) \/ Exhausted(s) \/ Reply(s)
    \/ Unregister(s) \/ Close(s) \/ Use(s) \/ Finish(s)

Next ==
    \/ \E s \in Scans : Query(s) \/ Panic(s)
    \/ \E k \in Keys : Evict(k)

Spec == Init /\ [][Next]_vars

(* Goroutines run, tokens come, and the client's timeout answers if OSV does
   not; a waiting scan has no step of its own. *)
FairSpec == Spec /\ \A s \in Scans : WF_vars(Query(s))

-----------------------------------------------------------------------------
(* Properties *)

(* Every variable has its type, and the process spends no more than Budget. *)
TypeOK ==
    /\ phase \in [Scans -> Phases]
    /\ at \in [Scans -> Nat \ {0}]
    /\ result \in [Scans -> Results]
    /\ tries \in [Scans -> 0 .. Attempts]
    /\ leaderOf \in [Scans -> Scans \cup {NoScan}]
    /\ flights \in [Keys -> Scans \cup {NoScan}]
    /\ cache \in [Keys -> {"none", "negative", "vulns"}]
    /\ spent \in 0 .. Budget
    /\ short \subseteq Scans
    /\ found \in [Scans -> SUBSET Keys] /\ skipped \in [Scans -> SUBSET Keys]
    /\ spenders \subseteq Scans
    /\ answered \in [Keys -> Nat] /\ evicted \in [Keys -> Nat]
    /\ denied \subseteq Keys

(* A dependency a scan has passed is clean for a reason: if it is vulnerable,
   the scan wrote its findings, or its query failed, or OSV itself denied the
   package.  No failure of another scan, and nothing in the cache
   or in a flight that was joined, makes it look clean. *)
NothingMissed ==
    \A s \in Scans : \A i \in 1 .. Len(Deps[s]) :
        i < at[s] /\ Deps[s][i] \in Vulnerable =>
            Deps[s][i] \in found[s] \cup skipped[s] \cup denied

(* However many scans want a key at once, OSV is made to answer for it once
   until the cache loses the answer: a scan that missed the cache and comes to
   the flight after it has ended looks again. *)
AnsweredOnce == \A k \in Keys : answered[k] <= 1 + evicted[k]

(* Every scan ends: no leader leaves its flight's waiters behind, whether it
   succeeds, fails, is out of budget or panics. *)
EveryScanEnds == \A s \in Scans : <>(phase[s] = "ended")

(* docs/configuration.md:17 calls the budget the requests "per CVE scan": a
   scan that it ends has made them all. *)
BudgetIsPerScan == \A s \in short : spenders \subseteq {s}
=============================================================================
