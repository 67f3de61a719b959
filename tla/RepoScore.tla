----------------------------- MODULE RepoScore -----------------------------
(***************************************************************************)
(* repo_score.go, the storage: the score of one repository is kept in the   *)
(* process and in ClickHouse, and finished runs update it by loading,       *)
(* merging and storing it again under a lock of the repository.  How a      *)
(* merge computes the score is ScoreBook's part: a facet is here the run    *)
(* that measured it last.                                                   *)
(*                                                                         *)
(* ClickHouse merges the rows of a repository by updated_at, the time the   *)
(* run finished, which a job takes before it takes the lock.                *)
(***************************************************************************)
EXTENDS Integers, FiniteSets

CONSTANTS
    Jobs,         \* the runs of the repository
    ScannersOf,   \* the scored scanners each of them ran; none: it ran sbom alone
    NoJob, NoState,
    MaxClock,     \* bound: values of the clock
    MaxDrops,     \* bound: rows the writer gives up
    MaxErrors,    \* bound: queries that fail
    MaxCrashes    \* bound: restarts

Scored == {"secrets", "sast", "iac", "cve", "container"}

ASSUME RepoScoreAssumption ==
    /\ ScannersOf \in [Jobs -> SUBSET Scored]
    /\ NoJob \notin Jobs
    /\ MaxClock \in Nat \ {0} /\ MaxDrops \in Nat /\ MaxErrors \in Nat /\ MaxCrashes \in Nat

VARIABLES
    now,       \* the clock, in milliseconds
    pc,        \* of updateRepoScoreAfterRun, for every job
    stamp,     \* finishedAt of every job
    prev,      \* what it loaded
    lock,      \* the holder of repoScoreUpdateLocks
    cache,     \* repoScoreCache
    outbox,    \* rows handed to the writer
    rows,      \* the rows of repo_security_scores
    drops, errors, crashes,
    ledger,    \* ghost: the facets as the merges made so far should leave them
    lastStamp, \* ghost: the greatest stamp merged so far
    harm       \* ghost: what may cost the ledger a facet

vars == <<now, pc, stamp, prev, lock, cache, outbox, rows, drops, errors, crashes,
          ledger, lastStamp, harm>>

(* updated_at 0 stands for "", of an empty state. *)
Facets == [Scored -> Jobs \cup {NoJob}]
State == [facets: Facets, at: 0 .. MaxClock]
NoFacets == [s \in Scored |-> NoJob]
EmptyState == [facets |-> NoFacets, at |-> 0]

ASSUME NoStateAssumption == NoState \notin State

Init ==
    /\ now = 1
    /\ pc = [j \in Jobs |-> "scanning"]
    /\ stamp = [j \in Jobs |-> 0]
    /\ prev = [j \in Jobs |-> NoState]
    /\ lock = NoJob
    /\ cache = NoState
    /\ outbox = {} /\ rows = {}
    /\ drops = 0 /\ errors = 0 /\ crashes = 0
    /\ ledger = NoFacets /\ lastStamp = 0 /\ harm = {}

-----------------------------------------------------------------------------
(* updateRepoScoreAfterRun *)

(* A mutant: the time is rounded up. *)
FinishedAtRoundedUp == now + 1

(* time.Now in milliseconds. *)
FinishedAt == now

(* The job takes finishedAt and calls. *)
Finish(j) ==
    /\ pc[j] = "scanning"
    /\ pc' = [pc EXCEPT ![j] = "waiting"]
    /\ stamp' = [stamp EXCEPT ![j] = FinishedAt]
    /\ UNCHANGED <<now, prev, lock, cache, outbox, rows, drops, errors, crashes,
                   ledger, lastStamp, harm>>

(* A mutant: a lock that does not exclude. *)
FreeUnguarded(j) == lock = lock

Free(j) == lock = NoJob

Lock(j) ==
    /\ pc[j] = "waiting" /\ Free(j)
    /\ pc' = [pc EXCEPT ![j] = "locked"]
    /\ lock' = j
    /\ UNCHANGED <<now, stamp, prev, cache, outbox, rows, drops, errors, crashes,
                   ledger, lastStamp, harm>>

(* ORDER BY updated_at DESC LIMIT 1 *)
Newest == {r \in rows : \A q \in rows : q.at <= r.at}

(* The cached state is preferred only when it is strictly newer. *)
LoadedFrom(r) == IF cache # NoState /\ cache.at > r.at THEN cache ELSE r

(* What loadRepoScore can answer. *)
Loads == IF rows = {} THEN {cache} ELSE {LoadedFrom(r) : r \in Newest}

Load(j) ==
    /\ pc[j] = "locked"
    /\ pc' = [pc EXCEPT ![j] = "loaded"]
    /\ \/ /\ \E l \in Loads : prev' = [prev EXCEPT ![j] = l]
          /\ UNCHANGED <<errors, harm>>
       \/ /\ errors < MaxErrors
          /\ errors' = errors + 1
          /\ prev' = [prev EXCEPT ![j] = cache]
          /\ harm' = IF cache = NoState THEN harm \cup {"blind"} ELSE harm
    /\ UNCHANGED <<now, stamp, lock, cache, outbox, rows, drops, crashes, ledger, lastStamp>>

(* mergeScannerFacets: the facets of the scanners that ran are replaced. *)
MergedFacets(j, facets) == [s \in Scored |-> IF s \in ScannersOf[j] THEN j ELSE facets[s]]

FacetsOf(l) == IF l = NoState THEN NoFacets ELSE l.facets

NextState(j) ==
    IF ScannersOf[j] = {} THEN IF prev[j] = NoState THEN EmptyState ELSE prev[j]
    ELSE [facets |-> MergedFacets(j, FacetsOf(prev[j])), at |-> stamp[j]]

Ledger(j) ==
    IF ScannersOf[j] = {} THEN UNCHANGED <<ledger, lastStamp, harm>>
    ELSE /\ ledger' = MergedFacets(j, ledger)
         /\ lastStamp' = IF stamp[j] > lastStamp THEN stamp[j] ELSE lastStamp
         /\ harm' = IF stamp[j] > lastStamp THEN harm
                     ELSE harm \cup {IF stamp[j] = lastStamp THEN "tie" ELSE "order"}

(* A mutant: the early return keeps the lock. *)
LeaveKeepingIt(j) == IF NextState(j) = prev[j] THEN UNCHANGED lock ELSE lock' = NoJob

Leave(j) == lock' = NoJob

rememberRepoScore(state) == cache' = state

persistRepoScore(state) == rememberRepoScore(state) /\ outbox' = outbox \cup {state}

(* The merged state is stored, still under the lock, unless the merge returned
   the state it was given. *)
Store(j) ==
    /\ pc[j] = "loaded"
    /\ pc' = [pc EXCEPT ![j] = "done"]
    /\ prev' = [prev EXCEPT ![j] = NoState]
    /\ IF NextState(j) = prev[j] THEN UNCHANGED <<cache, outbox>>
       ELSE persistRepoScore(NextState(j))
    /\ Leave(j)
    /\ Ledger(j)
    /\ UNCHANGED <<now, stamp, rows, drops, errors, crashes>>

Step(j) == Finish(j) \/ Lock(j) \/ Load(j) \/ Store(j)

-----------------------------------------------------------------------------
(* The writer and ClickHouse *)

(* A row lands, at once or not, and again if its reply is lost; "" is not a
   DateTime64, so that the row of an empty state is refused. *)
Land(r) ==
    /\ r \in outbox /\ r.at # 0
    /\ rows' = rows \cup {r}
    /\ outbox' \in {outbox, outbox \ {r}}
    /\ UNCHANGED <<now, pc, stamp, prev, lock, cache, drops, errors, crashes,
                   ledger, lastStamp, harm>>

Refuse(r) ==
    /\ r \in outbox /\ r.at = 0
    /\ outbox' = outbox \ {r}
    /\ UNCHANGED <<now, pc, stamp, prev, lock, cache, rows, drops, errors, crashes,
                   ledger, lastStamp, harm>>

(* The writer gives a row up after its last attempt. *)
Drop(r) ==
    /\ r \in outbox /\ drops < MaxDrops
    /\ outbox' = outbox \ {r}
    /\ drops' = drops + 1
    /\ harm' = harm \cup {"lost"}
    /\ UNCHANGED <<now, pc, stamp, prev, lock, cache, rows, errors, crashes, ledger, lastStamp>>

(* ReplacingMergeTree(updated_at): of two rows the newer stays, of equally new
   ones either. *)
Compact ==
    \E r, q \in rows :
        /\ r # q /\ r.at <= q.at
        /\ rows' = rows \ {r}
        /\ UNCHANGED <<now, pc, stamp, prev, lock, cache, outbox, drops, errors, crashes,
                       ledger, lastStamp, harm>>

Tick ==
    /\ now < MaxClock
    /\ now' = now + 1
    /\ UNCHANGED <<pc, stamp, prev, lock, cache, outbox, rows, drops, errors, crashes,
                   ledger, lastStamp, harm>>

(* The process dies: its jobs, its cache and what its writer holds are gone. *)
Crash ==
    /\ crashes < MaxCrashes
    /\ crashes' = crashes + 1
    /\ pc' = [j \in Jobs |-> IF pc[j] \in {"scanning", "done"} THEN pc[j] ELSE "dead"]
    /\ prev' = [j \in Jobs |-> NoState]
    /\ lock' = NoJob
    /\ cache' = NoState
    /\ harm' = IF outbox = {} THEN harm ELSE harm \cup {"lost"}
    /\ outbox' = {}
    /\ UNCHANGED <<now, stamp, rows, drops, errors, ledger, lastStamp>>

Writer == \E r \in outbox : Land(r) \/ Refuse(r) \/ Drop(r)

Next == (\E j \in Jobs : Step(j)) \/ Writer \/ Compact \/ Tick \/ Crash

Spec == Init /\ [][Next]_vars

(* Goroutines run; sync.Mutex hands itself to a waiter that starves. *)
Fairness == \A j \in Jobs : WF_vars(Load(j) \/ Store(j)) /\ SF_vars(Lock(j))

FairSpec == Spec /\ Fairness

-----------------------------------------------------------------------------
(* Properties *)

(* Every variable has its type. *)
TypeOK ==
    /\ now \in 1 .. MaxClock
    /\ pc \in [Jobs -> {"scanning", "waiting", "locked", "loaded", "done", "dead"}]
    /\ stamp \in [Jobs -> 0 .. MaxClock]
    /\ prev \in [Jobs -> State \cup {NoState}]
    /\ lock \in Jobs \cup {NoJob}
    /\ cache \in State \cup {NoState}
    /\ outbox \subseteq State
    /\ rows \subseteq State /\ \A r \in rows : r.at # 0
    /\ drops \in 0 .. MaxDrops /\ errors \in 0 .. MaxErrors /\ crashes \in 0 .. MaxCrashes
    /\ ledger \in Facets /\ lastStamp \in 0 .. MaxClock
    /\ harm \subseteq {"blind", "tie", "order", "lost"}

(* As long as runs are merged in the order they finished, no two of them in
   one millisecond, no row is lost and no query fails before there is a cache,
   whatever is loaded has exactly the facets that were merged: no facet is
   wiped, and none comes back, however late rows land, in whatever order and
   across restarts. *)
FacetsKept == harm = {} => \A l \in Loads : FacetsOf(l) = ledger

(* A run that has finished gets its turn, unless the process dies. *)
UpdateCompletes == \A j \in Jobs : pc[j] = "waiting" ~> pc[j] \in {"done", "dead"}

(* "Other facets are preserved so a secrets-only re-scan cannot wipe SAST
   history": where runs are merged in order and no row is lost, a facet that was
   measured stays measured. *)
HistoryKept ==
    harm \subseteq {"blind"} =>
        \A l \in Loads, s \in Scored : ledger[s] # NoJob => FacetsOf(l)[s] # NoJob
=============================================================================
