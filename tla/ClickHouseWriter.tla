-------------------------- MODULE ClickHouseWriter --------------------------
(***************************************************************************)
(* clickhouse.go: insertAsync takes a token of a counting semaphore in the  *)
(* calling goroutine and then runs insert() in a goroutine of its own,      *)
(* which POSTs the payload at most Attempts times with a back-off between   *)
(* attempts, and gives the token back in a deferred call.                   *)
(*                                                                         *)
(* A request and its reply are separate steps: the server may apply a       *)
(* request whose reply is lost, or apply it after the client's 10 s timeout *)
(* gave up on it, so that a retried row lands more than once.               *)
(*                                                                         *)
(* A row stands for one payload and is handed over once.  The wait lengths  *)
(* of the back-off, the headers and the logging are left out.               *)
(***************************************************************************)
EXTENDS Naturals, FiniteSets

CONSTANTS
    Callers,      \* goroutines that call insertAsync: handlers and scan jobs
    Rows,         \* payloads
    EmptyRows,    \* the payloads of length zero
    NoRow,        \* a caller that is not blocked
    MaxInFlight,  \* maxInFlightInserts
    Attempts,     \* the const attempts of insert()
    MaxCrashes    \* bound on process crashes

ASSUME WriterAssumption ==
    /\ EmptyRows \subseteq Rows
    /\ NoRow \notin Rows
    /\ MaxInFlight \in Nat \ {0}
    /\ Attempts \in Nat \ {0}
    /\ MaxCrashes \in Nat

ASSUME RowsFinite == IsFiniteSet(Rows)

VARIABLES
    caller,   \* the row whose send on w.sem blocks each caller
    sem,      \* tokens taken from w.sem
    phase,    \* where the insert of each row is
    attempt,  \* the loop variable of insert()
    outcome,  \* what insert() returned
    late,     \* requests of the row the client gave up on, still on their way
    copies,   \* copies of the row in the table
    crashes

vars == <<caller, sem, phase, attempt, outcome, late, copies, crashes>>

(* The goroutine exists from the token on, and holds it until it returns. *)
Holding == {"sending", "applied", "backoff", "returning"}
Phases == {"new", "skipped", "blocked", "done", "lost"} \cup Holding
Holders == {r \in Rows : phase[r] \in Holding}

Init ==
    /\ caller = [c \in Callers |-> NoRow]
    /\ sem = 0
    /\ phase = [r \in Rows |-> "new"]
    /\ attempt = [r \in Rows |-> 0]
    /\ outcome = [r \in Rows |-> "none"]
    /\ late = [r \in Rows |-> 0]
    /\ copies = [r \in Rows |-> 0]
    /\ crashes = 0

-----------------------------------------------------------------------------
(* insertAsync, in the caller's goroutine *)

CallEmpty(c, r) ==
    /\ caller[c] = NoRow /\ phase[r] = "new" /\ r \in EmptyRows
    /\ phase' = [phase EXCEPT ![r] = "skipped"]
    /\ UNCHANGED <<caller, sem, attempt, outcome, late, copies, crashes>>

Call(c, r) ==
    /\ caller[c] = NoRow /\ phase[r] = "new" /\ r \notin EmptyRows
    /\ caller' = [caller EXCEPT ![c] = r]
    /\ phase' = [phase EXCEPT ![r] = "blocked"]
    /\ UNCHANGED <<sem, attempt, outcome, late, copies, crashes>>

(* A mutant: the send does not wait for a free token. *)
AcquireUnbounded(c) ==
    /\ caller[c] # NoRow
    /\ sem' = sem + 1
    /\ phase' = [phase EXCEPT ![caller[c]] = "sending"]
    /\ attempt' = [attempt EXCEPT ![caller[c]] = 1]
    /\ caller' = [caller EXCEPT ![c] = NoRow]
    /\ UNCHANGED <<outcome, late, copies, crashes>>

(* w.sem <- struct{}{} goes through, the goroutine starts its first attempt
   and the caller returns. *)
Acquire(c) ==
    /\ caller[c] # NoRow
    /\ sem < MaxInFlight
    /\ sem' = sem + 1
    /\ phase' = [phase EXCEPT ![caller[c]] = "sending"]
    /\ attempt' = [attempt EXCEPT ![caller[c]] = 1]
    /\ caller' = [caller EXCEPT ![c] = NoRow]
    /\ UNCHANGED <<outcome, late, copies, crashes>>

-----------------------------------------------------------------------------
(* insert(), in the goroutine that holds a token *)

(* A mutant: the loop runs once too often. *)
AttemptFailedOneMore(r) ==
    IF attempt[r] <= Attempts
    THEN /\ phase' = [phase EXCEPT ![r] = "backoff"]
         /\ UNCHANGED outcome
    ELSE /\ phase' = [phase EXCEPT ![r] = "returning"]
         /\ outcome' = [outcome EXCEPT ![r] = "dropped"]

(* The end of a loop iteration that did not see a 200. *)
AttemptFailed(r) ==
    IF attempt[r] < Attempts
    THEN /\ phase' = [phase EXCEPT ![r] = "backoff"]
         /\ UNCHANGED outcome
    ELSE /\ phase' = [phase EXCEPT ![r] = "returning"]
         /\ outcome' = [outcome EXCEPT ![r] = "dropped"]

ServerApplies(r) ==
    /\ phase[r] = "sending"
    /\ phase' = [phase EXCEPT ![r] = "applied"]
    /\ copies' = [copies EXCEPT ![r] = @ + 1]
    /\ UNCHANGED <<caller, sem, attempt, outcome, late, crashes>>

Reply200(r) ==
    /\ phase[r] = "applied"
    /\ phase' = [phase EXCEPT ![r] = "returning"]
    /\ outcome' = [outcome EXCEPT ![r] = "stored"]
    /\ UNCHANGED <<caller, sem, attempt, late, copies, crashes>>

ReplyLost(r) ==
    /\ phase[r] = "applied"
    /\ AttemptFailed(r)
    /\ UNCHANGED <<caller, sem, attempt, late, copies, crashes>>

(* A mutant: the status of the reply is not looked at. *)
RefusedIsSuccess(r) ==
    /\ phase[r] = "sending"
    /\ phase' = [phase EXCEPT ![r] = "returning"]
    /\ outcome' = [outcome EXCEPT ![r] = "stored"]
    /\ UNCHANGED <<caller, sem, attempt, late, copies, crashes>>

(* Connection refused, or a status other than 200. *)
Refused(r) ==
    /\ phase[r] = "sending"
    /\ AttemptFailed(r)
    /\ UNCHANGED <<caller, sem, attempt, late, copies, crashes>>

(* client.Timeout expires while the request is still on its way. *)
TimedOut(r) ==
    /\ phase[r] = "sending"
    /\ AttemptFailed(r)
    /\ late' = [late EXCEPT ![r] = @ + 1]
    /\ UNCHANGED <<caller, sem, attempt, copies, crashes>>

Wake(r) ==
    /\ phase[r] = "backoff"
    /\ phase' = [phase EXCEPT ![r] = "sending"]
    /\ attempt' = [attempt EXCEPT ![r] = @ + 1]
    /\ UNCHANGED <<caller, sem, outcome, late, copies, crashes>>

(* Mutants: the token is given back twice, or not at all. *)
ReleaseTwice(r) ==
    /\ phase[r] = "returning"
    /\ phase' = [phase EXCEPT ![r] = "done"]
    /\ sem' = sem - 2
    /\ UNCHANGED <<caller, attempt, outcome, late, copies, crashes>>

ReleaseForgotten(r) ==
    /\ phase[r] = "returning"
    /\ phase' = [phase EXCEPT ![r] = "done"]
    /\ UNCHANGED <<caller, sem, attempt, outcome, late, copies, crashes>>

(* The deferred <-w.sem. *)
Release(r) ==
    /\ phase[r] = "returning"
    /\ phase' = [phase EXCEPT ![r] = "done"]
    /\ sem' = sem - 1
    /\ UNCHANGED <<caller, attempt, outcome, late, copies, crashes>>

-----------------------------------------------------------------------------
(* The server and the process *)

LateArrival(r) ==
    /\ late[r] > 0
    /\ late' = [late EXCEPT ![r] = @ - 1]
    /\ \/ copies' = [copies EXCEPT ![r] = @ + 1]
       \/ UNCHANGED copies
    /\ UNCHANGED <<caller, sem, phase, attempt, outcome, crashes>>

(* The process dies and restarts: semaphore and goroutines are gone, a
   request that was with the server may still be applied. *)
Crash ==
    /\ crashes < MaxCrashes
    /\ crashes' = crashes + 1
    /\ caller' = [c \in Callers |-> NoRow]
    /\ sem' = 0
    /\ late' = [r \in Rows |-> IF phase[r] = "sending" THEN late[r] + 1 ELSE late[r]]
    /\ phase' = [r \in Rows |->
                    CASE phase[r] \in {"new", "skipped", "done", "lost"} -> phase[r]
                      [] phase[r] = "returning" -> "done"
                      [] OTHER -> "lost"]
    /\ UNCHANGED <<attempt, outcome, copies>>

Server(r) == ServerApplies(r) \/ Refused(r) \/ TimedOut(r)
Insert(r) == Server(r) \/ Reply200(r) \/ ReplyLost(r) \/ Wake(r) \/ Release(r)

Next ==
    \/ \E c \in Callers :
          \/ \E r \in Rows : CallEmpty(c, r) \/ Call(c, r)
          \/ Acquire(c)
    \/ \E r \in Rows : Insert(r) \/ LateArrival(r)
    \/ Crash

(* An HTTP round trip ends within client.Timeout, a sleep ends, and a
   runnable goroutine is scheduled: one step of each insert is never put off
   for ever.  Senders on a Go channel queue first in, first out, so a blocked
   caller is not overtaken for ever. *)
Fairness == /\ \A r \in Rows : WF_vars(Insert(r))
            /\ \A c \in Callers : SF_vars(Acquire(c))

SafetySpec == Init /\ [][Next]_vars
Spec == SafetySpec /\ Fairness

-----------------------------------------------------------------------------
(* Properties *)

(* Every variable has its type. *)
TypeOK ==
    /\ caller \in [Callers -> Rows \cup {NoRow}]
    /\ sem \in 0 .. MaxInFlight
    /\ phase \in [Rows -> Phases]
    /\ attempt \in [Rows -> 0 .. Attempts]
    /\ outcome \in [Rows -> {"none", "stored", "dropped"}]
    /\ late \in [Rows -> Nat]
    /\ copies \in [Rows -> Nat]
    /\ crashes \in 0 .. MaxCrashes

(* maxInFlightInserts "bounds concurrent async ClickHouse INSERTs": the
   goroutines that hold a token are exactly the tokens taken, on every path
   through insert() and over a restart, so there are never more of them than
   MaxInFlight and no token leaks. *)
InFlightBounded ==
    /\ sem = Cardinality(Holders)
    /\ Cardinality(Holders) <= MaxInFlight

(* A row insert() reports as stored is in the table, and the copies of a row,
   landed or still on their way, never exceed the attempts that were made:
   retries duplicate a row, but at most Attempts times. *)
CopiesMatchAttempts ==
    \A r \in Rows :
        /\ outcome[r] = "stored" => copies[r] > 0
        /\ copies[r] + late[r] <= attempt[r]

(* A caller blocked by backpressure gets through once the inserts ahead of it
   finish, whatever ClickHouse answers to them. *)
CallerReleased == \A c \in Callers : (caller[c] # NoRow) ~> (caller[c] = NoRow)

(* What the writer has concluded about a row, in the terms of AsyncInsert. *)
RowState(r) ==
    IF phase[r] \in {"new", "skipped"} THEN "new"
    ELSE IF outcome[r] = "stored" THEN "stored"
    ELSE IF outcome[r] = "dropped" \/ phase[r] = "lost" THEN "abandoned"
    ELSE "pending"

Promise == INSTANCE AsyncInsert WITH
    state <- [r \in Rows |-> RowState(r)],
    landed <- copies

(* Every accepted row lands at most Attempts times, is counted as stored only
   when it has landed, and is settled in the end. *)
ImplementsAsyncInsert == Promise!ASpec
=============================================================================
