----------------------- MODULE ClickHouseWriterProofs -----------------------
(***************************************************************************)
(* The semaphore never leaks and never overflows, retries duplicate a row   *)
(* at most Attempts times, and every step of the writer is a step of        *)
(* AsyncInsert or a stutter: for any callers, rows, semaphore size, number  *)
(* of attempts and number of crashes.                                       *)
(***************************************************************************)
EXTENDS ClickHouseWriter, FiniteSetTheorems, TLAPS

(* A caller blocked on the semaphore waits for a row of its own. *)
CallersInv ==
    /\ \A c \in Callers : caller[c] # NoRow => phase[caller[c]] = "blocked"
    /\ \A c, d \in Callers : caller[c] = caller[d] /\ caller[c] # NoRow => c = d

(* What is known of a row at each place of its insert: what has been tried,
   what may have landed, what insert() is about to return. *)
RowInv ==
    \A r \in Rows :
        /\ phase[r] \in {"new", "skipped", "blocked"} => attempt[r] = 0
        /\ phase[r] = "backoff" => attempt[r] < Attempts
        /\ phase[r] = "sending" => copies[r] + late[r] < attempt[r]
        /\ copies[r] + late[r] <= attempt[r]
        /\ phase[r] = "applied" => copies[r] > 0
        /\ outcome[r] = "stored" => copies[r] > 0
        /\ outcome[r] # "none" <=> phase[r] \in {"returning", "done"}

SemInv == sem = Cardinality(Holders)

IInv == TypeOK /\ CallersInv /\ RowInv /\ SemInv

-----------------------------------------------------------------------------
(* The holders of a token form a finite set: there are finitely many rows. *)
LEMMA HoldersFinite == IsFiniteSet(Holders)
  BY RowsFinite, FS_Subset DEF Holders

(* A step that keeps the set of holders keeps what SemInv says. *)
LEMMA SemKept ==
    ASSUME SemInv, UNCHANGED sem,
           \A r \in Rows : (phase'[r] \in Holding) <=> (phase[r] \in Holding)
    PROVE  SemInv'
  <1>1. Holders' = Holders
    BY DEF Holders
  <1>2. QED
    BY <1>1 DEF SemInv

(* The initial state satisfies the invariant. *)
LEMMA InitIInv == Init => IInv
  <1>1. SUFFICES ASSUME Init PROVE IInv
    OBVIOUS
  <1>2. TypeOK
    BY <1>1, WriterAssumption DEF Init, TypeOK, Phases
  <1>3. CallersInv /\ RowInv
    BY <1>1, WriterAssumption DEF Init, CallersInv, RowInv
  <1>4. Holders = {}
    BY <1>1 DEF Init, Holders, Holding
  <1>5. SemInv
    BY <1>1, <1>4, FS_EmptySet DEF Init, SemInv
  <1>6. QED
    BY <1>2, <1>3, <1>5 DEF IInv

-----------------------------------------------------------------------------
(* insertAsync keeps the invariant. *)

LEMMA CallIInv ==
    ASSUME IInv, NEW c \in Callers, NEW r \in Rows,
           CallEmpty(c, r) \/ Call(c, r)
    PROVE  IInv'
  <1> USE DEF IInv, CallEmpty, Call
  <1>1. TypeOK'
    BY WriterAssumption DEF TypeOK, Phases
  <1>2. CallersInv'
    BY WriterAssumption DEF TypeOK, CallersInv
  <1>3. RowInv'
    BY DEF TypeOK, RowInv
  <1>4. SemInv'
    BY SemKept DEF TypeOK, Holding
  <1>5. QED
    BY <1>1, <1>2, <1>3, <1>4

(* A token that is taken belongs to a goroutine that did not hold one. *)
LEMMA AcquireIInv ==
    ASSUME IInv, NEW c \in Callers, Acquire(c)
    PROVE  IInv'
  <1> USE DEF IInv, Acquire
  <1> DEFINE q == caller[c]
  <1>1. q \in Rows /\ phase[q] = "blocked"
    BY DEF TypeOK, CallersInv
  <1>2. TypeOK'
    BY <1>1, WriterAssumption DEF TypeOK, Phases, Holding
  <1>3. CallersInv'
    BY <1>1, WriterAssumption DEF TypeOK, CallersInv
  <1>4. RowInv'
    BY <1>1, WriterAssumption DEF TypeOK, RowInv
  <1>5. Holders' = Holders \cup {q} /\ q \notin Holders
    BY <1>1 DEF TypeOK, Holders, Holding
  <1>6. Cardinality(Holders') = Cardinality(Holders) + 1
    BY <1>5, HoldersFinite, FS_AddElement
  <1>7. SemInv'
    BY <1>6 DEF SemInv
  <1>8. QED
    BY <1>2, <1>3, <1>4, <1>7

(* Each step of insert() keeps the invariant. *)

LEMMA InsertIInv ==
    ASSUME IInv, NEW r \in Rows, Server(r) \/ Reply200(r) \/ ReplyLost(r) \/ Wake(r)
    PROVE  IInv'
  <1> USE DEF IInv, Server, ServerApplies, Refused, TimedOut, Reply200, ReplyLost,
              Wake, AttemptFailed
  <1>1. TypeOK'
    BY WriterAssumption DEF TypeOK, Phases, Holding, RowInv
  <1>2. CallersInv'
    BY WriterAssumption DEF TypeOK, CallersInv
  <1>3. RowInv'
    BY WriterAssumption DEF TypeOK, RowInv
  <1>4. SemInv'
    BY SemKept DEF TypeOK, Holding
  <1>5. QED
    BY <1>1, <1>2, <1>3, <1>4

(* A token that is given back is that of the goroutine that ends. *)
LEMMA ReleaseIInv ==
    ASSUME IInv, NEW r \in Rows, Release(r)
    PROVE  IInv'
  <1> USE DEF IInv, Release
  <1>1. Holders' = Holders \ {r} /\ r \in Holders
    BY DEF TypeOK, Holders, Holding
  <1>2. Cardinality(Holders') = Cardinality(Holders) - 1
    BY <1>1, HoldersFinite, FS_RemoveElement
  <1>3. Cardinality(Holders') \in Nat
    BY <1>1, HoldersFinite, FS_RemoveElement, FS_CardinalityType
  <1>4. SemInv'
    BY <1>2 DEF SemInv
  <1>5. sem' \in 0 .. MaxInFlight
    BY <1>3, <1>4, WriterAssumption DEF SemInv, TypeOK
  <1>6. TypeOK'
    BY <1>5 DEF TypeOK, Phases
  <1>7. CallersInv' /\ RowInv'
    BY WriterAssumption DEF TypeOK, CallersInv, RowInv
  <1>8. QED
    BY <1>4, <1>6, <1>7

(* A late arrival turns a copy on its way into a copy that landed, or none. *)
LEMMA LateArrivalIInv ==
    ASSUME IInv, NEW r \in Rows, LateArrival(r)
    PROVE  IInv'
  <1> USE DEF IInv, LateArrival
  <1>1. TypeOK'
    BY DEF TypeOK
  <1>2. CallersInv' /\ RowInv'
    BY DEF TypeOK, CallersInv, RowInv
  <1>3. SemInv'
    BY SemKept
  <1>4. QED
    BY <1>1, <1>2, <1>3

(* A crash gives up all tokens and their holders, and no copy is invented. *)
LEMMA CrashIInv ==
    ASSUME IInv, Crash
    PROVE  IInv'
  <1> USE DEF IInv, Crash
  <1>1. \A r \in Rows : phase'[r] \notin Holding /\ phase'[r] # "blocked"
    BY DEF TypeOK, Phases, Holding
  <1>2. TypeOK'
    BY WriterAssumption DEF TypeOK, Phases, Holding
  <1>3. CallersInv'
    BY DEF CallersInv
  <1>4. RowInv'
    BY DEF TypeOK, RowInv, Phases, Holding
  <1>5. Holders' = {}
    BY <1>1 DEF Holders
  <1>6. SemInv'
    BY <1>5, FS_EmptySet DEF SemInv
  <1>7. QED
    BY <1>2, <1>3, <1>4, <1>6

(* Every step keeps the invariant. *)
LEMMA NextIInv == IInv /\ [Next]_vars => IInv'
  <1> SUFFICES ASSUME IInv, [Next]_vars PROVE IInv'
    OBVIOUS
  <1>1. CASE \E c \in Callers, r \in Rows : CallEmpty(c, r) \/ Call(c, r)
    BY <1>1, CallIInv
  <1>2. CASE \E c \in Callers : Acquire(c)
    BY <1>2, AcquireIInv
  <1>3. CASE \E r \in Rows : Server(r) \/ Reply200(r) \/ ReplyLost(r) \/ Wake(r)
    BY <1>3, InsertIInv
  <1>4. CASE \E r \in Rows : Release(r)
    BY <1>4, ReleaseIInv
  <1>5. CASE \E r \in Rows : LateArrival(r)
    BY <1>5, LateArrivalIInv
  <1>6. CASE Crash
    BY <1>6, CrashIInv
  <1>7. CASE UNCHANGED vars
    BY <1>7 DEF vars, IInv, TypeOK, CallersInv, RowInv, SemInv, Holders
  <1>8. QED
    BY <1>1, <1>2, <1>3, <1>4, <1>5, <1>6, <1>7 DEF Next, Insert

(* The strengthened invariant holds in every reachable state. *)
THEOREM Invariance == SafetySpec => []IInv
  BY InitIInv, NextIInv, PTL DEF SafetySpec

(* Every variable keeps its type; in particular w.sem is never released below
   zero nor taken above its capacity, and the retry loop never runs an attempt
   past the last one. *)
THEOREM TypeCorrect == SafetySpec => []TypeOK
  <1>1. IInv => TypeOK
    BY DEF IInv
  <1>2. QED
    BY <1>1, Invariance, PTL

(* maxInFlightInserts bounds the inserts in flight and no token leaks, for any
   number of callers and rows and any sequence of answers and crashes. *)
THEOREM InFlight == SafetySpec => []InFlightBounded
  <1>1. IInv => InFlightBounded
    BY WriterAssumption DEF IInv, TypeOK, SemInv, InFlightBounded
  <1>2. QED
    BY <1>1, Invariance, PTL

(* A row reported as stored is in the table, and retries, lost replies and
   late requests never put more copies of it there than attempts were made. *)
THEOREM Copies == SafetySpec => []CopiesMatchAttempts
  <1>1. IInv => CopiesMatchAttempts
    BY DEF IInv, RowInv, CopiesMatchAttempts
  <1>2. QED
    BY <1>1, Invariance, PTL

-----------------------------------------------------------------------------
(* The refinement: one lemma per way a step of the writer looks to a reader
   of AsyncInsert. *)

LEMMA InitRefines == Init => Promise!AInit
  BY DEF Init, Promise!AInit, RowState

(* A call is an Accept of the promise, or a stutter for an empty payload. *)
LEMMA AcceptRefines ==
    ASSUME IInv, NEW c \in Callers, NEW r \in Rows,
           CallEmpty(c, r) \/ Call(c, r)
    PROVE  Promise!Accept(r) \/ UNCHANGED Promise!avars
  BY ZenonT(60) DEF IInv, TypeOK, RowInv, CallEmpty, Call, RowState, Promise!Accept,
         Promise!avars

(* Taking a token does not show in the promise. *)
LEMMA AcquireRefines ==
    ASSUME IInv, NEW c \in Callers, Acquire(c)
    PROVE  UNCHANGED Promise!avars
  <1>1. caller[c] \in Rows /\ phase[caller[c]] = "blocked"
    BY DEF IInv, TypeOK, CallersInv, Acquire
  <1>2. \A r \in Rows : RowState(r)' = RowState(r)
    BY <1>1 DEF IInv, TypeOK, RowInv, Acquire, RowState
  <1>3. QED
    BY <1>2 DEF Acquire, Promise!avars

(* A failed attempt abandons the row if it was the last one. *)
LEMMA FailureRefines ==
    ASSUME IInv, NEW r \in Rows, phase[r] \in {"sending", "applied"},
           AttemptFailed(r), UNCHANGED copies
    PROVE  Promise!Abandon({r}) \/ UNCHANGED Promise!avars
  <1> USE DEF IInv, TypeOK, RowInv
  <1>1. \A q \in Rows \ {r} : RowState(q)' = RowState(q)
    BY DEF AttemptFailed, RowState
  <1>2. RowState(r) = "pending"
    BY DEF RowState
  <1>3. RowState(r)' \in {"pending", "abandoned"}
    BY DEF AttemptFailed, RowState
  <1>4. QED
    BY <1>1, <1>2, <1>3 DEF Promise!Abandon, Promise!avars

(* A step of insert() is a Land, a Confirm, an Abandon or a stutter. *)
LEMMA InsertRefines ==
    ASSUME IInv, NEW r \in Rows, Insert(r)
    PROVE  \/ Promise!Land(r) \/ Promise!Confirm(r)
           \/ Promise!Abandon({r}) \/ UNCHANGED Promise!avars
  <1> USE DEF IInv, TypeOK, RowInv
  <1>1. CASE ServerApplies(r)
    <2>1. \A q \in Rows : RowState(q)' = RowState(q)
      BY <1>1 DEF ServerApplies, RowState
    <2>2. RowState(r) # "new" /\ copies[r] < Attempts
      BY <1>1, WriterAssumption DEF ServerApplies, RowState
    <2>3. QED
      BY <1>1, <2>1, <2>2 DEF ServerApplies, Promise!Land
  <1>2. CASE Reply200(r)
    <2>1. \A q \in Rows \ {r} : RowState(q)' = RowState(q)
      BY <1>2 DEF Reply200, RowState
    <2>2. RowState(r) = "pending" /\ RowState(r)' = "stored" /\ copies[r] > 0
      BY <1>2 DEF Reply200, RowState
    <2>3. QED
      BY <1>2, <2>1, <2>2 DEF Reply200, Promise!Confirm
  <1>3. CASE ReplyLost(r) \/ Refused(r) \/ TimedOut(r)
    BY <1>3, FailureRefines DEF ReplyLost, Refused, TimedOut
  <1>4. CASE Wake(r) \/ Release(r)
    <2>1. \A q \in Rows : RowState(q)' = RowState(q)
      BY <1>4 DEF Wake, Release, RowState
    <2>2. QED
      BY <1>4, <2>1 DEF Wake, Release, Promise!avars
  <1>5. QED
    BY <1>1, <1>2, <1>3, <1>4 DEF Insert, Server

(* A late request finds room below Attempts: it is one of the attempts. *)
LEMMA LateArrivalRefines ==
    ASSUME IInv, NEW r \in Rows, LateArrival(r)
    PROVE  Promise!Land(r) \/ UNCHANGED Promise!avars
  <1> USE DEF IInv, TypeOK, RowInv, LateArrival
  <1>1. \A q \in Rows : RowState(q)' = RowState(q)
    BY DEF RowState
  <1>2. RowState(r) # "new" /\ copies[r] < Attempts
    BY WriterAssumption DEF RowState
  <1>3. QED
    BY <1>1, <1>2 DEF Promise!Land, Promise!avars

(* A crash abandons the rows that were pending and no other. *)
LEMMA CrashRefines ==
    ASSUME IInv, Crash
    PROVE  (\E S \in SUBSET Rows : Promise!Abandon(S)) \/ UNCHANGED Promise!avars
  <1> DEFINE S == {r \in Rows : RowState(r) = "pending"}
  <1> USE DEF IInv, TypeOK, RowInv, Crash
  <1>1. \A r \in S : RowState(r)' = "abandoned"
    BY DEF RowState, Phases, Holding
  <1>2. \A r \in Rows \ S : RowState(r)' = RowState(r)
    BY DEF RowState, Phases, Holding
  <1>3. CASE S = {}
    BY <1>2, <1>3 DEF Promise!avars
  <1>4. CASE S # {}
    BY <1>1, <1>2, <1>4, ZenonT(60) DEF Promise!Abandon
  <1>5. QED
    BY <1>3, <1>4

(* Every step is a step of the promise, or a stutter. *)
LEMMA NextRefines == IInv /\ [Next]_vars => [Promise!ANext]_(Promise!avars)
  <1> SUFFICES ASSUME IInv, [Next]_vars PROVE [Promise!ANext]_(Promise!avars)
    OBVIOUS
  <1>1. CASE \E c \in Callers, r \in Rows : CallEmpty(c, r) \/ Call(c, r)
    BY <1>1, AcceptRefines DEF Promise!ANext
  <1>2. CASE \E c \in Callers : Acquire(c)
    BY <1>2, AcquireRefines
  <1>3. CASE \E r \in Rows : Insert(r)
    <2>1. PICK r \in Rows : Insert(r)
      BY <1>3
    <2>2. CASE Promise!Abandon({r})
      BY <2>2, {r} \in SUBSET Rows DEF Promise!ANext
    <2>3. QED
      BY <2>1, <2>2, InsertRefines DEF Promise!ANext
  <1>4. CASE \E r \in Rows : LateArrival(r)
    BY <1>4, LateArrivalRefines DEF Promise!ANext
  <1>5. CASE Crash
    BY <1>5, CrashRefines DEF Promise!ANext
  <1>6. CASE UNCHANGED vars
    BY <1>6 DEF vars, RowState, Promise!avars
  <1>7. QED
    BY <1>1, <1>2, <1>3, <1>4, <1>5, <1>6 DEF Next

(* The writer keeps the safety part of what AsyncInsert promises: each of its
   steps accepts, lands, confirms or abandons a row as that module allows, or
   is invisible to it. *)
THEOREM Refinement == SafetySpec => Promise!ASafety
  BY InitRefines, Invariance, NextRefines, PTL DEF SafetySpec, Promise!ASafety
=============================================================================
