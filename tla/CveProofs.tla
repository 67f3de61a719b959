------------------------------ MODULE CveProofs ------------------------------
(***************************************************************************)
(* The fetches of CveFetch, for any number of scans, dependencies and       *)
(* requests, and the bound of the rate limiter, for any rate, burst and     *)
(* number of callers.                                                      *)
(*                                                                         *)
(* Of the fetches, the argument is the map of flights: it names exactly the *)
(* scan that fetches a key, so only that scan can fill the key's cache      *)
(* entry, and it looked at the entry after it had entered the map.          *)
(*                                                                         *)
(* Of the limiter: what is handed out since a tick is bounded by what the   *)
(* bucket held and earned since, which is inductive when it is said of the  *)
(* last fill, with the tokens still in the bucket, instead of now.          *)
(***************************************************************************)
EXTENDS MCCve, TLAPS

-----------------------------------------------------------------------------
(* The fetches *)

(* A scan that leads a flight in the map. *)
Flying(s) == phase[s] \in {"leading", "trying", "asked", "returned"}

(* A scan in the middle of a query has a dependency. *)
Placed == \A s \in Scans : phase[s] \notin {"next", "ended"} => HasDep(s)

HasResult(s) == phase[s] \in {"returned", "closing", "got"}

Registered == \A s \in Scans : Flying(s) => flights[Key(s)] = s

(* A scan waits for the fetch of the key it wants. *)
WaitsForOwnKey ==
    \A w \in Scans :
        phase[w] = "waiting" =>
            /\ leaderOf[w] \in Scans
            /\ Flying(leaderOf[w]) \/ phase[leaderOf[w]] = "closing"
            /\ Key(leaderOf[w]) = Key(w)

FlightsFly ==
    \A k \in Keys :
        flights[k] # NoScan => Flying(flights[k]) /\ Key(flights[k]) = k

FetchesWhatIsMissing ==
    \A s \in Scans : phase[s] \in {"trying", "asked"} => cache[Key(s)] = "none"

AnswersAreKept ==
    \A k \in Keys : answered[k] = evicted[k] + (IF cache[k] = "none" THEN 0 ELSE 1)

CacheIsTrue ==
    \A k \in Keys : cache[k] = "negative" /\ k \in Vulnerable => k \in denied

ResultIsTrue ==
    \A s \in Scans :
        HasResult(s) =>
            /\ result[s] # "none"
            /\ result[s] = "negative" /\ Key(s) \in Vulnerable => Key(s) \in denied

FlightInv == Registered /\ WaitsForOwnKey /\ FlightsFly
CacheInv == FetchesWhatIsMissing /\ AnswersAreKept /\ CacheIsTrue
AnswerInv == ResultIsTrue /\ NothingMissed

IInv == TypeOK /\ Placed /\ FlightInv /\ CacheInv /\ AnswerInv

LEMMA KeyType ==
    ASSUME TypeOK, NEW s \in Scans, HasDep(s)
    PROVE  Key(s) \in Keys
    <1>1. Deps[s] \in Seq(Keys) /\ at[s] \in 1 .. Len(Deps[s])
        BY CveAssumption DEF TypeOK, HasDep
    <1> QED
        BY <1>1 DEF Key

(* Which scan has a dependency depends on its place alone. *)
LEMMA SameKeys ==
    ASSUME UNCHANGED at
    PROVE  \A s \in Scans : (HasDep(s)' <=> HasDep(s)) /\ Key(s)' = Key(s)
    BY DEF HasDep, Key

LEMMA InitInv == Init => IInv
    <1> SUFFICES ASSUME Init PROVE IInv
        OBVIOUS
    <1> USE CveAssumption
    <1>1. TypeOK
        BY DEF Init, TypeOK, Phases, Results
    <1>5. Placed
        BY DEF Init, Placed
    <1>2. FlightInv
        BY DEF Init, FlightInv, Registered, WaitsForOwnKey, FlightsFly, Flying
    <1>3. CacheInv
        BY DEF Init, CacheInv, FetchesWhatIsMissing, AnswersAreKept, CacheIsTrue
    <1>4. AnswerInv
        <2>1. ResultIsTrue
            BY DEF Init, ResultIsTrue, HasResult
        <2>2. NothingMissed
            BY DEF Init, NothingMissed
        <2> QED
            BY <2>1, <2>2 DEF AnswerInv
    <1> QED
        BY <1>1, <1>2, <1>3, <1>4, <1>5 DEF IInv

LEMMA MoveType ==
    ASSUME TypeOK, NEW s \in Scans, NEW p \in Phases, Move(s, p)
    PROVE  phase' \in [Scans -> Phases]
    BY DEF Move, TypeOK

LEMMA ReturnType ==
    ASSUME TypeOK, NEW s \in Scans, NEW p \in Phases, NEW r \in Results, Return(s, p, r)
    PROVE  phase' \in [Scans -> Phases] /\ result' \in [Scans -> Results]
    BY DEF Return, Move, TypeOK

LEMMA FetchedType ==
    ASSUME TypeOK, NEW s \in Scans, NEW r \in Results, Fetched(s, r)
    PROVE  /\ phase' \in [Scans -> Phases] /\ result' \in [Scans -> Results]
           /\ tries' \in [Scans -> 0 .. Attempts]
    <1>1. phase' \in [Scans -> Phases] /\ result' \in [Scans -> Results]
        BY ReturnType DEF Fetched, Phases
    <1>2. tries' \in [Scans -> 0 .. Attempts]
        BY CveAssumption DEF Fetched, TypeOK
    <1> QED
        BY <1>1, <1>2

LEMMA TypeStep == TypeOK /\ Placed /\ [Next]_vars => TypeOK'
    <1> SUFFICES ASSUME TypeOK, Placed, [Next]_vars PROVE TypeOK'
        OBVIOUS
    <1> USE CveAssumption DEF ghosts, report
    <1>1. ASSUME NEW s \in Scans, Lookup(s) PROVE TypeOK'
        <2>1. cache[Key(s)] \in Results
            BY <1>1, KeyType DEF Lookup, TypeOK, Results
        <2>2. phase' \in [Scans -> Phases] /\ result' \in [Scans -> Results]
            <3>1. CASE cache[Key(s)] # "none"
                BY <1>1, <2>1, <3>1, ReturnType DEF Lookup, Phases
            <3>2. CASE cache[Key(s)] = "none"
                BY <1>1, <3>2, MoveType DEF Lookup, Phases, TypeOK
            <3> QED
                BY <3>1, <3>2
        <2> QED
            BY <1>1, <2>2 DEF Lookup, TypeOK
    <1>2. ASSUME NEW s \in Scans, Join(s) PROVE TypeOK'
        BY <1>2, KeyType DEF Placed, Join, Move, TypeOK, Phases
    <1>3. ASSUME NEW s \in Scans, Lead(s) PROVE TypeOK'
        BY <1>3 DEF Lead, Move, TypeOK, Phases
    <1>4. ASSUME NEW s \in Scans, LookAgain(s) PROVE TypeOK'
        <2>1. cache[Key(s)] \in Results
            BY <1>4, KeyType DEF Placed, LookAgain, TypeOK, Results
        <2>2. /\ phase' \in [Scans -> Phases] /\ result' \in [Scans -> Results]
              /\ tries' \in [Scans -> 0 .. Attempts]
            <3>1. CASE cache[Key(s)] # "none"
                BY <1>4, <2>1, <3>1, FetchedType DEF LookAgain
            <3>2. CASE cache[Key(s)] = "none"
                <4>1. phase' \in [Scans -> Phases]
                    BY <1>4, <3>2, MoveType DEF LookAgain, Phases
                <4>2. tries' = [tries EXCEPT ![s] = 1] /\ result' = result
                    BY <1>4, <3>2 DEF LookAgain
                <4>3. 1 \in 0 .. Attempts
                    OBVIOUS
                <4>4. tries' \in [Scans -> 0 .. Attempts]
                    BY <4>2, <4>3 DEF TypeOK
                <4> QED
                    BY <4>1, <4>2, <4>4 DEF TypeOK
            <3> QED
                BY <3>1, <3>2
        <2> QED
            BY <1>4, <2>2 DEF LookAgain, TypeOK
    <1>5. ASSUME NEW s \in Scans, LeaveLimiter(s) PROVE TypeOK'
        BY <1>5 DEF LeaveLimiter, Fetched, Move, Return, TypeOK, Phases, Results
    <1>6. ASSUME NEW s \in Scans, Ask(s) PROVE TypeOK'
        BY <1>6 DEF Ask, MaySpend, Move, TypeOK, Phases
    <1>7. ASSUME NEW s \in Scans, Exhausted(s) PROVE TypeOK'
        BY <1>7 DEF Exhausted, Fetched, Move, Return, TypeOK, Phases, Results
    <1>8. ASSUME NEW s \in Scans, Reply(s) PROVE TypeOK'
        <2>1. Key(s) \in Keys
            BY <1>8, KeyType DEF Placed, Reply
        <2>2. PICK r \in Replies(s) :
                /\ \/ /\ Retries(s, r)
                      /\ Move(s, "trying") /\ tries' = [tries EXCEPT ![s] = @ + 1]
                      /\ UNCHANGED result
                   \/ Fetched(s, Outcome(r))
                /\ cache' = [cache EXCEPT ![Key(s)] = Remembered(r, Key(s))]
                /\ answered' = IF r \in Definite
                               THEN [answered EXCEPT ![Key(s)] = @ + 1] ELSE answered
                /\ denied' = IF r = "absent" THEN denied \cup {Key(s)} ELSE denied
            BY <1>8 DEF Reply
        <2>3. r \in {"absent", "broken", "retryable", "fatal", "vulns", "negative"}
            BY <2>2 DEF Replies
        <2>4. Outcome(r) \in Results /\ Remembered(r, Key(s)) \in {"none", "negative", "vulns"}
            BY <2>1, <2>3 DEF Outcome, Results, Remembered, Definite, TypeOK
        <2>5. phase' \in [Scans -> Phases] /\ result' \in [Scans -> Results]
              /\ tries' \in [Scans -> 0 .. Attempts]
            <3>1. CASE Fetched(s, Outcome(r))
                BY <2>4, <3>1, FetchedType
            <3>2. CASE ~Fetched(s, Outcome(r))
                <4>1. phase' \in [Scans -> Phases]
                    BY <2>2, <3>2, MoveType DEF Phases
                <4>2. /\ tries' = [tries EXCEPT ![s] = @ + 1] /\ result' = result
                      /\ tries[s] < Attempts
                    BY <2>2, <3>2 DEF Retries
                <4>3. tries[s] + 1 \in 0 .. Attempts
                    BY <4>2 DEF TypeOK
                <4>4. tries' \in [Scans -> 0 .. Attempts]
                    BY <4>2, <4>3 DEF TypeOK
                <4> QED
                    BY <4>1, <4>2, <4>4 DEF TypeOK
            <3> QED
                BY <3>1, <3>2
        <2>6. /\ cache' \in [Keys -> {"none", "negative", "vulns"}]
              /\ answered' \in [Keys -> Nat] /\ denied' \subseteq Keys
            BY <2>1, <2>2, <2>4 DEF TypeOK
        <2> QED
            BY <1>8, <2>5, <2>6 DEF Reply, TypeOK
    <1>9. ASSUME NEW s \in Scans, Panic(s) PROVE TypeOK'
        BY <1>9 DEF Panic, Fetched, Move, Return, TypeOK, Phases, Results
    <1>10. ASSUME NEW s \in Scans, Unregister(s) PROVE TypeOK'
        BY <1>10 DEF Unregister, Move, TypeOK, Phases
    <1>11. ASSUME NEW s \in Scans, Close(s) PROVE TypeOK'
        <2>1. phase' \in [Scans -> Phases] /\ result' \in [Scans -> Results]
              /\ leaderOf' \in [Scans -> Scans \cup {NoScan}]
            BY <1>11 DEF Close, Deliver, TypeOK, Phases
        <2> QED
            BY <1>11, <2>1 DEF Close, Deliver, TypeOK
    <1>12. ASSUME NEW s \in Scans, Use(s) PROVE TypeOK'
        <2>1. Key(s) \in Keys
            BY <1>12, KeyType DEF Placed, Use
        <2>2. CASE result[s] = "exhausted"
            <3>1. phase' \in [Scans -> Phases] /\ result' \in [Scans -> Results]
                BY <1>12, <2>2, ReturnType DEF Use, Phases, Results
            <3> QED
                BY <1>12, <2>2, <3>1 DEF Use, TypeOK
        <2>3. CASE result[s] # "exhausted"
            <3>1. phase' \in [Scans -> Phases] /\ result' \in [Scans -> Results]
                BY <1>12, <2>3, ReturnType DEF Use, Phases, Results
            <3>2. at' \in [Scans -> Nat \ {0}]
                <4>1. at' = [at EXCEPT ![s] = at[s] + 1]
                    BY <1>12, <2>3 DEF Use
                <4>2. at[s] + 1 \in Nat \ {0}
                    BY DEF TypeOK
                <4> QED
                    BY <4>1, <4>2 DEF TypeOK
            <3> DEFINE f == IF result[s] = "vulns" THEN found[s] \cup {Key(s)} ELSE found[s]
                       k == IF result[s] \in {"broken", "error"}
                            THEN skipped[s] \cup {Key(s)} ELSE skipped[s]
            <3>5. f \in SUBSET Keys /\ k \in SUBSET Keys
                BY <2>1 DEF TypeOK
            <3>6. found' = [found EXCEPT ![s] = f] /\ skipped' = [skipped EXCEPT ![s] = k]
                BY <1>12, <2>3 DEF Use
            <3> HIDE DEF f, k
            <3>3. found' \in [Scans -> SUBSET Keys]
                BY <3>5, <3>6 DEF TypeOK
            <3>4. skipped' \in [Scans -> SUBSET Keys]
                BY <3>5, <3>6 DEF TypeOK
            <3> QED
                BY <1>12, <2>3, <3>1, <3>2, <3>3, <3>4 DEF Use, TypeOK
        <2> QED
            BY <2>2, <2>3
    <1>13. ASSUME NEW s \in Scans, Finish(s) PROVE TypeOK'
        BY <1>13 DEF Finish, Move, TypeOK, Phases
    <1>14. ASSUME NEW k \in Keys, Evict(k) PROVE TypeOK'
        BY <1>14 DEF Evict, TypeOK
    <1>15. ASSUME UNCHANGED vars PROVE TypeOK'
        BY <1>15 DEF vars, TypeOK
    <1> QED
        BY <1>1, <1>2, <1>3, <1>4, <1>5, <1>6, <1>7, <1>8, <1>9, <1>10, <1>11, <1>12,
           <1>13, <1>14, <1>15 DEF Next, Query

-----------------------------------------------------------------------------
(* The steps of a leader between Lead and Unregister, seen from the map *)

Aloft(s) ==
    /\ phase[s] \in {"leading", "trying", "asked"}
    /\ \E p \in {"trying", "asked", "returned"} : Move(s, p)
    /\ UNCHANGED <<at, flights, leaderOf>>

LEMMA LeaderStaysAloft ==
    ASSUME NEW s \in Scans,
           \/ LookAgain(s) \/ LeaveLimiter(s) \/ Ask(s)
           \/ Exhausted(s) \/ Reply(s) \/ Panic(s)
    PROVE  Aloft(s)
    <1> USE DEF report, ghosts
    <1>1. CASE LookAgain(s)
        BY <1>1 DEF Aloft, LookAgain, Fetched, Return
    <1>2. CASE LeaveLimiter(s)
        BY <1>2 DEF Aloft, LeaveLimiter, Fetched, Return
    <1>3. CASE Ask(s)
        BY <1>3 DEF Aloft, Ask
    <1>4. CASE Exhausted(s)
        BY <1>4 DEF Aloft, Exhausted, Fetched, Return
    <1>5. CASE Reply(s)
        BY <1>5 DEF Aloft, Reply, Fetched, Return
    <1>6. CASE Panic(s)
        BY <1>6 DEF Aloft, Panic, Fetched, Return
    <1> QED
        BY <1>1, <1>2, <1>3, <1>4, <1>5, <1>6

(* One scan's step that leaves the dependencies where they are. *)
LEMMA StaysPlaced ==
    ASSUME Placed, NEW s \in Scans, HasDep(s) \/ phase'[s] \in {"next", "ended"},
           UNCHANGED at, \A w \in Scans : w # s => phase'[w] = phase[w]
    PROVE  Placed'
    BY DEF Placed, HasDep

LEMMA PlacedStep == TypeOK /\ Placed /\ [Next]_vars => Placed'
    <1> SUFFICES ASSUME TypeOK, Placed, [Next]_vars PROVE Placed'
        OBVIOUS
    <1> USE DEF report, ghosts
    <1>1. ASSUME NEW s \in Scans, Lookup(s) \/ Join(s) \/ Lead(s) PROVE Placed'
        <2>1. HasDep(s) /\ UNCHANGED at
            BY <1>1 DEF Placed, Lookup, Join, Lead
        <2>2. \A w \in Scans : w # s => phase'[w] = phase[w]
            BY <1>1 DEF Lookup, Join, Lead, Return, Move, TypeOK
        <2> QED
            BY <2>1, <2>2, StaysPlaced
    <1>2. ASSUME NEW s \in Scans, Aloft(s) PROVE Placed'
        <2>1. HasDep(s) /\ UNCHANGED at
            BY <1>2 DEF Placed, Aloft
        <2>2. \A w \in Scans : w # s => phase'[w] = phase[w]
            BY <1>2 DEF Aloft, Move, TypeOK
        <2> QED
            BY <2>1, <2>2, StaysPlaced
    <1>3. ASSUME NEW s \in Scans, Unregister(s) PROVE Placed'
        <2>1. HasDep(s) /\ UNCHANGED at
            BY <1>3 DEF Placed, Unregister
        <2>2. \A w \in Scans : w # s => phase'[w] = phase[w]
            BY <1>3 DEF Unregister, Move, TypeOK
        <2> QED
            BY <2>1, <2>2, StaysPlaced
    <1>4. ASSUME NEW s \in Scans, Close(s) PROVE Placed'
        BY <1>4 DEF Placed, Close, Deliver, Waiters, HasDep
    <1>5. ASSUME NEW s \in Scans, Use(s) PROVE Placed'
        <2>1. phase'[s] \in {"next", "ended"} /\ \A w \in Scans : w # s => phase'[w] = phase[w]
            BY <1>5 DEF Use, Return, Move, TypeOK
        <2>2. \A w \in Scans : w # s => at'[w] = at[w]
            BY <1>5 DEF Use, TypeOK
        <2> QED
            BY <2>1, <2>2 DEF Placed, HasDep
    <1>6. ASSUME NEW s \in Scans, Finish(s) PROVE Placed'
        <2>1. phase'[s] = "ended" /\ \A w \in Scans : w # s => phase'[w] = phase[w]
            BY <1>6 DEF Finish, Move, TypeOK
        <2> QED
            BY <1>6, <2>1, StaysPlaced DEF Finish
    <1>7. ASSUME UNCHANGED <<phase, at>> PROVE Placed'
        BY <1>7 DEF Placed, HasDep
    <1>8. ASSUME NEW k \in Keys, Evict(k) PROVE Placed'
        BY <1>7, <1>8 DEF Evict
    <1>9. ASSUME UNCHANGED vars PROVE Placed'
        BY <1>7, <1>9 DEF vars
    <1> QED
        BY <1>1, <1>2, <1>3, <1>4, <1>5, <1>6, <1>8, <1>9, LeaderStaysAloft DEF Next, Query

-----------------------------------------------------------------------------
(* The map of flights *)

LEMMA FlightStep == TypeOK /\ Placed /\ FlightInv /\ [Next]_vars => FlightInv'
    <1> SUFFICES ASSUME TypeOK, Placed, FlightInv, [Next]_vars PROVE FlightInv'
        OBVIOUS
    <1> USE CveAssumption DEF report, ghosts, FlightInv
    <1>1. ASSUME NEW s \in Scans, Aloft(s) PROVE FlightInv'
        <2>1. PICK p \in {"trying", "asked", "returned"} : phase' = [phase EXCEPT ![s] = p]
            BY <1>1 DEF Aloft, Move
        <2>2. phase[s] \in {"leading", "trying", "asked"} /\ UNCHANGED <<at, flights, leaderOf>>
            BY <1>1 DEF Aloft
        <2>3. Registered'
            BY <2>1, <2>2 DEF Registered, Flying, Key, TypeOK
        <2>4. FlightsFly'
            BY <2>1, <2>2 DEF FlightsFly, Flying, Key, TypeOK
        <2>5. WaitsForOwnKey'
            BY <2>1, <2>2 DEF WaitsForOwnKey, Flying, Key, TypeOK
        <2> QED
            BY <2>3, <2>4, <2>5
    <1>2. ASSUME NEW s \in Scans, NEW p \in {"got", "entering", "ended", "next"},
                 phase[s] \in {"next", "got"}, phase' = [phase EXCEPT ![s] = p],
                 \A w \in Scans : w # s => at'[w] = at[w],
                 UNCHANGED <<flights, leaderOf>>
          PROVE  FlightInv'
        <2>1. Registered'
            BY <1>2 DEF Registered, Flying, Key, TypeOK
        <2>2. FlightsFly'
            <3> SUFFICES ASSUME NEW k \in Keys, flights[k] # NoScan
                PROVE Flying(flights[k])' /\ Key(flights[k])' = k
                BY <1>2 DEF FlightsFly
            <3>1. flights[k] \in Scans /\ Flying(flights[k]) /\ Key(flights[k]) = k
                BY DEF FlightsFly, TypeOK
            <3>2. flights[k] # s
                BY <1>2, <3>1 DEF Flying
            <3> QED
                BY <1>2, <3>1, <3>2 DEF Flying, Key, TypeOK
        <2>3. WaitsForOwnKey'
            BY <1>2 DEF WaitsForOwnKey, Flying, Key, TypeOK
        <2> QED
            BY <2>1, <2>2, <2>3
    <1>3. ASSUME NEW s \in Scans, Lookup(s) \/ Finish(s) PROVE FlightInv'
        <2>1. /\ phase[s] = "next" /\ UNCHANGED <<at, flights, leaderOf>>
              /\ \E p \in {"got", "entering", "ended", "next"} : phase' = [phase EXCEPT ![s] = p]
            BY <1>3 DEF Lookup, Finish, Return, Move
        <2> QED
            BY <1>2, <2>1
    <1>4. ASSUME NEW s \in Scans, Use(s) PROVE FlightInv'
        <2>1. \E p \in {"got", "entering", "ended", "next"} : phase' = [phase EXCEPT ![s] = p]
            BY <1>4 DEF Use, Return, Move
        <2>2. \A w \in Scans : w # s => at'[w] = at[w]
            BY <1>4 DEF Use, TypeOK
        <2> QED
            BY <1>2, <1>4, <2>1, <2>2 DEF Use
    <1>5. ASSUME NEW s \in Scans, Join(s) PROVE FlightInv'
        <2>1. Key(s) \in Keys
            BY <1>5, KeyType DEF Placed, Join
        <2>2. PICK t \in Scans : t = flights[Key(s)]
            BY <1>5, <2>1 DEF Join, TypeOK
        <2>3. Flying(t) /\ Key(t) = Key(s)
            BY <1>5, <2>1, <2>2 DEF Join, FlightsFly
        <2>4. /\ phase[s] = "entering" /\ phase' = [phase EXCEPT ![s] = "waiting"]
              /\ leaderOf' = [leaderOf EXCEPT ![s] = t] /\ UNCHANGED <<at, flights>>
            BY <1>5, <2>2 DEF Join, Move
        <2>5. Registered'
            BY <2>4 DEF Registered, Flying, Key, TypeOK
        <2>6. FlightsFly'
            BY <2>4 DEF FlightsFly, Flying, Key, TypeOK
        <2>7. WaitsForOwnKey'
            BY <2>3, <2>4 DEF WaitsForOwnKey, Flying, Key, TypeOK
        <2> QED
            BY <2>5, <2>6, <2>7
    <1>6. ASSUME NEW s \in Scans, Lead(s) PROVE FlightInv'
        <2>1. Key(s) \in Keys
            BY <1>6, KeyType DEF Placed, Lead
        <2>2. /\ phase[s] = "entering" /\ phase' = [phase EXCEPT ![s] = "leading"]
              /\ flights[Key(s)] = NoScan /\ flights' = [flights EXCEPT ![Key(s)] = s]
              /\ UNCHANGED <<at, leaderOf>>
            BY <1>6 DEF Lead, Move
        <2>3. Registered'
            BY <2>1, <2>2, SMTT(30) DEF Registered, Flying, Key, TypeOK
        <2>4. FlightsFly'
            BY <2>1, <2>2, SMTT(30) DEF FlightsFly, Flying, Key, TypeOK
        <2>5. WaitsForOwnKey'
            BY <2>2 DEF WaitsForOwnKey, Flying, Key, TypeOK
        <2> QED
            BY <2>3, <2>4, <2>5
    <1>7. ASSUME NEW s \in Scans, Unregister(s) PROVE FlightInv'
        <2>1. Key(s) \in Keys
            BY <1>7, KeyType DEF Placed, Unregister
        <2>2. /\ phase[s] = "returned" /\ phase' = [phase EXCEPT ![s] = "closing"]
              /\ flights' = [flights EXCEPT ![Key(s)] = NoScan]
              /\ UNCHANGED <<at, leaderOf>>
            BY <1>7 DEF Unregister, Move
        <2>3. flights[Key(s)] = s
            BY <2>2 DEF Registered, Flying
        <2>4. Registered'
            BY <2>1, <2>2, <2>3 DEF Registered, Flying, Key, TypeOK
        <2>5. FlightsFly'
            BY <2>1, <2>2, <2>3 DEF FlightsFly, Flying, Key, TypeOK
        <2>6. WaitsForOwnKey'
            BY <2>2 DEF WaitsForOwnKey, Flying, Key, TypeOK
        <2> QED
            BY <2>4, <2>5, <2>6
    <1>8. ASSUME NEW s \in Scans, Close(s) PROVE FlightInv'
        <2>1. /\ phase[s] = "closing" /\ UNCHANGED <<at, flights>>
              /\ phase' = [w \in Scans |-> IF w \in Waiters(s) \cup {s} THEN "got" ELSE phase[w]]
              /\ leaderOf' = [w \in Scans |-> IF w \in Waiters(s) THEN NoScan ELSE leaderOf[w]]
            BY <1>8 DEF Close, Deliver
        <2>2. Registered'
            BY <2>1 DEF Registered, Waiters, Flying, Key
        <2>3. FlightsFly'
            BY <2>1 DEF FlightsFly, Waiters, Flying, Key, TypeOK
        <2>4. WaitsForOwnKey'
            BY <2>1 DEF WaitsForOwnKey, Waiters, Flying, Key
        <2> QED
            BY <2>2, <2>3, <2>4
    <1>9. ASSUME UNCHANGED <<phase, at, flights, leaderOf>> PROVE FlightInv'
        BY <1>9 DEF Registered, FlightsFly, WaitsForOwnKey, Flying, Key
    <1>10. ASSUME NEW k \in Keys, Evict(k) PROVE FlightInv'
        BY <1>9, <1>10 DEF Evict
    <1>11. ASSUME UNCHANGED vars PROVE FlightInv'
        BY <1>9, <1>11 DEF vars
    <1> QED
        BY <1>1, <1>3, <1>4, <1>5, <1>6, <1>7, <1>8, <1>10, <1>11, LeaderStaysAloft
        DEF Next, Query

-----------------------------------------------------------------------------
(* The cache *)

LEMMA OneFetcher ==
    ASSUME Registered, NEW s \in Scans, NEW t \in Scans, Flying(s), Flying(t), Key(s) = Key(t)
    PROVE  s = t
    BY DEF Registered

LEMMA CacheStep == IInv /\ [Next]_vars => CacheInv'
    <1> SUFFICES ASSUME IInv, [Next]_vars PROVE CacheInv'
        OBVIOUS
    <1> USE DEF report, ghosts, IInv, FlightInv, CacheInv
    <1>1. ASSUME UNCHANGED <<cache, answered, evicted, denied>>,
                 \A s \in Scans :
                    phase'[s] \in {"trying", "asked"} =>
                        cache[Key(s)] = "none" /\ at'[s] = at[s]
          PROVE  CacheInv'
        BY <1>1 DEF FetchesWhatIsMissing, AnswersAreKept, CacheIsTrue, Key
    <1>2. ASSUME NEW s \in Scans, NEW p \in Phases \ {"trying", "asked"},
                 phase' = [phase EXCEPT ![s] = p],
                 \A w \in Scans : w # s => at'[w] = at[w],
                 UNCHANGED <<cache, answered, evicted, denied>>
          PROVE  CacheInv'
        BY <1>1, <1>2 DEF FetchesWhatIsMissing, TypeOK
    <1>3. ASSUME NEW s \in Scans, Lookup(s) \/ Join(s) \/ Lead(s) PROVE CacheInv'
        <2>1. /\ \E p \in Phases \ {"trying", "asked"} : phase' = [phase EXCEPT ![s] = p]
              /\ UNCHANGED <<at, cache, answered, evicted, denied>>
            BY <1>3 DEF Lookup, Join, Lead, Return, Move, Phases
        <2> QED
            BY <1>2, <2>1
    <1>4. ASSUME NEW s \in Scans, LookAgain(s) PROVE CacheInv'
        <2>1. UNCHANGED <<at, cache, answered, evicted, denied>>
            BY <1>4 DEF LookAgain
        <2>2. CASE cache[Key(s)] # "none"
            <3>1. phase' = [phase EXCEPT ![s] = "returned"]
                BY <1>4, <2>2 DEF LookAgain, Fetched, Return, Move
            <3> QED
                BY <1>2, <2>1, <3>1 DEF Phases
        <2>3. CASE cache[Key(s)] = "none"
            <3>1. phase' = [phase EXCEPT ![s] = "trying"]
                BY <1>4, <2>3 DEF LookAgain, Move
            <3> QED
                BY <1>1, <2>1, <2>3, <3>1 DEF FetchesWhatIsMissing, TypeOK
        <2> QED
            BY <2>2, <2>3
    <1>5. ASSUME NEW s \in Scans, LeaveLimiter(s) \/ Exhausted(s) \/ Panic(s) PROVE CacheInv'
        <2>1. /\ phase' = [phase EXCEPT ![s] = "returned"]
              /\ UNCHANGED <<at, cache, answered, evicted, denied>>
            BY <1>5 DEF LeaveLimiter, Exhausted, Panic, Fetched, Return, Move
        <2> QED
            BY <1>2, <2>1 DEF Phases
    <1>6. ASSUME NEW s \in Scans, Ask(s) PROVE CacheInv'
        <2>1. /\ phase[s] = "trying" /\ phase' = [phase EXCEPT ![s] = "asked"]
              /\ UNCHANGED <<at, cache, answered, evicted, denied>>
            BY <1>6 DEF Ask, Move
        <2> QED
            BY <1>1, <2>1 DEF FetchesWhatIsMissing, TypeOK
    <1>7. ASSUME NEW s \in Scans, Reply(s) PROVE CacheInv'
        <2>1. Key(s) \in Keys /\ phase[s] = "asked" /\ cache[Key(s)] = "none"
            BY <1>7, KeyType DEF Placed, Reply, FetchesWhatIsMissing
        <2>2. PICK r \in Replies(s) :
                /\ \/ /\ Retries(s, r)
                      /\ Move(s, "trying") /\ tries' = [tries EXCEPT ![s] = @ + 1]
                      /\ UNCHANGED result
                   \/ Fetched(s, Outcome(r))
                /\ cache' = [cache EXCEPT ![Key(s)] = Remembered(r, Key(s))]
                /\ answered' = IF r \in Definite
                               THEN [answered EXCEPT ![Key(s)] = @ + 1] ELSE answered
                /\ denied' = IF r = "absent" THEN denied \cup {Key(s)} ELSE denied
            BY <1>7 DEF Reply
        <2>3. UNCHANGED <<at, flights, evicted>>
            BY <1>7 DEF Reply
        <2>4. /\ r \in Definite => Remembered(r, Key(s)) \in {"negative", "vulns"}
              /\ r \notin Definite => Remembered(r, Key(s)) = "none"
              /\ Remembered(r, Key(s)) = "negative" => r = "absent" \/ Key(s) \notin Vulnerable
            BY <2>1, <2>2 DEF Replies, Remembered, Outcome, Definite
        <2>5. AnswersAreKept'
            <3>1. CASE r \in Definite
                BY <2>1, <2>2, <2>3, <2>4, <3>1 DEF AnswersAreKept, TypeOK
            <3>2. CASE r \notin Definite
                BY <2>1, <2>2, <2>3, <2>4, <3>2 DEF AnswersAreKept, TypeOK
            <3> QED
                BY <3>1, <3>2
        <2>6. CacheIsTrue'
            BY <2>1, <2>2, <2>4 DEF CacheIsTrue, TypeOK
        <2>7. FetchesWhatIsMissing'
            <3> SUFFICES ASSUME NEW t \in Scans, phase'[t] \in {"trying", "asked"}
                PROVE cache'[Key(t)] = "none"
                BY <2>3 DEF FetchesWhatIsMissing, Key
            <3>1. CASE t = s
                <4>1. Retries(s, r)
                    BY <2>2, <3>1 DEF Fetched, Return, Move, TypeOK
                <4> QED
                    BY <2>1, <2>2, <2>4, <3>1, <4>1 DEF Retries, Definite, TypeOK
            <3>2. CASE t # s
                <4>1. phase[t] \in {"trying", "asked"}
                    BY <2>2, <3>2 DEF Fetched, Return, Move, TypeOK
                <4>2. Key(t) # Key(s)
                    BY <2>1, <3>2, <4>1, OneFetcher DEF Flying
                <4> QED
                    BY <2>1, <2>2, <4>1, <4>2 DEF FetchesWhatIsMissing, TypeOK
            <3> QED
                BY <3>1, <3>2
        <2> QED
            BY <2>5, <2>6, <2>7
    <1>8. ASSUME NEW s \in Scans, Unregister(s) \/ Finish(s) PROVE CacheInv'
        <2>1. /\ \E p \in Phases \ {"trying", "asked"} : phase' = [phase EXCEPT ![s] = p]
              /\ UNCHANGED <<at, cache, answered, evicted, denied>>
            BY <1>8 DEF Unregister, Finish, Move, Phases
        <2> QED
            BY <1>2, <2>1
    <1>9. ASSUME NEW s \in Scans, Close(s) PROVE CacheInv'
        <2>1. /\ \A w \in Scans : phase'[w] = "got" \/ phase'[w] = phase[w]
              /\ UNCHANGED <<at, cache, answered, evicted, denied>>
            BY <1>9 DEF Close, Deliver, TypeOK
        <2> QED
            BY <1>1, <2>1 DEF FetchesWhatIsMissing
    <1>10. ASSUME NEW s \in Scans, Use(s) PROVE CacheInv'
        <2>1. \E p \in Phases \ {"trying", "asked"} : phase' = [phase EXCEPT ![s] = p]
            BY <1>10 DEF Use, Return, Move, Phases
        <2>2. \A w \in Scans : w # s => at'[w] = at[w]
            BY <1>10 DEF Use, TypeOK
        <2> QED
            BY <1>2, <1>10, <2>1, <2>2 DEF Use
    <1>11. ASSUME NEW k \in Keys, Evict(k) PROVE CacheInv'
        <2>1. /\ cache[k] # "none" /\ cache' = [cache EXCEPT ![k] = "none"]
              /\ evicted' = [evicted EXCEPT ![k] = @ + 1]
              /\ UNCHANGED <<phase, at, answered, denied>>
            BY <1>11 DEF Evict
        <2>2. AnswersAreKept'
            BY <2>1 DEF AnswersAreKept, TypeOK
        <2>3. CacheIsTrue'
            BY <2>1 DEF CacheIsTrue, TypeOK
        <2>4. FetchesWhatIsMissing'
            BY <2>1 DEF FetchesWhatIsMissing, Key, TypeOK
        <2> QED
            BY <2>2, <2>3, <2>4
    <1>12. ASSUME UNCHANGED vars PROVE CacheInv'
        BY <1>1, <1>12 DEF vars, FetchesWhatIsMissing
    <1> QED
        BY <1>3, <1>4, <1>5, <1>6, <1>7, <1>8, <1>9, <1>10, <1>11, <1>12 DEF Next, Query

-----------------------------------------------------------------------------
(* What the scans make of it *)

LEMMA ResultStep == IInv /\ [Next]_vars => ResultIsTrue'
    <1> SUFFICES ASSUME IInv, [Next]_vars PROVE ResultIsTrue'
        OBVIOUS
    <1> USE DEF report, ghosts, IInv, AnswerInv
    <1>1. ASSUME NEW s \in Scans, NEW p \in Phases, NEW r \in Results,
                 phase' = [phase EXCEPT ![s] = p],
                 result' = [result EXCEPT ![s] = r],
                 denied \subseteq denied',
                 \A w \in Scans : w # s => at'[w] = at[w],
                 p \in {"returned", "closing", "got"} =>
                    /\ r # "none"
                    /\ at'[s] = at[s]
                    /\ r = "negative" /\ Key(s) \in Vulnerable => Key(s) \in denied'
          PROVE  ResultIsTrue'
        BY <1>1 DEF ResultIsTrue, HasResult, Key, TypeOK
    <1>2. ASSUME NEW s \in Scans, Lookup(s) PROVE ResultIsTrue'
        <2>1. Key(s) \in Keys /\ UNCHANGED <<at, denied>>
            BY <1>2, KeyType DEF Lookup
        <2>2. CASE cache[Key(s)] # "none"
            <3>1. /\ phase' = [phase EXCEPT ![s] = "got"]
                  /\ result' = [result EXCEPT ![s] = cache[Key(s)]]
                BY <1>2, <2>2 DEF Lookup, Return, Move
            <3>2. cache[Key(s)] \in Results /\ "got" \in Phases
                BY <2>1 DEF TypeOK, Results, Phases
            <3>3. cache[Key(s)] = "negative" /\ Key(s) \in Vulnerable => Key(s) \in denied
                BY <2>1 DEF CacheInv, CacheIsTrue
            <3> QED
                BY <1>1, <2>1, <2>2, <3>1, <3>2, <3>3
        <2>3. CASE cache[Key(s)] = "none"
            <3>1. phase' = [phase EXCEPT ![s] = "entering"] /\ result' = result
                BY <1>2, <2>3 DEF Lookup, Move
            <3> QED
                BY <2>1, <3>1 DEF ResultIsTrue, HasResult, Key, TypeOK
        <2> QED
            BY <2>2, <2>3
    <1>3. ASSUME NEW s \in Scans, LookAgain(s) PROVE ResultIsTrue'
        <2>1. Key(s) \in Keys /\ UNCHANGED <<at, denied>>
            BY <1>3, KeyType DEF Placed, LookAgain
        <2>2. CASE cache[Key(s)] # "none"
            <3>1. /\ phase' = [phase EXCEPT ![s] = "returned"]
                  /\ result' = [result EXCEPT ![s] = cache[Key(s)]]
                BY <1>3, <2>2 DEF LookAgain, Fetched, Return, Move
            <3>2. cache[Key(s)] \in Results /\ "returned" \in Phases
                BY <2>1 DEF TypeOK, Results, Phases
            <3>3. cache[Key(s)] = "negative" /\ Key(s) \in Vulnerable => Key(s) \in denied
                BY <2>1 DEF CacheInv, CacheIsTrue
            <3> QED
                BY <1>1, <2>1, <2>2, <3>1, <3>2, <3>3
        <2>3. CASE cache[Key(s)] = "none"
            <3>1. phase' = [phase EXCEPT ![s] = "trying"] /\ result' = result
                BY <1>3, <2>3 DEF LookAgain, Move
            <3> QED
                BY <2>1, <3>1 DEF ResultIsTrue, HasResult, Key, TypeOK
        <2> QED
            BY <2>2, <2>3
    <1>4. ASSUME NEW s \in Scans, LeaveLimiter(s) \/ Exhausted(s) \/ Panic(s)
          PROVE  ResultIsTrue'
        <2>1. /\ phase' = [phase EXCEPT ![s] = "returned"] /\ UNCHANGED <<at, denied>>
              /\ \E r \in {"error", "exhausted"} : result' = [result EXCEPT ![s] = r]
            BY <1>4 DEF LeaveLimiter, Exhausted, Panic, Fetched, Return, Move
        <2> QED
            BY <1>1, <2>1 DEF Phases, Results
    <1>5. ASSUME NEW s \in Scans, Reply(s) PROVE ResultIsTrue'
        <2>1. UNCHANGED at /\ denied \subseteq denied'
            BY <1>5 DEF Reply
        <2>2. PICK r \in Replies(s) :
                /\ \/ Move(s, "trying") /\ UNCHANGED result
                   \/ Fetched(s, Outcome(r))
                /\ denied' = IF r = "absent" THEN denied \cup {Key(s)} ELSE denied
            BY <1>5 DEF Reply
        <2>3. CASE Fetched(s, Outcome(r))
            <3>1. /\ Outcome(r) \in Results /\ Outcome(r) # "none"
                  /\ Outcome(r) = "negative" => r = "absent" \/ Key(s) \notin Vulnerable
                BY <2>2 DEF Replies, Outcome, Results
            <3>2. /\ phase' = [phase EXCEPT ![s] = "returned"]
                  /\ result' = [result EXCEPT ![s] = Outcome(r)]
                BY <2>3 DEF Fetched, Return, Move
            <3>3. Outcome(r) = "negative" /\ Key(s) \in Vulnerable => Key(s) \in denied'
                BY <2>2, <3>1
            <3> QED
                BY <1>1, <2>1, <3>1, <3>2, <3>3 DEF Phases
        <2>4. CASE Move(s, "trying") /\ UNCHANGED result
            BY <2>1, <2>4 DEF Move, ResultIsTrue, HasResult, Key, TypeOK
        <2> QED
            BY <2>2, <2>3, <2>4
    <1>6. ASSUME NEW s \in Scans, NEW p \in {"waiting", "leading", "asked", "ended"},
                 phase' = [phase EXCEPT ![s] = p], UNCHANGED <<at, result, denied>>
          PROVE  ResultIsTrue'
        BY <1>6 DEF ResultIsTrue, HasResult, Key, TypeOK
    <1>7. ASSUME NEW s \in Scans, Join(s) \/ Lead(s) \/ Ask(s) \/ Finish(s) PROVE ResultIsTrue'
        <2>1. /\ \E p \in {"waiting", "leading", "asked", "ended"} : phase' = [phase EXCEPT ![s] = p]
              /\ UNCHANGED <<at, result, denied>>
            BY <1>7 DEF Join, Lead, Ask, Finish, Move
        <2> QED
            BY <1>6, <2>1
    <1>8. ASSUME NEW s \in Scans, Unregister(s) PROVE ResultIsTrue'
        BY <1>8 DEF Unregister, Move, ResultIsTrue, HasResult, Key, TypeOK
    <1>9. ASSUME NEW s \in Scans, Close(s) PROVE ResultIsTrue'
        <2>1. /\ phase[s] = "closing" /\ UNCHANGED <<at, denied>>
              /\ phase' = [w \in Scans |-> IF w \in Waiters(s) \cup {s} THEN "got" ELSE phase[w]]
              /\ result' = [w \in Scans |-> IF w \in Waiters(s) THEN result[s] ELSE result[w]]
            BY <1>9 DEF Close, Deliver
        <2>2. /\ result[s] # "none"
              /\ result[s] = "negative" /\ Key(s) \in Vulnerable => Key(s) \in denied
            BY <2>1 DEF ResultIsTrue, HasResult
        <2>3. \A w \in Waiters(s) : Key(w) = Key(s)
            BY DEF Waiters, FlightInv, WaitsForOwnKey
        <2>4. \A w \in Scans : Key(w)' = Key(w)
            BY <2>1 DEF Key
        <2> SUFFICES ASSUME NEW w \in Scans, HasResult(w)'
            PROVE /\ result'[w] # "none"
                  /\ result'[w] = "negative" /\ Key(w) \in Vulnerable => Key(w) \in denied
            BY <2>1, <2>4 DEF ResultIsTrue
        <2>5. CASE w \in Waiters(s)
            BY <2>1, <2>2, <2>3, <2>5
        <2>6. CASE w \notin Waiters(s)
            BY <2>1, <2>6 DEF ResultIsTrue, HasResult
        <2> QED
            BY <2>5, <2>6
    <1>10. ASSUME NEW s \in Scans, Use(s) PROVE ResultIsTrue'
        <2>1. /\ \E p \in {"ended", "next"} : phase' = [phase EXCEPT ![s] = p]
              /\ result' = [result EXCEPT ![s] = "none"] /\ UNCHANGED denied
            BY <1>10 DEF Use, Return, Move
        <2>2. \A w \in Scans : w # s => at'[w] = at[w]
            BY <1>10 DEF Use, TypeOK
        <2> QED
            BY <1>1, <2>1, <2>2 DEF Phases, Results
    <1>11. ASSUME UNCHANGED <<phase, at, result, denied>> PROVE ResultIsTrue'
        BY <1>11 DEF ResultIsTrue, HasResult, Key
    <1>12. ASSUME NEW k \in Keys, Evict(k) PROVE ResultIsTrue'
        BY <1>11, <1>12 DEF Evict
    <1>13. ASSUME UNCHANGED vars PROVE ResultIsTrue'
        BY <1>11, <1>13 DEF vars
    <1> QED
        BY <1>2, <1>3, <1>4, <1>5, <1>7, <1>8, <1>9, <1>10, <1>12, <1>13 DEF Next, Query

LEMMA NothingMissedStep == IInv /\ [Next]_vars => NothingMissed'
    <1> SUFFICES ASSUME IInv, [Next]_vars PROVE NothingMissed'
        OBVIOUS
    <1> USE DEF report, ghosts, IInv, AnswerInv
    <1>1. ASSUME UNCHANGED <<at, found, skipped>>, denied \subseteq denied'
          PROVE  NothingMissed'
        BY <1>1 DEF NothingMissed
    <1>2. ASSUME NEW s \in Scans, Use(s) PROVE NothingMissed'
        <2>1. CASE result[s] = "exhausted"
            BY <1>1, <1>2, <2>1 DEF Use
        <2>2. CASE result[s] # "exhausted"
            <3>1. /\ at' = [at EXCEPT ![s] = @ + 1] /\ denied' = denied
                  /\ \A w \in Scans : found[w] \subseteq found'[w] /\ skipped[w] \subseteq skipped'[w]
                BY <1>2, <2>2 DEF Use, TypeOK
            <3>2. result[s] = "vulns" => Key(s) \in found'[s]
                BY <1>2, <2>2 DEF Use, TypeOK
            <3>3. result[s] \in {"broken", "error"} => Key(s) \in skipped'[s]
                BY <1>2, <2>2 DEF Use, TypeOK
            <3>4. result[s] \in {"negative", "vulns", "broken", "error"}
                BY <1>2, <2>2 DEF Use, ResultIsTrue, HasResult, TypeOK, Results
            <3>5. result[s] = "negative" /\ Key(s) \in Vulnerable => Key(s) \in denied
                BY <1>2 DEF Use, ResultIsTrue, HasResult
            <3>6. Key(s) \in Vulnerable => Key(s) \in found'[s] \cup skipped'[s] \cup denied
                BY <3>2, <3>3, <3>4, <3>5
            <3> SUFFICES ASSUME NEW w \in Scans, NEW i \in 1 .. Len(Deps[w]),
                                i < at'[w], Deps[w][i] \in Vulnerable
                PROVE Deps[w][i] \in found'[w] \cup skipped'[w] \cup denied
                BY <3>1 DEF NothingMissed
            <3>7. CASE i < at[w]
                BY <3>1, <3>7 DEF NothingMissed
            <3>8. CASE ~(i < at[w])
                <4>1. at[w] \in Nat /\ i \in Nat
                    BY DEF TypeOK
                <4>2. w = s /\ i = at[s]
                    BY <3>1, <3>8, <4>1 DEF TypeOK
                <4> QED
                    BY <3>6, <4>2 DEF Key
            <3> QED
                BY <3>7, <3>8
        <2> QED
            BY <2>1, <2>2
    <1>3. ASSUME NEW s \in Scans, Reply(s) PROVE NothingMissed'
        BY <1>1, <1>3 DEF Reply
    <1>4. ASSUME NEW s \in Scans,
                 \/ Lookup(s) \/ Join(s) \/ Lead(s) \/ LookAgain(s) \/ LeaveLimiter(s)
                 \/ Ask(s) \/ Exhausted(s) \/ Unregister(s) \/ Close(s) \/ Finish(s) \/ Panic(s)
          PROVE  NothingMissed'
        <2>1. UNCHANGED <<at, found, skipped, denied>>
            BY <1>4 DEF Lookup, Join, Lead, LookAgain, LeaveLimiter, Ask, Exhausted,
                        Unregister, Close, Deliver, Finish, Panic
        <2> QED
            BY <1>1, <2>1
    <1>5. ASSUME NEW k \in Keys, Evict(k) PROVE NothingMissed'
        BY <1>1, <1>5 DEF Evict
    <1>6. ASSUME UNCHANGED vars PROVE NothingMissed'
        BY <1>1, <1>6 DEF vars
    <1> QED
        BY <1>2, <1>3, <1>4, <1>5, <1>6 DEF Next, Query

LEMMA Inductive == Spec => []IInv
    <1>1. IInv /\ [Next]_vars => IInv'
        BY TypeStep, PlacedStep, FlightStep, CacheStep, ResultStep, NothingMissedStep
        DEF IInv, AnswerInv
    <1> QED
        BY InitInv, <1>1, PTL DEF Spec

(* The fetches are type correct, and no more than Budget requests are made,
   for any scans, dependencies and budget. *)
THEOREM TypeCorrect == Spec => []TypeOK
    <1>1. IInv => TypeOK
        BY DEF IInv
    <1> QED
        BY Inductive, <1>1, PTL

(* A passed dependency is clean for a reason of its own, however scans share
   flights and cache entries and however fetches fail. *)
THEOREM NoneIsMissed == Spec => []NothingMissed
    <1>1. IInv => NothingMissed
        BY DEF IInv, AnswerInv
    <1> QED
        BY Inductive, <1>1, PTL

(* OSV answers once for a key until the cache loses the answer. *)
THEOREM OneAnswer == Spec => []AnsweredOnce
    <1>1. IInv => AnsweredOnce
        BY DEF IInv, CacheInv, AnswersAreKept, AnsweredOnce, TypeOK
    <1> QED
        BY Inductive, <1>1, PTL

-----------------------------------------------------------------------------
(* Arithmetic *)

LEMMA RateSplit ==
    ASSUME NEW r \in Nat, NEW a \in Int, NEW b \in Int, NEW c \in Int
    PROVE  /\ r * (b - a) \in Int
           /\ r * (b - a) + (c - b) * r = r * (c - a)
    OBVIOUS

LEMMA RateGrows ==
    ASSUME NEW r \in Nat, NEW d \in Nat
    PROVE  r * d \in Nat
    OBVIOUS

LEMMA OneMore ==
    ASSUME NEW u \in Nat, NEW d \in Int
    PROVE  d * u \in Int /\ (d + 1) * u = d * u + u
    OBVIOUS

-----------------------------------------------------------------------------
(* The inductive invariant *)

(* No token is handed out but at a fill. *)
Settled ==
    \A t \in 0 .. now : t > lastFill => before[t] = granted

(* Since tick t, what was handed out and what is left is within what a full
   bucket held and the ticks up to the last fill earned. *)
Accounted ==
    \A t \in 0 .. now :
        t <= lastFill =>
            (granted - before[t]) * Unit + tokens <= Full + Rate * (lastFill - t)

BucketIInv == BucketTypeOK /\ Settled /\ Accounted

LEMMA FullType == Full \in Nat /\ Unit \in Nat /\ Unit > 0 /\ Rate \in Nat /\ Rate > 0
    BY BucketAssumption DEF Full

LEMMA RefilledType ==
    ASSUME BucketTypeOK
    PROVE  /\ Elapsed \in Nat /\ Elapsed * Rate \in Nat
           /\ Refilled \in 0 .. Full
           /\ Refilled <= tokens + Elapsed * Rate
    <1>1. Elapsed \in Nat
        BY DEF BucketTypeOK, Elapsed, Never
    <1>2. Elapsed * Rate \in Nat
        BY <1>1, FullType, RateGrows
    <1>3. PICK e \in Nat : e = Elapsed * Rate
        BY <1>2
    <1>4. tokens \in 0 .. Full
        BY DEF BucketTypeOK
    <1>5. Refilled = IF tokens + e > Full THEN Full ELSE tokens + e
        BY <1>3 DEF Refilled, Capped
    <1> QED
        BY <1>1, <1>2, <1>3, <1>4, <1>5, FullType

LEMMA NapType ==
    ASSUME NEW t \in Int
    PROVE  Nap(t) \in Nat
    BY FullType DEF Nap

LEMMA BucketInitInv == BucketInit => BucketIInv
    <1> SUFFICES ASSUME BucketInit PROVE BucketIInv
        OBVIOUS
    <1>1. BucketTypeOK
        BY FullType, BucketAssumption DEF BucketInit, BucketTypeOK, Never
    <1>2. Settled
        BY BucketAssumption DEF BucketInit, Settled, Never
    <1>3. Accounted
        BY DEF BucketInit, Accounted, Never
    <1> QED
        BY <1>1, <1>2, <1>3 DEF BucketIInv

LEMMA BucketTypeStep == BucketTypeOK /\ [BucketNext]_bucketVars => BucketTypeOK'
    <1> SUFFICES ASSUME BucketTypeOK, [BucketNext]_bucketVars PROVE BucketTypeOK'
        OBVIOUS
    <1> USE FullType
    <1>1. ASSUME NEW c \in Callers, Call(c) PROVE BucketTypeOK'
        BY <1>1 DEF Call, BucketTypeOK, Never
    <1>2. ASSUME NEW c \in Callers, Take(c) PROVE BucketTypeOK'
        <2>1. tokens' \in 0 .. Full /\ lastFill' \in 0 .. now' /\ granted' \in Nat
            BY <1>2, RefilledType, SMTT(30) DEF Take, FilledAt, BucketTypeOK
        <2>2. call' \in [Callers -> {"idle", "waiting", "granted", "cancelled"}]
            BY <1>2 DEF Take, BucketTypeOK
        <2> QED
            BY <1>2, <2>1, <2>2 DEF Take, BucketTypeOK
    <1>3. ASSUME NEW c \in Callers, Sleep(c) PROVE BucketTypeOK'
        <2>1. Nap(Refilled) \in Nat
            BY RefilledType, NapType
        <2>2. tokens' \in 0 .. Full /\ lastFill' \in 0 .. now'
            BY <1>3, RefilledType DEF Sleep, FilledAt, BucketTypeOK
        <2>3. /\ call' \in [Callers -> {"idle", "waiting", "granted", "cancelled"}]
              /\ wake' \in [Callers -> Nat] /\ slept' \subseteq Callers
            BY <1>3, <2>1 DEF Sleep, BucketTypeOK
        <2> QED
            BY <1>3, <2>2, <2>3 DEF Sleep, BucketTypeOK
    <1>4. ASSUME NEW c \in Callers, Leave(c) PROVE BucketTypeOK'
        BY <1>4 DEF Leave, BucketTypeOK
    <1>5. ASSUME NEW c \in Callers, Expire(c) PROVE BucketTypeOK'
        BY <1>5 DEF Expire, BucketTypeOK
    <1>6. ASSUME Tick PROVE BucketTypeOK'
        BY <1>6, BucketAssumption DEF Tick, BucketTypeOK, Never
    <1>7. ASSUME UNCHANGED bucketVars PROVE BucketTypeOK'
        BY <1>7 DEF bucketVars, BucketTypeOK
    <1> QED
        BY <1>1, <1>2, <1>3, <1>4, <1>5, <1>6, <1>7 DEF BucketNext, Wait

(* Since tick t, what was handed out and what a fill at now finds are within
   what a full bucket held and the ticks up to now earned. *)
LEMMA FillAccounts ==
    ASSUME BucketIInv, NEW t \in 0 .. now, NEW a \in Int, NEW b \in Int,
           a = granted, b = before[t]
    PROVE  (a - b) * Unit + Refilled <= Full + Rate * (now - t)
    <1>1. now \in Nat /\ tokens \in Nat /\ t \in Nat
        BY BucketAssumption, FullType DEF BucketIInv, BucketTypeOK
    <1>2. PICK d \in Int : d = (a - b) * Unit
        BY FullType
    <1>3. PICK w \in Nat : w = Rate * (now - t)
        BY <1>1, FullType, RateGrows
    <1>4. PICK r \in 0 .. Full : r = Refilled
        BY RefilledType DEF BucketIInv
    <1>5. d + r <= Full + w
        <2>1. CASE t <= lastFill
            <3>1. lastFill \in Nat /\ Elapsed = now - lastFill
                BY <2>1, <1>1 DEF BucketIInv, BucketTypeOK, Never, Elapsed
            <3>2. PICK k \in Int : k = Rate * (lastFill - t)
                BY <3>1, <1>1, FullType
            <3>3. d + tokens <= Full + k
                BY <2>1, <1>2, <3>2 DEF BucketIInv, Accounted
            <3>4. PICK e \in Nat : e = Elapsed * Rate
                BY RefilledType DEF BucketIInv
            <3>5. k + e = w
                BY <3>1, <3>2, <3>4, <1>1, <1>3, FullType, RateSplit
            <3>6. r <= tokens + e
                BY <1>4, <3>4, RefilledType DEF BucketIInv
            <3> QED
                BY <3>3, <3>5, <3>6, <1>1, FullType
        <2>2. CASE t > lastFill
            <3>1. a = b
                BY <2>2 DEF BucketIInv, Settled
            <3>2. d = 0
                BY <3>1, <1>2, FullType
            <3> QED
                BY <3>2, FullType
        <2> QED
            BY <2>1, <2>2, <1>1 DEF BucketIInv, BucketTypeOK, Never
    <1> QED
        BY <1>2, <1>3, <1>4, <1>5

LEMMA HandOut ==
    ASSUME NEW u \in Nat, NEW a \in Int, NEW b \in Int, NEW g \in {0, 1}
    PROVE  (a + g - b) * u = (a - b) * u + g * u
    <1>1. CASE g = 0
        BY <1>1
    <1>2. CASE g = 1
        <2>1. a + g - b = (a - b) + 1 /\ a - b \in Int
            BY <1>2
        <2> QED
            BY <1>2, <2>1, OneMore
    <1> QED
        BY <1>1, <1>2

(* A fill that hands out g tokens and leaves the rest keeps the account. *)
LEMMA FillKeeps ==
    ASSUME BucketIInv, NEW g \in {0, 1}, g * Unit + tokens' = Refilled,
           tokens' \in Nat, granted' = granted + g,
           before' = before, lastFill' = now, now' = now
    PROVE  (Settled /\ Accounted)'
    <1>1. Settled'
        BY DEF Settled, BucketIInv, BucketTypeOK
    <1>2. Accounted'
        <2> SUFFICES ASSUME NEW t \in 0 .. now'
            PROVE (granted' - before'[t]) * Unit + tokens' <= Full + Rate * (lastFill' - t)
            BY DEF Accounted
        <2>1. t \in 0 .. now /\ now \in Nat
            BY BucketAssumption DEF BucketIInv, BucketTypeOK
        <2>2. PICK b \in Int : b = before[t]
            BY <2>1, BucketAssumption DEF BucketIInv, BucketTypeOK
        <2>3. PICK a \in Int : a = granted
            BY DEF BucketIInv, BucketTypeOK
        <2>4. PICK d \in Int : d = (a - b) * Unit
            BY <2>2, <2>3, FullType
        <2>5. PICK p \in Int : p = g * Unit
            BY FullType
        <2>6. PICK w \in Int : w = Rate * (now - t)
            BY <2>1, FullType
        <2>7. PICK r \in Int : r = Refilled
            BY RefilledType DEF BucketIInv
        <2>8. d + r <= Full + w
            BY <2>1, <2>2, <2>3, <2>4, <2>6, <2>7, FillAccounts
        <2>9. (a + g - b) * Unit = d + p
            BY <2>4, <2>5, FullType, HandOut
        <2>10. PICK q \in Nat : q = tokens'
            OBVIOUS
        <2>11. p + q = r
            BY <2>5, <2>7, <2>10, Zenon
        <2>12. d + p + q <= Full + w
            BY ONLY <2>8, <2>11, FullType, d \in Int, p \in Int, q \in Nat, r \in Int, w \in Int
        <2> QED
            BY <2>2, <2>3, <2>6, <2>9, <2>10, <2>12
    <1> QED
        BY <1>1, <1>2

LEMMA AccountStep == BucketIInv /\ [BucketNext]_bucketVars => (Settled /\ Accounted)'
    <1> SUFFICES ASSUME BucketIInv, [BucketNext]_bucketVars PROVE (Settled /\ Accounted)'
        OBVIOUS
    <1>1. ASSUME NEW c \in Callers, Take(c) PROVE (Settled /\ Accounted)'
        <2>1. tokens' \in Nat /\ 1 * Unit + tokens' = Refilled
            BY <1>1, RefilledType, FullType DEF BucketIInv, Take
        <2>2. /\ granted' = granted + 1 /\ before' = before
              /\ lastFill' = now /\ now' = now
            BY <1>1 DEF Take, FilledAt
        <2> QED
            BY <2>1, <2>2, FillKeeps
    <1>2. ASSUME NEW c \in Callers, Sleep(c) PROVE (Settled /\ Accounted)'
        <2>1. tokens' \in Nat /\ 0 * Unit + tokens' = Refilled
            BY <1>2, RefilledType, FullType DEF BucketIInv, Sleep
        <2>2. granted' = granted + 0
            BY <1>2 DEF Sleep, BucketIInv, BucketTypeOK
        <2>3. before' = before /\ lastFill' = now /\ now' = now
            BY <1>2 DEF Sleep, FilledAt
        <2> QED
            BY <2>1, <2>2, <2>3, FillKeeps
    <1>3. ASSUME Tick PROVE (Settled /\ Accounted)'
        <2>1. now \in Nat /\ now' = now + 1 /\ now + 1 \in 0 .. MaxClock
            BY <1>3, BucketAssumption DEF BucketIInv, BucketTypeOK, Tick
        <2>2. lastFill < now + 1
            BY <2>1 DEF BucketIInv, BucketTypeOK, Never
        <2>3. \A t \in 0 .. now : before'[t] = before[t]
            BY <1>3, <2>1 DEF BucketIInv, BucketTypeOK, Tick
        <2>4. before'[now + 1] = granted
            BY <1>3, <2>1 DEF BucketIInv, BucketTypeOK, Tick
        <2>5. \A t \in 0 .. now' : t \in 0 .. now \/ t = now + 1
            BY <2>1
        <2>6. Settled'
            BY <1>3, <2>3, <2>4, <2>5 DEF BucketIInv, Settled, Tick
        <2>7. Accounted'
            <3> SUFFICES ASSUME NEW t \in 0 .. now', t <= lastFill
                PROVE (granted - before'[t]) * Unit + tokens <= Full + Rate * (lastFill - t)
                BY <1>3 DEF Accounted, Tick
            <3>1. t \in 0 .. now
                BY <2>1, <2>2, <2>5 DEF BucketIInv, BucketTypeOK, Never
            <3> QED
                BY <3>1, <2>3 DEF BucketIInv, Accounted
        <2> QED
            BY <2>6, <2>7
    <1>4. ASSUME UNCHANGED <<now, lastFill, tokens, granted, before>>
          PROVE (Settled /\ Accounted)'
        BY <1>4 DEF BucketIInv, Settled, Accounted
    <1> QED
        BY <1>1, <1>2, <1>3, <1>4 DEF BucketNext, Wait, Call, Leave, Expire, bucketVars

LEMMA Bound == BucketIInv => WindowBound
    <1> SUFFICES ASSUME BucketIInv, NEW t \in 0 .. now
        PROVE (granted - before[t]) * Unit <= Full + Rate * (now - t)
        BY DEF WindowBound
    <1>1. PICK b \in Int : b = before[t]
        BY BucketAssumption DEF BucketIInv, BucketTypeOK
    <1>2. PICK a \in Int : a = granted
        BY DEF BucketIInv, BucketTypeOK
    <1>3. PICK d \in Int : d = (a - b) * Unit
        BY FullType
    <1>4. PICK w \in Int : w = Rate * (now - t)
        BY FullType, BucketAssumption DEF BucketIInv, BucketTypeOK
    <1>5. PICK r \in Nat : r = Refilled
        BY RefilledType, FullType DEF BucketIInv
    <1>6. d + r <= Full + w
        BY <1>1, <1>2, <1>3, <1>4, <1>5, FillAccounts
    <1>7. d <= Full + w
        BY <1>6, FullType
    <1> QED
        BY <1>1, <1>2, <1>3, <1>4, <1>7

LEMMA BucketInductive == BucketSpec => []BucketIInv
    <1>1. BucketIInv /\ [BucketNext]_bucketVars => BucketIInv'
        BY BucketTypeStep, AccountStep DEF BucketIInv
    <1> QED
        BY BucketInitInv, <1>1, PTL DEF BucketSpec

(* The bucket never holds more than its burst nor owes a token, whatever the
   callers and their wake-ups do. *)
THEOREM BucketTypeCorrect == BucketSpec => []BucketTypeOK
    <1>1. BucketIInv => BucketTypeOK
        BY DEF BucketIInv
    <1> QED
        BY BucketInductive, <1>1, PTL

(* The limiter keeps its promise for every rate, burst and number of callers:
   any window of time hands out no more than a full bucket and what the window
   earns, because wait deducts the token under the lock. *)
THEOREM RateIsKept == BucketSpec => []WindowBound
    BY BucketInductive, Bound, PTL

-----------------------------------------------------------------------------
(* Both at once *)

(* Beside each other, neither sees more than its own steps. *)
LEMMA PartsOfCve == CveSpec => Spec /\ BucketSpec
<1>1. CveInit => Init /\ BucketInit
  BY DEF CveInit
<1>2. [CveNext]_cveVars => [Next]_vars /\ [BucketNext]_bucketVars
  BY DEF CveNext, InScans, InBucket, cveVars
<1>. QED BY <1>1, <1>2, PTL DEF CveSpec, Spec, BucketSpec

(* Scans and a limiter that run side by side keep their types. *)
THEOREM CveTypesCorrect == CveSpec => []CveTypesOK
BY PartsOfCve, TypeCorrect, BucketTypeCorrect, PTL DEF CveTypesOK

(* And they keep what each does alone: nothing vulnerable is missed, an answer is
   asked for once, and no window hands out more than the rate. *)
THEOREM CveKeep == CveSpec => [](NothingMissed /\ AnsweredOnce /\ WindowBound)
BY PartsOfCve, NoneIsMissed, OneAnswer, RateIsKept, PTL
=============================================================================
