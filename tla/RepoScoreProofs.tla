--------------------------- MODULE RepoScoreProofs ---------------------------
(***************************************************************************)
(* For any runs, scanners and bounds: while nothing harms it, what is       *)
(* loaded is what was merged.  The invariant says where the last merge can  *)
(* be: in the cache, and in a row that is on its way or has landed; and     *)
(* that nothing newer exists anywhere.                                      *)
(***************************************************************************)
EXTENDS RepoScore, TLAPS

(* A job that waits or works has taken its stamp, and only the holder of the
   lock works. *)
LockInv ==
    /\ \A j \in Jobs : pc[j] \in {"waiting", "locked", "loaded"} => stamp[j] # 0
    /\ \A j \in Jobs : pc[j] \in {"locked", "loaded"} => lock = j

(* What a load may answer: the facets merged so far, and nothing newer. *)
LoadedWell(l) ==
    /\ FacetsOf(l) = ledger
    /\ l = NoState => lastStamp = 0
    /\ l # NoState => l.at <= lastStamp

KeptInv == harm = {} =>
    /\ \A r \in rows \cup outbox : r.at <= lastStamp /\ (r.at = lastStamp => r.facets = ledger)
    /\ lastStamp # 0 => \E r \in rows \cup outbox : r.at = lastStamp
    /\ cache # NoState => cache.at = lastStamp /\ cache.facets = ledger
    /\ cache = NoState => outbox = {}
    /\ lastStamp = 0 => ledger = NoFacets
    /\ \A j \in Jobs : pc[j] = "loaded" =>
          LoadedWell(prev[j])

(* The state a job stores is one, and not the absent one. *)
LEMMA NextStateIsState ==
    ASSUME TypeOK, NEW j \in Jobs, NextState(j) # prev[j]
    PROVE  NextState(j) \in State /\ NextState(j) # NoState
<1>1. EmptyState \in State
  BY RepoScoreAssumption DEF EmptyState, State, NoFacets, Facets
<1>2. FacetsOf(prev[j]) \in Facets
  BY DEF FacetsOf, TypeOK, State, NoFacets, Facets
<1>3. MergedFacets(j, FacetsOf(prev[j])) \in Facets
  BY <1>2 DEF MergedFacets, Facets
<1>4. NextState(j) \in State
  BY <1>1, <1>3 DEF NextState, TypeOK, State
<1> QED
  BY <1>4, NoStateAssumption

(* What can be loaded is a state, or nothing. *)
LEMMA LoadsAreStates ==
    ASSUME TypeOK, NEW l \in Loads
    PROVE  l \in State \cup {NoState}
  BY DEF TypeOK, Loads, LoadedFrom, Newest

(* Every step keeps the types. *)
LEMMA TypeInductive ==
    (Init => TypeOK) /\ (TypeOK /\ [Next]_vars => TypeOK')
<1>1. Init => TypeOK
  BY RepoScoreAssumption DEF Init, TypeOK, Facets, NoFacets
<1>2. ASSUME TypeOK, [Next]_vars PROVE TypeOK'
  <2> USE <1>2
  <2>1. ASSUME NEW j \in Jobs, Finish(j) PROVE TypeOK'
    BY <2>1, RepoScoreAssumption DEF Finish, FinishedAt, TypeOK
  <2>2. ASSUME NEW j \in Jobs, Lock(j) PROVE TypeOK'
    BY <2>2 DEF Lock, TypeOK
  <2>3. ASSUME NEW j \in Jobs, Load(j) PROVE TypeOK'
    <3>1. prev' \in [Jobs -> State \cup {NoState}]
      BY <2>3, LoadsAreStates DEF Load, TypeOK
    <3>2. errors' \in 0 .. MaxErrors
      BY <2>3, RepoScoreAssumption DEF Load, TypeOK
    <3>3. harm' \subseteq {"blind", "tie", "order", "lost"}
      BY <2>3 DEF Load, TypeOK
    <3> QED BY <2>3, <3>1, <3>2, <3>3 DEF Load, TypeOK
  <2>4. ASSUME NEW j \in Jobs, Store(j) PROVE TypeOK'
    <3>1. prev' \in [Jobs -> State \cup {NoState}]
      BY <2>4 DEF Store, persistRepoScore, rememberRepoScore, TypeOK
    <3>2. cache' \in State \cup {NoState} /\ outbox' \subseteq State
      BY <2>4, NextStateIsState DEF Store, persistRepoScore, rememberRepoScore, TypeOK
    <3>3. ledger' \in Facets
      BY <2>4 DEF Store, Ledger, MergedFacets, TypeOK, Facets
    <3>4. lastStamp' \in 0 .. MaxClock
      BY <2>4 DEF Store, Ledger, TypeOK
    <3>5. harm' \subseteq {"blind", "tie", "order", "lost"}
      BY <2>4 DEF Store, Ledger, TypeOK
    <3> QED BY <2>4, <3>1, <3>2, <3>3, <3>4, <3>5 DEF Store, Leave, TypeOK
  <2>5. ASSUME NEW r \in outbox, Land(r) \/ Refuse(r) \/ Drop(r) PROVE TypeOK'
    <3>1. CASE Land(r)
      BY <3>1 DEF Land, TypeOK
    <3>2. CASE Refuse(r)
      BY <3>2 DEF Refuse, TypeOK
    <3>3. CASE Drop(r)
      <4>1. drops' \in 0 .. MaxDrops
        BY <3>3, RepoScoreAssumption DEF Drop, TypeOK
      <4> QED BY <3>3, <4>1 DEF Drop, TypeOK
    <3> QED BY <2>5, <3>1, <3>2, <3>3
  <2>6. CASE Compact
    BY <2>6 DEF Compact, TypeOK
  <2>7. CASE Tick
    BY <2>7, RepoScoreAssumption DEF Tick, TypeOK
  <2>8. CASE Crash
    BY <2>8, RepoScoreAssumption DEF Crash, TypeOK
  <2>9. CASE UNCHANGED vars
    BY <2>9 DEF vars, TypeOK
  <2> QED
    BY <2>1, <2>2, <2>3, <2>4, <2>5, <2>6, <2>7, <2>8, <2>9 DEF Next, Step, Writer
<1> QED BY <1>1, <1>2

(* Every variable has its type, for any runs and bounds. *)
THEOREM TypeCorrect == Spec => []TypeOK
  BY TypeInductive, PTL DEF Spec

-----------------------------------------------------------------------------
(* The holder of the lock is alone in the section it guards. *)
LEMMA LockInductive ==
    /\ Init => LockInv
    /\ TypeOK /\ LockInv /\ [Next]_vars => LockInv'
<1>1. Init => LockInv
  BY DEF Init, LockInv
<1>2. ASSUME TypeOK, LockInv, [Next]_vars PROVE LockInv'
  <2> USE <1>2 DEF LockInv
  <2>1. ASSUME NEW j \in Jobs, Finish(j) PROVE LockInv'
    BY <2>1 DEF Finish, FinishedAt, TypeOK
  <2>2. ASSUME NEW j \in Jobs, Lock(j) PROVE LockInv'
    BY <2>2, RepoScoreAssumption DEF Lock, Free, TypeOK
  <2>3. ASSUME NEW j \in Jobs, Load(j) PROVE LockInv'
    BY <2>3 DEF Load, TypeOK
  <2>4. ASSUME NEW j \in Jobs, Store(j) PROVE LockInv'
    BY <2>4 DEF Store, Leave, TypeOK
  <2>5. ASSUME NEW r \in outbox, Land(r) \/ Refuse(r) \/ Drop(r) PROVE LockInv'
    BY <2>5 DEF Land, Refuse, Drop
  <2>6. CASE Compact \/ Tick \/ UNCHANGED vars
    BY <2>6 DEF Compact, Tick, vars
  <2>7. CASE Crash
    BY <2>7 DEF Crash, TypeOK
  <2> QED
    BY <2>1, <2>2, <2>3, <2>4, <2>5, <2>6, <2>7 DEF Next, Step, Writer
<1> QED BY <1>1, <1>2

-----------------------------------------------------------------------------
(* Whatever a load answers has the ledger's facets: a cache is as new as the
   last merge, and without one the row of the last merge has landed. *)
LEMMA LoadsAreLedger ==
    ASSUME TypeOK, KeptInv, harm = {}, NEW l \in Loads
    PROVE  LoadedWell(l)
<1> USE DEF KeptInv, LoadedWell
<1>0. cache \in State => cache.at \in Nat
  BY RepoScoreAssumption DEF State
<1>1. CASE rows = {}
  <2>1. l = cache
    BY <1>1 DEF Loads
  <2>2. CASE cache = NoState
    BY <1>1, <2>1, <2>2 DEF FacetsOf, TypeOK
  <2>3. CASE cache # NoState
    BY <1>0, <2>1, <2>3 DEF FacetsOf, TypeOK
  <2> QED BY <2>2, <2>3
<1>2. CASE rows # {}
  <2> PICK r \in Newest : l = LoadedFrom(r)
    BY <1>2 DEF Loads
  <2>1. r \in rows /\ r \in State /\ r.at # 0 /\ r.at <= lastStamp
    BY DEF Newest, TypeOK
  <2>2. r \in State /\ lastStamp \in Nat /\ r.at \in Nat
    BY <2>1, RepoScoreAssumption DEF TypeOK, State
  <2>3. r # NoState
    BY <2>1, NoStateAssumption
  <2>4. CASE cache # NoState
    <3>1. CASE cache.at > r.at
      BY <1>0, <2>4, <3>1 DEF LoadedFrom, FacetsOf, TypeOK
    <3>2. CASE ~(cache.at > r.at)
      <4>1. r.at = lastStamp
        BY <2>1, <2>2, <2>4, <3>2
      <4> QED BY <2>1, <2>3, <4>1, <3>2 DEF LoadedFrom, FacetsOf
    <3> QED BY <3>1, <3>2
  <2>5. CASE cache = NoState
    <3>1. lastStamp # 0 /\ outbox = {}
      BY <2>1, <2>2, <2>5
    <3>2. PICK q \in rows : q.at = lastStamp
      BY <3>1
    <3>3. r.at = lastStamp
      BY <2>1, <2>2, <3>2 DEF Newest
    <3> QED BY <2>1, <2>3, <2>5, <3>3 DEF LoadedFrom, FacetsOf
  <2> QED BY <2>4, <2>5
<1> QED BY <1>1, <1>2

(* Loading keeps KeptInv. *)
LEMMA KeptLoad ==
    ASSUME TypeOK, LockInv, KeptInv, NEW j \in Jobs, Load(j)
    PROVE  KeptInv'
<1> SUFFICES ASSUME harm' = {} PROVE KeptInv'
  BY DEF KeptInv
<1>1. harm = {} /\ UNCHANGED <<rows, outbox, lastStamp, ledger, cache>>
  BY DEF Load
<1>2. PICK l : /\ prev' = [prev EXCEPT ![j] = l]
               /\ LoadedWell(l)
  <2>1. CASE \E l \in Loads : prev' = [prev EXCEPT ![j] = l]
    BY <1>1, <2>1, LoadsAreLedger
  <2>2. CASE prev' = [prev EXCEPT ![j] = cache] /\ cache # NoState
    <3>1. cache.at = lastStamp /\ lastStamp \in Int
      BY <1>1, <2>2, RepoScoreAssumption DEF KeptInv, TypeOK
    <3>2. LoadedWell(cache)
      BY <1>1, <2>2, <3>1 DEF KeptInv, FacetsOf, LoadedWell
    <3> QED BY <2>2, <3>2
  <2>3. \/ \E l \in Loads : prev' = [prev EXCEPT ![j] = l]
        \/ prev' = [prev EXCEPT ![j] = cache] /\ cache # NoState
    BY <1>1, Zenon DEF Load
  <2> QED BY <2>1, <2>2, <2>3
<1>3. \A i \in Jobs : pc'[i] = "loaded" => i = j \/ pc[i] = "loaded"
  BY DEF Load, TypeOK
<1>4. prev'[j] = l /\ \A i \in Jobs \ {j} : prev'[i] = prev[i]
  BY <1>2 DEF TypeOK
<1>5. \A i \in Jobs : pc'[i] = "loaded" => LoadedWell(prev'[i])
  BY <1>1, <1>2, <1>3, <1>4 DEF KeptInv
<1> QED
  BY <1>1, <1>5 DEF KeptInv, LoadedWell, FacetsOf

(* Storing keeps it: what is stored is the ledger's, and newer than all else. *)
LEMMA KeptStore ==
    ASSUME TypeOK, LockInv, KeptInv, NEW j \in Jobs, Store(j)
    PROVE  KeptInv'
<1> SUFFICES ASSUME harm' = {} PROVE KeptInv'
  BY DEF KeptInv
<1>1. harm = {}
  BY DEF Store, persistRepoScore, rememberRepoScore, Ledger
<1>2. \A i \in Jobs : pc'[i] # "loaded"
  BY DEF Store, LockInv, TypeOK
<1>3. LoadedWell(prev[j])
  BY <1>1 DEF Store, KeptInv
<1>4. stamp[j] \in Nat /\ lastStamp \in Nat /\ stamp[j] # 0
  BY RepoScoreAssumption DEF TypeOK, LockInv, Store
<1>5. \A r \in rows \cup outbox : r.at \in Nat
  BY RepoScoreAssumption DEF TypeOK, State
<1>6. CASE ScannersOf[j] = {} /\ prev[j] # NoState
  <2>1. UNCHANGED <<cache, outbox, rows, ledger, lastStamp>>
    BY <1>6 DEF Store, persistRepoScore, rememberRepoScore, NextState, Ledger
  <2> QED BY <1>1, <1>2, <2>1 DEF KeptInv, FacetsOf
<1>7. CASE ScannersOf[j] = {} /\ prev[j] = NoState
  <2>1. NextState(j) = EmptyState /\ EmptyState # NoState
    BY <1>7, NextStateIsState, NoStateAssumption, RepoScoreAssumption
       DEF NextState, EmptyState, State, Facets, NoFacets
  <2>2. /\ cache' = EmptyState /\ outbox' = outbox \cup {EmptyState}
        /\ UNCHANGED <<rows, ledger, lastStamp>>
    BY <1>7, <2>1 DEF Store, persistRepoScore, rememberRepoScore, Ledger
  <2>3. EmptyState.at = 0 /\ EmptyState.facets = NoFacets
    BY DEF EmptyState
  <2>4. lastStamp = 0 /\ ledger = NoFacets
    BY <1>1, <1>3, <1>7 DEF KeptInv, LoadedWell
  <2> QED BY <1>1, <1>2, <2>1, <2>2, <2>3, <2>4 DEF KeptInv, FacetsOf
<1>8. CASE ScannersOf[j] # {}
  <2> PICK next : next = NextState(j)
    OBVIOUS
  <2>1. next.at = stamp[j] /\ next.facets = MergedFacets(j, ledger)
    BY <1>3, <1>8 DEF NextState, LoadedWell
  <2>2. stamp[j] > lastStamp /\ lastStamp' = stamp[j] /\ ledger' = next.facets
    BY <1>8, <2>1 DEF Store, Ledger
  <2>3. next # prev[j]
    <3>1. CASE prev[j] = NoState
      BY <3>1, <1>8, NoStateAssumption, <1>4, <2>1 DEF NextState, State, Facets, MergedFacets, TypeOK
    <3>2. CASE prev[j] # NoState
      <4>1. prev[j].at \in Nat /\ prev[j].at <= lastStamp
        BY <1>3, <3>2, RepoScoreAssumption DEF LoadedWell, TypeOK, State
      <4> QED BY <1>4, <2>1, <2>2, <4>1
    <3> QED BY <3>1, <3>2
  <2>4. next # NoState
    BY <2>3, NextStateIsState
  <2>5. cache' = next /\ outbox' = outbox \cup {next} /\ rows' = rows
    BY <2>3 DEF Store, persistRepoScore, rememberRepoScore
  <2>6. \A r \in rows' \cup outbox' :
          r.at <= lastStamp' /\ (r.at = lastStamp' => r.facets = ledger')
    <3>1. \A r \in rows \cup outbox : r.at < stamp[j]
      BY <1>1, <1>4, <1>5, <2>2 DEF KeptInv
    <3> QED BY <1>4, <1>5, <2>1, <2>2, <2>5, <3>1
  <2>7. /\ \E r \in rows' \cup outbox' : r.at = lastStamp'
        /\ cache'.at = lastStamp' /\ cache'.facets = ledger'
    BY <2>1, <2>2, <2>5
  <2>8. lastStamp' # 0
    BY <1>4, <2>2
  <2> QED
    BY <1>2, <2>4, <2>5, <2>6, <2>7, <2>8 DEF KeptInv
<1> QED BY <1>6, <1>7, <1>8

(* A row that lands, is refused or is lost; a merge of the table. *)
LEMMA KeptTable ==
    ASSUME TypeOK, KeptInv, Writer \/ Compact
    PROVE  KeptInv'
<1> SUFFICES ASSUME harm' = {} PROVE KeptInv'
  BY DEF KeptInv
<1>1. UNCHANGED <<pc, prev, cache, ledger, lastStamp>>
  BY DEF Writer, Land, Refuse, Drop, Compact
<1>2. harm = {}
  BY DEF Writer, Land, Refuse, Drop, Compact
<1> DEFINE Fewer == /\ rows' \cup outbox' \subseteq rows \cup outbox
                    /\ lastStamp # 0 => \E r \in rows' \cup outbox' : r.at = lastStamp
                    /\ outbox' \subseteq outbox
<1>3. Fewer
  <2>1. ASSUME NEW r \in outbox, Land(r) PROVE Fewer
    BY <1>2, <2>1 DEF Land, KeptInv
  <2>2. ASSUME NEW r \in outbox, Refuse(r) PROVE Fewer
    BY <1>2, <2>2 DEF Refuse, KeptInv
  <2>3. ASSUME NEW r \in outbox, Drop(r) PROVE Fewer
    BY <2>3 DEF Drop
  <2>4. CASE Compact
    <3> PICK r \in rows, q \in rows : r # q /\ r.at <= q.at /\ rows' = rows \ {r} /\ outbox' = outbox
      BY <2>4 DEF Compact
    <3>1. r.at \in Nat /\ q.at \in Nat /\ lastStamp \in Nat
      BY RepoScoreAssumption DEF TypeOK, State
    <3>2. r.at = lastStamp => q.at = lastStamp
      BY <1>2, <3>1 DEF KeptInv
    <3> QED BY <1>2, <3>2 DEF KeptInv
  <2> QED BY <2>1, <2>2, <2>3, <2>4 DEF Writer
<1> QED
  BY <1>1, <1>2, <1>3 DEF KeptInv, LoadedWell, FacetsOf

(* Every step keeps the invariant. *)
LEMMA KeptInductive ==
    /\ Init => KeptInv
    /\ TypeOK /\ LockInv /\ KeptInv /\ [Next]_vars => KeptInv'
<1>1. Init => KeptInv
  BY DEF Init, KeptInv
<1>2. ASSUME TypeOK, LockInv, KeptInv, [Next]_vars PROVE KeptInv'
  <2> USE <1>2
  <2>1. ASSUME NEW j \in Jobs, Finish(j) \/ Lock(j) PROVE KeptInv'
    <3>1. /\ \A i \in Jobs : pc'[i] = "loaded" => pc[i] = "loaded"
          /\ UNCHANGED <<prev, cache, outbox, rows, ledger, lastStamp, harm>>
      BY <2>1 DEF Finish, Lock, TypeOK
    <3> QED BY <3>1 DEF KeptInv, LoadedWell, FacetsOf
  <2>2. ASSUME NEW j \in Jobs, Load(j) PROVE KeptInv'
    BY <2>2, KeptLoad
  <2>3. ASSUME NEW j \in Jobs, Store(j) PROVE KeptInv'
    BY <2>3, KeptStore
  <2>4. CASE Writer \/ Compact
    BY <2>4, KeptTable
  <2>5. CASE Tick \/ UNCHANGED vars
    BY <2>5 DEF Tick, vars, KeptInv, LoadedWell, FacetsOf
  <2>6. CASE Crash
    <3>1. \A i \in Jobs : pc'[i] # "loaded"
      BY <2>6 DEF Crash
    <3> QED BY <2>6, <3>1 DEF Crash, KeptInv
  <2> QED
    BY <2>1, <2>2, <2>3, <2>4, <2>5, <2>6 DEF Next, Step
<1> QED BY <1>1, <1>2

(* While nothing harms it, whatever is loaded has the facets that were merged,
   for any runs, late rows, merges of the table and restarts. *)
THEOREM FacetsAreKept == Spec => []FacetsKept
<1>1. TypeOK /\ KeptInv => FacetsKept
  BY LoadsAreLedger DEF FacetsKept, LoadedWell
<1> QED
  BY <1>1, TypeInductive, LockInductive, KeptInductive, PTL DEF Spec
=============================================================================
