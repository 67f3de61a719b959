------------------------- MODULE RunAdmissionProofs -------------------------
(***************************************************************************)
(* No run is made that was not admitted, and the answer tells what was      *)
(* made, for any request and whatever the peers do between its questions.   *)
(***************************************************************************)
EXTENDS RunAdmission, FiniteSetTheorems, TLAPS

(* What the peers say now was seen. *)
SeenNow ==
    /\ active \subseteq seen.active /\ enabled \subseteq seen.enabled
    /\ \A p \in Projects : <<p, attached[p]>> \in seen.attached

Stages == {"new", "guard", "resolve", "verify", "create", "done"}

(* The types that the argument needs; the counters and the answer are not
   among them. *)
Shape ==
    /\ q \in Requests
    /\ enabled \subseteq Projects /\ attached \in [Projects -> SomeConnector]
    /\ req = [at |-> req.at, item |-> req.item, conn |-> req.conn, repo |-> req.repo,
              created |-> req.created, failed |-> req.failed, code |-> req.code]
    /\ req.at \in Stages /\ req.conn \in SomeConnector
    /\ runs \in Seq(Run)

Cleared(c) == c \in seen.active /\ ConnectorOrg[c] = OrgOf[q]
Own(c) == c = ConnectorOf[q] \/ <<ProjectOf[q], c>> \in seen.attached
ProjectSeen ==
    KindOf[q] # "peer" /\ ProjectOf[q] # NoProject => ProjectOf[q] \in seen.enabled

(* What the questions asked so far have established, by the one that is next. *)
StageInv ==
    /\ req.at = "new" =>
          /\ req.conn = ConnectorOf[q]
          /\ KindOf[q] # "batch" => req.repo \in Names
    /\ req.at \in {"guard", "resolve"} =>
          /\ KindOf[q] # "peer" /\ req.conn = ConnectorOf[q]
          /\ KindOf[q] = "batch" => req.conn # NoConnector /\ Cleared(req.conn)
    /\ req.at = "resolve" => ProjectSeen
    /\ req.at = "verify" =>
          /\ req.conn # NoConnector /\ Own(req.conn)
          /\ KindOf[q] = "api" => ProjectSeen /\ req.repo \in Repos
          /\ KindOf[q] # "api" => req.conn = ConnectorOf[q]
          /\ KindOf[q] = "peer" => req.repo \in Names
    /\ req.at = "create" =>
          /\ req.repo \in Names /\ ProjectSeen
          /\ req.conn # NoConnector =>
                Cleared(req.conn) /\ Own(req.conn) /\ req.repo # NoRepo
          /\ KindOf[q] = "batch" => req.conn # NoConnector /\ req.conn = ConnectorOf[q]

(* Admitted of one run. *)
RunAdmitted(run) ==
    /\ run.conn # NoConnector => Cleared(run.conn) /\ Own(run.conn)
    /\ ProjectSeen
    /\ AuthEnforced => run.conn # NoConnector /\ run.repo # NoRepo

RunsInv == \A k \in DOMAIN runs : RunAdmitted(runs[k])

IInv == Shape /\ SeenNow /\ StageInv /\ RunsInv

LEMMA InitInv == Init => IInv
<1>. SUFFICES ASSUME Init PROVE IInv
  OBVIOUS
<1>. USE AdmissionAssumption
<1>1. /\ q \in Requests /\ req = NewRequest /\ runs = <<>>
      /\ enabled \subseteq Projects /\ attached \in [Projects -> SomeConnector]
  BY DEF Init
<1>2. req.at = "new" /\ req.conn = ConnectorOf[q]
  BY <1>1 DEF NewRequest
<1>3. KindOf[q] # "batch" => req.repo \in Names
  <2>1. KindOf[q] # "batch" => NamesOf[q] \in Seq(Names) /\ Len(NamesOf[q]) = 1
    BY <1>1
  <2>2. KindOf[q] # "batch" => NamesOf[q][1] \in Names
    BY <2>1
  <2>3. req.repo = IF KindOf[q] = "batch" THEN NoRepo ELSE NamesOf[q][1]
    BY ONLY <1>1 DEF NewRequest
  <2>. QED BY ONLY <2>2, <2>3
<1>4. Shape
  BY <1>1, <1>2 DEF Shape, NewRequest, Stages, SomeConnector
<1>5. SeenNow
  BY DEF Init, SeenNow
<1>6. StageInv
  BY <1>2, <1>3 DEF StageInv
<1>7. RunsInv
  BY <1>1 DEF RunsInv
<1>. QED BY <1>4, <1>5, <1>6, <1>7 DEF IInv

(* A record of the request's fields. *)
Fields(r) ==
    r = [at |-> r.at, item |-> r.item, conn |-> r.conn, repo |-> r.repo,
         created |-> r.created, failed |-> r.failed, code |-> r.code]

(* The handler is done, or its batch is at the next item. *)
Onward(r) ==
    /\ Fields(r) /\ r.conn \in SomeConnector
    /\ \/ r.at = "done"
       \/ r.at = "guard" /\ KindOf[q] = "batch" /\ r.conn = ConnectorOf[q]

LEMMA AdvancedOnward ==
    ASSUME NEW r, Fields(r), r.conn \in SomeConnector, q \in Requests
    PROVE  Onward(Advanced(r))
<1>. DEFINE next == CHOOSE i \in Rest(r.item) : \A j \in Rest(r.item) : i <= j
<1>. DEFINE answer == BatchCode(r)
<1>. DEFINE name == NamesOf[q][next]
<1>1. ConnectorOf[q] \in SomeConnector
  BY AdmissionAssumption
<1>2. \/ Advanced(r) = [r EXCEPT !.at = "done"]
      \/ Advanced(r) = [r EXCEPT !.at = "done", !.code = answer]
      \/ /\ KindOf[q] = "batch"
         /\ Advanced(r) = [r EXCEPT !.at = "guard", !.item = next,
                                    !.conn = ConnectorOf[q], !.repo = name]
  BY DEF Advanced
<1>. HIDE DEF next, answer, name
<1>. QED BY <1>1, <1>2 DEF Onward, Fields

LEMMA FailedOnward ==
    ASSUME Shape, NEW code, Failed(code)
    PROVE  Onward(req')
<1>1. PICK r : r = [req EXCEPT !.failed = @ + 1, !.code = code]
  OBVIOUS
<1>2. req' = Advanced(r)
  BY <1>1 DEF Failed
<1>3. Fields(req) /\ req.conn \in SomeConnector /\ q \in Requests
  BY DEF Shape, Fields
<1>4. PICK n : n = req.failed + 1
  OBVIOUS
<1>5. r = [req EXCEPT !.failed = n, !.code = code]
  BY <1>1, <1>4
<1>6. Fields(r) /\ r.conn = req.conn
  BY ONLY <1>3, <1>5 DEF Fields
<1>. QED BY <1>2, <1>3, <1>6, AdvancedOnward

LEMMA RefusedOnward ==
    ASSUME Shape, NEW code, Refused(code)
    PROVE  Onward(req') /\ req'.at = "done"
BY DEF Shape, Refused, Onward, Fields

(* A batch has cleared its connector. *)
BatchCleared == KindOf[q] = "batch" => ConnectorOf[q] # NoConnector /\ Cleared(ConnectorOf[q])

(* What goes on without a run keeps the invariant. *)
LEMMA OnwardKeeps ==
    ASSUME IInv, Onward(req'), UNCHANGED <<peers, q, seen>>,
           runs' \in Seq(Run), RunsInv',
           req'.at = "guard" => BatchCleared
    PROVE  IInv'
<1>1. Shape'
  BY DEF IInv, Shape, Onward, Fields, peers, Stages
<1>2. SeenNow'
  BY DEF IInv, SeenNow, peers
<1>3. StageInv'
  <2>1. req'.at = "done" \/ (req'.at = "guard" /\ KindOf[q] = "batch" /\ req'.conn = ConnectorOf[q])
    BY DEF Onward
  <2>. QED BY <2>1 DEF StageInv, BatchCleared, Cleared
<1>. QED BY <1>1, <1>2, <1>3 DEF IInv

(* Runs that stay admitted when nothing they rest on changes. *)
LEMMA RunsStay ==
    ASSUME IInv, UNCHANGED <<q, runs, seen>>
    PROVE  runs' \in Seq(Run) /\ RunsInv'
BY DEF IInv, Shape, RunsInv, RunAdmitted, Cleared, Own, ProjectSeen

(* A failed item of a batch that was cleared. *)
LEMMA FailedKeeps ==
    ASSUME IInv, NEW code, Failed(code), UNCHANGED <<peers, q, runs, seen>>,
           req.at \in {"guard", "resolve", "create"}
    PROVE  IInv'
<1>1. Onward(req')
  BY FailedOnward DEF IInv
<1>2. BatchCleared
  BY DEF IInv, StageInv, BatchCleared, Cleared
<1>. QED BY <1>1, <1>2, OnwardKeeps, RunsStay

LEMMA RefusedKeeps ==
    ASSUME IInv, NEW code, Refused(code), UNCHANGED <<peers, q, runs, seen>>
    PROVE  IInv'
<1>1. Onward(req') /\ req'.at = "done"
  BY RefusedOnward DEF IInv
<1>. QED BY <1>1, OnwardKeeps, RunsStay

LEMMA ArriveKeeps == ASSUME IInv, Arrive PROVE IInv'
<1>. USE DEF Arrive
<1>1. CASE KindOf[q] = "api" /\ req' = [req EXCEPT !.at = "guard"]
  <2>1. /\ req'.at = "guard" /\ req'.conn = req.conn /\ req'.conn = ConnectorOf[q]
        /\ Fields(req')
    BY <1>1 DEF IInv, Shape, StageInv, Fields
  <2>2. Shape'
    BY <2>1, RunsStay DEF IInv, Shape, Fields, peers, Stages
  <2>3. SeenNow'
    BY DEF IInv, SeenNow, peers
  <2>4. StageInv'
    BY <1>1, <2>1 DEF StageInv
  <2>. QED BY <2>2, <2>3, <2>4, RunsStay DEF IInv
<1>2. CASE /\ KindOf[q] # "api" /\ ConnectorOf[q] # NoConnector
           /\ req' = [req EXCEPT !.at = "verify"]
  <2>1. /\ req'.at = "verify" /\ req'.conn = req.conn /\ req'.conn = ConnectorOf[q]
        /\ req'.repo = req.repo /\ Fields(req')
    BY <1>2 DEF IInv, Shape, StageInv, Fields
  <2>2. Shape'
    BY <2>1, RunsStay DEF IInv, Shape, Fields, peers, Stages
  <2>3. SeenNow'
    BY DEF IInv, SeenNow, peers
  <2>4. StageInv'
    BY <1>2, <2>1 DEF IInv, StageInv, Own
  <2>. QED BY <2>2, <2>3, <2>4, RunsStay DEF IInv
<1>3. CASE \E code \in Codes : Refused(code)
  BY <1>3, RefusedKeeps
<1>4. {200, 400, 403} \subseteq Codes
  BY DEF Codes
<1>. QED BY <1>1, <1>2, <1>3, <1>4

LEMMA GuardKeeps == ASSUME IInv, Guard PROVE IInv'
<1>. USE DEF Guard
<1>1. CASE ProjectOf[q] \in enabled \cup {NoProject} /\ req' = [req EXCEPT !.at = "resolve"]
  <2>1. /\ req'.at = "resolve" /\ req'.conn = req.conn /\ Fields(req')
    BY <1>1 DEF IInv, Shape, Fields
  <2>2. Shape'
    BY <2>1, RunsStay DEF IInv, Shape, Fields, peers, Stages
  <2>3. SeenNow'
    BY DEF IInv, SeenNow, peers
  <2>4. StageInv'
    BY <1>1, <2>1 DEF IInv, StageInv, SeenNow, Cleared, ProjectSeen
  <2>. QED BY <2>2, <2>3, <2>4, RunsStay DEF IInv
<1>2. CASE Failed(403)
  BY <1>2, FailedKeeps
<1>3. CASE Failed(503)
  BY <1>3, FailedKeeps
<1>. QED BY <1>1, <1>2, <1>3

(* The target of a run is complete, and its connector the request's own. *)
LEMMA TargetedKeeps ==
    ASSUME IInv, req.at = "resolve", NEW c \in SomeConnector, NEW name,
           c # NoConnector => Own(c),
           KindOf[q] = "batch" => c = ConnectorOf[q],
           Targeted(c, name), UNCHANGED <<peers, q, runs, seen>>
    PROVE  IInv'
<1>1. CASE Failed(400)
  BY <1>1, FailedKeeps
<1>2. ASSUME /\ name = NoRepo \/ c # NoConnector
             /\ c = NoConnector \/ name \in Repos,
             NEW stage \in {"verify", "create"},
             stage = IF Verifies(c) THEN "verify" ELSE "create",
             req' = [req EXCEPT !.conn = c, !.repo = name, !.at = stage]
      PROVE  IInv'
  <2>1. Fields(req') /\ req'.at = stage /\ req'.conn = c /\ req'.repo = name
    BY <1>2 DEF IInv, Shape, Fields
  <2>2. Shape'
    BY <2>1, RunsStay DEF IInv, Shape, Fields, peers, Stages
  <2>3. SeenNow'
    BY DEF IInv, SeenNow, peers
  <2>4. /\ ProjectSeen /\ KindOf[q] # "peer"
        /\ KindOf[q] = "batch" => c # NoConnector /\ Cleared(c)
    BY DEF IInv, StageInv, ProjectSeen, Cleared
  <2>5. name \in Names /\ (c # NoConnector => name \in Repos /\ name # NoRepo)
    BY <1>2, AdmissionAssumption DEF Names
  <2>6. stage = "verify" <=> KindOf[q] = "api" /\ c # NoConnector
    BY <1>2 DEF Verifies
  <2>7. KindOf[q] \in {"api", "batch", "peer"}
    BY AdmissionAssumption DEF IInv, Shape
  <2>8. StageInv'
    <3>1. CASE stage = "verify"
      BY <2>1, <2>4, <2>5, <2>6, <3>1 DEF StageInv, Own, ProjectSeen
    <3>2. CASE stage = "create"
      BY <2>1, <2>4, <2>5, <2>6, <2>7, <3>2 DEF StageInv, Own, Cleared, ProjectSeen
    <3>. QED BY <1>2, <3>1, <3>2
  <2>. QED BY <2>2, <2>3, <2>8, RunsStay DEF IInv
<1>. DEFINE stage == IF Verifies(c) THEN "verify" ELSE "create"
<1>3. \/ Failed(400)
      \/ /\ name = NoRepo \/ c # NoConnector
         /\ c = NoConnector \/ name \in Repos
         /\ req' = [req EXCEPT !.conn = c, !.repo = name, !.at = stage]
  BY DEF Targeted
<1>4. stage \in {"verify", "create"}
  OBVIOUS
<1>. QED BY <1>1, <1>2, <1>3, <1>4

(* What the directory fills in is the project's. *)
LEMMA FilledKeeps ==
    ASSUME IInv, req.at = "resolve", ProjectOf[q] \in enabled, Filled,
           UNCHANGED <<peers, q, runs, seen>>
    PROVE  IInv'
<1>. DEFINE p == ProjectOf[q]
            c == IF req.conn = NoConnector THEN attached[p] ELSE req.conn
            name == IF req.repo = NoRepo THEN KeyOf[p] ELSE req.repo
<1>1. CASE Failed(400)
  BY <1>1, FailedKeeps
<1>2. CASE Targeted(c, name)
  <2>1. p \in Projects /\ c \in SomeConnector
    BY DEF IInv, Shape
  <2>2. c # NoConnector => Own(c)
    BY <2>1 DEF IInv, StageInv, SeenNow, Own
  <2>3. KindOf[q] = "batch" => c = ConnectorOf[q]
    BY DEF IInv, StageInv
  <2>. QED BY <1>2, <2>1, <2>2, <2>3, TargetedKeeps
<1>3. Failed(400) \/ Targeted(c, name)
  BY DEF Filled
<1>. QED BY <1>1, <1>2, <1>3

LEMMA ResolveKeeps == ASSUME IInv, Resolve PROVE IInv'
<1>. USE DEF Resolve
<1>1. CASE Failed(403)
  BY <1>1, FailedKeeps
<1>2. CASE Failed(503)
  BY <1>2, FailedKeeps
<1>3. CASE Targeted(req.conn, req.repo)
  <2>1. /\ req.conn \in SomeConnector /\ Own(req.conn)
        /\ KindOf[q] = "batch" => req.conn = ConnectorOf[q]
    BY DEF IInv, Shape, StageInv, Own
  <2>. QED BY <1>3, <2>1, TargetedKeeps
<1>4. CASE ProjectOf[q] \in enabled /\ Filled
  BY <1>4, FilledKeeps
<1>. QED BY <1>1, <1>2, <1>3, <1>4

LEMMA VerifyKeeps == ASSUME IInv, Verify PROVE IInv'
<1>1. CASE Usable(req.conn) /\ Verified
  <2>1. /\ req.at = "verify" /\ UNCHANGED <<peers, q, runs, seen>>
        /\ req.conn # NoConnector /\ Own(req.conn) /\ Cleared(req.conn)
    BY <1>1 DEF Verify, Usable, IInv, StageInv, SeenNow, Cleared
  <2>2. CASE KindOf[q] # "batch" /\ req' = [req EXCEPT !.at = "create"]
                /\ (KindOf[q] = "peer" => req.repo # NoRepo)
    <3>1. /\ Fields(req') /\ req'.at = "create"
          /\ req'.conn = req.conn /\ req'.repo = req.repo
      BY <2>2 DEF IInv, Shape, Fields
    <3>2. Shape'
      BY <2>1, <3>1, RunsStay DEF IInv, Shape, Fields, peers, Stages
    <3>3. SeenNow'
      BY <2>1 DEF IInv, SeenNow, peers
    <3>4. ProjectSeen /\ req.repo \in Names /\ req.repo # NoRepo
      BY <2>1, <2>2, AdmissionAssumption DEF IInv, Shape, StageInv, ProjectSeen, Names
    <3>5. StageInv'
      BY <2>1, <2>2, <3>1, <3>4 DEF StageInv, Own, Cleared, ProjectSeen
    <3>. QED BY <2>1, <3>2, <3>3, <3>5, RunsStay DEF IInv
  <2>3. CASE KindOf[q] = "batch" /\ req' = Advanced(req)
    <3>1. Onward(req')
      BY <2>3, AdvancedOnward DEF IInv, Shape, Fields
    <3>2. BatchCleared
      BY <2>1, <2>3 DEF IInv, StageInv, BatchCleared, Cleared
    <3>. QED BY <2>1, <3>1, <3>2, OnwardKeeps, RunsStay
  <2>4. CASE Refused(400)
    BY <2>1, <2>4, RefusedKeeps
  <2>5. CASE Refused(200)
    BY <2>1, <2>5, RefusedKeeps
  <2>6. KindOf[q] \in {"api", "batch", "peer"}
    BY AdmissionAssumption DEF IInv, Shape
  <2>7. CASE KindOf[q] = "api"
    BY <1>1, <2>2, <2>7 DEF Verified
  <2>8. CASE KindOf[q] = "batch"
    BY <1>1, <2>3, <2>4, <2>8 DEF Verified
  <2>9. CASE KindOf[q] = "peer"
    BY <1>1, <2>2, <2>5, <2>9 DEF Verified
  <2>. QED BY <2>6, <2>7, <2>8, <2>9
<1>2. CASE \E code : Refused(code)
  BY <1>2, RefusedKeeps DEF Verify
<1>. QED BY <1>1, <1>2 DEF Verify

LEMMA CreateKeeps == ASSUME IInv, Create PROVE IInv'
<1>. USE DEF Create
<1>1. CASE Failed(400) /\ UNCHANGED runs
  BY <1>1, FailedKeeps
<1>2. CASE ~(AuthEnforced /\ req.conn = NoConnector) /\ Made
  <2>. DEFINE run == [conn |-> req.conn, repo |-> req.repo]
  <2>1. /\ run \in Run /\ runs \in Seq(Run) /\ runs' = Append(runs, run)
    BY <1>2 DEF Made, Run, IInv, Shape, StageInv
  <2>2. RunAdmitted(run)
    BY <1>2 DEF RunAdmitted, IInv, StageInv
  <2>. HIDE DEF run
  <2>3. /\ runs' \in Seq(Run) /\ DOMAIN runs' = DOMAIN runs \cup {Len(runs) + 1}
        /\ \A k \in DOMAIN runs : runs'[k] = runs[k]
        /\ runs'[Len(runs) + 1] = run
    BY <2>1
  <2>4. \A k \in DOMAIN runs' : RunAdmitted(runs'[k])
    BY <2>2, <2>3 DEF IInv, RunsInv
  <2>5. RunsInv'
    BY <2>4 DEF RunsInv, RunAdmitted, Cleared, Own, ProjectSeen
  <2>6. Onward(req')
    <3>1. PICK r : r = [req EXCEPT !.created = @ + 1, !.code = 200]
      OBVIOUS
    <3>2. req' = Advanced(r)
      BY <1>2, <3>1 DEF Made
    <3>3. Fields(req) /\ req.conn \in SomeConnector /\ q \in Requests
      BY DEF IInv, Shape, Fields
    <3>4. PICK n : n = req.created + 1
      OBVIOUS
    <3>5. r = [req EXCEPT !.created = n, !.code = 200]
      BY <3>1, <3>4
    <3>6. Fields(r) /\ r.conn = req.conn
      BY ONLY <3>3, <3>5 DEF Fields
    <3>. QED BY <3>2, <3>3, <3>6, AdvancedOnward
  <2>7. BatchCleared
    BY DEF IInv, StageInv, BatchCleared, Cleared
  <2>. QED BY <2>3, <2>5, <2>6, <2>7, OnwardKeeps
<1>. QED BY <1>1, <1>2

LEMMA PeersChangeKeeps == ASSUME IInv, PeersChange PROVE IInv'
<1>1. /\ UNCHANGED <<q, req, runs>>
      /\ seen'.active = seen.active \cup active'
      /\ seen'.enabled = seen.enabled \cup enabled'
      /\ seen'.attached = seen.attached \cup {<<p, attached'[p]>> : p \in Projects}
  BY DEF PeersChange, Observe
<1>2. enabled' \subseteq Projects /\ attached' \in [Projects -> SomeConnector]
  BY DEF PeersChange, IInv, Shape
<1>3. Shape'
  BY <1>1, <1>2 DEF IInv, Shape
<1>4. SeenNow'
  BY <1>1 DEF SeenNow
<1>5. /\ \A c : Cleared(c) => Cleared(c)'
      /\ \A c : Own(c) => Own(c)'
      /\ ProjectSeen => ProjectSeen'
  BY <1>1 DEF Cleared, Own, ProjectSeen
<1>6. StageInv'
  BY <1>1, <1>5 DEF IInv, StageInv
<1>7. RunsInv'
  BY <1>1, <1>5 DEF IInv, RunsInv, RunAdmitted
<1>. QED BY <1>3, <1>4, <1>6, <1>7 DEF IInv

LEMMA StepKeeps == IInv /\ [Next]_vars => IInv'
<1>. SUFFICES ASSUME IInv, [Next]_vars PROVE IInv'
  OBVIOUS
<1>1. CASE UNCHANGED vars
  BY <1>1 DEF vars, IInv, Shape, SeenNow, StageInv, RunsInv, RunAdmitted, Cleared, Own, ProjectSeen
<1>. QED BY <1>1, ArriveKeeps, GuardKeeps, ResolveKeeps, VerifyKeeps, CreateKeeps,
            PeersChangeKeeps DEF Next, Handle

(* Every run of a request had, at some moment of the request, a connector that
   was active for the request's organization and was named by the body or
   attached to the project, and an enabled project, whatever the peers change
   and however they fail between the questions, for any batch, connectors and
   projects. *)
THEOREM RunsAreAdmitted == Spec => []Admitted
<1>1. IInv /\ [Next]_vars => IInv'
  BY StepKeeps
<1>2. IInv => Admitted
  <2>. SUFFICES ASSUME IInv, NEW k \in DOMAIN runs
       PROVE  LET run == runs[k] IN
              /\ run.conn # NoConnector =>
                    /\ run.conn \in seen.active
                    /\ ConnectorOrg[run.conn] = OrgOf[q]
                    /\ \/ run.conn = ConnectorOf[q]
                       \/ <<ProjectOf[q], run.conn>> \in seen.attached
              /\ KindOf[q] # "peer" /\ ProjectOf[q] # NoProject => ProjectOf[q] \in seen.enabled
              /\ AuthEnforced => run.conn # NoConnector /\ run.repo # NoRepo
    BY DEF Admitted
  <2>. QED BY DEF IInv, RunsInv, RunAdmitted, Cleared, Own, ProjectSeen
<1>. QED BY InitInv, <1>1, <1>2, PTL DEF Spec
-----------------------------------------------------------------------------
(* What the answer counts *)

LEMMA Least ==
    ASSUME NEW T \in SUBSET Nat, T # {}
    PROVE  \E m \in T : \A n \in T : m <= n
<1>1. PICK m \in T : \A n \in T : <<n, m>> \notin OpToRel(<, Nat)
  BY WFMin, NatLessThanWellFounded, Zenon
<1>2. \A n \in T : ~(n < m)
  BY <1>1, Zenon DEF OpToRel
<1>. QED BY <1>2

(* The positions a batch has come to. *)
UpTo(i) == {j \in Listed : j <= i}

LEMMA ListedFinite ==
    ASSUME q \in Requests
    PROVE  /\ Listed \subseteq Nat \ {0} /\ Listed \subseteq DOMAIN NamesOf[q]
           /\ IsFiniteSet(Listed) /\ Cardinality(Listed) \in Nat
           /\ \A i : /\ IsFiniteSet(UpTo(i)) /\ Cardinality(UpTo(i)) \in Nat
                     /\ Cardinality(UpTo(i)) <= Cardinality(Listed)
<1>1. NamesOf[q] \in Seq(Names)
  BY AdmissionAssumption
<1>2. PICK n \in Nat : DOMAIN NamesOf[q] = 1 .. n
  BY <1>1
<1>3. Listed \subseteq 1 .. n
  BY <1>2 DEF Listed
<1>4. IsFiniteSet(1 .. n)
  BY FS_Interval
<1>5. IsFiniteSet(Listed)
  BY <1>3, <1>4, FS_Subset
<1>6. \A i : UpTo(i) \in SUBSET Listed
  BY DEF UpTo
<1>7. \A i : IsFiniteSet(UpTo(i)) /\ Cardinality(UpTo(i)) <= Cardinality(Listed)
  BY <1>5, <1>6, FS_Subset
<1>. QED BY <1>2, <1>3, <1>5, <1>7, FS_CardinalityType

(* A batch goes from a position to the next one without leaving one out. *)
LEMMA NextItem ==
    ASSUME q \in Requests, NEW i \in Nat, Rest(i) # {}, NEW n,
           n = CHOOSE m \in Rest(i) : \A j \in Rest(i) : m <= j
    PROVE  /\ n \in Listed /\ n > i
           /\ Cardinality(UpTo(n)) = Cardinality(UpTo(i)) + 1
<1>1. Rest(i) \subseteq Nat /\ Rest(i) \subseteq Listed
  BY ListedFinite DEF Rest
<1>2. \E m \in Rest(i) : \A j \in Rest(i) : m <= j
  BY <1>1, Least
<1>3. n \in Rest(i) /\ \A j \in Rest(i) : n <= j
  BY <1>2
<1>4. n \in Listed /\ n \in Nat /\ n > i
  BY <1>1, <1>3 DEF Rest
<1>5. UpTo(n) = UpTo(i) \cup {n}
  <2>1. \A j \in Listed : j \in Nat
    BY ListedFinite
  <2>2. \A j \in Listed : j > i => n <= j
    BY <1>3 DEF Rest
  <2>3. \A j \in Listed : j <= n <=> j <= i \/ j = n
    BY <1>4, <2>1, <2>2
  <2>. QED BY <1>4, <2>3 DEF UpTo
<1>6. n \notin UpTo(i)
  BY <1>4 DEF UpTo
<1>. QED BY <1>4, <1>5, <1>6, ListedFinite, FS_AddElement

LEMMA Ends ==
    ASSUME q \in Requests
    PROVE  /\ Cardinality(UpTo(0)) = 0 /\ Rest(0) = Listed
           /\ \A i \in Nat : Rest(i) = {} => UpTo(i) = Listed
<1>1. UpTo(0) = {}
  BY ListedFinite DEF UpTo
<1>2. Rest(0) = Listed
  BY ListedFinite DEF Rest
<1>3. \A i \in Nat : Rest(i) = {} => UpTo(i) = Listed
  BY ListedFinite DEF UpTo, Rest
<1>. QED BY <1>1, <1>2, <1>3, FS_EmptySet

(* The counters, the answer's code, and no repository twice. *)
Tally ==
    /\ req.item \in Nat /\ req.repo \in Names
    /\ req.created \in Nat /\ req.failed \in Nat /\ req.code \in Codes
    /\ req.created = Len(runs)
    /\ \A k, l \in DOMAIN runs : runs[k].repo = runs[l].repo => k = l

(* A request for one repository makes a run or fails, once. *)
SingleInv ==
    KindOf[q] # "batch" =>
        /\ req.at # "done" => req.created = 0 /\ req.failed = 0
        /\ req.at = "done" =>
              /\ req.created + req.failed <= 1
              /\ req.code >= 400 => req.created = 0
              /\ KindOf[q] = "api" /\ req.code = 200 => req.created = 1

(* A batch has counted every position before the one it is at, and its runs are
   of such positions. *)
BatchInv ==
    KindOf[q] = "batch" =>
        /\ req.at \in {"new", "verify"} =>
              req.item = 0 /\ req.created = 0 /\ req.failed = 0
        /\ req.at \in {"guard", "resolve", "create"} =>
              /\ req.item \in Listed /\ req.repo = NamesOf[q][req.item] /\ ~TooMany
              /\ req.created + req.failed + 1 = Cardinality(UpTo(req.item))
              /\ \A k \in DOMAIN runs :
                    \E j \in Listed : j < req.item /\ runs[k].repo = NamesOf[q][j]
        /\ req.at = "done" =>
              \/ req.item = 0 /\ req.created = 0 /\ req.failed = 0 /\ req.code >= 400
              \/ /\ req.item > 0 /\ ~TooMany
                 /\ req.created + req.failed = Cardinality(Listed)
                 /\ req.code = BatchCode(req)

CountInv == Tally /\ SingleInv /\ BatchInv

(* What the invariant says of the request is about these alone. *)
LEMMA SameRequest ==
    ASSUME UNCHANGED q
    PROVE  Listed' = Listed /\ (TooMany' <=> TooMany) /\ \A i : UpTo(i)' = UpTo(i)
<1>1. Listed' = Listed
  BY DEF Listed
<1>. QED BY <1>1 DEF TooMany, UpTo

LEMMA InitCounts == Init => CountInv
<1>. SUFFICES ASSUME Init PROVE CountInv
  OBVIOUS
<1>1. q \in Requests /\ req = NewRequest /\ runs = <<>>
  BY DEF Init
<1>2. KindOf[q] # "batch" => NamesOf[q] \in Seq(Names) /\ Len(NamesOf[q]) = 1
  BY <1>1, AdmissionAssumption
<1>3. NoRepo \in Names /\ (KindOf[q] # "batch" => NamesOf[q][1] \in Names)
  BY <1>2 DEF Names
<1>4. /\ req.at = "new" /\ req.item = 0 /\ req.created = 0 /\ req.failed = 0 /\ req.code = 0
      /\ req.repo = IF KindOf[q] = "batch" THEN NoRepo ELSE NamesOf[q][1]
  BY ONLY <1>1 DEF NewRequest
<1>. QED BY <1>1, <1>3, <1>4 DEF CountInv, Tally, SingleInv, BatchInv, Codes

(* A batch goes on from an item that is counted. *)
LEMMA AdvancedCounts ==
    ASSUME q \in Requests, KindOf[q] = "batch", ~TooMany, Listed # {},
           NEW r, Fields(r), r.item \in Nat,
           r.created \in Nat, r.failed \in Nat, r.code \in Codes,
           r.created + r.failed = Cardinality(UpTo(r.item)),
           r.repo \in Names, NEW s, s = Advanced(r)
    PROVE  /\ Fields(s) /\ s.created = r.created /\ s.failed = r.failed
           /\ s.item \in Nat /\ s.repo \in Names /\ s.code \in Codes
           /\ \/ /\ s.at = "done" /\ s.item > 0
                 /\ s.created + s.failed = Cardinality(Listed)
                 /\ s.code = BatchCode(s)
              \/ /\ s.at = "guard" /\ s.item \in Listed /\ s.item > r.item
                 /\ s.repo = NamesOf[q][s.item]
                 /\ s.created + s.failed + 1 = Cardinality(UpTo(s.item))
<1>1. CASE Rest(r.item) = {}
  <2>1. PICK code : code = BatchCode(r)
    OBVIOUS
  <2>2. s = [r EXCEPT !.at = "done", !.code = code]
    BY <1>1, <2>1 DEF Advanced
  <2>3. /\ Fields(s) /\ s.created = r.created /\ s.failed = r.failed /\ s.at = "done"
        /\ s.item = r.item /\ s.repo = r.repo /\ s.code = code
    BY ONLY <2>2, Fields(r) DEF Fields
  <2>4. r.item > 0 /\ UpTo(r.item) = Listed
    BY <1>1, Ends
  <2>5. code = BatchCode(s) /\ code \in Codes
    BY <2>1, <2>3 DEF BatchCode, Codes
  <2>. QED BY <2>3, <2>4, <2>5
<1>2. CASE Rest(r.item) # {}
  <2>1. PICK n : n = CHOOSE m \in Rest(r.item) : \A j \in Rest(r.item) : m <= j
    OBVIOUS
  <2>2. n \in Listed /\ n > r.item /\ Cardinality(UpTo(n)) = Cardinality(UpTo(r.item)) + 1
    BY <1>2, <2>1, NextItem
  <2>3. PICK name, conn : name = NamesOf[q][n] /\ conn = ConnectorOf[q]
    OBVIOUS
  <2>4. s = [r EXCEPT !.at = "guard", !.item = n, !.conn = conn, !.repo = name]
    BY <1>2, <2>1, <2>3 DEF Advanced
  <2>5. /\ Fields(s) /\ s.created = r.created /\ s.failed = r.failed /\ s.at = "guard"
        /\ s.item = n /\ s.repo = name /\ s.code = r.code
    BY ONLY <2>4, Fields(r) DEF Fields
  <2>6. name \in Names /\ n \in Nat
    BY <2>2, <2>3, ListedFinite DEF Listed, Names
  <2>. QED BY <2>2, <2>3, <2>5, <2>6
<1>. QED BY <1>1, <1>2

(* A request of one repository ends where it stands. *)
LEMMA AdvancedSingle ==
    ASSUME KindOf[q] # "batch", NEW r, Fields(r), NEW s, s = Advanced(r)
    PROVE  /\ s.at = "done" /\ s.item = r.item /\ s.repo = r.repo
           /\ s.created = r.created /\ s.failed = r.failed /\ s.code = r.code
<1>1. s = [r EXCEPT !.at = "done"]
  BY DEF Advanced
<1>. QED BY ONLY <1>1, Fields(r) DEF Fields

(* A question is answered, and the next one is due. *)
LEMMA MovedCounts ==
    ASSUME IInv, CountInv, UNCHANGED <<q, runs>>, req.at # "done", req'.at # "done",
           req'.item = req.item, req'.created = req.created, req'.failed = req.failed,
           req'.code = req.code, req'.repo \in Names, req'.at \in Stages,
           KindOf[q] = "batch" =>
              \/ req.at \in {"new", "verify"} /\ req'.at \in {"new", "verify"}
              \/ /\ req.at \in {"guard", "resolve", "create"} /\ req'.repo = req.repo
                 /\ req'.at \in {"guard", "resolve", "create"}
    PROVE  CountInv'
<1>1. Tally'
  BY DEF CountInv, Tally
<1>2. SingleInv'
  BY DEF CountInv, SingleInv
<1>3. BatchInv'
  BY SameRequest DEF CountInv, BatchInv
<1>. QED BY <1>1, <1>2, <1>3 DEF CountInv

LEMMA RefusedCounts ==
    ASSUME IInv, CountInv, UNCHANGED <<q, runs>>, req.at \in {"new", "verify"},
           NEW code \in Codes, code >= 400 \/ KindOf[q] = "peer", Refused(code)
    PROVE  CountInv'
<1>1. req' = [req EXCEPT !.at = "done", !.code = code]
  BY DEF Refused
<1>2. /\ req'.at = "done" /\ req'.item = req.item /\ req'.repo = req.repo
      /\ req'.created = req.created /\ req'.failed = req.failed /\ req'.code = code
  BY <1>1 DEF IInv, Shape
<1>3. Tally'
  BY <1>2 DEF CountInv, Tally
<1>4. SingleInv'
  BY <1>2 DEF CountInv, SingleInv
<1>5. BatchInv'
  BY <1>2, SameRequest DEF CountInv, BatchInv
<1>. QED BY <1>3, <1>4, <1>5 DEF CountInv

(* An item that is counted, with or without a run, keeps the invariant. *)
LEMMA CountedKeeps ==
    ASSUME IInv, CountInv, UNCHANGED q, req.at \in {"guard", "resolve", "create"},
           NEW r, Fields(r), r.item = req.item, r.repo = req.repo,
           r.created \in Nat, r.failed \in Nat, r.code \in Codes,
           r.created + r.failed = req.created + req.failed + 1,
           KindOf[q] # "batch" =>
              /\ r.code >= 400 => r.created = 0
              /\ KindOf[q] = "api" /\ r.code = 200 => r.created = 1,
           req' = Advanced(r), r.created = Len(runs)',
           \A k, l \in DOMAIN runs' : runs'[k].repo = runs'[l].repo => k = l,
           KindOf[q] = "batch" =>
              \A k \in DOMAIN runs' :
                 \E j \in Listed : j <= req.item /\ runs'[k].repo = NamesOf[q][j]
    PROVE  CountInv'
<1>1. q \in Requests /\ req.item \in Nat /\ req.repo \in Names
      /\ req.created \in Nat /\ req.failed \in Nat
  BY DEF IInv, Shape, CountInv, Tally
<1>2. CASE KindOf[q] # "batch"
  <2>1. /\ req'.at = "done" /\ req'.item = r.item /\ req'.repo = r.repo
        /\ req'.created = r.created /\ req'.failed = r.failed /\ req'.code = r.code
    BY <1>2, AdvancedSingle
  <2>2. req.created = 0 /\ req.failed = 0
    BY <1>2 DEF CountInv, SingleInv
  <2>3. Tally'
    BY <1>1, <2>1 DEF Tally
  <2>4. SingleInv'
    BY <1>1, <1>2, <2>1, <2>2 DEF SingleInv
  <2>5. BatchInv'
    BY <1>2 DEF BatchInv
  <2>. QED BY <2>3, <2>4, <2>5 DEF CountInv
<1>3. CASE KindOf[q] = "batch"
  <2>1. /\ req.item \in Listed /\ ~TooMany
        /\ req.created + req.failed + 1 = Cardinality(UpTo(req.item))
    BY <1>3 DEF CountInv, BatchInv
  <2>2. PICK s : s = Advanced(r)
    OBVIOUS
  <2>3. /\ s.created = r.created /\ s.failed = r.failed
        /\ s.item \in Nat /\ s.repo \in Names /\ s.code \in Codes
        /\ \/ /\ s.at = "done" /\ s.item > 0
              /\ s.created + s.failed = Cardinality(Listed)
              /\ s.code = BatchCode(s)
           \/ /\ s.at = "guard" /\ s.item \in Listed /\ s.item > r.item
              /\ s.repo = NamesOf[q][s.item]
              /\ s.created + s.failed + 1 = Cardinality(UpTo(s.item))
    BY <1>1, <1>3, <2>1, <2>2, AdvancedCounts
  <2>4. req' = s
    BY <2>2
  <2>5. Tally'
    BY <2>3, <2>4 DEF Tally
  <2>6. SingleInv'
    BY <1>3 DEF SingleInv
  <2>7. BatchInv'
    <3>1. CASE s.at = "done"
      BY <2>1, <2>3, <2>4, <3>1, SameRequest DEF BatchInv, BatchCode
    <3>2. CASE s.at = "guard"
      <4>1. \A k \in DOMAIN runs' :
               \E j \in Listed : j < s.item /\ runs'[k].repo = NamesOf[q][j]
        BY <1>1, <1>3, <2>3, <3>2, ListedFinite
      <4>. QED BY <2>1, <2>3, <2>4, <3>2, <4>1, SameRequest DEF BatchInv
    <3>. QED BY <2>3, <3>1, <3>2
  <2>. QED BY <2>5, <2>6, <2>7 DEF CountInv
<1>. QED BY <1>2, <1>3

LEMMA FailedCounts ==
    ASSUME IInv, CountInv, UNCHANGED <<q, runs>>, req.at \in {"guard", "resolve", "create"},
           NEW code \in {400, 403, 503}, Failed(code)
    PROVE  CountInv'
<1>1. PICK n : n = req.failed + 1
  OBVIOUS
<1>2. PICK r : r = [req EXCEPT !.failed = n, !.code = code]
  OBVIOUS
<1>3. /\ Fields(r) /\ r.item = req.item /\ r.repo = req.repo
      /\ r.created = req.created /\ r.failed = n /\ r.code = code
  BY <1>2 DEF IInv, Shape, Fields
<1>4. req' = Advanced(r)
  BY <1>1, <1>2 DEF Failed
<1>5. /\ req.created \in Nat /\ req.failed \in Nat /\ req.created = Len(runs)
      /\ \A k, l \in DOMAIN runs : runs[k].repo = runs[l].repo => k = l
  BY DEF CountInv, Tally
<1>6. code \in Codes /\ code # 200 /\ (KindOf[q] # "batch" => req.created = 0)
  BY DEF Codes, CountInv, SingleInv
<1>7. KindOf[q] = "batch" =>
         \A k \in DOMAIN runs :
            \E j \in Listed : j <= req.item /\ runs[k].repo = NamesOf[q][j]
  <2>1. req.item \in Nat /\ \A j \in Listed : j \in Nat
    BY ListedFinite DEF IInv, Shape, CountInv, Tally
  <2>2. \A j \in Listed : j < req.item => j <= req.item
    BY <2>1
  <2>. QED BY <2>2 DEF CountInv, BatchInv
<1>. QED BY <1>1, <1>3, <1>4, <1>5, <1>6, <1>7, CountedKeeps

(* A run is made of a repository that has none yet. *)
LEMMA MadeCounts ==
    ASSUME IInv, CountInv, UNCHANGED q, req.at = "create", Made
    PROVE  CountInv'
<1>. DEFINE run == [conn |-> req.conn, repo |-> req.repo]
<1>1. PICK n : n = req.created + 1
  OBVIOUS
<1>2. PICK r : r = [req EXCEPT !.created = n, !.code = 200]
  OBVIOUS
<1>3. /\ Fields(r) /\ r.item = req.item /\ r.repo = req.repo
      /\ r.created = n /\ r.failed = req.failed /\ r.code = 200
  BY <1>2 DEF IInv, Shape, Fields
<1>4. req' = Advanced(r) /\ runs' = Append(runs, run)
  BY <1>1, <1>2 DEF Made
<1>5. /\ req.created \in Nat /\ req.failed \in Nat /\ req.created = Len(runs)
      /\ req.item \in Nat /\ req.repo \in Names
      /\ \A k, l \in DOMAIN runs : runs[k].repo = runs[l].repo => k = l
  BY DEF CountInv, Tally
<1>6. run \in Run /\ runs \in Seq(Run)
  BY <1>5 DEF IInv, Shape, Run
<1>7. run.repo = req.repo
  OBVIOUS
<1>. HIDE DEF run
<1>8. /\ Len(runs') = Len(runs) + 1 /\ DOMAIN runs' = DOMAIN runs \cup {Len(runs) + 1}
      /\ \A k \in DOMAIN runs : runs'[k] = runs[k]
      /\ runs'[Len(runs) + 1] = run
  BY <1>4, <1>6
<1>9. KindOf[q] # "batch" => req.created = 0 /\ req.failed = 0
  BY DEF CountInv, SingleInv
<1>10. KindOf[q] = "batch" =>
          /\ req.item \in Listed /\ req.repo = NamesOf[q][req.item]
          /\ \A k \in DOMAIN runs :
                \E j \in Listed : j < req.item /\ runs[k].repo = NamesOf[q][j]
  BY DEF CountInv, BatchInv
<1>11. \A j \in Listed : j \in Nat \ {0}
  BY ListedFinite DEF IInv, Shape
<1>12. \A k \in DOMAIN runs : runs[k].repo # run.repo
  <2>1. CASE KindOf[q] # "batch"
    <3>1. DOMAIN runs = {}
      BY <1>5, <1>6, <1>9, <2>1
    <3>. QED BY <3>1
  <2>2. CASE KindOf[q] = "batch"
    <3>1. \A j \in Listed : j < req.item => NamesOf[q][j] # NamesOf[q][req.item]
      <4>. SUFFICES ASSUME NEW j \in Listed, j < req.item
                    PROVE  NamesOf[q][j] # NamesOf[q][req.item]
        OBVIOUS
      <4>1. j \in 1 .. req.item - 1
        BY <1>5, <1>11
      <4>. QED BY <1>10, <2>2, <4>1 DEF Listed
    <3>. QED BY <1>7, <1>10, <2>2, <3>1
  <2>. QED BY <2>1, <2>2
<1>13. \A k, l \in DOMAIN runs' : runs'[k].repo = runs'[l].repo => k = l
  BY <1>5, <1>8, <1>12
<1>14. KindOf[q] = "batch" =>
          \A k \in DOMAIN runs' :
             \E j \in Listed : j <= req.item /\ runs'[k].repo = NamesOf[q][j]
  <2>1. \A j \in Listed : j <= req.item <=> j < req.item \/ j = req.item
    BY <1>5, <1>11
  <2>. QED BY <1>7, <1>8, <1>10, <2>1
<1>15. 200 \in Codes /\ ~(200 >= 400)
  BY DEF Codes
<1>. QED BY <1>1, <1>3, <1>4, <1>5, <1>8, <1>9, <1>13, <1>14, <1>15, CountedKeeps

LEMMA ArriveCounts == ASSUME IInv, CountInv, Arrive PROVE CountInv'
<1>. USE DEF Arrive
<1>1. CASE \E at \in {"guard", "verify"} :
              /\ req' = [req EXCEPT !.at = at]
              /\ at = "guard" => KindOf[q] = "api"
  <2>1. PICK at \in {"guard", "verify"} :
              /\ req' = [req EXCEPT !.at = at]
              /\ at = "guard" => KindOf[q] = "api"
    BY <1>1
  <2>2. /\ req'.at = at /\ req'.item = req.item /\ req'.created = req.created
        /\ req'.failed = req.failed /\ req'.code = req.code /\ req'.repo = req.repo
    BY <2>1 DEF IInv, Shape
  <2>3. req.repo \in Names
    BY DEF CountInv, Tally
  <2>. QED BY <2>1, <2>2, <2>3, MovedCounts DEF Stages
<1>2. CASE Refused(400)
  BY <1>2, RefusedCounts DEF Codes
<1>3. CASE Refused(403)
  BY <1>3, RefusedCounts DEF Codes
<1>4. CASE KindOf[q] = "peer" /\ Refused(200)
  BY <1>4, RefusedCounts DEF Codes
<1>. QED BY <1>1, <1>2, <1>3, <1>4

LEMMA GuardCounts == ASSUME IInv, CountInv, Guard PROVE CountInv'
<1>. USE DEF Guard
<1>1. CASE req' = [req EXCEPT !.at = "resolve"]
  <2>1. /\ req'.at = "resolve" /\ req'.item = req.item /\ req'.created = req.created
        /\ req'.failed = req.failed /\ req'.code = req.code /\ req'.repo = req.repo
    BY <1>1 DEF IInv, Shape
  <2>2. req.repo \in Names
    BY DEF CountInv, Tally
  <2>. QED BY <2>1, <2>2, MovedCounts DEF Stages
<1>2. CASE Failed(403)
  BY <1>2, FailedCounts
<1>3. CASE Failed(503)
  BY <1>3, FailedCounts
<1>. QED BY <1>1, <1>2, <1>3

(* A batch does not change the repository of an item. *)
LEMMA TargetedCounts ==
    ASSUME IInv, CountInv, UNCHANGED <<q, runs>>, req.at = "resolve",
           NEW c, NEW name, Targeted(c, name), KindOf[q] = "batch" => name = req.repo,
           name \in Repos \cup {req.repo, NoRepo}
    PROVE  CountInv'
<1>1. CASE Failed(400)
  BY <1>1, FailedCounts
<1>2. PICK at : at = IF Verifies(c) THEN "verify" ELSE "create"
  OBVIOUS
<1>3. CASE req' = [req EXCEPT !.conn = c, !.repo = name, !.at = at]
  <2>1. /\ req'.at = at /\ req'.item = req.item /\ req'.created = req.created
        /\ req'.failed = req.failed /\ req'.code = req.code /\ req'.repo = name
    BY <1>3 DEF IInv, Shape
  <2>2. at \in {"verify", "create"} /\ (KindOf[q] = "batch" => at = "create")
    BY <1>2 DEF Verifies
  <2>3. name \in Names
    BY DEF CountInv, Tally, Names
  <2>. QED BY <2>1, <2>2, <2>3, MovedCounts DEF Stages
<1>. QED BY <1>1, <1>2, <1>3 DEF Targeted

LEMMA FilledCounts ==
    ASSUME IInv, CountInv, UNCHANGED <<q, runs>>, req.at = "resolve", Filled
    PROVE  CountInv'
<1>. DEFINE p == ProjectOf[q]
            c == IF req.conn = NoConnector THEN attached[p] ELSE req.conn
            name == IF req.repo = NoRepo THEN KeyOf[p] ELSE req.repo
<1>1. CASE Failed(400)
  BY <1>1, FailedCounts
<1>2. CASE /\ ~(req.repo = NoRepo /\ KeyOf[p] \notin Repos)
           /\ Targeted(c, name)
  <2>1. KindOf[q] = "batch" => req.repo \in Repos
    BY DEF CountInv, BatchInv, Listed
  <2>2. NoRepo \notin Repos
    BY AdmissionAssumption
  <2>3. KindOf[q] = "batch" => name = req.repo
    BY <2>1, <2>2
  <2>4. name \in Repos \cup {req.repo, NoRepo}
    BY <1>2
  <2>. QED BY <1>2, <2>3, <2>4, TargetedCounts
<1>. QED BY <1>1, <1>2 DEF Filled

LEMMA ResolveCounts == ASSUME IInv, CountInv, Resolve PROVE CountInv'
<1>. USE DEF Resolve
<1>1. CASE Failed(403)
  BY <1>1, FailedCounts
<1>2. CASE Failed(503)
  BY <1>2, FailedCounts
<1>3. CASE Targeted(req.conn, req.repo)
  BY <1>3, TargetedCounts
<1>4. CASE Filled
  BY <1>4, FilledCounts
<1>. QED BY <1>1, <1>2, <1>3, <1>4

LEMMA VerifyCounts == ASSUME IInv, CountInv, Verify PROVE CountInv'
<1>1. req.at = "verify" /\ UNCHANGED <<q, runs>>
  BY DEF Verify
<1>2. CASE \E code \in {400, 403, 502} : Refused(code)
  BY <1>1, <1>2, RefusedCounts DEF Codes
<1>3. CASE KindOf[q] = "peer" /\ Refused(200)
  BY <1>1, <1>3, RefusedCounts DEF Codes
<1>4. CASE KindOf[q] # "batch" /\ req' = [req EXCEPT !.at = "create"]
  <2>1. /\ req'.at = "create" /\ req'.item = req.item /\ req'.created = req.created
        /\ req'.failed = req.failed /\ req'.code = req.code /\ req'.repo = req.repo
    BY <1>4 DEF IInv, Shape
  <2>2. req.repo \in Names
    BY DEF CountInv, Tally
  <2>. QED BY <1>1, <1>4, <2>1, <2>2, MovedCounts DEF Stages
<1>5. CASE KindOf[q] = "batch" /\ Listed # {} /\ ~TooMany /\ req' = Advanced(req)
  <2>1. /\ q \in Requests /\ Fields(req)
        /\ req.item = 0 /\ req.created = 0 /\ req.failed = 0
        /\ req.code \in Codes /\ req.repo \in Names /\ Len(runs) = 0
    BY <1>1, <1>5 DEF IInv, Shape, Fields, CountInv, Tally, BatchInv
  <2>2. req.created + req.failed = Cardinality(UpTo(req.item))
    BY <2>1, Ends
  <2>3. PICK s : s = Advanced(req)
    OBVIOUS
  <2>4. /\ s.created = 0 /\ s.failed = 0
        /\ s.item \in Nat /\ s.repo \in Names /\ s.code \in Codes
        /\ \/ /\ s.at = "done" /\ s.item > 0
              /\ s.created + s.failed = Cardinality(Listed)
              /\ s.code = BatchCode(s)
           \/ /\ s.at = "guard" /\ s.item \in Listed /\ s.item > req.item
              /\ s.repo = NamesOf[q][s.item]
              /\ s.created + s.failed + 1 = Cardinality(UpTo(s.item))
    <3>1. PICK r : r = req
      OBVIOUS
    <3>2. /\ Fields(r) /\ r.item = 0 /\ r.created = 0 /\ r.failed = 0
          /\ r.code \in Codes /\ r.repo \in Names /\ s = Advanced(r)
          /\ r.created + r.failed = Cardinality(UpTo(r.item))
      BY <2>1, <2>2, <2>3, <3>1
    <3>3. r.item \in Nat /\ r.created \in Nat /\ r.failed \in Nat
      BY <3>2
    <3>4. /\ s.created = r.created /\ s.failed = r.failed
          /\ s.item \in Nat /\ s.repo \in Names /\ s.code \in Codes
          /\ \/ /\ s.at = "done" /\ s.item > 0
                /\ s.created + s.failed = Cardinality(Listed)
                /\ s.code = BatchCode(s)
             \/ /\ s.at = "guard" /\ s.item \in Listed /\ s.item > r.item
                /\ s.repo = NamesOf[q][s.item]
                /\ s.created + s.failed + 1 = Cardinality(UpTo(s.item))
      BY <1>5, <2>1, <3>2, <3>3, AdvancedCounts
    <3>. QED BY <3>1, <3>2, <3>4
  <2>5. req' = s /\ DOMAIN runs = {}
    BY <1>5, <2>1, <2>3 DEF IInv, Shape
  <2>6. Tally' /\ SingleInv'
    BY <1>1, <1>5, <2>1, <2>4, <2>5 DEF Tally, SingleInv
  <2>7. BatchInv'
    BY <1>1, <1>5, <2>4, <2>5, SameRequest DEF BatchInv, BatchCode
  <2>. QED BY <2>6, <2>7 DEF CountInv
<1>6. KindOf[q] \in {"api", "batch", "peer"}
  BY AdmissionAssumption DEF IInv, Shape
<1>7. CASE Usable(req.conn) /\ Verified
  <2>1. CASE KindOf[q] = "api"
    BY <1>4, <1>7, <2>1 DEF Verified
  <2>2. CASE KindOf[q] = "batch"
    BY <1>2, <1>5, <1>7, <2>2 DEF Verified
  <2>3. CASE KindOf[q] = "peer"
    BY <1>3, <1>4, <1>7, <2>3 DEF Verified
  <2>. QED BY <1>6, <2>1, <2>2, <2>3
<1>. QED BY <1>2, <1>7 DEF Verify, OutageCodes

LEMMA CreateCounts == ASSUME IInv, CountInv, Create PROVE CountInv'
<1>1. CASE Failed(400) /\ UNCHANGED runs
  BY <1>1, FailedCounts DEF Create
<1>2. CASE Made
  BY <1>2, MadeCounts DEF Create
<1>. QED BY <1>1, <1>2 DEF Create

LEMMA StillCounts ==
    ASSUME CountInv, UNCHANGED <<q, req, runs>>
    PROVE  CountInv'
<1>1. Tally' /\ SingleInv'
  BY DEF CountInv, Tally, SingleInv
<1>2. BatchInv'
  BY SameRequest DEF CountInv, BatchInv, BatchCode
<1>. QED BY <1>1, <1>2 DEF CountInv

LEMMA StepCounts == IInv /\ CountInv /\ [Next]_vars => CountInv'
<1>. SUFFICES ASSUME IInv, CountInv, [Next]_vars PROVE CountInv'
  OBVIOUS
<1>1. CASE UNCHANGED vars
  BY <1>1, StillCounts DEF vars
<1>2. CASE PeersChange
  BY <1>2, StillCounts DEF PeersChange
<1>. QED BY <1>1, <1>2, ArriveCounts, GuardCounts, ResolveCounts, VerifyCounts, CreateCounts
         DEF Next, Handle

(* What the type invariant says of the rest. *)
RestType ==
    /\ active \subseteq Connectors
    /\ seen \in [active: SUBSET Connectors, enabled: SUBSET Projects,
                 attached: SUBSET (Projects \X SomeConnector)]
    /\ changes \in 0 .. MaxChanges /\ errors \in 0 .. MaxErrors

LEMMA SeenType ==
    ASSUME NEW a \in [Projects -> SomeConnector]
    PROVE  {<<p, a[p]>> : p \in Projects} \subseteq Projects \X SomeConnector
OBVIOUS

LEMMA RestTyped ==
    ASSUME IInv, RestType, [Next]_vars
    PROVE  RestType'
<1>. USE AdmissionAssumption
<1>1. CASE UNCHANGED vars
  BY <1>1 DEF vars, RestType
<1>2. CASE Handle
  <2>1. UNCHANGED <<active, seen, changes>>
    BY <1>2 DEF Handle, Arrive, Guard, Resolve, Verify, Create, peers
  <2>2. errors' \in 0 .. MaxErrors
    BY <1>2 DEF RestType, Handle, Arrive, Guard, Resolve, Verify, Create, Unanswered
  <2>. QED BY <2>1, <2>2 DEF RestType
<1>3. CASE PeersChange
  <2>1. active' \subseteq Connectors /\ enabled' \subseteq Projects
    BY <1>3 DEF PeersChange, RestType, IInv, Shape
  <2>2. attached' \in [Projects -> SomeConnector]
    BY <1>3 DEF PeersChange, IInv, Shape
  <2>3. PICK pairs : pairs = {<<p, attached'[p]>> : p \in Projects}
    OBVIOUS
  <2>4. pairs \subseteq Projects \X SomeConnector
    BY <2>2, <2>3, SeenType
  <2>5. seen' = [active |-> seen.active \cup active', enabled |-> seen.enabled \cup enabled',
                 attached |-> seen.attached \cup pairs]
    BY <1>3, <2>3 DEF PeersChange, Observe
  <2>6. changes' \in 0 .. MaxChanges /\ errors' = errors
    BY <1>3 DEF PeersChange, RestType
  <2>. QED BY <2>1, <2>4, <2>5, <2>6 DEF RestType
<1>. QED BY <1>1, <1>2, <1>3 DEF Next

LEMMA InitRest == Init => RestType
<1>. SUFFICES ASSUME Init PROVE RestType
  OBVIOUS
<1>1. PICK pairs : pairs = {<<p, attached[p]>> : p \in Projects}
  OBVIOUS
<1>2. pairs \subseteq Projects \X SomeConnector
  BY <1>1, SeenType DEF Init
<1>3. seen = [active |-> active, enabled |-> enabled, attached |-> pairs]
  BY <1>1 DEF Init
<1>4. /\ active \subseteq Connectors /\ enabled \subseteq Projects
      /\ changes \in 0 .. MaxChanges /\ errors \in 0 .. MaxErrors
  BY AdmissionAssumption DEF Init
<1>. QED BY <1>2, <1>3, <1>4 DEF RestType

(* A batch counts no more items than it may list. *)
LEMMA CountsBounded ==
    ASSUME IInv, CountInv
    PROVE  req.created \in 0 .. BatchMax /\ req.failed \in 0 .. BatchMax
<1>1. /\ req.created \in Nat /\ req.failed \in Nat /\ BatchMax \in Nat \ {0}
      /\ Cardinality(Listed) \in Nat
      /\ \A i : Cardinality(UpTo(i)) \in Nat /\ Cardinality(UpTo(i)) <= Cardinality(Listed)
  BY AdmissionAssumption, ListedFinite DEF IInv, Shape, CountInv, Tally
<1>2. CASE KindOf[q] # "batch"
  BY <1>1, <1>2 DEF CountInv, SingleInv
<1>3. CASE KindOf[q] = "batch"
  <2>1. ~TooMany => Cardinality(Listed) <= BatchMax
    BY <1>1 DEF TooMany
  <2>2. req.at \in Stages
    BY DEF IInv, Shape
  <2>. QED BY <1>1, <1>3, <2>1, <2>2 DEF CountInv, BatchInv, Stages
<1>. QED BY <1>2, <1>3

LEMMA Invariance == Spec => [](IInv /\ CountInv /\ RestType)
<1>1. IInv /\ [Next]_vars => IInv'
  BY StepKeeps
<1>2. IInv /\ CountInv /\ [Next]_vars => CountInv'
  BY StepCounts
<1>3. IInv /\ RestType /\ [Next]_vars => RestType'
  BY RestTyped
<1>. QED BY InitInv, InitCounts, InitRest, <1>1, <1>2, <1>3, PTL DEF Spec

(* Every variable has its type, and no batch counts more than BatchMax items. *)
THEOREM TypeCorrect == Spec => []TypeOK
<1>1. IInv /\ CountInv /\ RestType => TypeOK
  <2>. SUFFICES ASSUME IInv, CountInv, RestType PROVE TypeOK
    OBVIOUS
  <2>1. /\ req.at \in Stages /\ req.item \in Nat /\ req.conn \in SomeConnector
        /\ req.repo \in Names /\ req.code \in Codes
        /\ req.created \in 0 .. BatchMax /\ req.failed \in 0 .. BatchMax
    BY CountsBounded DEF IInv, Shape, CountInv, Tally
  <2>2. req \in [at: {"new", "guard", "resolve", "verify", "create", "done"},
                 item: Nat, conn: SomeConnector, repo: Names,
                 created: 0 .. BatchMax, failed: 0 .. BatchMax, code: Codes]
    BY <2>1 DEF IInv, Shape, Stages
  <2>. QED BY <2>2 DEF TypeOK, IInv, Shape, RestType
<1>. QED BY Invariance, <1>1, PTL

-----------------------------------------------------------------------------
(* The answer *)

(* As many runs, as many repositories. *)
LEMMA RunsOfRepos ==
    ASSUME runs \in Seq(Run), \A k, l \in DOMAIN runs : runs[k].repo = runs[l].repo => k = l
    PROVE  Cardinality({runs[k].repo : k \in DOMAIN runs}) = Len(runs)
<1>. DEFINE T == {runs[k].repo : k \in DOMAIN runs}
            f == [k \in 1 .. Len(runs) |-> runs[k].repo]
<1>1. DOMAIN runs = 1 .. Len(runs) /\ Len(runs) \in Nat
  OBVIOUS
<1>2. f \in Bijection(1 .. Len(runs), T)
  <2>1. f \in [1 .. Len(runs) -> T]
    BY <1>1
  <2>2. \A k, l \in 1 .. Len(runs) : f[k] = f[l] => k = l
    BY <1>1
  <2>3. \A t \in T : \E k \in 1 .. Len(runs) : f[k] = t
    BY <1>1
  <2>. HIDE DEF f, T
  <2>. QED BY <2>1, <2>2, <2>3 DEF Bijection, Injection, Surjection, IsInjective
<1>3. ExistsBijection(1 .. Len(runs), T)
  BY <1>2 DEF ExistsBijection
<1>. QED BY <1>1, <1>3, FS_CountingElements

(* Each distinct repository of a body is listed at one position, its first. *)
LEMMA ListedCountsNames ==
    ASSUME q \in Requests
    PROVE  Cardinality({NamesOf[q][i] : i \in DOMAIN NamesOf[q]} \cap Repos)
               = Cardinality(Listed)
<1>. DEFINE T == {NamesOf[q][i] : i \in DOMAIN NamesOf[q]} \cap Repos
            f == [i \in Listed |-> NamesOf[q][i]]
<1>1. NamesOf[q] \in Seq(Names)
  BY AdmissionAssumption
<1>2. PICK n \in Nat : DOMAIN NamesOf[q] = 1 .. n
  BY <1>1
<1>3. \A i, j \in Listed : NamesOf[q][i] = NamesOf[q][j] => i = j
  <2>1. \A i, j \in Listed : i < j => NamesOf[q][i] # NamesOf[q][j]
    <3>. SUFFICES ASSUME NEW i \in Listed, NEW j \in Listed, i < j
                  PROVE  NamesOf[q][i] # NamesOf[q][j]
      OBVIOUS
    <3>1. i \in 1 .. j - 1
      BY <1>2 DEF Listed
    <3>. QED BY <3>1 DEF Listed
  <2>2. \A i, j \in Listed : i = j \/ i < j \/ j < i
    BY <1>2 DEF Listed
  <2>. QED BY <2>1, <2>2
<1>4. \A t \in T : \E i \in Listed : NamesOf[q][i] = t
  <2>. SUFFICES ASSUME NEW t \in T PROVE \E i \in Listed : NamesOf[q][i] = t
    OBVIOUS
  <2>. DEFINE P == {i \in DOMAIN NamesOf[q] : NamesOf[q][i] = t}
  <2>1. P \in SUBSET Nat /\ P # {}
    BY <1>2
  <2>2. PICK m \in P : \A k \in P : m <= k
    BY <2>1, Least
  <2>3. \A j \in 1 .. m - 1 : j \in DOMAIN NamesOf[q] /\ j \notin P
    BY <1>2, <2>2
  <2>4. m \in Listed
    BY <2>2, <2>3 DEF Listed
  <2>. QED BY <2>2, <2>4
<1>5. \A i \in Listed : NamesOf[q][i] \in T
  BY DEF Listed
<1>6. f \in Bijection(Listed, T)
  <2>1. f \in [Listed -> T]
    BY <1>5
  <2>2. \A i, j \in Listed : f[i] = f[j] => i = j
    BY <1>3
  <2>3. \A t \in T : \E i \in Listed : f[i] = t
    BY <1>4
  <2>. HIDE DEF f, T
  <2>. QED BY <2>1, <2>2, <2>3 DEF Bijection, Injection, Surjection, IsInjective
<1>7. ExistsBijection(Listed, T)
  BY <1>6 DEF ExistsBijection
<1>. QED BY <1>7, ListedFinite, FS_Bijection

(* The answer tells what was made: 200 all of it, 207 some of it, an error
   nothing; a batch that was begun accounts once for every distinct repository
   that its body lists, whatever its items meet. *)
THEOREM AnswerTellsRuns == Spec => []AnswerTells
<1>1. IInv /\ CountInv => AnswerTells
  <2>. SUFFICES ASSUME IInv, CountInv, req.at = "done" PROVE AnswerTells
    BY DEF AnswerTells
  <2>. DEFINE named == Cardinality({NamesOf[q][i] : i \in DOMAIN NamesOf[q]} \cap Repos)
              made == Cardinality({runs[k].repo : k \in DOMAIN runs})
  <2>1. made = Len(runs) /\ req.created = made
    BY RunsOfRepos DEF IInv, Shape, CountInv, Tally
  <2>2. named = Cardinality(Listed) /\ named \in Nat
    BY ListedCountsNames, ListedFinite DEF IInv, Shape
  <2>3. req.created \in Nat /\ req.failed \in Nat
    BY DEF CountInv, Tally
  <2>. HIDE DEF named, made
  <2>4. CASE KindOf[q] # "batch"
    <3>1. /\ req.code >= 400 => made = 0
          /\ KindOf[q] = "api" /\ req.code = 200 => made = 1
      BY <2>1, <2>4 DEF CountInv, SingleInv
    <3>. QED BY <2>1, <2>4, <3>1 DEF AnswerTells, named, made
  <2>5. CASE KindOf[q] = "batch"
    <3>1. CASE req.item = 0 /\ req.created = 0 /\ req.failed = 0 /\ req.code >= 400
      <4>1. req.code # 200 /\ req.code # 207 /\ ~(req.item > 0)
        BY <3>1
      <4>. QED BY <2>1, <2>5, <3>1, <4>1 DEF AnswerTells, named, made
    <3>2. CASE /\ req.item > 0
               /\ req.created + req.failed = Cardinality(Listed)
               /\ req.code = BatchCode(req)
      <4>1. /\ req.code >= 400 => made = 0
            /\ req.code = 200 => made = named
            /\ req.code = 207 => made \in 1 .. named - 1
            /\ req.created + req.failed = named
        BY <2>1, <2>2, <2>3, <3>2 DEF BatchCode
      <4>. QED BY <2>1, <2>5, <4>1 DEF AnswerTells, named, made
    <3>. QED BY <2>5, <3>1, <3>2 DEF CountInv, BatchInv
  <2>. QED BY <2>4, <2>5
<1>. QED BY Invariance, <1>1, PTL
=============================================================================
