---------------------------- MODULE RunAdmission ----------------------------
(***************************************************************************)
(* The checks a request passes before security runs are made for it:        *)
(* createSecurityRun for one repository, handleSecurityRunsBatch for many,  *)
(* handlePeerSCMEvents for an event of a peer.  Each asks other services,   *)
(* the account manager (OAM) whether the project is enabled and which       *)
(* connector it has, the repository service (ORA) which connectors are      *)
(* active, one question at a time, and both may change their minds, or fail, *)
(* between the questions.                                                   *)
(*                                                                         *)
(* A behaviour is the life of one request, q: requests share nothing but    *)
(* what the peers know, which changes under them as it likes.               *)
(***************************************************************************)
EXTENDS Naturals, Sequences, FiniteSets

CONSTANTS
    Requests,
    KindOf,        \* request -> "api", "batch" or "peer"
    OrgOf,         \* request -> the organization it acts for, or NoOrg
    ConnectorOf,   \* request -> the connector its body names, or NoConnector
    NamesOf,       \* request -> the repository names its body lists, one unless a batch
    ProjectOf,     \* request -> the concrete project of its header; NoProject also
                   \* when no OAM is configured
    Foreign,       \* peer requests whose body names another organization
    Local,         \* requests that may be written in this region
    Wanted,        \* peer requests whose event touches a lockfile and asks for the checker
    Orgs, NoOrg,
    Connectors, NoConnector,
    ConnectorOrg,  \* connector -> the organization ORA lists it under
    Repos, NoRepo, Malformed,
    Projects, NoProject,
    KeyOf,         \* project -> its repository in the directory (external_key), or NoRepo
    AuthEnforced,
    BatchMax,      \* securityRunsBatchMax
    MaxChanges,    \* bound on the changes the peers' data see
    MaxErrors      \* bound on the questions that get no answer

Names == Repos \cup {NoRepo, Malformed}
SomeConnector == Connectors \cup {NoConnector}

ASSUME AdmissionAssumption ==
    /\ KindOf \in [Requests -> {"api", "batch", "peer"}]
    /\ OrgOf \in [Requests -> Orgs \cup {NoOrg}] /\ NoOrg \notin Orgs
    /\ ConnectorOf \in [Requests -> SomeConnector] /\ NoConnector \notin Connectors
    /\ NamesOf \in [Requests -> Seq(Names)]
    /\ \A q \in Requests : KindOf[q] # "batch" => Len(NamesOf[q]) = 1
    /\ Repos \cap {NoRepo, Malformed} = {} /\ NoRepo # Malformed
    /\ ProjectOf \in [Requests -> Projects \cup {NoProject}] /\ NoProject \notin Projects
    /\ {Foreign, Local, Wanted} \subseteq SUBSET Requests
    /\ ConnectorOrg \in [Connectors -> Orgs]
    /\ KeyOf \in [Projects -> Names]
    /\ AuthEnforced \in BOOLEAN
    /\ BatchMax \in Nat \ {0}
    /\ {MaxChanges, MaxErrors} \subseteq Nat

VARIABLES
    active,    \* the connectors ORA has as active
    enabled,   \* the projects OAM lists for this product and the request's organization
    attached,  \* project -> its first connector in the directory, or NoConnector
    q,         \* the request
    req,       \* where its handler is
    runs,      \* the runs made for it
    seen,      \* a history: what held at some moment since it arrived
    changes, errors

peers == <<active, enabled, attached, changes>>
vars == <<active, enabled, attached, q, req, runs, seen, changes, errors>>

Run == [conn: SomeConnector, repo: Names]
Codes == {0, 200, 207, 400, 403, 502, 503}

(* at: the question that is next.  item: the position of the repository in the
   batch.  conn and repo: what the run would be made with. *)
NewRequest ==
    [at |-> "new", item |-> 0, conn |-> ConnectorOf[q],
     repo |-> IF KindOf[q] = "batch" THEN NoRepo ELSE NamesOf[q][1],
     created |-> 0, failed |-> 0, code |-> 0]

Init ==
    /\ active \in SUBSET Connectors
    /\ enabled \in SUBSET Projects
    /\ attached \in [Projects -> SomeConnector]
    /\ q \in Requests
    /\ req = NewRequest
    /\ runs = <<>>
    /\ seen = [active |-> active, enabled |-> enabled,
               attached |-> {<<p, attached[p]>> : p \in Projects}]
    /\ changes = 0 /\ errors = 0

-----------------------------------------------------------------------------
(* What the peers' answers mean *)

(* connectorActiveUnderOrg, on the connectors of filterConnectorsForOrg. *)
Usable(c) == c \in active /\ OrgOf[q] # NoOrg /\ ConnectorOrg[c] = OrgOf[q]

(* The names of a batch that make runs: well formed, the first time they are
   listed. *)
Listed ==
    {i \in DOMAIN NamesOf[q] :
        /\ NamesOf[q][i] \in Repos
        /\ \A j \in 1 .. i - 1 : NamesOf[q][j] # NamesOf[q][i]}

(* A mutant: the batch comes back to the item it is at. *)
RestFrom(i) == {j \in Listed : j >= i}

Rest(i) == {j \in Listed : j > i}

-----------------------------------------------------------------------------
(* How a handler goes on *)

(* A mutant: any run that was made makes the batch a success. *)
BatchCodeOfAny(r) == IF r.created = 0 THEN 400 ELSE 200

BatchCode(r) == IF r.created = 0 THEN 400 ELSE IF r.failed > 0 THEN 207 ELSE 200

(* The next repository of a batch, or the answer. *)
Advanced(r) ==
    IF KindOf[q] # "batch" THEN [r EXCEPT !.at = "done"]
    ELSE IF Rest(r.item) = {} THEN [r EXCEPT !.at = "done", !.code = BatchCode(r)]
    ELSE LET next == CHOOSE i \in Rest(r.item) : \A j \in Rest(r.item) : i <= j
         IN [r EXCEPT !.at = "guard", !.item = next,
                      !.conn = ConnectorOf[q], !.repo = NamesOf[q][next]]

(* The whole request is refused. *)
Refused(code) == req' = [req EXCEPT !.at = "done", !.code = code]

(* createSecurityRun returns an error: a batch notes it and goes on. *)
Failed(code) ==
    req' = Advanced([req EXCEPT !.failed = @ + 1, !.code = code])

(* The run is made; its job is another module's. *)
Made ==
    /\ req' = Advanced([req EXCEPT !.created = @ + 1, !.code = 200])
    /\ runs' = Append(runs, [conn |-> req.conn, repo |-> req.repo])

Unanswered == errors < MaxErrors /\ errors' = errors + 1

-----------------------------------------------------------------------------
(* Handlers *)

(* A body arrives.  A batch needs a connector and begins with it; an event is
   checked against its token before ORA is asked about its connector, if it
   names one; without one it asks for no run. *)
Arrive ==
    /\ req.at = "new"
    /\ \/ KindOf[q] = "api" /\ req' = [req EXCEPT !.at = "guard"]
       \/ /\ KindOf[q] = "batch"
          /\ IF ConnectorOf[q] = NoConnector THEN Refused(400)
             ELSE req' = [req EXCEPT !.at = "verify"]
       \/ /\ KindOf[q] = "peer"
          /\ IF q \in Foreign \/ q \notin Local THEN Refused(403)
             ELSE IF ConnectorOf[q] = NoConnector THEN Refused(200)
             ELSE req' = [req EXCEPT !.at = "verify"]
    /\ UNCHANGED <<peers, q, runs, seen, errors>>

(* requireEnabledOAMProject *)
Guard ==
    /\ req.at = "guard"
    /\ \/ ProjectOf[q] \in enabled \cup {NoProject}
          /\ req' = [req EXCEPT !.at = "resolve"] /\ UNCHANGED errors
       \/ ProjectOf[q] \notin enabled \cup {NoProject} /\ Failed(403) /\ UNCHANGED errors
       \/ ProjectOf[q] # NoProject /\ Unanswered /\ Failed(503)
    /\ UNCHANGED <<peers, q, runs, seen>>

(* A mutant: the connector is verified when the body names it, not when the
   directory does. *)
VerifiesNamed(c) == KindOf[q] = "api" /\ ConnectorOf[q] # NoConnector

(* createSecurityRun's verifyConnector is for the API's requests; the batch
   verified its connector before. *)
Verifies(c) == KindOf[q] = "api" /\ c # NoConnector

(* A mutant: a request without a proper target is dropped without an answer. *)
TargetedSilently(c, name) ==
    IF \/ name # NoRepo /\ c = NoConnector
       \/ c # NoConnector /\ name \notin Repos
    THEN UNCHANGED req
    ELSE req' = [req EXCEPT !.conn = c, !.repo = name,
                            !.at = IF Verifies(c) THEN "verify" ELSE "create"]

(* The checks between the directory's answer and ORA's. *)
Targeted(c, name) ==
    IF \/ name # NoRepo /\ c = NoConnector
       \/ c # NoConnector /\ name \notin Repos
    THEN Failed(400)
    ELSE req' = [req EXCEPT !.conn = c, !.repo = name,
                            !.at = IF Verifies(c) THEN "verify" ELSE "create"]

(* resolveSCMFromOAMProject's answer for an enabled project: what the body
   leaves out is filled in, or the project lacks it. *)
Filled ==
    LET p == ProjectOf[q]
        c == IF req.conn = NoConnector THEN attached[p] ELSE req.conn
        name == IF req.repo = NoRepo THEN KeyOf[p] ELSE req.repo
    IN IF c = NoConnector \/ (req.repo = NoRepo /\ KeyOf[p] \notin Repos)
       THEN Failed(400)
       ELSE Targeted(c, name)

NeedsDirectory ==
    /\ req.conn = NoConnector \/ req.repo = NoRepo
    /\ ProjectOf[q] # NoProject

(* enforceWriteLocalityHTTP, then resolveSCMFromOAMProject and the checks. *)
Resolve ==
    /\ req.at = "resolve"
    /\ \/ q \notin Local /\ Failed(403) /\ UNCHANGED errors
       \/ /\ q \in Local /\ ~NeedsDirectory
          /\ Targeted(req.conn, req.repo) /\ UNCHANGED errors
       \/ /\ q \in Local /\ NeedsDirectory
          /\ \/ ProjectOf[q] \in enabled /\ Filled /\ UNCHANGED errors
             \/ ProjectOf[q] \notin enabled /\ Failed(403) /\ UNCHANGED errors
             \/ Unanswered /\ Failed(503)
    /\ UNCHANGED <<peers, q, runs, seen>>

TooMany == Cardinality(Listed) > BatchMax

(* ORA has the connector as usable: the run is made, the batch begins, or the
   event is judged. *)
Verified ==
    CASE KindOf[q] = "api" -> req' = [req EXCEPT !.at = "create"]
      [] KindOf[q] = "batch" ->
            IF Listed = {} \/ TooMany THEN Refused(400)
            ELSE req' = Advanced(req)
      [] KindOf[q] = "peer" ->
            IF q \in Wanted /\ req.repo # NoRepo
            THEN req' = [req EXCEPT !.at = "create"]
            ELSE Refused(200)

(* verifyConnectorActiveViaService has one error for all that may go wrong. *)
OutageCodes == IF KindOf[q] = "peer" THEN {403} ELSE {403, 502}

(* verifyConnectorActiveForRequest, or verifyConnectorActiveViaService. *)
Verify ==
    /\ req.at = "verify"
    /\ \/ Usable(req.conn) /\ Verified /\ UNCHANGED errors
       \/ ~Usable(req.conn) /\ Refused(403) /\ UNCHANGED errors
       \/ /\ Unanswered
          /\ \E code \in OutageCodes : Refused(code)
    /\ UNCHANGED <<peers, q, runs, seen>>

(* Without a target the shared workspace is scanned, but not under auth. *)
Create ==
    /\ req.at = "create"
    /\ IF AuthEnforced /\ req.conn = NoConnector
       THEN Failed(400) /\ UNCHANGED runs
       ELSE Made
    /\ UNCHANGED <<peers, q, seen, errors>>

Handle == Arrive \/ Guard \/ Resolve \/ Verify \/ Create

-----------------------------------------------------------------------------
(* The peers' data change *)

(* The request gets to see it. *)
Observe ==
    seen' = [active |-> seen.active \cup active', enabled |-> seen.enabled \cup enabled',
             attached |-> seen.attached \cup {<<p, attached'[p]>> : p \in Projects}]

PeersChange ==
    /\ req.at # "done"
    /\ changes < MaxChanges /\ changes' = changes + 1
    /\ \/ /\ \E c \in Connectors :
                active' = IF c \in active THEN active \ {c} ELSE active \cup {c}
          /\ UNCHANGED <<enabled, attached>>
       \/ /\ \E p \in Projects :
                enabled' = IF p \in enabled THEN enabled \ {p} ELSE enabled \cup {p}
          /\ UNCHANGED <<active, attached>>
       \/ /\ \E p \in Projects : \E c \in SomeConnector \ {attached[p]} :
                attached' = [attached EXCEPT ![p] = c]
          /\ UNCHANGED <<active, enabled>>
    /\ Observe
    /\ UNCHANGED <<q, req, runs, errors>>

Next == PeersChange \/ Handle

Spec == Init /\ [][Next]_vars

(* A handler goes on: what it asks is answered or times out. *)
FairSpec == Spec /\ WF_vars(Handle)

-----------------------------------------------------------------------------
(* Properties *)

(* Every variable has its type; a batch counts at most BatchMax items. *)
TypeOK ==
    /\ active \subseteq Connectors /\ enabled \subseteq Projects
    /\ attached \in [Projects -> SomeConnector]
    /\ q \in Requests
    /\ req \in [at: {"new", "guard", "resolve", "verify", "create", "done"},
                item: Nat, conn: SomeConnector, repo: Names,
                created: 0 .. BatchMax, failed: 0 .. BatchMax, code: Codes]
    /\ runs \in Seq(Run)
    /\ seen \in [active: SUBSET Connectors, enabled: SUBSET Projects,
                 attached: SUBSET (Projects \X SomeConnector)]
    /\ changes \in 0 .. MaxChanges /\ errors \in 0 .. MaxErrors

(* However the peers' data change between the questions, and in whatever order
   the questions are asked, a run has a connector that was active, for the
   organization of its request, at some moment of the request; a connector
   the body does not name was then the project's own; the project of an API
   request was enabled then; and under auth no run is without a target. *)
Admitted ==
    \A k \in DOMAIN runs :
        LET run == runs[k] IN
        /\ run.conn # NoConnector =>
              /\ run.conn \in seen.active
              /\ ConnectorOrg[run.conn] = OrgOf[q]
              /\ \/ run.conn = ConnectorOf[q]
                 \/ <<ProjectOf[q], run.conn>> \in seen.attached
        /\ KindOf[q] # "peer" /\ ProjectOf[q] # NoProject => ProjectOf[q] \in seen.enabled
        /\ AuthEnforced => run.conn # NoConnector /\ run.repo # NoRepo

(* The answer tells what was made: 200 all of it, 207 some but not all, an error
   nothing, and a batch that was begun accounts once for every distinct
   repository it names, however its items fare. *)
AnswerTells ==
    LET named == Cardinality({NamesOf[q][i] : i \in DOMAIN NamesOf[q]} \cap Repos)
        made == Cardinality({runs[k].repo : k \in DOMAIN runs})
    IN req.at = "done" =>
          /\ made = Len(runs) /\ req.created = made
          /\ req.code >= 400 => made = 0
          /\ KindOf[q] = "api" /\ req.code = 200 => made = 1
          /\ KindOf[q] = "batch" =>
                /\ req.code = 200 => made = named
                /\ req.code = 207 => made \in 1 .. named - 1
                /\ req.item > 0 => req.created + req.failed = named

(* Whatever its questions bring, a request is answered. *)
RequestAnswered == <>(req.at = "done")
=============================================================================
