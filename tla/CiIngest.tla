------------------------------- MODULE CiIngest -------------------------------
(***************************************************************************)
(* The ingest handlers of appsec.go and appsec_deep.go: CI brings findings   *)
(* along and they are filed under the security_run_id of the body, in the    *)
(* tables of the scanners, while the runs of SecurityRuns go on.  No          *)
(* accumulator hears of them, so they are in no run's summary.               *)
(*                                                                         *)
(* Gate and RunReads extend this module: what a check counts, and what a     *)
(* page of findings shows, are the rows of both origins.                     *)
(***************************************************************************)
EXTENDS SecurityRuns

CONSTANT Posted  \* findings that CI posts, "none" for no severity

ASSUME IngestAssumption ==
    Posted \subseteq [id: RunIds, scanner: {"secrets", "sast", "iac", "container"},
                      severity: Severities \cup {"none"}]

VARIABLES ciSending,   \* rows of CI's findings handed to the writer, not landed yet
          ciLanded     \* rows of CI's findings in ClickHouse

ci == <<ciSending, ciLanded>>

CiInit == Init /\ ciSending = {} /\ ciLanded = {}

nz(severity, default) == IF severity = "none" THEN default ELSE severity

(* The row a handler files a posted finding as: with the severity it brings, or
   with the handler's own. *)
handleSecuritySecretsIngest(f) == [f EXCEPT !.severity = nz(@, "high")]
handleSecuritySASTIngest(f) == [f EXCEPT !.severity = nz(@, "medium")]
handleSecurityIaCIngest(f) == [f EXCEPT !.severity = nz(@, "medium")]
handleSecurityContainerIngest(f) == [f EXCEPT !.severity = nz(@, "medium")]

RowFor(f) == CASE f.scanner = "secrets"   -> handleSecuritySecretsIngest(f)
               [] f.scanner = "sast"      -> handleSecuritySASTIngest(f)
               [] f.scanner = "iac"       -> handleSecurityIaCIngest(f)
               [] f.scanner = "container" -> handleSecurityContainerIngest(f)

(* CI posts a finding. *)
Ingest(f) ==
    /\ f \in Posted /\ RowFor(f) \notin ciSending \cup ciLanded
    /\ ciSending' = ciSending \cup {RowFor(f)}
    /\ UNCHANGED <<ciLanded, vars>>

(* The writer gets the row into its table, or gives it up. *)
SettleIngested(f) ==
    /\ f \in ciSending
    /\ ciSending' = ciSending \ {f}
    /\ ciLanded' \in {ciLanded, ciLanded \cup {f}}
    /\ UNCHANGED vars

Ingests == (\E f \in Posted : Ingest(f)) \/ (\E f \in ciSending : SettleIngested(f))

(* The runs go on; a restart takes rows with it that have not left. *)
RunsGoOn ==
    /\ Next /\ UNCHANGED ciLanded
    /\ IF crashes' = crashes THEN UNCHANGED ciSending ELSE ciSending' \in SUBSET ciSending
=============================================================================
