------------------------------- MODULE MCCve -------------------------------
(* CVE scans, and beside them the rate limiter of a host, which they wait for and
   share nothing else with: a behaviour is one of the part chosen at the
   beginning.  Three calls, the last of them in the third tick; a token is earned
   in a tick and a half, and a full bucket holds one. *)
EXTENDS MCCveFetch, TokenBucket

VARIABLE part

cveVars == <<part, vars, bucketVars>>

CveInit == part \in {"scans", "bucket"} /\ Init /\ BucketInit

InScans(A) == part = "scans" /\ A /\ UNCHANGED <<part, bucketVars>>
InBucket(A) == part = "bucket" /\ A /\ UNCHANGED <<part, vars>>

CveNext == InScans(Next) \/ InBucket(BucketNext)

(* Weaker than FairSpec and BucketFairSpec, and enough, because every query and
   every call takes a bounded number of steps: while some query can go on, one
   does, and while time can pass or a caller wake, it does. *)
CveSpec ==
    /\ CveInit /\ [][CveNext]_cveVars
    /\ WF_cveVars(InScans(\E s \in Scans : Query(s)))
    /\ WF_cveVars(InBucket(Tick \/ \E c \in Callers : Wait(c)))

(* The type invariants of both. *)
CveTypesOK == TypeOK /\ BucketTypeOK

(* Every scan ends (EveryScanEnds), where scans are what moves: no leader leaves
   its waiters behind (cve_http.go). *)
ScansEnd == part = "scans" => EveryScanEnds
=============================================================================
