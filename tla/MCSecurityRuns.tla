--------------------------- MODULE MCSecurityRuns ---------------------------
(* A request of the API for a path of the workspace, and one of a peer's
   event, which clones. *)
EXTENDS SecurityRuns, TLC

CONSTANTS q1, q2, i1, i2

Both == {q1, q2}
Second == {q2}
BothIds == {i1, i2}
Own == (q1 :> i1) @@ (q2 :> i2)

SeveralAndPeer == (q1 :> <<"cve", "secrets", "sbom">>) @@ (q2 :> <<"cve">>)

High == {"high"}

-----------------------------------------------------------------------------
(* Two jobs side by side while nothing is lost: the clock, merges, rows that the
   writer drops and restarts are MCRunReads' and MCGate's. *)
CalmNext ==
    \/ \E q \in Requests :
          createSecurityRun(q) \/ createPeerCVESecurityRun(q) \/ JobStep(q)
    \/ Landing

CalmSpec == Init /\ [][CalmNext]_vars /\ Fairness
=============================================================================
