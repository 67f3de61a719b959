---------------------------- MODULE MCRepoScore ----------------------------
(* Runs of one repository: of scanners that overlap and of sbom alone, or of
   scanners apart. *)
EXTENDS RepoScore

CONSTANTS j1, j2, j3

Overlapping == [j \in Jobs |-> IF j = j1 THEN {"secrets"} ELSE IF j = j2 THEN {"secrets", "sast"}
                               ELSE {}]

Apart == [j \in Jobs |-> IF j = j1 THEN {"secrets"} ELSE {"sast"}]
=============================================================================
