--------------------------- MODULE MCRunAdmission ---------------------------
(* Requests of every kind.  API: one that leaves everything to the directory,
   one that names all, one that names a malformed repository, one that names
   no connector where no directory is asked, one without a target, one of
   another region.  Batches: one with a repeated and a malformed name, one
   that is too long, one of no organization, one without a connector.  Events:
   one that asks for a run, one that does not, one of another organization,
   one without a connector. *)
EXTENDS RunAdmission

CONSTANTS qFill, qNamed, qBad, qHalf, qNone, qFar, bTwo, bLong, bNoOrg, bNone,
          eRun, eIdle, eForeign, eNone, org1, org2, c1, c2, c3, r1, r2, r3, p1

Api == {qFill, qNamed, qBad, qHalf, qNone, qFar}
Batches == {bTwo, bLong, bNoOrg, bNone}
Events == {eRun, eIdle, eForeign, eNone}
MCRequests == Api \cup Batches \cup Events

MCKindOf == [x \in MCRequests |->
                IF x \in Api THEN "api" ELSE IF x \in Batches THEN "batch" ELSE "peer"]
MCOrgOf == [x \in MCRequests |-> IF x = bNoOrg THEN NoOrg ELSE org1]
MCConnectorOf == [x \in MCRequests |->
                     IF x \in {qFill, qHalf, qNone, bNone, eNone} THEN NoConnector ELSE c1]
MCNamesOf == [x \in MCRequests |->
                 IF x \in {bTwo, bNoOrg, bNone} THEN <<r1, Malformed, r2, r1>>
                 ELSE IF x = bLong THEN <<r1, r2, r3>>
                 ELSE IF x \in {qFill, qNone} THEN <<NoRepo>>
                 ELSE IF x = qBad THEN <<Malformed>> ELSE <<r3>>]
MCProjectOf == [x \in MCRequests |-> IF x \in {qNone, qHalf} THEN NoProject ELSE p1]
MCConnectorOrg == [c \in {c1, c2, c3} |-> IF c = c3 THEN org2 ELSE org1]
MCKeyOf == [p \in {p1} |-> r2]
=============================================================================
