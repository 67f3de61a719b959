----------------------------- MODULE MCScoreBook -----------------------------
(* Scans of one or two scanners, with up to two findings of some bands each:
   enough to cross the floor, to round, to be counted and to weigh nothing. *)
EXTENDS ScoreBook

Sev(critical, high, medium, low, info, other) ==
    [NoFindings EXCEPT !["critical"] = critical, !["high"] = high,
                       !["medium"] = medium, !["low"] = low, !["info"] = info,
                       !["other"] = other]

Res(critical, high, medium, low, info, other) ==
    [sev |-> Sev(critical, high, medium, low, info, other),
     count |-> critical + high + medium + low + info + other]

MCResults == {Res(0, 0, 0, 0, 0, 0), Res(0, 0, 0, 1, 0, 0), Res(0, 0, 0, 2, 1, 0),
              Res(0, 1, 1, 0, 0, 0), Res(2, 0, 0, 0, 0, 0), Res(6, 0, 0, 0, 0, 0),
              Res(0, 0, 0, 0, 2, 0)}

Weighty == MCResults \ {Res(0, 0, 0, 0, 2, 0)}

Single(s, results) == {[t \in {s} |-> r] : r \in results}

MCReports ==
    Single("secrets", MCResults) \cup Single("sast", MCResults)
    \cup Single("iac", MCResults) \cup Single("cve", {Res(0, 0, 0, 1, 0, 0), Res(0, 0, 0, 0, 0, 1)})
    \cup Single("container", {Res(0, 0, 0, 0, 0, 0)})
    \cup {[t \in {"secrets", "sast"} |-> r] : r \in Weighty}
=============================================================================
