------------------------- MODULE MCClickHouseWriter -------------------------
(* Two goroutines that insert three rows, one of them empty. *)
EXTENDS ClickHouseWriter

CONSTANTS c1, c2, r1, r2, r3

MCCallers == {c1, c2}
MCRows == {r1, r2, r3}
MCEmptyRows == {r3}
=============================================================================
