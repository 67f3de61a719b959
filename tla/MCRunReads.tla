----------------------------- MODULE MCRunReads -----------------------------
(* One run of the API that names a branch, with its readers, and a SAST finding
   that CI files under its id without a severity. *)
EXTENDS RunReads, TLC

CONSTANTS q1, i1

First == {q1}
None == {}
OneId == {i1}
OwnFirst == q1 :> i1
SastOnly == q1 :> <<"sast">>
High == {"high"}
SastPosted == {[id |-> i1, scanner |-> "sast", severity |-> "none"]}
=============================================================================
