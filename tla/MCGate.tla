------------------------------- MODULE MCGate -------------------------------
(* Checks of one run in the workspace, whose scanners have a table of their own
   and one they share with the container findings that CI posts; and checks of
   a commit that two runs are recorded for, the status rows of one of which
   fill the lookup. *)
EXTENDS Gate, TLC

CONSTANTS q1, q2, i1, i2

First == {q1}
OneId == {i1}
None == {}
OwnFirst == q1 :> i1
SastIac == q1 :> <<"sast", "iac">>
HighMedium == {"high", "medium"}
AllForms == {"gate", "run", "commit", "tenant"}
Minima == {"medium"}
SomeScopes == {"own", "noOrg", "otherOrg"}
ContainerPosted == {[id |-> i1, scanner |-> "container", severity |-> "none"]}

Both == {q1, q2}
BothIds == {i1, i2}
Own == (q1 :> i1) @@ (q2 :> i2)
SastEach == (q1 :> <<"sast">>) @@ (q2 :> <<"sast">>)
OneForm == {"commit"}
OneMinimum == {"high"}
OneScope == {"own"}
SastPosted == {[id |-> i1, scanner |-> "sast", severity |-> "high"]}
=============================================================================
