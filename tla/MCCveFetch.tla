----------------------------- MODULE MCCveFetch -----------------------------
(* A scan of two dependencies and two scans of the first of them. *)
EXTENDS CveFetch, TLC

CONSTANTS s1, s2, s3, k1, k2

MCDeps == s1 :> <<k1, k2>> @@ s2 :> <<k1>> @@ s3 :> <<k1>>
=============================================================================
