---------------------------- MODULE AsyncInsert ----------------------------
(***************************************************************************)
(* What the rest of the service may rely on when it hands a row to         *)
(* ClickHouseWriter.insertAsync: the row lands in the table zero or more    *)
(* times, never more than Attempts, possibly after the writer gave up on    *)
(* it; the writer counts a row as stored only when it has landed; and every *)
(* accepted row is settled one way or the other.  Nothing is promised on    *)
(* the order in which rows land.                                            *)
(***************************************************************************)
EXTENDS Naturals

CONSTANTS Rows, Attempts

VARIABLES state,  \* what the writer has concluded about each row
          landed  \* how many copies of each row the table has received

avars == <<state, landed>>

RowStates == {"new", "pending", "stored", "abandoned"}

AInit == /\ state = [r \in Rows |-> "new"]
         /\ landed = [r \in Rows |-> 0]

Accept(r) == /\ state[r] = "new"
             /\ state' = [state EXCEPT ![r] = "pending"]
             /\ UNCHANGED landed

Land(r) == /\ state[r] # "new"
           /\ landed[r] < Attempts
           /\ landed' = [landed EXCEPT ![r] = @ + 1]
           /\ UNCHANGED state

Confirm(r) == /\ state[r] = "pending"
              /\ landed[r] > 0
              /\ state' = [state EXCEPT ![r] = "stored"]
              /\ UNCHANGED landed

(* A crash abandons every pending row at once. *)
Abandon(S) == /\ S # {}
              /\ \A r \in S : state[r] = "pending"
              /\ state' = [r \in Rows |-> IF r \in S THEN "abandoned" ELSE state[r]]
              /\ UNCHANGED landed

ANext == \/ \E r \in Rows : Accept(r) \/ Land(r) \/ Confirm(r)
         \/ \E S \in SUBSET Rows : Abandon(S)

ASafety == AInit /\ [][ANext]_avars

(* Every accepted row is settled. *)
ASettles == \A r \in Rows : (state[r] = "pending") ~> (state[r] # "pending")

ASpec == ASafety /\ ASettles
=============================================================================
