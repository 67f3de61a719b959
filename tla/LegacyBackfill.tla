--------------------------- MODULE LegacyBackfill ---------------------------
(***************************************************************************)
(* legacy_ch_backfill.go: at boot, before it serves, a replica copies a     *)
(* table of the hub's database into the product's if the product's has      *)
(* fewer rows.  Count, compare and INSERT SELECT are requests of their own; *)
(* replicas boot when they like, die, and miss replies.  The tables of the  *)
(* list are done one after the other and share nothing: one is modelled.    *)
(*                                                                         *)
(* The count after the copy is left out: it is only logged.                 *)
(***************************************************************************)
EXTENDS Naturals, FiniteSets, Functions

CONSTANTS
    Replicas,
    HubRows,        \* numbers: the greater is the newer row
    KeyOf,          \* the sorting key of a row
    HubColumns, ProductColumns,
    Engines,        \* of the product's table: "plain" (MergeTree), "replacing"
    MaxOwn,         \* bound: rows the product writes itself
    MaxBoots,       \* bound: boots, of all replicas
    MaxAccidents    \* bound: failed questions, halved statements and expired rows

ASSUME BackfillAssumption ==
    /\ HubRows \subseteq Nat /\ IsFiniteSet(HubRows)
    /\ HubRows \subseteq DOMAIN KeyOf
    /\ Engines \subseteq {"plain", "replacing"}
    /\ MaxOwn \in Nat /\ MaxBoots \in Nat /\ MaxAccidents \in Nat

VARIABLES
    engine,
    hub,        \* rows of the hub's table
    copies,     \* of every hub row, how often the product's table holds it
    own,        \* rows the product wrote itself
    phase,      \* of every replica
    hubN,       \* what it counted there
    prodN,      \* what it counted here
    sent,       \* INSERT SELECTs on their way
    boots,
    counted,       \* ghost: statements that had landed when a replica counted
    landed,     \* ghost: statements that have landed
    stale,      \* ghost: those that landed upon others their sender had not counted
    failed,     \* ghost: questions of a boot that failed
    halved,     \* ghost: statements that landed in part
    expired,    \* ghost: rows that their TTL took from the product's table
    outnumbered \* ghost: before any copy, a boot met as many rows of the product's
                \*   own as it had counted in the hub

backfillVars == <<engine, hub, copies, own, phase, hubN, prodN, sent, boots,
          counted, landed, stale, failed, halved, expired, outnumbered>>

boot == <<hubN, prodN, counted, outnumbered>>
store == <<engine, hub, copies, own>>
statements == <<sent, landed, stale, halved>>

Phases == {"down", "hub", "product", "columns", "copy", "sent", "serving"}

(* Builds before this one copied nothing, so that the product's table may hold rows
   of its own by now.  A statement is the boot that sent it and the landings that boot knew of. *)
Statement == [by: Replicas, of: Nat, since: Nat]

BackfillInit ==
    /\ engine \in Engines
    /\ hub \in {HubRows, {}}
    /\ copies = [h \in HubRows |-> 0] /\ own \in 0 .. MaxOwn
    /\ phase = [r \in Replicas |-> "down"]
    /\ hubN = [r \in Replicas |-> 0] /\ prodN = [r \in Replicas |-> 0]
    /\ sent = {} /\ boots = 0
    /\ counted = [r \in Replicas |-> 0] /\ landed = 0 /\ stale = 0
    /\ failed = 0 /\ halved = 0 /\ expired = 0 /\ outnumbered = FALSE

Move(r, p) == phase' = [phase EXCEPT ![r] = p]

MayFail == failed + halved + expired < MaxAccidents

(* A mutant, and what the code did before: a quoted count is nought. *)
countFromRowUnquoted(c) == IF c.quoted THEN 0 ELSE c.n

countFromRow(c) == c.n

(* ClickHouse quotes a UInt64. *)
chTableRowCount(n) == countFromRow([quoted |-> TRUE, n |-> n])

ProductRows == own + FoldFunction(LAMBDA a, b : a + b, 0, copies)

chSharedColumns == ProductColumns \cap HubColumns

-----------------------------------------------------------------------------
(* The boot of a replica *)

Start(r) ==
    /\ phase[r] = "down" /\ boots < MaxBoots
    /\ boots' = boots + 1
    /\ Move(r, "hub")
    /\ UNCHANGED <<store, boot, statements, failed, expired>>

CountHub(r) ==
    /\ phase[r] = "hub"
    /\ hubN' = [hubN EXCEPT ![r] = chTableRowCount(Cardinality(hub))]
    /\ Move(r, IF hubN'[r] = 0 THEN "serving" ELSE "product")
    /\ UNCHANGED <<store, prodN, counted, outnumbered, statements, boots, failed, expired>>

(* A mutant: the comparison lets an equal count through. *)
EnoughBeyond(r, n) == n > hubN[r]

Enough(r, n) == n >= hubN[r]

CountProduct(r) ==
    /\ phase[r] = "product"
    /\ prodN' = [prodN EXCEPT ![r] = chTableRowCount(ProductRows)]
    /\ counted' = [counted EXCEPT ![r] = landed]
    /\ outnumbered' = (outnumbered \/ (landed = 0 /\ own >= hubN[r]))
    /\ Move(r, IF Enough(r, prodN'[r]) THEN "serving" ELSE "columns")
    /\ UNCHANGED <<store, hubN, statements, boots, failed, expired>>

Columns(r) ==
    /\ phase[r] = "columns"
    /\ Move(r, IF chSharedColumns = {} THEN "serving" ELSE "copy")
    /\ UNCHANGED <<store, boot, statements, boots, failed, expired>>

(* A question that fails ends the table, with a warning at most. *)
QuestionFails(r) ==
    /\ phase[r] \in {"hub", "product", "columns", "copy"} /\ MayFail
    /\ failed' = failed + 1
    /\ Move(r, "serving")
    /\ UNCHANGED <<store, boot, statements, boots, expired>>

Copy(r) ==
    /\ phase[r] = "copy"
    /\ sent' = sent \cup {[by |-> r, of |-> boots, since |-> counted[r]]}
    /\ Move(r, "sent")
    /\ UNCHANGED <<store, boot, boots, landed, stale, halved, failed, expired>>

(* The reply does not come: the replica warns and serves. *)
ReplyLost(r) ==
    /\ phase[r] = "sent" /\ MayFail
    /\ failed' = failed + 1
    /\ Move(r, "serving")
    /\ UNCHANGED <<store, boot, statements, boots, expired>>

Die(r) ==
    /\ phase[r] # "down"
    /\ Move(r, "down")
    /\ UNCHANGED <<store, boot, statements, boots, failed, expired>>

-----------------------------------------------------------------------------
(* ClickHouse *)

Adds(rows) ==
    copies' = [h \in HubRows |-> copies[h] + IF h \in rows THEN 1 ELSE 0]

(* The statement of st has come to its end; its sender, if it is still there to
   hear of it, goes on. *)
Landed(st) ==
    /\ st \in sent
    /\ sent' = sent \ {st}
    /\ landed' = landed + 1
    /\ stale' = IF landed > st.since THEN stale + 1 ELSE stale
    /\ phase' = IF /\ phase[st.by] = "sent"
                   /\ ~\E o \in sent \ {st} : o.by = st.by /\ o.of > st.of
                THEN [phase EXCEPT ![st.by] = "serving"] ELSE phase
    /\ UNCHANGED <<engine, hub, own, boot, boots>>

Lands(st) ==
    /\ Landed(st) /\ Adds(hub)
    /\ UNCHANGED <<halved, failed, expired>>

(* It fails after some blocks have been written. *)
LandsInPart(st) ==
    /\ MayFail
    /\ \E part \in SUBSET hub : part # hub /\ Adds(part)
    /\ Landed(st)
    /\ halved' = halved + 1
    /\ UNCHANGED <<failed, expired>>

(* Background merges of replacing tables: the newest row of a key remains, once. *)
MergeProduct(h) ==
    /\ engine = "replacing" /\ copies[h] > 0
    /\ LET Older == {o \in HubRows : o < h /\ KeyOf[o] = KeyOf[h]}
           merged == [o \in HubRows |-> IF o = h THEN 1 ELSE IF o \in Older THEN 0 ELSE copies[o]]
       IN merged # copies /\ copies' = merged
    /\ UNCHANGED <<engine, hub, own, phase, boot, statements, boots, failed, expired>>

MergeHub(h) ==
    /\ engine = "replacing" /\ h \in hub
    /\ \E n \in hub : n > h /\ KeyOf[n] = KeyOf[h]
    /\ hub' = hub \ {h}
    /\ UNCHANGED <<engine, copies, own, phase, boot, statements, boots, failed, expired>>

(* The TTL takes the oldest row. *)
Expire(h) ==
    /\ copies[h] > 0 /\ MayFail
    /\ \A o \in HubRows : o < h => copies[o] = 0
    /\ copies' = [copies EXCEPT ![h] = 0]
    /\ expired' = expired + 1
    /\ UNCHANGED <<engine, hub, own, phase, boot, statements, boots, failed>>

(* A replica that serves, of this build or of one before, writes rows of its own. *)
Write ==
    /\ own < MaxOwn
    /\ own' = own + 1
    /\ UNCHANGED <<engine, hub, copies, phase, boot, statements, boots, failed, expired>>

Boot(r) ==
    \/ Start(r) \/ CountHub(r) \/ CountProduct(r) \/ Columns(r)
    \/ QuestionFails(r) \/ Copy(r) \/ ReplyLost(r) \/ Die(r)

BackfillNext ==
    \/ \E r \in Replicas : Boot(r)
    \/ \E st \in sent : Lands(st) \/ LandsInPart(st)
    \/ \E h \in HubRows : MergeProduct(h) \/ MergeHub(h) \/ Expire(h)
    \/ Write

BackfillSpec == BackfillInit /\ [][BackfillNext]_backfillVars

-----------------------------------------------------------------------------
(* Properties *)

(* Every variable has its type, and a boot sends one statement at most. *)
BackfillTypeOK ==
    /\ engine \in Engines /\ hub \subseteq HubRows
    /\ copies \in [HubRows -> Nat] /\ own \in Nat
    /\ phase \in [Replicas -> Phases]
    /\ hubN \in [Replicas -> Nat] /\ prodN \in [Replicas -> Nat]
    /\ counted \in [Replicas -> Nat]
    /\ sent \subseteq Statement
    /\ {boots, landed, stale, failed, halved, expired} \subseteq Nat
    /\ landed + Cardinality(sent) <= boots
    /\ outnumbered \in BOOLEAN

(* However often replicas boot, a plain table holds a row a second time only by
   an accident, and once more for each: a copy that landed upon another that its
   sender had not counted (two replicas that boot together, a statement whose
   reply was lost), a copy that failed halfway, or a row that expired and let the
   count fall below the hub's (legacy_ch_backfill.go:60). *)
CopiedOnce ==
    engine = "plain" =>
        \A h \in HubRows : copies[h] <= 1 + stale + halved + expired

(* As long as no question of a boot failed and no row expired, a replica serves
   only when the newest row of every key is in the product's table, whatever was
   merged, whoever died, and however many rows are written meanwhile: the count is
   a safe sign that the rows have been copied - unless, before any copy, a boot met
   as many rows of the product's own as the hub has.  Then nothing is ever copied
   (legacy_ch_backfill.go:58), and the code expects such rows: until its last fix
   no boot had copied any (130-133). *)
LegacyPresent ==
    (failed = 0 /\ halved = 0 /\ expired = 0 /\ ~outnumbered
        /\ \E r \in Replicas : phase[r] = "serving") =>
        \A h \in hub : \E n \in HubRows :
            n >= h /\ KeyOf[n] = KeyOf[h] /\ copies[n] > 0
=============================================================================
