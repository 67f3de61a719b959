----------------------------- MODULE PartsProofs -----------------------------
(***************************************************************************)
(* The collection of lockfiles, the legacy backfill and the inventory of    *)
(* vulnerabilities, for any checkouts, replicas, rows and requests; and     *)
(* that what is proved of a part holds where MCParts runs them together.    *)
(***************************************************************************)
EXTENDS MCParts, ScoreBookProofs, FixChoiceProofs, FiniteSetTheorems, SequenceTheorems, TLAPS

-----------------------------------------------------------------------------
(* Folds.  The library defines them by a recursive function on the subsets of a *)
(* set.  The step and what is claimed are given as a function and as a set, so  *)
(* that a lemma can speak of all of them; a least counterexample stands for the *)
(* induction.                                                                  *)

(* g folds step over the set S, taking pick[s] from what is left, s. *)
Folds(g, S, base, step, pick) ==
    g = [s \in SUBSET S |->
            IF s = {} THEN base ELSE step[<<pick[s], g[s \ {pick[s]}]>>]]

Picks(pick, S) == \A s \in SUBSET S : s # {} => pick[s] \in s

(* There is such a function, so that CHOOSE finds one. *)
LEMMA FoldExists ==
    ASSUME NEW S, IsFiniteSet(S), NEW B, NEW base \in B, NEW step \in [S \X B -> B],
           NEW pick, Picks(pick, S)
    PROVE  \E g \in [SUBSET S -> B] : Folds(g, S, base, step, pick)
<1>. DEFINE Small(n) == {s \in SUBSET S : Cardinality(s) <= n}
            Value(g, s) == IF s = {} THEN base ELSE step[<<pick[s], g[s \ {pick[s]}]>>]
            Good(n) == \E g \in [Small(n) -> B] : \A s \in Small(n) : g[s] = Value(g, s)
            Bad == {n \in Nat : ~Good(n)}
<1>1. \A s \in SUBSET S : IsFiniteSet(s) /\ Cardinality(s) \in Nat
  BY FS_Subset, FS_CardinalityType
<1>2. \A s \in SUBSET S : s # {} =>
         /\ s \ {pick[s]} \in SUBSET S /\ pick[s] \in S
         /\ Cardinality(s \ {pick[s]}) = Cardinality(s) - 1
         /\ Cardinality(s) > 0
  <2>. SUFFICES ASSUME NEW s \in SUBSET S, s # {}
                PROVE  /\ s \ {pick[s]} \in SUBSET S /\ pick[s] \in S
                       /\ Cardinality(s \ {pick[s]}) = Cardinality(s) - 1
                       /\ Cardinality(s) > 0
    OBVIOUS
  <2>1. pick[s] \in s
    BY DEF Picks
  <2>2. IsFiniteSet(s) /\ Cardinality(s) \in Nat
    BY <1>1
  <2>3. Cardinality(s \ {pick[s]}) = Cardinality(s) - 1
    BY <2>1, <2>2, FS_RemoveElement
  <2>4. Cardinality(s) # 0
    BY <2>2, FS_EmptySet
  <2>. QED BY <2>1, <2>2, <2>3, <2>4
<1>3. Good(0)
  <2>1. \A s \in Small(0) : s = {}
    BY <1>1, FS_EmptySet
  <2>2. [s \in Small(0) |-> base] \in [Small(0) -> B]
    OBVIOUS
  <2>. QED BY <2>1, <2>2
<1>4. ASSUME NEW n \in Nat, Good(n) PROVE Good(n + 1)
  <2>1. PICK g \in [Small(n) -> B] : \A s \in Small(n) : g[s] = Value(g, s)
    BY <1>4
  <2>. DEFINE h == [s \in Small(n + 1) |-> Value(g, s)]
  <2>2. \A s \in Small(n + 1) : s # {} => s \ {pick[s]} \in Small(n)
    BY <1>1, <1>2
  <2>3. \A s \in Small(n + 1) : Value(g, s) \in B
    BY <1>2, <2>2
  <2>4. h \in [Small(n + 1) -> B]
    BY <2>3
  <2>5. \A s \in Small(n) : s \in Small(n + 1) /\ h[s] = g[s]
    BY <1>1, <2>1
  <2>6. \A s \in Small(n + 1) : h[s] = Value(h, s)
    BY <2>2, <2>5
  <2>. QED BY <2>4, <2>6
<1>5. Bad = {}
  <2>. SUFFICES ASSUME Bad # {} PROVE FALSE
    OBVIOUS
  <2>. HIDE DEF Good
  <2>1. PICK m \in Bad : \A n \in Bad : m <= n
    BY Least
  <2>2. m # 0 /\ m - 1 \in Nat /\ m - 1 \notin Bad
    BY <1>3, <2>1
  <2>3. Good(m - 1)
    BY <2>2
  <2>4. Good((m - 1) + 1)
    BY <1>4, <2>2, <2>3
  <2>. QED BY <2>1, <2>4
<1>6. Cardinality(S) \in Nat /\ Small(Cardinality(S)) = SUBSET S
  BY <1>1, FS_Subset
<1>7. Good(Cardinality(S))
  <2>. HIDE DEF Good
  <2>. QED BY <1>5, <1>6
<1>. QED BY <1>6, <1>7 DEF Folds

(* What holds of nothing, and of a set if it holds of what is left when one element
   is taken from it, holds of the whole: Good are the sets of which it holds. *)
LEMMA OneByOne ==
    ASSUME NEW S, IsFiniteSet(S), NEW pick, Picks(pick, S), NEW Good, {} \in Good,
           \A s \in SUBSET S : s # {} /\ s \ {pick[s]} \in Good => s \in Good
    PROVE  S \in Good
<1>. DEFINE Bad == {n \in Nat : \E s \in SUBSET S : Cardinality(s) = n /\ s \notin Good}
<1>1. \A s \in SUBSET S : IsFiniteSet(s) /\ Cardinality(s) \in Nat
  BY FS_Subset, FS_CardinalityType
<1>2. Bad = {}
  <2>. SUFFICES ASSUME Bad # {} PROVE FALSE
    OBVIOUS
  <2>1. PICK m \in Bad : \A n \in Bad : m <= n
    BY Least
  <2>2. PICK s \in SUBSET S : Cardinality(s) = m /\ s \notin Good
    BY <2>1
  <2>3. s # {}
    BY <2>2
  <2>. DEFINE rest == s \ {pick[s]}
  <2>4. /\ rest \in SUBSET S /\ Cardinality(rest) = m - 1 /\ Cardinality(rest) \in Nat
    BY <1>1, <2>2, <2>3, FS_RemoveElement DEF Picks
  <2>5. m - 1 \notin Bad /\ m - 1 \in Nat
    BY <2>1, <2>4
  <2>6. rest \in Good
    BY <2>4, <2>5
  <2>. QED BY <2>2, <2>3, <2>6
<1>. QED BY <1>1, <1>2

-----------------------------------------------------------------------------
(* The legacy backfill *)

(* The rows of the product's table: those it wrote, and the copies. *)
LEMMA RowsCounted ==
    ASSUME copies \in [HubRows -> Nat], own \in Nat
    PROVE  /\ ProductRows \in Nat
           /\ (\A h \in HubRows : copies[h] = 0) => ProductRows = own
           /\ \A rows \in SUBSET HubRows :
                 (\A h \in rows : copies[h] > 0) => ProductRows >= own + Cardinality(rows)
<1>. DEFINE pick == [s \in SUBSET HubRows |-> CHOOSE x \in s : TRUE]
            step == [p \in HubRows \X Nat |-> copies[p[1]] + p[2]]
            Sums(g) == g = [s \in SUBSET HubRows |->
                              IF s = {} THEN 0 ELSE copies[CHOOSE x \in s : TRUE] + g[s \ {CHOOSE x \in s : TRUE}]]
<1>1. IsFiniteSet(HubRows)
  BY BackfillAssumption
<1>2. Picks(pick, HubRows)
  BY DEF Picks
<1>3. PICK total : Sums(total) /\ ProductRows = own + total[HubRows]
  <2>1. \E g : Sums(g)
    <3>1. step \in [HubRows \X Nat -> Nat]
      OBVIOUS
    <3>. HIDE DEF step, pick
    <3>2. PICK g \in [SUBSET HubRows -> Nat] : Folds(g, HubRows, 0, step, pick)
      BY <1>1, <1>2, <3>1, FoldExists
    <3>3. \A s \in SUBSET HubRows : s # {} =>
             step[<<pick[s], g[s \ {pick[s]}]>>] = copies[pick[s]] + g[s \ {pick[s]}]
      <4>1. \A s \in SUBSET HubRows : s # {} =>
               pick[s] \in HubRows /\ g[s \ {pick[s]}] \in Nat
        BY <1>2, <3>2 DEF Picks
      <4>. QED BY <4>1 DEF step
    <3>4. g = [s \in SUBSET HubRows |->
                 IF s = {} THEN 0 ELSE copies[pick[s]] + g[s \ {pick[s]}]]
      BY <3>2, <3>3 DEF Folds
    <3>5. Sums(g)
      BY <3>4 DEF pick
    <3>. QED BY <3>5
  <2>2. DOMAIN copies = HubRows
    OBVIOUS
  <2>3. ProductRows = own + (CHOOSE g : Sums(g))[HubRows]
    BY <2>2 DEF ProductRows, FoldFunction, FoldFunctionOnSet, MapThenFoldSet
  <2>. QED BY <2>1, <2>3
<1>4. \A s \in SUBSET HubRows :
         total[s] = IF s = {} THEN 0 ELSE copies[pick[s]] + total[s \ {pick[s]}]
  BY <1>3
<1>5. \A s \in SUBSET HubRows : s # {} => pick[s] \in s
  BY <1>2 DEF Picks
<1>. HIDE DEF pick
<1>6. ASSUME NEW rows \in SUBSET HubRows, \A h \in rows : copies[h] > 0
      PROVE  /\ total[HubRows] \in Nat
             /\ (\A h \in HubRows : copies[h] = 0) => total[HubRows] = 0
             /\ total[HubRows] >= Cardinality(rows)
  <2>. DEFINE Good == {s \in SUBSET HubRows :
                         /\ total[s] \in Nat
                         /\ (\A h \in s : copies[h] = 0) => total[s] = 0
                         /\ total[s] >= Cardinality(s \cap rows)}
  <2>1. {} \in Good
    <3>1. total[{}] = 0 /\ Cardinality({} \cap rows) = 0
      BY <1>4, FS_EmptySet
    <3>. QED BY <3>1
  <2>2. ASSUME NEW s \in SUBSET HubRows, s # {}, s \ {pick[s]} \in Good
        PROVE  s \in Good
    <3>1. PICK h \in s : h = pick[s]
      BY <1>5, <2>2
    <3>. DEFINE rest == s \ {h}
    <3>2. total[s] = copies[h] + total[rest]
      BY <1>4, <2>2, <3>1
    <3>3. /\ total[rest] \in Nat /\ total[rest] >= Cardinality(rest \cap rows)
          /\ (\A x \in rest : copies[x] = 0) => total[rest] = 0
      BY <2>2, <3>1
    <3>4. IsFiniteSet(rest \cap rows) /\ Cardinality(rest \cap rows) \in Nat
      BY <1>1, FS_Subset, FS_CardinalityType
    <3>5. /\ Cardinality(s \cap rows) \in Nat
          /\ copies[h] + Cardinality(rest \cap rows) >= Cardinality(s \cap rows)
      <4>1. CASE h \in rows
        <5>1. s \cap rows = (rest \cap rows) \cup {h} /\ h \notin rest \cap rows
          BY <3>1, <4>1
        <5>. HIDE DEF rest
        <5>2. Cardinality(s \cap rows) = Cardinality(rest \cap rows) + 1
          BY <3>4, <5>1, FS_AddElement
        <5>3. copies[h] \in Nat /\ copies[h] > 0
          BY <1>6, <4>1
        <5>. QED BY <3>4, <5>2, <5>3
      <4>2. CASE h \notin rows
        <5>1. s \cap rows = rest \cap rows
          BY <3>1, <4>2
        <5>2. copies[h] \in Nat
          OBVIOUS
        <5>. HIDE DEF rest
        <5>3. Cardinality(s \cap rows) \in Nat /\ Cardinality(s \cap rows) = Cardinality(rest \cap rows)
          BY <3>4, <5>1
        <5>. QED BY <5>2, <5>3
      <4>. QED BY <4>1, <4>2
    <3>6. copies[h] \in Nat
      OBVIOUS
    <3>7. total[s] \in Nat /\ total[s] >= Cardinality(s \cap rows)
      BY <3>2, <3>3, <3>4, <3>5, <3>6
    <3>8. (\A x \in s : copies[x] = 0) => total[s] = 0
      BY <3>1, <3>2, <3>3
    <3>. QED BY <3>7, <3>8
  <2>. HIDE DEF Good
  <2>3. HubRows \in Good
    BY <1>1, <1>2, <2>1, <2>2, OneByOne
  <2>4. HubRows \cap rows = rows
    OBVIOUS
  <2>. QED BY <2>3, <2>4 DEF Good
<1>7. \A rows \in SUBSET HubRows : Cardinality(rows) \in Nat
  BY <1>1, FS_Subset, FS_CardinalityType
<1>8. {} \in SUBSET HubRows /\ \A h \in {} : copies[h] > 0
  OBVIOUS
<1>9. total[HubRows] \in Nat /\ ((\A h \in HubRows : copies[h] = 0) => total[HubRows] = 0)
  BY <1>6, <1>8
<1>10. \A rows \in SUBSET HubRows :
          (\A h \in rows : copies[h] > 0) => total[HubRows] >= Cardinality(rows)
  BY <1>6
<1>. QED BY <1>3, <1>7, <1>9, <1>10

(* Replicas that have not sent the statement of their boot yet. *)
Asking == {r \in Replicas : phase[r] \in {"hub", "product", "columns", "copy"}}

(* Every statement that landed or is on its way, and every replica that may still
   send one, has a boot of its own. *)
BackfillTypeInv ==
    /\ BackfillTypeOK
    /\ IsFiniteSet(sent) /\ IsFiniteSet(Asking)
    /\ landed + Cardinality(sent) + Cardinality(Asking) <= boots

LEMMA BackfillTypeInit == BackfillInit => BackfillTypeInv
<1>. SUFFICES ASSUME BackfillInit PROVE BackfillTypeInv
  OBVIOUS
<1>1. Asking = {} /\ sent = {}
  BY DEF Asking, BackfillInit
<1>2. IsFiniteSet({}) /\ Cardinality({}) = 0
  BY FS_EmptySet
<1>3. own \in Nat
  BY BackfillAssumption DEF BackfillInit
<1>4. BackfillTypeOK
  <2>1. landed = 0 /\ boots = 0 /\ Cardinality(sent) = 0
    BY <1>1, <1>2 DEF BackfillInit
  <2>2. outnumbered \in BOOLEAN
    BY Zenon DEF BackfillInit
  <2>. QED BY <1>3, <2>1, <2>2 DEF BackfillInit, BackfillTypeOK, Phases
<1>. QED BY <1>1, <1>2, <1>4 DEF BackfillTypeInv, BackfillInit

LEMMA NoMore ==
    ASSUME NEW A, IsFiniteSet(A), NEW B \in SUBSET A
    PROVE  /\ IsFiniteSet(B) /\ Cardinality(B) <= Cardinality(A)
           /\ Cardinality(A) \in Nat /\ Cardinality(B) \in Nat
BY FS_Subset, FS_CardinalityType

LEMMA OneMore ==
    ASSUME NEW A, IsFiniteSet(A), NEW x
    PROVE  /\ IsFiniteSet(A \cup {x}) /\ Cardinality(A \cup {x}) <= Cardinality(A) + 1
           /\ Cardinality(A) \in Nat /\ Cardinality(A \cup {x}) \in Nat
<1>1. Cardinality(A \cup {x}) = IF x \in A THEN Cardinality(A) ELSE Cardinality(A) + 1
  BY FS_AddElement
<1>2. IsFiniteSet(A \cup {x}) /\ Cardinality(A) \in Nat /\ Cardinality(A \cup {x}) \in Nat
  BY FS_AddElement, FS_CardinalityType
<1>. QED BY <1>1, <1>2

LEMMA OneLess ==
    ASSUME NEW A, IsFiniteSet(A), NEW x \in A
    PROVE  /\ IsFiniteSet(A \ {x}) /\ Cardinality(A \ {x}) + 1 = Cardinality(A)
           /\ Cardinality(A) \in Nat /\ Cardinality(A \ {x}) \in Nat
<1>1. IsFiniteSet(A \ {x}) /\ Cardinality(A \ {x}) = Cardinality(A) - 1
  BY FS_RemoveElement
<1>2. Cardinality(A) \in Nat /\ Cardinality(A \ {x}) \in Nat
  BY <1>1, FS_CardinalityType
<1>. QED BY <1>1, <1>2

(* What the boot of a replica keeps. *)
LEMMA BootTypes ==
    ASSUME BackfillTypeInv, NEW r \in Replicas, Boot(r)
    PROVE  BackfillTypeInv'
<1>. USE DEF BackfillTypeInv, BackfillTypeOK, Phases, Move, store, boot, statements
<1>1. ProductRows \in Nat /\ Cardinality(hub) \in Nat
  BY RowsCounted, BackfillAssumption, FS_Subset, FS_CardinalityType
<1>0. Cardinality(sent) \in Nat /\ Cardinality(Asking) \in Nat
  BY FS_CardinalityType
<1>. HIDE DEF BackfillTypeInv
<1>2. CASE Start(r)
  <2>1. BackfillTypeOK'
    BY <1>0, <1>2 DEF Start, BackfillTypeInv
  <2>2. Asking' \subseteq Asking \cup {r} /\ sent' = sent /\ landed' = landed /\ boots' = boots + 1
    BY <1>2 DEF Start, Asking, BackfillTypeInv
  <2>3. IsFiniteSet(Asking \cup {r}) /\ Cardinality(Asking \cup {r}) <= Cardinality(Asking) + 1
    BY OneMore DEF BackfillTypeInv
  <2>4. IsFiniteSet(Asking') /\ Cardinality(Asking') <= Cardinality(Asking \cup {r})
        /\ Cardinality(Asking') \in Nat /\ Cardinality(Asking \cup {r}) \in Nat
    BY <2>2, <2>3, NoMore
  <2>. QED BY <1>0, <2>1, <2>2, <2>3, <2>4 DEF BackfillTypeInv
<1>3. CASE Copy(r)
  <2>. DEFINE st == [by |-> r, of |-> boots, since |-> counted[r]]
  <2>1. st \in Statement
    BY DEF Statement, BackfillTypeInv
  <2>2. Asking' \subseteq Asking \ {r} /\ r \in Asking /\ sent' = sent \cup {st}
        /\ landed' = landed /\ boots' = boots
    BY <1>3 DEF Copy, Asking, BackfillTypeInv
  <2>. HIDE DEF st
  <2>3. IsFiniteSet(sent') /\ Cardinality(sent') <= Cardinality(sent) + 1
        /\ Cardinality(sent) \in Nat /\ Cardinality(sent') \in Nat
    BY <2>2, OneMore DEF BackfillTypeInv
  <2>4. IsFiniteSet(Asking \ {r}) /\ Cardinality(Asking \ {r}) + 1 = Cardinality(Asking)
        /\ Cardinality(Asking) \in Nat /\ Cardinality(Asking \ {r}) \in Nat
    BY <2>2, OneLess DEF BackfillTypeInv
  <2>5. IsFiniteSet(Asking') /\ Cardinality(Asking') <= Cardinality(Asking \ {r})
        /\ Cardinality(Asking') \in Nat
    BY <2>2, <2>4, NoMore
  <2>6. landed' + Cardinality(sent') + Cardinality(Asking') <= boots'
    BY <2>2, <2>3, <2>4, <2>5 DEF BackfillTypeInv
  <2>7. BackfillTypeOK'
    BY <1>3, <2>1, <2>2, <2>6, <2>3, <2>5 DEF Copy, BackfillTypeInv
  <2>. QED BY <2>3, <2>5, <2>6, <2>7 DEF BackfillTypeInv
<1>4. ASSUME \/ CountHub(r) \/ CountProduct(r) \/ Columns(r)
             \/ QuestionFails(r) \/ ReplyLost(r) \/ Die(r)
      PROVE  BackfillTypeInv'
  <2>1. BackfillTypeOK'
    <3>1. CASE CountHub(r)
      BY <1>0, <1>1, <3>1 DEF CountHub, chTableRowCount, countFromRow, BackfillTypeInv
    <3>2. CASE CountProduct(r)
      BY <1>0, <1>1, <3>2 DEF CountProduct, chTableRowCount, countFromRow, BackfillTypeInv
    <3>3. CASE Columns(r)
      BY <1>0, <3>3 DEF Columns, BackfillTypeInv
    <3>4. CASE QuestionFails(r) \/ ReplyLost(r) \/ Die(r)
      BY <1>0, <3>4 DEF QuestionFails, ReplyLost, Die, BackfillTypeInv
    <3>. QED BY <1>4, <3>1, <3>2, <3>3, <3>4
  <2>2. Asking' \subseteq Asking
    BY <1>4 DEF Asking, CountHub, CountProduct, Columns, QuestionFails, ReplyLost, Die,
                BackfillTypeInv
  <2>3. sent' = sent /\ landed' = landed /\ boots' = boots
    BY <1>4 DEF CountHub, CountProduct, Columns, QuestionFails, ReplyLost, Die
  <2>4. IsFiniteSet(Asking') /\ Cardinality(Asking') <= Cardinality(Asking)
        /\ Cardinality(Asking') \in Nat
    BY <2>2, NoMore DEF BackfillTypeInv
  <2>. QED BY <1>0, <2>1, <2>3, <2>4 DEF BackfillTypeInv
<1>. QED BY <1>2, <1>3, <1>4 DEF Boot

(* What ClickHouse keeps, when a statement lands. *)
LEMMA LandedTypes ==
    ASSUME BackfillTypeInv, NEW st \in sent, Lands(st) \/ LandsInPart(st)
    PROVE  BackfillTypeInv'
<1>. USE DEF BackfillTypeOK, Phases, boot
<1>1. copies' \in [HubRows -> Nat]
  BY DEF BackfillTypeInv, Lands, LandsInPart, Adds
<1>2. st.by \in Replicas
  BY DEF BackfillTypeInv, Statement
<1>3. sent' = sent \ {st} /\ landed' = landed + 1 /\ boots' = boots
  BY DEF Lands, LandsInPart, Landed
<1>4. Asking' \subseteq Asking /\ phase' \in [Replicas -> Phases]
  BY <1>2 DEF BackfillTypeInv, Lands, LandsInPart, Landed, Asking
<1>5. IsFiniteSet(Asking') /\ Cardinality(Asking') <= Cardinality(Asking)
      /\ Cardinality(Asking') \in Nat /\ Cardinality(Asking) \in Nat
  BY <1>4, NoMore DEF BackfillTypeInv
<1>6. IsFiniteSet(sent') /\ Cardinality(sent') + 1 = Cardinality(sent)
      /\ Cardinality(sent') \in Nat /\ Cardinality(sent) \in Nat
  BY <1>3, OneLess DEF BackfillTypeInv
<1>7. landed' + Cardinality(sent') + Cardinality(Asking') <= boots'
  BY <1>3, <1>5, <1>6 DEF BackfillTypeInv
<1>8. BackfillTypeOK'
  BY <1>1, <1>3, <1>4, <1>5, <1>6, <1>7 DEF BackfillTypeInv, Lands, LandsInPart, Landed
<1>. QED BY <1>5, <1>6, <1>7, <1>8 DEF BackfillTypeInv

LEMMA BackfillTypeStep == BackfillTypeInv /\ [BackfillNext]_backfillVars => BackfillTypeInv'
<1>. SUFFICES ASSUME BackfillTypeInv, [BackfillNext]_backfillVars PROVE BackfillTypeInv'
  OBVIOUS
<1>1. ASSUME NEW r \in Replicas, Boot(r) PROVE BackfillTypeInv'
  BY <1>1, BootTypes
<1>2. ASSUME NEW st \in sent, Lands(st) \/ LandsInPart(st) PROVE BackfillTypeInv'
  BY <1>2, LandedTypes
<1>3. ASSUME (\E h \in HubRows : MergeProduct(h) \/ MergeHub(h) \/ Expire(h)) \/ Write
      PROVE  BackfillTypeInv'
  <2>1. BackfillTypeOK'
    BY <1>3 DEF BackfillTypeInv, BackfillTypeOK, MergeProduct, MergeHub, Expire, Write, boot, statements
  <2>2. UNCHANGED <<sent, phase, landed, boots>>
    BY <1>3 DEF MergeProduct, MergeHub, Expire, Write, statements
  <2>. QED BY <2>1, <2>2 DEF BackfillTypeInv, Asking
<1>4. CASE UNCHANGED backfillVars
  BY <1>4 DEF backfillVars, BackfillTypeInv, BackfillTypeOK, Asking
<1>. QED BY <1>1, <1>2, <1>3, <1>4 DEF BackfillNext

THEOREM BackfillTypeCorrect == BackfillSpec => []BackfillTypeOK
<1>1. BackfillTypeInv => BackfillTypeOK
  BY DEF BackfillTypeInv
<1>. QED BY BackfillTypeInit, BackfillTypeStep, <1>1, PTL DEF BackfillSpec

(* A statement adds a copy without an accident only upon a table that it was right
   to find wanting.  Once more statements have landed than there were accidents,
   every row of the hub is there, so no replica that counts now, and none that has
   counted since, copies again: only those that counted before are under way. *)
Accidents == stale + halved + expired

CopyInv ==
    /\ \A r \in Replicas :
          /\ counted[r] <= landed
          /\ phase[r] \in {"product", "columns", "copy"} => hubN[r] = Cardinality(hub)
          /\ phase[r] \in {"columns", "copy"} /\ counted[r] = landed => landed <= Accidents
    /\ \A st \in sent : st.since <= landed /\ (st.since = landed => landed <= Accidents)
    /\ \A h \in HubRows : copies[h] <= landed
    /\ landed <= 1 + Accidents
    /\ landed > Accidents => \A h \in hub : copies[h] > 0

CopiedInv == BackfillTypeInv /\ (engine = "plain" => CopyInv)

LEMMA CopiedBoot ==
    ASSUME BackfillTypeInv, engine = "plain", CopyInv, NEW r \in Replicas, Boot(r)
    PROVE  CopyInv'
<1>. USE DEF BackfillTypeInv, BackfillTypeOK, Move, store, boot, statements, Accidents
<1>1. CASE CountProduct(r)
  <2>1. ProductRows \in Nat /\ own \in Nat /\ Cardinality(hub) \in Nat
        /\ ((\A h \in hub : copies[h] > 0) => ProductRows >= own + Cardinality(hub))
    BY RowsCounted, BackfillAssumption, FS_Subset, FS_CardinalityType
  <2>2. phase'[r] = "columns" => ~(ProductRows >= hubN[r])
    BY <1>1 DEF CountProduct, Enough, chTableRowCount, countFromRow
  <2>3. hubN[r] = Cardinality(hub)
    BY <1>1 DEF CountProduct, CopyInv
  <2>4. phase'[r] = "columns" => landed <= Accidents
    BY <2>1, <2>2, <2>3 DEF CopyInv
  <2>5. phase' = [phase EXCEPT ![r] = phase'[r]] /\ phase'[r] \in {"serving", "columns"}
    BY <1>1 DEF CountProduct
  <2>. QED BY <1>1, <2>4, <2>5 DEF CountProduct, CopyInv
<1>2. CASE CountHub(r)
  <2>1. Cardinality(hub) \in Nat
    BY BackfillAssumption, FS_Subset, FS_CardinalityType
  <2>. QED BY <1>2, <2>1 DEF CountHub, CopyInv, chTableRowCount, countFromRow
<1>3. CASE Copy(r)
  BY <1>3 DEF Copy, CopyInv
<1>4. CASE Start(r) \/ Columns(r) \/ QuestionFails(r) \/ ReplyLost(r) \/ Die(r)
  BY <1>4 DEF Start, Columns, QuestionFails, ReplyLost, Die, CopyInv
<1>. QED BY <1>1, <1>2, <1>3, <1>4 DEF Boot

LEMMA CopiedLanding ==
    ASSUME BackfillTypeInv, engine = "plain", CopyInv,
           NEW st \in sent, Lands(st) \/ LandsInPart(st)
    PROVE  CopyInv'
<1>. USE DEF boot
<1>1. /\ landed \in Nat /\ stale \in Nat /\ halved \in Nat /\ expired \in Nat
      /\ copies \in [HubRows -> Nat] /\ hub \subseteq HubRows
      /\ st \in Statement /\ counted \in [Replicas -> Nat] /\ phase \in [Replicas -> Phases]
  BY DEF BackfillTypeInv, BackfillTypeOK
<1>2. st.by \in Replicas /\ st.since \in Nat /\ st.since <= landed
  BY <1>1 DEF Statement, CopyInv
<1>3. landed' = landed + 1 /\ sent' = sent \ {st} /\ hub' = hub /\ hubN' = hubN
      /\ counted' = counted /\ stale' = (IF landed > st.since THEN stale + 1 ELSE stale)
      /\ expired' = expired
  BY DEF Lands, LandsInPart, Landed
<1>4. \A r \in Replicas : phase'[r] # phase[r] => phase'[r] = "serving"
  BY <1>1, <1>2 DEF Lands, LandsInPart, Landed
<1>5. \E rows \in SUBSET hub : /\ Adds(rows)
                               /\ \/ rows = hub /\ halved' = halved
                                  \/ halved' = halved + 1
  BY DEF Lands, LandsInPart
<1>6. \A h \in HubRows : copies'[h] \in Nat /\ copies'[h] <= copies[h] + 1 /\ copies'[h] >= copies[h]
  BY <1>1, <1>5 DEF Adds
<1>7. CASE landed > st.since \/ halved' = halved + 1
  <2>1. Accidents \in Nat /\ Accidents' \in Nat /\ Accidents' >= Accidents + 1
    BY <1>1, <1>3, <1>5, <1>7 DEF Accidents
  <2>2. landed' <= 1 + Accidents'
    <3>1. landed <= 1 + Accidents
      BY DEF CopyInv
    <3>. QED BY <1>1, <1>3, <1>5, <1>7, <3>1 DEF Accidents
  <2>3. landed' > Accidents' => \A h \in hub' : copies'[h] > 0
    BY <1>1, <1>3, <1>6, <2>1 DEF CopyInv
  <2>4. \A o \in sent' : o \in Statement /\ o.since \in Nat
    BY <1>3 DEF BackfillTypeInv, BackfillTypeOK, Statement
  <2>. QED BY <1>1, <1>3, <1>4, <1>6, <2>2, <2>3, <2>4 DEF CopyInv
<1>8. CASE landed = st.since /\ halved' = halved
  <2>1. Accidents \in Nat /\ Accidents' = Accidents
    BY <1>1, <1>3, <1>8 DEF Accidents
  <2>2. landed <= Accidents
    BY <1>8 DEF CopyInv
  <2>3. \A h \in hub' : copies'[h] > 0
    BY <1>1, <1>3, <1>5, <1>8 DEF Adds
  <2>4. \A o \in sent' : o \in Statement /\ o.since \in Nat
    BY <1>3 DEF BackfillTypeInv, BackfillTypeOK, Statement
  <2>. QED BY <1>1, <1>3, <1>4, <1>6, <2>1, <2>2, <2>3, <2>4 DEF CopyInv
<1>. QED BY <1>1, <1>2, <1>5, <1>7, <1>8

LEMMA CopiedStep == CopiedInv /\ [BackfillNext]_backfillVars => CopiedInv'
<1>. SUFFICES ASSUME CopiedInv, [BackfillNext]_backfillVars PROVE CopiedInv'
  OBVIOUS
<1>1. BackfillTypeInv /\ BackfillTypeInv'
  BY BackfillTypeStep DEF CopiedInv
<1>2. engine' = engine
  BY DEF BackfillNext, backfillVars, Boot, Start, CountHub, CountProduct, Columns, QuestionFails,
         Copy, ReplyLost, Die, Lands, LandsInPart, Landed, MergeProduct, MergeHub, Expire, Write,
         store
<1>. SUFFICES ASSUME engine = "plain" PROVE CopyInv'
  BY <1>1, <1>2 DEF CopiedInv
<1>3. CopyInv
  BY DEF CopiedInv
<1>4. ASSUME NEW r \in Replicas, Boot(r) PROVE CopyInv'
  BY <1>1, <1>3, <1>4, CopiedBoot
<1>5. ASSUME NEW st \in sent, Lands(st) \/ LandsInPart(st) PROVE CopyInv'
  BY <1>1, <1>3, <1>5, CopiedLanding
<1>6. ASSUME NEW h \in HubRows, MergeProduct(h) \/ MergeHub(h) PROVE CopyInv'
  BY <1>6 DEF MergeProduct, MergeHub
<1>7. ASSUME NEW h \in HubRows, Expire(h) PROVE CopyInv'
  BY <1>1, <1>3, <1>7 DEF BackfillTypeInv, BackfillTypeOK, CopyInv, Accidents, Expire, boot, statements
<1>8. CASE Write
  BY <1>3, <1>8 DEF CopyInv, Accidents, Write, boot, statements
<1>9. CASE UNCHANGED backfillVars
  BY <1>3, <1>9 DEF CopyInv, Accidents, backfillVars
<1>. QED BY <1>4, <1>5, <1>6, <1>7, <1>8, <1>9 DEF BackfillNext

(* However replicas boot, die and miss replies, a row is copied a second time only
   by an accident. *)
THEOREM CopiesCounted == BackfillSpec => []CopiedOnce
<1>1. BackfillInit => CopiedInv
  BY BackfillTypeInit DEF BackfillInit, CopiedInv, CopyInv, Accidents
<1>2. CopiedInv => CopiedOnce
  BY DEF CopiedInv, CopyInv, BackfillTypeInv, BackfillTypeOK, CopiedOnce, Accidents
<1>. QED BY <1>1, <1>2, CopiedStep, PTL DEF BackfillSpec

(* As long as nothing has gone wrong: what landed is there, nothing is there before,
   and no replica serves before, unless there is nothing to copy. *)
PresentInv ==
    failed = 0 /\ halved = 0 /\ expired = 0 /\ ~outnumbered =>
        /\ landed > 0 => \A h \in hub : \E n \in HubRows :
                            n >= h /\ KeyOf[n] = KeyOf[h] /\ copies[n] > 0
        /\ landed = 0 =>
              /\ \A h \in HubRows : copies[h] = 0
              /\ hub # {} => \A r \in Replicas : phase[r] # "serving"

LEMMA PresentBoot ==
    ASSUME BackfillTypeInv, PresentInv, chSharedColumns # {}, NEW r \in Replicas, Boot(r)
    PROVE  PresentInv'
<1>. USE DEF BackfillTypeInv, BackfillTypeOK, Move, store, boot, statements
<1>1. CASE CountProduct(r)
  <2>1. ProductRows \in Nat /\ ((\A h \in HubRows : copies[h] = 0) => ProductRows = own)
    BY RowsCounted
  <2>2. phase'[r] = "serving" => ProductRows >= hubN[r]
    BY <1>1 DEF CountProduct, Enough, chTableRowCount, countFromRow
  <2>3. phase' = [phase EXCEPT ![r] = phase'[r]] /\ phase'[r] \in {"serving", "columns"}
        /\ phase[r] = "product"
        /\ ~outnumbered' => ~outnumbered /\ (landed = 0 => ~(own >= hubN[r]))
    BY <1>1 DEF CountProduct
  <2>. QED BY <1>1, <2>1, <2>2, <2>3 DEF CountProduct, PresentInv
<1>2. CASE CountHub(r)
  <2>1. Cardinality(hub) \in Nat /\ (Cardinality(hub) = 0 => hub = {})
    BY BackfillAssumption, FS_Subset, FS_CardinalityType, FS_EmptySet
  <2>2. phase' = [phase EXCEPT ![r] = IF Cardinality(hub) = 0 THEN "serving" ELSE "product"]
        /\ hubN' = [hubN EXCEPT ![r] = Cardinality(hub)]
    BY <1>2 DEF CountHub, chTableRowCount, countFromRow
  <2>. QED BY <1>2, <2>1, <2>2 DEF CountHub, PresentInv
<1>3. CASE Columns(r)
  BY <1>3 DEF Columns, PresentInv
<1>4. CASE Start(r) \/ Copy(r) \/ Die(r)
  BY <1>4 DEF Start, Copy, Die, PresentInv
<1>5. CASE QuestionFails(r) \/ ReplyLost(r)
  BY <1>5 DEF QuestionFails, ReplyLost, PresentInv
<1>. QED BY <1>1, <1>2, <1>3, <1>4, <1>5 DEF Boot

LEMMA PresentLanding ==
    ASSUME BackfillTypeInv, PresentInv, NEW st \in sent, Lands(st) \/ LandsInPart(st)
    PROVE  PresentInv'
<1>. USE DEF BackfillTypeInv, BackfillTypeOK
<1>1. CASE LandsInPart(st)
  BY <1>1 DEF LandsInPart, PresentInv
<1>2. CASE Lands(st)
  <2>1. \A h \in hub : h \in HubRows /\ copies'[h] > 0 /\ h >= h
    <3>1. copies' = [h \in HubRows |-> copies[h] + IF h \in hub THEN 1 ELSE 0]
      BY <1>2 DEF Lands, Adds
    <3>2. \A h \in hub : h \in Nat /\ h \in HubRows /\ copies[h] \in Nat
      BY BackfillAssumption
    <3>. QED BY <3>1, <3>2
  <2>2. landed' > 0 /\ landed' # 0 /\ hub' = hub /\ outnumbered' = outnumbered
    BY <1>2 DEF Lands, Landed, boot
  <2>. QED BY <1>2, <2>1, <2>2 DEF Lands, PresentInv
<1>. QED BY <1>1, <1>2

LEMMA PresentMerge ==
    ASSUME BackfillTypeInv, PresentInv, NEW m \in HubRows, MergeProduct(m) \/ MergeHub(m)
    PROVE  PresentInv'
<1>. USE DEF BackfillTypeInv, BackfillTypeOK
<1>1. CASE MergeHub(m)
  BY <1>1 DEF MergeHub, PresentInv, boot, statements
<1>2. CASE MergeProduct(m)
  <2>1. copies[m] > 0 /\ UNCHANGED <<hub, phase, landed, failed, halved, expired, outnumbered>>
    BY <1>2 DEF MergeProduct, boot, statements
  <2>2. copies' = [o \in HubRows |->
                     IF o = m THEN 1
                     ELSE IF o < m /\ KeyOf[o] = KeyOf[m] THEN 0 ELSE copies[o]]
    BY <1>2 DEF MergeProduct
  <2>3. ASSUME NEW h \in hub, NEW n \in HubRows, n >= h, KeyOf[n] = KeyOf[h], copies[n] > 0
        PROVE  \E k \in HubRows : k >= h /\ KeyOf[k] = KeyOf[h] /\ copies'[k] > 0
    <3>1. m \in Nat /\ n \in Nat /\ h \in Nat
      BY BackfillAssumption
    <3>2. CASE n < m /\ KeyOf[n] = KeyOf[m]
      BY <2>2, <2>3, <3>1, <3>2
    <3>3. CASE ~(n < m /\ KeyOf[n] = KeyOf[m])
      BY <2>2, <2>3, <3>1, <3>3
    <3>. QED BY <3>2, <3>3
  <2>. QED BY <2>1, <2>3 DEF PresentInv
<1>. QED BY <1>1, <1>2

(* As long as no question failed, nothing was lost and the product's own rows did
   not outnumber the hub's before the first copy, no replica serves before the
   newest row of every key has been copied, if the two tables have a column in
   common: they are of one schema, that of the program. *)
THEOREM ServesWithRows ==
    ASSUME chSharedColumns # {}
    PROVE  BackfillSpec => []LegacyPresent
<1>. DEFINE Inv == BackfillTypeInv /\ PresentInv
<1>1. BackfillInit => Inv
  BY BackfillTypeInit DEF BackfillInit, PresentInv
<1>2. Inv /\ [BackfillNext]_backfillVars => Inv'
  <2>. SUFFICES ASSUME Inv, [BackfillNext]_backfillVars PROVE Inv'
    OBVIOUS
  <2>1. BackfillTypeInv'
    BY BackfillTypeStep
  <2>2. ASSUME NEW r \in Replicas, Boot(r) PROVE PresentInv'
    BY <2>2, PresentBoot
  <2>3. ASSUME NEW st \in sent, Lands(st) \/ LandsInPart(st) PROVE PresentInv'
    BY <2>3, PresentLanding
  <2>4. ASSUME NEW h \in HubRows, MergeProduct(h) \/ MergeHub(h) PROVE PresentInv'
    BY <2>4, PresentMerge
  <2>5. ASSUME NEW h \in HubRows, Expire(h) PROVE PresentInv'
    BY <2>5 DEF Expire, PresentInv, BackfillTypeInv, BackfillTypeOK
  <2>6. ASSUME Write PROVE PresentInv'
    BY <2>6 DEF Write, PresentInv, boot, statements, BackfillTypeInv, BackfillTypeOK
  <2>7. ASSUME UNCHANGED backfillVars PROVE PresentInv'
    BY <2>7 DEF PresentInv, backfillVars
  <2>. QED BY <2>1, <2>2, <2>3, <2>4, <2>5, <2>6, <2>7 DEF BackfillNext
<1>3. Inv => LegacyPresent
  BY DEF PresentInv, LegacyPresent, BackfillTypeInv, BackfillTypeOK
<1>. QED BY <1>1, <1>2, <1>3, PTL DEF BackfillSpec

-----------------------------------------------------------------------------
(* The inventory of vulnerabilities *)

VulnTypeInv ==
    /\ VulnTypeOK
    /\ DOMAIN stored = Requests /\ DOMAIN since = Requests /\ DOMAIN todo = Requests
    /\ DOMAIN next = Requests /\ DOMAIN seen = Requests

LEMMA PackagesType ==
    ASSUME NEW r \in Requests
    PROVE  /\ Len(Req[r].packages) \in Nat
           /\ DOMAIN Req[r].packages = 1 .. Len(Req[r].packages)
           /\ \A i \in DOMAIN Req[r].packages : Req[r].packages[i] \in Package
BY VulnAssumption

LEMMA VulnTypeInit == VulnInit => VulnTypeInv
<1>. SUFFICES ASSUME VulnInit PROVE VulnTypeInv
  OBVIOUS
<1>1. \A d \in inventory \cup rollup : d.at \in 0 .. clock
  BY VulnAssumption DEF VulnInit, Row
<1>2. MaxFailures \in Nat
  BY VulnAssumption
<1>. QED BY <1>1, <1>2, PackagesType DEF VulnInit, VulnTypeInv, VulnTypeOK

(* A statement that fails, or does not. *)
LEMMA FailureTypes ==
    ASSUME VulnTypeInv, NEW r \in Requests, Works \/ Fails(r)
    PROVE  failures' \in 0 .. MaxFailures /\ broken' \in SUBSET Requests
BY VulnAssumption DEF VulnTypeInv, VulnTypeOK, Works, Fails

LEMMA PutTypes ==
    ASSUME VulnTypeInv, NEW r \in Requests, NEW f, Put(r, f)
    PROVE  /\ \A d \in inventory' \cup rollup' : d.at \in 0 .. clock'
           /\ clock \in Nat /\ clock' \in Nat /\ clock <= clock'
           /\ failures' \in 0 .. MaxFailures /\ broken' \in SUBSET Requests
           /\ UNCHANGED <<calls, stored, since, crowded, everCalled>>
<1>1. clock \in Nat /\ since[r] \in 0 .. clock /\ clock' \in {clock, clock + 1}
  BY DEF VulnTypeInv, VulnTypeOK, Put, Tick
<1>2. Finding(r, f, clock').at \in 0 .. clock'
  BY <1>1 DEF Finding, Stamp
<1>3. failures' \in 0 .. MaxFailures /\ broken' \in SUBSET Requests
  BY FailureTypes DEF Put
<1>. QED BY <1>1, <1>2, <1>3 DEF Put, VulnTypeInv, VulnTypeOK

LEMMA RequestTypes ==
    ASSUME VulnTypeInv, NEW r \in Requests, Request(r)
    PROVE  VulnTypeInv'
<1>. USE DEF VulnTypeInv, VulnTypeOK, Go
<1>1. clock \in Nat /\ since[r] \in 0 .. clock /\ Len(Req[r].packages) \in Nat
  BY PackagesType
<1>2. CASE Begin(r)
  BY <1>1, <1>2 DEF Begin
<1>3. CASE Store(r)
  <2>1. failures' \in 0 .. MaxFailures /\ broken' \in SUBSET Requests
    BY <1>3, FailureTypes DEF Store
  <2>2. clock' \in {clock, clock + 1}
    BY <1>3 DEF Store, Tick
  <2>3. \A p : Dependency(r, p, clock').at \in 0 .. clock'
    BY <1>1, <2>2 DEF Dependency, Stamp
  <2>5. /\ clock' \in Nat /\ clock <= clock'
        /\ \A d \in inventory' \cup rollup' : d.at \in 0 .. clock'
    BY <1>1, <1>3, <2>2, <2>3 DEF Store
  <2>4. /\ DOMAIN stored' = Requests
        /\ \A q \in Requests : stored'[q] \in 0 .. Len(Req[q].packages)
    BY <1>1, <1>3 DEF Store
  <2>. QED BY <1>1, <1>3, <2>1, <2>4, <2>5 DEF Store
<1>4. CASE StoredAll(r) \/ SelectNone(r)
  BY <1>1, <1>4 DEF StoredAll, SelectNone
<1>5. CASE Select(r)
  BY <1>1, <1>5, FailureTypes DEF Select
<1>6. CASE rankReachability(r)
  <2>1. failures' \in 0 .. MaxFailures /\ broken' \in SUBSET Requests
    BY <1>6, FailureTypes DEF rankReachability
  <2>2. \A q \in Requests : Kind(q) = "scan" => seen'[q] = seen[q]
    BY <1>6 DEF rankReachability
  <2>3. DOMAIN seen' = Requests /\ DOMAIN next' = Requests /\ DOMAIN todo' = Requests
    BY <1>6 DEF rankReachability
  <2>. QED BY <1>1, <1>6, <2>1, <2>2, <2>3 DEF rankReachability
<1>7. CASE PutRanked(r)
  <2>1. /\ \A d \in inventory' \cup rollup' : d.at \in 0 .. clock'
        /\ clock' \in Nat /\ clock <= clock' /\ failures' \in 0 .. MaxFailures
        /\ broken' \in SUBSET Requests /\ UNCHANGED <<calls, stored, since, crowded, everCalled>>
    BY <1>7, PutTypes DEF PutRanked
  <2>. QED BY <1>1, <1>7, <2>1 DEF PutRanked, Forgets
<1>8. CASE SelectSome(r)
  BY <1>1, <1>8, FailureTypes DEF SelectSome
<1>9. CASE rankReachabilityBatch(r)
  <2>1. failures' \in 0 .. MaxFailures /\ broken' \in SUBSET Requests
    BY <1>9, FailureTypes DEF rankReachabilityBatch
  <2>2. FirstName(r) \subseteq ScanNames(r)
    BY DEF FirstName, ScanNames
  <2>3. \A q \in Requests : Kind(q) = "scan" => seen'[q] \subseteq ScanNames(q)
    BY <1>9, <2>2 DEF rankReachabilityBatch
  <2>4. DOMAIN seen' = Requests /\ DOMAIN todo' = Requests
    BY <1>9 DEF rankReachabilityBatch
  <2>. QED BY <1>1, <1>9, <2>1, <2>3, <2>4 DEF rankReachabilityBatch
<1>10. CASE PutFromOsv(r)
  <2>1. /\ \A d \in inventory' \cup rollup' : d.at \in 0 .. clock'
        /\ clock' \in Nat /\ clock <= clock' /\ failures' \in 0 .. MaxFailures
        /\ broken' \in SUBSET Requests /\ UNCHANGED <<calls, stored, since, crowded, everCalled>>
    BY <1>10, PutTypes DEF PutFromOsv
  <2>. QED BY <1>1, <1>10, <2>1 DEF PutFromOsv
<1>11. CASE NoAnswer(r)
  BY <1>1, <1>11, FailureTypes DEF NoAnswer
<1>12. CASE Answer(r)
  BY <1>1, <1>12 DEF Answer, Forgets
<1>. QED BY <1>2, <1>3, <1>4, <1>5, <1>6, <1>7, <1>8, <1>9, <1>10, <1>11, <1>12 DEF Request

LEMMA VulnTypeStep == VulnTypeInv /\ [VulnNext]_vulnVars => VulnTypeInv'
<1>. SUFFICES ASSUME VulnTypeInv, [VulnNext]_vulnVars PROVE VulnTypeInv'
  OBVIOUS
<1>1. ASSUME NEW r \in Requests, Request(r) PROVE VulnTypeInv'
  BY <1>1, RequestTypes
<1>2. ASSUME NEW c \in CallSites, Report(c) \/ Forget(c) PROVE VulnTypeInv'
  BY <1>2 DEF Report, Forget, requestVars, VulnTypeInv, VulnTypeOK
<1>3. CASE MergeInventory \/ MergeRollup
  BY <1>3 DEF MergeInventory, MergeRollup, requestVars, VulnTypeInv, VulnTypeOK
<1>4. CASE UNCHANGED vulnVars
  BY <1>4 DEF vulnVars, requestVars, VulnTypeInv, VulnTypeOK
<1>. QED BY <1>1, <1>2, <1>3, <1>4 DEF VulnNext

THEOREM VulnTypeCorrect == VulnSpec => []VulnTypeOK
<1>1. VulnTypeInv => VulnTypeOK
  BY DEF VulnTypeInv
<1>. QED BY VulnTypeInit, VulnTypeStep, <1>1, PTL DEF VulnSpec

(* A call site there has been is evidence of what a request knows to be called: of the
   package, or of some package of a scan, of which it is the first. *)
Called(f) ==
    \E c \in everCalled : InScope(c, f.dep) /\ c.names \cap Terms(f.adv) # {}

Credited(f) ==
    \E q \in Requests, c \in everCalled :
        /\ Kind(q) = "scan" /\ Req[q].org = f.dep.org /\ Req[q].service = f.dep.service
        /\ f.dep.name \in FirstName(q)
        /\ InScope(c, f.dep) /\ c.names \cap ScanNames(q) # {}

Known(r, f, advisories) ==
    f.adv \in advisories /\ (f.dep.name \in seen[r] => Called(f) \/ Credited(f))

EvidenceOf(r) ==
    /\ pc[r] \in {"idle", "storing", "selecting", "ranking", "done"} => seen[r] = {}
    /\ pc[r] = "ranking" => Kind(r) = "scan"
    /\ pc[r] = "ranked" => Kind(r) \in {"sbom", "match"} /\ Known(r, next[r], Catalog)
    /\ Kind(r) \in {"sbom", "match"} => \A f \in todo[r] : f.adv \in Catalog
    /\ pc[r] = "matching" /\ Kind(r) \in {"enrich", "scan"} => \A f \in todo[r] : Known(r, f, Osv)

Evidence == \A r \in Requests : EvidenceOf(r)

ObservedInv == VulnTypeInv /\ Evidence /\ ObservedHasSite

LEMMA FindingsOf ==
    ASSUME NEW rows, NEW advisories, NEW f \in Findings(rows, advisories)
    PROVE  f.dep \in rows /\ f.adv \in advisories /\ f.adv.package = f.dep.name
BY DEF Findings, Affects

(* A request that takes no step knows what it knew. *)
LEMMA OthersKnow ==
    ASSUME VulnTypeInv, Evidence, everCalled \subseteq everCalled', NEW q \in Requests,
           pc'[q] = pc[q], seen'[q] = seen[q], next'[q] = next[q], todo'[q] \subseteq todo[q]
    PROVE  EvidenceOf(q)'
<1>1. \A f, advisories : Known(q, f, advisories) => Known(q, f, advisories)'
  BY DEF Known, Called, Credited, InScope, Kind, FirstName, ScanNames
<1>. QED BY <1>1 DEF Evidence, EvidenceOf, Kind

(* A finding is filed as observed only with evidence. *)
LEMMA PutKnown ==
    ASSUME ObservedInv, NEW r \in Requests, NEW f, Known(r, f, Catalog \cup Osv), Put(r, f)
    PROVE  ObservedHasSite'
<1>1. everCalled' = everCalled
  BY DEF Put
<1>. DEFINE row == Finding(r, f, clock')
<1>2. rollup' \subseteq rollup \cup {row}
  BY DEF Put
<1>3. /\ row.org = f.dep.org /\ row.service = f.dep.service /\ row.name = f.dep.name
      /\ row.id = f.adv.id /\ (row.reachability = "observed" => f.dep.name \in seen[r])
  BY DEF Finding
<1>. HIDE DEF row
<1>4. Called(f) => WasCalled(row)
  BY <1>3 DEF Called, Known, WasCalled, InScope
<1>5. ASSUME row.reachability = "observed"
      PROVE  WasCalled(row) \/ SharesItsSite(row)
  <2>1. Credited(f) => SharesItsSite(row)
    BY <1>3 DEF Credited, SharesItsSite, InScope
  <2>. QED BY <1>3, <1>4, <1>5, <2>1 DEF Known
<1>6. \A x : (WasCalled(x) => WasCalled(x)') /\ (SharesItsSite(x) => SharesItsSite(x)')
  BY <1>1 DEF WasCalled, SharesItsSite, InScope, Kind, FirstName, ScanNames
<1>. QED BY <1>2, <1>5, <1>6 DEF ObservedInv, ObservedHasSite

LEMMA RequestKnows ==
    ASSUME ObservedInv, NEW r \in Requests, Request(r)
    PROVE  EvidenceOf(r)' /\ everCalled \subseteq everCalled' /\ ObservedHasSite'
<1>. USE DEF Go, Kind
<1>1. VulnTypeInv /\ Evidence /\ ObservedHasSite /\ EvidenceOf(r)
  BY DEF ObservedInv, Evidence
<1>2. /\ pc \in [Requests -> {"idle", "storing", "selecting", "ranking", "matching", "ranked", "done"}]
      /\ DOMAIN next = Requests /\ DOMAIN seen = Requests /\ DOMAIN todo = Requests
      /\ calls \subseteq everCalled
  BY <1>1 DEF VulnTypeInv, VulnTypeOK
<1>3. Req[r].kind \in {"sbom", "match", "enrich", "scan"}
  BY VulnAssumption
<1>4. CASE UNCHANGED <<rollup, everCalled>>
  <2>1. ObservedHasSite'
    BY <1>1, <1>4 DEF ObservedHasSite, WasCalled, SharesItsSite, InScope, FirstName, ScanNames
  <2>2. CASE Begin(r) \/ Store(r) \/ StoredAll(r) \/ SelectNone(r)
    <3>1. /\ seen'[r] = seen[r] /\ todo'[r] = todo[r]
          /\ pc[r] \in {"idle", "storing", "selecting"}
          /\ pc'[r] \in {"storing", "selecting", "ranking", "done"}
          /\ pc'[r] = "ranking" => Req[r].kind = "scan"
      BY <1>2, <2>2 DEF Begin, Store, StoredAll, SelectNone
    <3>. QED BY <1>1, <1>4, <2>1, <3>1 DEF EvidenceOf
  <2>3. CASE Select(r)
    <3>1. pc[r] = "selecting" /\ Req[r].kind \in {"sbom", "match"} /\ pc'[r] \in {"matching", "done"}
          /\ seen' = seen /\ next' = next
      BY <1>2, <2>3 DEF Select
    <3>2. todo'[r] = todo[r] \/ \E rows : todo'[r] = Findings(rows, Catalog)
      BY <1>2, <2>3 DEF Select
    <3>3. \A f \in todo'[r] : f.adv \in Catalog
      BY <1>1, <3>1, <3>2, FindingsOf DEF EvidenceOf
    <3>. QED BY <1>1, <1>4, <2>1, <3>1, <3>3 DEF EvidenceOf, Known
  <2>4. CASE rankReachability(r)
    <3>1. PICK f \in todo[r] :
             /\ next' = [next EXCEPT ![r] = f]
             /\ todo' = [todo EXCEPT ![r] = @ \ {f}]
             /\ seen'[r] = {} \/ \E c \in Sites(f.dep.org, f.dep.service) : c.names \cap Terms(f.adv) # {}
      BY <1>2, <2>4 DEF rankReachability
    <3>2. f.adv \in Catalog /\ Req[r].kind \in {"sbom", "match"} /\ pc'[r] = "ranked"
      BY <1>1, <1>2, <2>4, <3>1 DEF rankReachability, EvidenceOf
    <3>3. f.dep.name \in seen'[r] => Called(f)'
      BY <1>2, <1>4, <3>1 DEF Sites, Called, InScope
    <3>4. Known(r, f, Catalog)'
      BY <3>2, <3>3 DEF Known
    <3>5. next'[r] = f /\ todo'[r] \subseteq todo[r]
      BY <1>2, <3>1
    <3>. QED BY <1>1, <1>4, <2>1, <3>2, <3>4, <3>5 DEF EvidenceOf
  <2>5. CASE SelectSome(r)
    <3>1. pc[r] = "selecting" /\ Req[r].kind = "enrich" /\ pc'[r] \in {"matching", "done"}
          /\ seen'[r] = {}
      BY <1>1, <1>2, <2>5 DEF SelectSome, EvidenceOf
    <3>2. pc'[r] = "done" \/ \E rows : todo'[r] = Findings(rows, Osv)
      BY <1>2, <2>5 DEF SelectSome
    <3>3. pc'[r] = "matching" => \A f \in todo'[r] : f.adv \in Osv
      BY <3>2, FindingsOf
    <3>. QED BY <1>4, <2>1, <3>1, <3>3 DEF EvidenceOf, Known
  <2>6. CASE rankReachabilityBatch(r)
    <3>1. Req[r].kind = "scan" /\ pc'[r] = "matching" /\ seen[r] = {}
      BY <1>1, <1>2, <2>6 DEF rankReachabilityBatch, EvidenceOf
    <3>2. ASSUME NEW f \in todo'[r] PROVE Known(r, f, Osv)'
      <4>1. f.adv \in Osv /\ f.adv.package = f.dep.name
            /\ f.dep \in {Dependency(r, Req[r].packages[i], clock) : i \in DOMAIN Req[r].packages}
        BY <1>2, <2>6, FindingsOf DEF rankReachabilityBatch
      <4>2. f.dep.org = Req[r].org /\ f.dep.service = Req[r].service
        BY <4>1 DEF Dependency
      <4>3. ASSUME f.dep.name \in seen'[r] PROVE Credited(f)'
        <5>1. PICK c \in Sites(Req[r].org, Req[r].service) : c.names \cap ScanNames(r) # {}
          BY <1>2, <2>6, <3>1, <4>3 DEF rankReachabilityBatch
        <5>2. f.dep.name \in FirstName(r)
          BY <1>2, <2>6, <3>1, <4>3 DEF rankReachabilityBatch
        <5>3. c \in everCalled' /\ InScope(c, f.dep)
          BY <1>2, <1>4, <4>2, <5>1 DEF Sites, InScope
        <5>. QED BY <3>1, <4>2, <5>1, <5>2, <5>3 DEF Credited, InScope, FirstName, ScanNames
      <4>. QED BY <4>1, <4>3 DEF Known
    <3>. QED BY <1>4, <2>1, <3>1, <3>2 DEF EvidenceOf
  <2>7. CASE NoAnswer(r) \/ Answer(r)
    <3>1. \/ /\ pc'[r] = pc[r] /\ seen'[r] = seen[r] /\ next'[r] = next[r]
             /\ todo'[r] \subseteq todo[r]
          \/ pc'[r] = "done" /\ seen'[r] = {} /\ todo'[r] = {}
      BY <1>2, <2>7 DEF NoAnswer, Answer, Forgets
    <3>2. CASE pc'[r] = "done" /\ seen'[r] = {} /\ todo'[r] = {}
      BY <1>4, <2>1, <3>2 DEF EvidenceOf
    <3>. QED BY <1>1, <1>4, <2>1, <3>1, <3>2, OthersKnow
  <2>8. CASE PutRanked(r)
    <3>1. pc'[r] = "matching" /\ todo'[r] = todo[r] /\ Req[r].kind \in {"sbom", "match"}
      BY <1>1, <1>2, <2>8 DEF PutRanked, EvidenceOf
    <3>. QED BY <1>1, <1>4, <2>1, <3>1 DEF EvidenceOf
  <2>9. CASE PutFromOsv(r)
    <3>1. pc'[r] = pc[r] /\ seen'[r] = seen[r] /\ next'[r] = next[r] /\ todo'[r] \subseteq todo[r]
      BY <1>2, <2>9 DEF PutFromOsv
    <3>. QED BY <1>1, <1>4, <2>1, <3>1, OthersKnow
  <2>. QED BY <2>2, <2>3, <2>4, <2>5, <2>6, <2>7, <2>8, <2>9 DEF Request
<1>5. CASE PutRanked(r)
  <2>1. pc'[r] = "matching" /\ todo'[r] = todo[r] /\ Req[r].kind \in {"sbom", "match"}
        /\ everCalled' = everCalled
    BY <1>1, <1>2, <1>5 DEF PutRanked, Put, EvidenceOf
  <2>2. Put(r, next[r]) /\ Known(r, next[r], Catalog \cup Osv)
    BY <1>1, <1>5 DEF PutRanked, EvidenceOf, Known
  <2>3. ObservedHasSite'
    BY <2>2, PutKnown
  <2>. QED BY <1>1, <2>1, <2>3 DEF EvidenceOf
<1>6. CASE PutFromOsv(r)
  <2>1. pc'[r] = pc[r] /\ seen'[r] = seen[r] /\ next'[r] = next[r] /\ todo'[r] \subseteq todo[r]
        /\ everCalled' = everCalled
    BY <1>2, <1>6 DEF PutFromOsv, Put
  <2>2. PICK f \in todo[r] : Put(r, f)
    BY <1>6 DEF PutFromOsv
  <2>3. Known(r, f, Catalog \cup Osv)
    BY <1>1, <1>6, <2>2 DEF PutFromOsv, EvidenceOf, Known
  <2>4. ObservedHasSite'
    BY <2>2, <2>3, PutKnown
  <2>. QED BY <1>1, <2>1, <2>4, OthersKnow
<1>7. CASE ~(PutRanked(r) \/ PutFromOsv(r))
  <2>1. UNCHANGED <<rollup, everCalled>>
    BY <1>7 DEF Request, Begin, Store, StoredAll, SelectNone, Select, rankReachability,
                SelectSome, rankReachabilityBatch, NoAnswer, Answer
  <2>. QED BY <1>4, <2>1
<1>. QED BY <1>5, <1>6, <1>7

(* A step of one request leaves the others as they are. *)
LEMMA OtherRequests ==
    ASSUME VulnTypeInv, NEW r \in Requests, Request(r), NEW q \in Requests, q # r
    PROVE  /\ pc'[q] = pc[q] /\ stored'[q] = stored[q] /\ since'[q] = since[q]
           /\ todo'[q] = todo[q] /\ next'[q] = next[q] /\ seen'[q] = seen[q]
           /\ q \in broken' <=> q \in broken
           /\ q \in crowded' <=> q \in crowded
<1>1. /\ DOMAIN pc = Requests /\ DOMAIN stored = Requests /\ DOMAIN since = Requests
      /\ DOMAIN todo = Requests /\ DOMAIN next = Requests /\ DOMAIN seen = Requests
  BY DEF VulnTypeInv, VulnTypeOK
<1>2. CASE Begin(r) \/ StoredAll(r) \/ SelectNone(r) \/ Answer(r) \/ NoAnswer(r)
  BY <1>1, <1>2 DEF Begin, StoredAll, SelectNone, Answer, NoAnswer, Go, Forgets, Works, Fails
<1>3. CASE Store(r)
  BY <1>1, <1>3 DEF Store, Works, Fails
<1>4. CASE Select(r) \/ SelectSome(r)
  BY <1>1, <1>4 DEF Select, SelectSome, Go, Works, Fails
<1>5. CASE rankReachability(r) \/ rankReachabilityBatch(r)
  BY <1>1, <1>5 DEF rankReachability, rankReachabilityBatch, Go, Works, Fails
<1>6. CASE PutRanked(r) \/ PutFromOsv(r)
  BY <1>1, <1>6 DEF PutRanked, PutFromOsv, Put, Go, Forgets, Works, Fails
<1>. QED BY <1>2, <1>3, <1>4, <1>5, <1>6 DEF Request

(* Every finding filed as observed has a call site of its organization and service
   behind it that held its package, or some package of a scan of which it is the
   first, whatever requests run side by side and whatever is forgotten. *)
THEOREM ObservedHasEvidence == VulnSpec => []ObservedHasSite
<1>1. VulnInit => ObservedInv
  BY VulnTypeInit DEF ObservedInv, Evidence, EvidenceOf, Known, VulnInit, ObservedHasSite
<1>2. ObservedInv /\ [VulnNext]_vulnVars => ObservedInv'
  <2>. SUFFICES ASSUME ObservedInv, [VulnNext]_vulnVars PROVE ObservedInv'
    OBVIOUS
  <2>1. VulnTypeInv /\ VulnTypeInv' /\ Evidence /\ ObservedHasSite
    BY VulnTypeStep DEF ObservedInv
  <2>2. ASSUME NEW r \in Requests, Request(r) PROVE ObservedInv'
    <3>1. EvidenceOf(r)' /\ everCalled \subseteq everCalled' /\ ObservedHasSite'
      BY <2>2, RequestKnows
    <3>2. \A q \in Requests : q # r => EvidenceOf(q)'
      BY <2>1, <2>2, <3>1, OtherRequests, OthersKnow
    <3>. QED BY <2>1, <3>1, <3>2 DEF ObservedInv, Evidence
  <2>3. ASSUME UNCHANGED requestVars /\ rollup' \subseteq rollup
               /\ everCalled \subseteq everCalled'
        PROVE  ObservedInv'
    <3>1. \A q \in Requests : EvidenceOf(q)'
      BY <2>1, <2>3, OthersKnow DEF requestVars
    <3>2. ObservedHasSite'
      BY <2>1, <2>3 DEF ObservedHasSite, WasCalled, SharesItsSite, InScope, Kind, FirstName, ScanNames
    <3>. QED BY <2>1, <3>1, <3>2 DEF ObservedInv, Evidence
  <2>4. ASSUME (\E c \in CallSites : Report(c) \/ Forget(c)) \/ MergeInventory \/ MergeRollup
               \/ UNCHANGED vulnVars
        PROVE  UNCHANGED requestVars /\ rollup' \subseteq rollup /\ everCalled \subseteq everCalled'
    BY <2>4 DEF Report, Forget, MergeInventory, MergeRollup, vulnVars
  <2>. QED BY <2>2, <2>3, <2>4 DEF VulnNext
<1>3. ObservedInv => ObservedHasSite
  BY DEF ObservedInv
<1>. QED BY <1>1, <1>2, <1>3, PTL DEF VulnSpec

(* The rows of package i of request r, whenever they were written. *)
IsOf(x, r, i) ==
    /\ x.org = Req[r].org /\ x.service = Req[r].service
    /\ x.ecosystem = strings_ToLower(Req[r].ecosystem)
    /\ x.name = Req[r].packages[i].name /\ x.version = Req[r].packages[i].version

RowFields == {"org", "service", "ecosystem", "name", "version", "at"}

Rows == IsFiniteSet(inventory) /\ \A x \in inventory : DOMAIN x = RowFields

InStockSince(r, i) == \E x \in inventory : IsOf(x, r, i) /\ x.at >= since[r]

Filed(r, i, adv) ==
    \E f \in rollup :
        /\ f.org = Req[r].org /\ f.service = Req[r].service /\ f.id = adv.id
        /\ f.name = Req[r].packages[i].name /\ f.version = Req[r].packages[i].version

Due(r, i, adv) ==
    \/ Filed(r, i, adv)
    \/ \E f \in todo[r] : IsOf(f.dep, r, i) /\ f.adv = adv
    \/ pc[r] = "ranked" /\ IsOf(next[r].dep, r, i) /\ next[r].adv = adv

AffectsPackage(adv, r, i) ==
    /\ Req[r].packages[i].name # NoName
    /\ Affects(adv, Dependency(r, Req[r].packages[i], clock))

(* For one organization, without blanks around its name. *)
Named(r) == ~NoTenant(r) /\ Req[r].org = strings_TrimSpace(Req[r].org)

(* What an ingest has stored stays in stock until it selects; what it selected is due
   until it is filed. *)
IngestOf(r) ==
    Kind(r) = "sbom" /\ Named(r) /\ r \notin broken \cup crowded =>
        /\ pc[r] \in {"storing", "selecting"} =>
              \A i \in DOMAIN Req[r].packages :
                  i <= stored[r] /\ Req[r].packages[i].name # NoName => InStockSince(r, i)
        /\ pc[r] = "selecting" => stored[r] = Len(Req[r].packages)
        /\ pc[r] \in {"matching", "ranked", "done"} =>
              \A i \in DOMAIN Req[r].packages, adv \in Catalog :
                  AffectsPackage(adv, r, i) => Due(r, i, adv)
        /\ pc[r] = "done" => todo[r] = {}
        /\ pc[r] # "ranking"
        /\ pc[r] = "idle" => stored[r] = 0

IngestInv == VulnTypeInv /\ Rows /\ \A r \in Requests : IngestOf(r)

(* LIMIT takes all the rows that are no older than t, unless there are more of them. *)
LEMMA NewestAreTaken ==
    ASSUME NEW rows, IsFiniteSet(rows), \A x \in rows : x.at \in Nat,
           NEW s \in NewestOf(rows), NEW t \in Nat,
           ~(Cardinality({d \in rows : d.at >= t}) > MatchLimit),
           NEW x \in rows, x.at >= t
    PROVE  x \in s
<1>. DEFINE Fresh == {d \in rows : d.at >= t}
<1>. SUFFICES ASSUME x \notin s PROVE FALSE
  OBVIOUS
<1>1. MatchLimit \in Nat
  BY VulnAssumption
<1>2. /\ s \in SUBSET rows /\ \A a \in s, b \in rows \ s : a.at >= b.at
      /\ Cardinality(s) = IF Cardinality(rows) < MatchLimit THEN Cardinality(rows) ELSE MatchLimit
  BY DEF NewestOf, Limited
<1>3. s \subseteq Fresh \ {x} /\ x \in Fresh /\ Fresh \subseteq rows
  BY <1>2
<1>4. IsFiniteSet(Fresh) /\ IsFiniteSet(Fresh \ {x}) /\ Cardinality(Fresh \ {x}) + 1 = Cardinality(Fresh)
      /\ Cardinality(Fresh) \in Nat /\ Cardinality(Fresh \ {x}) \in Nat
  <2>1. IsFiniteSet(Fresh)
    BY NoMore
  <2>. QED BY <1>3, <2>1, OneLess
<1>5. Cardinality(s) <= Cardinality(Fresh \ {x}) /\ Cardinality(s) \in Nat
  BY <1>3, <1>4, NoMore
<1>6. Cardinality(Fresh) <= Cardinality(rows) /\ Cardinality(rows) \in Nat
  BY <1>3, NoMore
<1>7. Cardinality(Fresh) <= MatchLimit
  BY <1>1, <1>4
<1>. HIDE DEF Fresh
<1>. QED BY <1>1, <1>2, <1>4, <1>5, <1>6, <1>7

LEMMA RowsKept ==
    ASSUME VulnTypeInv, Rows, NEW r \in Requests, Request(r)
    PROVE  Rows' /\ inventory \subseteq inventory'
<1>1. CASE Store(r)
  <2>1. PICK p : inventory' \in {inventory, inventory \cup {Dependency(r, p, clock')}}
    BY <1>1 DEF Store
  <2>2. DOMAIN Dependency(r, p, clock') = RowFields
    BY DEF Dependency, RowFields
  <2>3. IsFiniteSet(inventory \cup {Dependency(r, p, clock')})
    BY OneMore DEF Rows
  <2>. QED BY <2>1, <2>2, <2>3 DEF Rows
<1>2. CASE UNCHANGED inventory
  BY <1>2 DEF Rows
<1>. QED BY <1>1, <1>2 DEF Request, Begin, StoredAll, SelectNone, Select, rankReachability, PutRanked, Put,
        SelectSome, rankReachabilityBatch, PutFromOsv, NoAnswer, Answer

(* A merge leaves a row of every key, and none that is older. *)
LEMMA MergeKeeps ==
    ASSUME VulnTypeInv, Rows, MergeInventory, NEW r \in Requests, NEW i
    PROVE  InStockSince(r, i) => InStockSince(r, i)'
<1>1. PICK x \in inventory : /\ inventory' = inventory \ {x}
                             /\ \E y \in inventory : /\ y # x /\ [y EXCEPT !.at = 0] = [x EXCEPT !.at = 0]
                                                     /\ y.at >= x.at
  BY DEF MergeInventory, Superseded
<1>2. PICK y \in inventory : y # x /\ [y EXCEPT !.at = 0] = [x EXCEPT !.at = 0] /\ y.at >= x.at
  BY <1>1
<1>3. y.org = x.org /\ y.service = x.service /\ y.ecosystem = x.ecosystem /\ y.name = x.name
      /\ y.version = x.version
  BY <1>2 DEF Rows, RowFields
<1>4. x.at \in Nat /\ y.at \in Nat /\ since[r] \in Nat /\ since' = since
  BY DEF VulnTypeInv, VulnTypeOK, MergeInventory, requestVars
<1>5. ASSUME NEW z \in inventory, IsOf(z, r, i), z.at >= since[r]
      PROVE  InStockSince(r, i)'
  <2>1. CASE z # x
    BY <1>1, <1>4, <1>5, <2>1 DEF InStockSince, IsOf
  <2>2. CASE z = x
    <3>1. y \in inventory' /\ IsOf(y, r, i) /\ y.at >= since[r]
      BY <1>1, <1>2, <1>3, <1>4, <1>5, <2>2 DEF IsOf
    <3>. QED BY <1>4, <3>1 DEF InStockSince, IsOf
  <2>. QED BY <2>1, <2>2
<1>. QED BY <1>5 DEF InStockSince

LEMMA FiledStays ==
    ASSUME VulnTypeInv, rollup \subseteq rollup' \/ MergeRollup, NEW r, NEW i, NEW adv, Filed(r, i, adv)
    PROVE  Filed(r, i, adv)'
<1>1. CASE rollup \subseteq rollup'
  BY <1>1 DEF Filed
<1>2. CASE MergeRollup
  <2>1. PICK x \in rollup : /\ rollup' = rollup \ {x}
                            /\ \E y \in rollup :
                                  /\ y # x
                                  /\ <<y.org, y.service, y.id, y.name, y.version>>
                                       = <<x.org, x.service, x.id, x.name, x.version>>
                                  /\ y.at >= x.at
    BY <1>2 DEF MergeRollup, Superseded
  <2>2. PICK y \in rollup : /\ y.org = x.org /\ y.service = x.service /\ y.id = x.id
                            /\ y.name = x.name /\ y.version = x.version /\ y # x
    BY <2>1
  <2>. QED BY <2>1, <2>2 DEF Filed
<1>. QED BY <1>1, <1>2

(* What the steps of others leave of an ingest. *)
LEMMA OthersIngest ==
    ASSUME VulnTypeInv, NEW q \in Requests, IngestOf(q),
           pc'[q] = pc[q], stored'[q] = stored[q], todo'[q] = todo[q], next'[q] = next[q],
           broken \subseteq broken', crowded \subseteq crowded',
           \A i : InStockSince(q, i) => InStockSince(q, i)',
           rollup \subseteq rollup' \/ MergeRollup
    PROVE  IngestOf(q)'
<1>1. \A i, adv : Filed(q, i, adv) => Filed(q, i, adv)'
  BY FiledStays
<1>2. \A i, adv : Due(q, i, adv) => Due(q, i, adv)'
  BY <1>1 DEF Due, IsOf
<1>3. \A i, adv : AffectsPackage(adv, q, i)' => AffectsPackage(adv, q, i)
  BY DEF AffectsPackage, Affects, Dependency
<1>. QED BY <1>2, <1>3 DEF IngestOf, Kind, Named, NoTenant

LEMMA StoreIngests ==
    ASSUME VulnTypeInv, NEW r \in Requests, IngestOf(r), Store(r)
    PROVE  IngestOf(r)'
<1>. SUFFICES ASSUME Req[r].kind = "sbom", Named(r), r \notin broken' \cup crowded'
              PROVE  IngestOf(r)'
  BY DEF IngestOf, Kind
<1>1. r \notin broken \cup crowded /\ pc[r] = "storing" /\ pc' = pc /\ since' = since
      /\ ~Fails(r)
  BY DEF Store, Works, Fails
<1>2. stored[r] \in Nat /\ stored'[r] = stored[r] + 1 /\ since[r] \in Nat /\ since[r] <= clock
      /\ clock \in Nat
  BY PackagesType DEF Store, VulnTypeInv, VulnTypeOK
<1>. DEFINE p == Req[r].packages[stored[r] + 1]
<1>3. /\ inventory \subseteq inventory' /\ (p.name # NoName => Dependency(r, p, clock') \in inventory')
      /\ clock' \in {clock, clock + 1}
  BY <1>1, <1>2 DEF Store, Tick
<1>4. ASSUME NEW i \in DOMAIN Req[r].packages, i <= stored'[r], Req[r].packages[i].name # NoName
      PROVE  InStockSince(r, i)'
  <2>1. CASE i = stored[r] + 1
    <3>1. IsOf(Dependency(r, p, clock'), r, i) /\ Dependency(r, p, clock').at >= since[r]
      BY <1>2, <1>3, <2>1 DEF IsOf, Dependency, Stamp, Kind
    <3>. QED BY <1>1, <1>3, <1>4, <2>1, <3>1 DEF InStockSince, IsOf
  <2>2. CASE i # stored[r] + 1
    <3>1. i <= stored[r]
      BY <1>2, <1>4, <2>2, PackagesType
    <3>2. InStockSince(r, i)
      BY <1>1, <1>4, <3>1 DEF IngestOf, Kind
    <3>. QED BY <1>1, <1>3, <3>2 DEF InStockSince, IsOf
  <2>. QED BY <2>1, <2>2
<1>. QED BY <1>1, <1>4 DEF IngestOf

LEMMA SelectIngests ==
    ASSUME VulnTypeInv, Rows, NEW r \in Requests, IngestOf(r), Select(r)
    PROVE  IngestOf(r)'
<1>. SUFFICES ASSUME Req[r].kind = "sbom", Named(r), r \notin broken' \cup crowded'
              PROVE  IngestOf(r)'
  BY DEF IngestOf, Kind
<1>. DEFINE rows == {d \in inventory : Where(r, d)}
<1>1. r \notin broken \cup crowded /\ pc[r] = "selecting" /\ pc'[r] = "matching"
      /\ stored'[r] = stored[r]
  BY DEF Select, Works, Fails, Go, VulnTypeInv, VulnTypeOK
<1>2. ~(Cardinality({d \in rows : d.at >= since[r]}) > MatchLimit)
  BY <1>1 DEF Select, Works, Fails
<1>3. PICK s \in NewestOf(rows) : todo'[r] = Findings(s, Catalog)
  BY <1>1 DEF Select, Fails, VulnTypeInv
<1>4. IsFiniteSet(rows) /\ since[r] \in Nat /\ \A x \in rows : x.at \in Nat
  BY NoMore DEF Rows, VulnTypeInv, VulnTypeOK
<1>5. ASSUME NEW i \in DOMAIN Req[r].packages, NEW adv \in Catalog, AffectsPackage(adv, r, i)
      PROVE  Due(r, i, adv)'
  <2>1. InStockSince(r, i)
    BY <1>1, <1>5, PackagesType DEF IngestOf, AffectsPackage, Kind
  <2>2. PICK x \in inventory : IsOf(x, r, i) /\ x.at >= since[r]
    BY <2>1 DEF InStockSince
  <2>3. x \in rows
    BY <2>2 DEF IsOf, Where, Named
  <2>. HIDE DEF rows
  <2>4. x \in s
    BY <1>2, <1>3, <1>4, <2>2, <2>3, NewestAreTaken
  <2>5. Affects(adv, x)
    BY <1>5, <2>2 DEF AffectsPackage, Affects, IsOf, Dependency
  <2>6. [dep |-> x, adv |-> adv] \in Findings(s, Catalog)
    <3>1. <<x, adv>> \in {y \in s \X Catalog : Affects(y[2], y[1])}
      BY <2>4, <2>5
    <3>. QED BY <3>1 DEF Findings
  <2>. QED BY <1>3, <2>2, <2>6 DEF Due, IsOf
<1>6. \A i, adv : AffectsPackage(adv, r, i)' => AffectsPackage(adv, r, i)
  BY DEF AffectsPackage, Affects, Dependency
<1>. QED BY <1>1, <1>5, <1>6 DEF IngestOf

LEMMA RequestIngests ==
    ASSUME VulnTypeInv, Rows, NEW r \in Requests, IngestOf(r), Request(r)
    PROVE  IngestOf(r)'
<1>. USE DEF Go, Kind
<1>. SUFFICES ASSUME Req[r].kind = "sbom", Named(r), r \notin broken' \cup crowded'
              PROVE  IngestOf(r)'
  BY DEF IngestOf
<1>1. /\ pc \in [Requests -> {"idle", "storing", "selecting", "ranking", "matching", "ranked", "done"}]
      /\ DOMAIN next = Requests /\ DOMAIN todo = Requests /\ DOMAIN stored = Requests
      /\ DOMAIN since = Requests /\ stored[r] \in 0 .. Len(Req[r].packages)
  BY DEF VulnTypeInv, VulnTypeOK
<1>2. \A i, adv : AffectsPackage(adv, r, i)' => AffectsPackage(adv, r, i)
  BY DEF AffectsPackage, Affects, Dependency
<1>3. CASE Begin(r)
  <2>1. pc[r] = "idle" /\ pc'[r] = "storing" /\ stored'[r] = stored[r]
        /\ r \notin broken \cup crowded
    BY <1>1, <1>3 DEF Begin, Refused, Named
  <2>2. stored'[r] = 0
    BY <2>1 DEF IngestOf
  <2>. QED BY <2>1, <2>2, PackagesType DEF IngestOf
<1>4. CASE Store(r)
  BY <1>4, StoreIngests
<1>5. CASE StoredAll(r)
  <2>1. pc[r] = "storing" /\ pc'[r] = "selecting" /\ r \notin broken \cup crowded
        /\ UNCHANGED <<stored, since, inventory>> /\ stored[r] = Len(Req[r].packages)
    BY <1>1, <1>5 DEF StoredAll
  <2>2. \A i : InStockSince(r, i) => InStockSince(r, i)'
    BY <2>1 DEF InStockSince, IsOf
  <2>. QED BY <2>1, <2>2 DEF IngestOf
<1>6. CASE Select(r)
  BY <1>6, SelectIngests
<1>7. CASE rankReachability(r)
  <2>1. PICK f \in todo[r] : next'[r] = f /\ todo'[r] = todo[r] \ {f}
    BY <1>1, <1>7 DEF rankReachability
  <2>2. pc[r] = "matching" /\ pc'[r] = "ranked" /\ r \notin broken \cup crowded /\ rollup' = rollup
    BY <1>1, <1>7 DEF rankReachability, Works, Fails
  <2>3. \A i, adv : Due(r, i, adv) => Due(r, i, adv)'
    BY <2>1, <2>2 DEF Due, Filed, IsOf
  <2>. QED BY <1>2, <2>2, <2>3 DEF IngestOf
<1>8. CASE PutRanked(r)
  <2>1. pc[r] = "ranked" /\ pc'[r] = "matching" /\ r \notin broken \cup crowded
        /\ todo'[r] = todo[r]
    BY <1>1, <1>8 DEF PutRanked, Put, Works, Fails
  <2>2. rollup' = rollup \cup {Finding(r, next[r], clock')}
    BY <1>8 DEF PutRanked, Put, Works, Fails
  <2>3. ASSUME NEW i, NEW adv, IsOf(next[r].dep, r, i), next[r].adv = adv
        PROVE  Filed(r, i, adv)'
    <3>. DEFINE f == Finding(r, next[r], clock')
    <3>1. f.org = next[r].dep.org /\ f.service = next[r].dep.service /\ f.id = adv.id
          /\ f.name = next[r].dep.name /\ f.version = next[r].dep.version
      BY <2>3 DEF Finding
    <3>2. f \in rollup'
      BY <2>2
    <3>. HIDE DEF f
    <3>. QED BY <2>3, <3>1, <3>2 DEF Filed, IsOf
  <2>4. \A i, adv : Filed(r, i, adv) => Filed(r, i, adv)'
    BY <2>2, FiledStays
  <2>5. \A i, adv : Due(r, i, adv) => Due(r, i, adv)'
    BY <2>1, <2>3, <2>4 DEF Due, IsOf
  <2>. QED BY <1>2, <2>1, <2>5 DEF IngestOf
<1>9. CASE rankReachabilityBatch(r)
  <2>1. pc[r] = "ranking" /\ r \notin broken \cup crowded
    BY <1>9 DEF rankReachabilityBatch, Works, Fails
  <2>. QED BY <2>1 DEF IngestOf
<1>10. CASE SelectNone(r) \/ SelectSome(r) \/ PutFromOsv(r) \/ NoAnswer(r)
  BY <1>10 DEF SelectNone, SelectSome, PutFromOsv, NoAnswer, Named
<1>11. CASE Answer(r)
  <2>1. pc[r] = "matching" /\ pc'[r] = "done" /\ r \notin broken \cup crowded
        /\ todo[r] = {} /\ todo' = todo /\ rollup' = rollup
    BY <1>1, <1>11 DEF Answer
  <2>2. \A i, adv : Due(r, i, adv) => Due(r, i, adv)'
    BY <2>1 DEF Due, Filed, IsOf
  <2>. QED BY <1>2, <2>1, <2>2 DEF IngestOf
<1>. QED BY <1>3, <1>4, <1>5, <1>6, <1>7, <1>8, <1>9, <1>10, <1>11 DEF Request

LEMMA RequestGrows ==
    ASSUME VulnTypeInv, NEW r \in Requests, Request(r)
    PROVE  rollup \subseteq rollup' /\ broken \subseteq broken' /\ crowded \subseteq crowded'
<1>1. CASE Begin(r) \/ Store(r) \/ StoredAll(r) \/ SelectNone(r) \/ Select(r)
  BY <1>1 DEF Begin, Store, StoredAll, SelectNone, Select, Works, Fails
<1>2. CASE rankReachability(r) \/ SelectSome(r) \/ rankReachabilityBatch(r) \/ NoAnswer(r) \/ Answer(r)
  BY <1>2 DEF rankReachability, SelectSome, rankReachabilityBatch, NoAnswer, Answer, Works, Fails
<1>3. CASE PutRanked(r) \/ PutFromOsv(r)
  BY <1>3 DEF PutRanked, PutFromOsv, Put, Works, Fails
<1>. QED BY <1>1, <1>2, <1>3 DEF Request

LEMMA IngestStep == IngestInv /\ [VulnNext]_vulnVars => IngestInv'
<1>. SUFFICES ASSUME IngestInv, [VulnNext]_vulnVars PROVE IngestInv'
  OBVIOUS
<1>1. VulnTypeInv /\ VulnTypeInv' /\ Rows /\ \A q \in Requests : IngestOf(q)
  BY VulnTypeStep DEF IngestInv
<1>2. ASSUME NEW r \in Requests, Request(r) PROVE IngestInv'
  <2>1. Rows' /\ inventory \subseteq inventory'
    BY <1>1, <1>2, RowsKept
  <2>2. IngestOf(r)'
    BY <1>1, <1>2, RequestIngests
  <2>3. ASSUME NEW q \in Requests, q # r PROVE IngestOf(q)'
    <3>1. pc'[q] = pc[q] /\ stored'[q] = stored[q] /\ since'[q] = since[q]
          /\ todo'[q] = todo[q] /\ next'[q] = next[q]
      BY <1>1, <1>2, <2>3, OtherRequests
    <3>2. \A i : InStockSince(q, i) => InStockSince(q, i)'
      BY <2>1, <3>1 DEF InStockSince, IsOf
    <3>3. rollup \subseteq rollup' /\ broken \subseteq broken' /\ crowded \subseteq crowded'
      BY <1>1, <1>2, RequestGrows
    <3>. QED BY <1>1, <3>1, <3>2, <3>3, OthersIngest
  <2>. QED BY <1>1, <2>1, <2>2, <2>3 DEF IngestInv
<1>3. ASSUME UNCHANGED requestVars, UNCHANGED <<broken, crowded>>, Rows',
             \A q \in Requests : \A i : InStockSince(q, i) => InStockSince(q, i)',
             rollup \subseteq rollup' \/ MergeRollup
      PROVE  IngestInv'
  <2>1. \A q \in Requests : IngestOf(q)'
    BY <1>1, <1>3, OthersIngest DEF requestVars
  <2>. QED BY <1>1, <1>3, <2>1 DEF IngestInv
<1>4. CASE MergeInventory
  <2>1. UNCHANGED requestVars /\ rollup' = rollup
    BY <1>4 DEF MergeInventory
  <2>2. \A q \in Requests : \A i : InStockSince(q, i) => InStockSince(q, i)'
    BY <1>1, <1>4, MergeKeeps
  <2>3. Rows'
    <3>1. PICK x : inventory' = inventory \ {x}
      BY <1>4 DEF MergeInventory
    <3>. QED BY <1>1, <3>1, NoMore DEF Rows
  <2>. QED BY <1>3, <2>1, <2>2, <2>3 DEF requestVars
<1>5. CASE (\E c \in CallSites : Report(c) \/ Forget(c)) \/ MergeRollup \/ UNCHANGED vulnVars
  <2>1. UNCHANGED requestVars /\ inventory' = inventory /\ (rollup' = rollup \/ MergeRollup)
    BY <1>5 DEF Report, Forget, MergeRollup, vulnVars
  <2>2. Rows' /\ \A q \in Requests : \A i : InStockSince(q, i) => InStockSince(q, i)'
    BY <1>1, <2>1 DEF Rows, InStockSince, IsOf, requestVars
  <2>. QED BY <1>3, <2>1, <2>2 DEF requestVars
<1>. QED BY <1>2, <1>4, <1>5 DEF VulnNext

(* An ingest for one organization, named without blanks around it, that answers has
   filed what the catalog has about its packages: the rows it stored are among the
   newest when it selects, whoever merges or writes. *)
THEOREM IngestsMatched == VulnSpec => []IngestMatched
<1>1. VulnInit => IngestInv
  <2>. SUFFICES ASSUME VulnInit PROVE IngestInv
    OBVIOUS
  <2>1. Rows
    BY VulnAssumption DEF VulnInit, Rows, Row, RowFields
  <2>2. \A r \in Requests : IngestOf(r)
    BY DEF VulnInit, IngestOf
  <2>. QED BY <2>1, <2>2, VulnTypeInit DEF IngestInv
<1>2. IngestInv => IngestMatched
  <2>. SUFFICES ASSUME IngestInv, NEW r \in Requests, pc[r] = "done", Kind(r) = "sbom",
                       Named(r), r \notin broken \cup crowded,
                       NEW i \in DOMAIN Req[r].packages, NEW adv \in Catalog,
                       Dependency(r, Req[r].packages[i], clock).name # NoName,
                       Affects(adv, Dependency(r, Req[r].packages[i], clock))
                PROVE  Filed(r, i, adv)
    BY DEF IngestMatched, Filed, Dependency, Named
  <2>1. AffectsPackage(adv, r, i)
    BY DEF AffectsPackage, Dependency
  <2>2. Due(r, i, adv) /\ todo[r] = {}
    BY <2>1 DEF IngestInv, IngestOf
  <2>. QED BY <2>2 DEF Due
<1>. QED BY <1>1, <1>2, IngestStep, PTL DEF VulnSpec

-----------------------------------------------------------------------------
(* The collection of lockfiles *)

LEMMA GreatestIsThere ==
    ASSUME NEW n \in Nat, NEW s \in SUBSET (1 .. n), s # {}
    PROVE  Max(s) \in s
<1>. DEFINE Bounds == {b \in Nat : \A x \in s : x <= b}
<1>1. n \in Bounds
  OBVIOUS
<1>2. PICK m \in Bounds : \A b \in Bounds : m <= b
  BY <1>1, Least
<1>3. m \in s
  <2>. SUFFICES ASSUME m \notin s PROVE FALSE
    OBVIOUS
  <2>1. \A x \in s : x \in Nat /\ x <= m - 1
    BY <1>2
  <2>2. m - 1 \in Nat
    <3>1. PICK x \in s : x \in 1 .. n
      OBVIOUS
    <3>2. x <= m /\ m \in Nat
      BY <1>2
    <3>. QED BY <3>1, <3>2
  <2>3. m - 1 \in Bounds
    BY <2>1, <2>2
  <2>. QED BY <1>2, <2>3
<1>4. \E x \in s : \A y \in s : x >= y
  BY <1>2, <1>3
<1>. QED BY <1>4 DEF Max

WellFormed(f) ==
    /\ f \in File
    /\ \A e \in Range(f.entries) : e \in Entry /\ (~Below(e) => Len(e.path) = 1)

(* Pairing changes no more of an entry than its version. *)
LEMMA ReadTypes ==
    ASSUME NEW f, WellFormed(f)
    PROVE  /\ f.entries \in Seq(Entry) /\ f.lines \in Seq(Release)
           /\ EntriesRead(f) \in Seq(Entry) /\ DOMAIN EntriesRead(f) = DOMAIN f.entries
           /\ \A k \in DOMAIN f.entries :
                 /\ f.entries[k] \in Range(f.entries)
                 /\ EntriesRead(f)[k].form = f.entries[k].form /\ EntriesRead(f)[k].path = f.entries[k].path
                 /\ EntriesRead(f)[k] # f.entries[k] =>
                       /\ EntriesRead(f)[k].version # f.entries[k].version
                       /\ EntriesRead(f)[k].version # NoText =>
                             \E j \in DOMAIN f.lines : EntriesRead(f)[k].version = f.lines[j]
           /\ \A e \in Range(EntriesRead(f)) : e \in Entry /\ (~Below(e) => Len(e.path) = 1)
<1>1. /\ f.entries \in Seq(Entry) /\ f.lines \in Seq(Release)
      /\ DOMAIN f.entries = 1 .. Len(f.entries) /\ Len(f.entries) \in Nat
  <2>1. f.entries \in Seq(Entry) /\ f.lines \in Seq(Release)
    BY DEF WellFormed, File
  <2>. QED BY <2>1
<1>2. \A k \in DOMAIN f.entries :
         /\ f.entries[k] \in Range(f.entries) /\ f.entries[k] \in Entry
         /\ ~Below(f.entries[k]) => Len(f.entries[k].path) = 1
  BY DEF WellFormed, Range
<1>3. \A j \in DOMAIN f.lines : f.lines[j] \in Release
  BY <1>1
<1>4. CASE f.base # "poetry.lock"
  <2>1. EntriesRead(f) = f.entries
    BY <1>4 DEF EntriesRead
  <2>. QED BY <1>1, <1>2, <2>1 DEF WellFormed
<1>5. CASE f.base = "poetry.lock"
  <2>. DEFINE V(k) == IF k \in DOMAIN f.lines THEN f.lines[k] ELSE NoText
  <2>1. EntriesRead(f) = [k \in DOMAIN f.entries |-> [f.entries[k] EXCEPT !.version = V(k)]]
    BY <1>5 DEF EntriesRead, parsePoetryLock
  <2>2. \A k \in DOMAIN f.entries : V(k) \in Release \cup {NoText}
    BY <1>3
  <2>3. ASSUME NEW k \in DOMAIN f.entries
        PROVE  /\ EntriesRead(f)[k] \in Entry
               /\ EntriesRead(f)[k].form = f.entries[k].form /\ EntriesRead(f)[k].path = f.entries[k].path
               /\ EntriesRead(f)[k].version = V(k)
               /\ V(k) = f.entries[k].version => EntriesRead(f)[k] = f.entries[k]
    <3>. HIDE DEF V
    <3>1. EntriesRead(f)[k] = [f.entries[k] EXCEPT !.version = V(k)]
      BY <2>1
    <3>. QED BY <1>2, <2>2, <3>1 DEF Entry
  <2>4. DOMAIN EntriesRead(f) = 1 .. Len(f.entries)
    BY <1>1, <2>1
  <2>5. \A k \in DOMAIN f.entries : V(k) # NoText => \E j \in DOMAIN f.lines : V(k) = f.lines[j]
    OBVIOUS
  <2>. HIDE DEF V
  <2>6. EntriesRead(f) \in Seq(Entry)
    <3>1. EntriesRead(f) = [k \in 1 .. Len(f.entries) |-> EntriesRead(f)[k]]
      BY <1>1, <2>1
    <3>2. \A k \in 1 .. Len(f.entries) : EntriesRead(f)[k] \in Entry
      BY <1>1, <2>3
    <3>3. EntriesRead(f) \in [1 .. Len(f.entries) -> Entry]
      BY <3>1, <3>2, Zenon
    <3>4. EntriesRead(f) \in UNION {[1 .. n -> Entry] : n \in Nat}
      BY <1>1, <3>3, Zenon
    <3>. QED BY <3>4, SeqDef, Zenon
  <2>7. \A e \in Range(EntriesRead(f)) : e \in Entry /\ (~Below(e) => Len(e.path) = 1)
    <3>1. \A k \in DOMAIN f.entries : Below(EntriesRead(f)[k]) <=> Below(f.entries[k])
      BY <2>3 DEF Below
    <3>. QED BY <1>1, <1>2, <2>3, <2>4, <3>1 DEF Range
  <2>. QED BY <1>1, <1>2, <2>3, <2>4, <2>5, <2>6, <2>7
<1>. QED BY <1>4, <1>5

LEMMA EcosystemType ==
    ASSUME NEW base, isDependencyLockPath(base)
    PROVE  Ecosystem(base) \in {"npm", "pypi", "composer", "go"}
BY DEF Ecosystem, isDependencyLockPath, isRequirements, dependencyLockBasenames

LEMMA DepType ==
    ASSUME NEW f, WellFormed(f), Looked(f), NEW e \in Range(EntriesRead(f)), Pinned(f, e)
    PROVE  DepOf(f, e) \in LockDep
<1>1. e \in Entry /\ e.version # NoText
  BY ReadTypes DEF Pinned
<1>2. e.version \in [v: BOOLEAN, number: Nat] /\ e.path \in Seq(Packages)
  BY <1>1 DEF Entry, Release
<1>3. NameOf(e) \in Seq(Packages)
  BY <1>2 DEF NameOf
<1>4. Ecosystem(f.base) \in {"npm", "pypi", "composer", "go"}
  BY EcosystemType DEF Looked
<1>. QED BY <1>2, <1>3, <1>4 DEF DepOf, LockDep

LEMMA AddedOnce ==
    ASSUME NEW deps \in Seq(LockDep), NEW d \in LockDep
    PROVE  /\ add(deps, d) \in Seq(LockDep)
           /\ IsInjective(deps) => IsInjective(add(deps, d))
           /\ Range(add(deps, d)) = Range(deps) \cup {d}
<1>1. CASE d \in Range(deps)
  BY <1>1 DEF add
<1>2. CASE d \notin Range(deps)
  <2>1. /\ Append(deps, d) \in Seq(LockDep)
        /\ DOMAIN Append(deps, d) = 1 .. Len(deps) + 1 /\ DOMAIN deps = 1 .. Len(deps)
        /\ Len(deps) \in Nat
        /\ \A i \in 1 .. Len(deps) : Append(deps, d)[i] = deps[i]
        /\ Append(deps, d)[Len(deps) + 1] = d
    OBVIOUS
  <2>2. IsInjective(deps) => IsInjective(Append(deps, d))
    BY <1>2, <2>1 DEF IsInjective, Range
  <2>3. Range(Append(deps, d)) = Range(deps) \cup {d}
    BY <2>1 DEF Range
  <2>. QED BY <1>2, <2>1, <2>2, <2>3 DEF add
<1>. QED BY <1>1, <1>2

(* The pinned entries of a file, as dependencies. *)
Taken(f) == {DepOf(f, e) : e \in {x \in Range(EntriesRead(f)) : Pinned(f, x)}}

(* The parse of a file adds its pinned entries, each once. *)
LEMMA FileAdded ==
    ASSUME NEW f, WellFormed(f), Looked(f), NEW deps \in Seq(LockDep), IsInjective(deps)
    PROVE  /\ addFile(f, deps) \in Seq(LockDep) /\ IsInjective(addFile(f, deps))
           /\ Range(addFile(f, deps)) = Range(deps) \cup Taken(f)
<1>0. /\ EntriesRead(f) \in Seq(Entry) /\ DOMAIN EntriesRead(f) = 1 .. Len(EntriesRead(f))
      /\ Len(EntriesRead(f)) \in Nat /\ IsFiniteSet(DOMAIN EntriesRead(f))
  <2>1. EntriesRead(f) \in Seq(Entry)
    BY ReadTypes
  <2>2. DOMAIN EntriesRead(f) = 1 .. Len(EntriesRead(f)) /\ Len(EntriesRead(f)) \in Nat
    BY <2>1
  <2>3. IsFiniteSet(1 .. Len(EntriesRead(f)))
    <3>1. 1 \in Int /\ Len(EntriesRead(f)) \in Int
      BY <2>2
    <3>. QED BY <3>1, FS_Interval, Zenon
  <2>. QED BY <2>1, <2>2, <2>3
<1>. DEFINE D == DOMAIN EntriesRead(f)
            pick == [s \in SUBSET D |-> Max(s)]
            step == [p \in D \X Seq(LockDep) |-> addEntry(f, p[2], EntriesRead(f)[p[1]])]
            Parse(g) == g = [s \in SUBSET D |->
                               IF s = {} THEN deps ELSE addEntry(f, g[s \ {Max(s)}], EntriesRead(f)[Max(s)])]
            DepAt(s) == {DepOf(f, EntriesRead(f)[k]) : k \in {j \in s : Pinned(f, EntriesRead(f)[j])}}
<1>1. D = 1 .. Len(EntriesRead(f)) /\ Len(EntriesRead(f)) \in Nat
  BY <1>0
<1>2. IsFiniteSet(D)
  BY <1>0
<1>3. Picks(pick, D)
  <2>1. \A s \in SUBSET D : s # {} => Max(s) \in s
    BY <1>1, GreatestIsThere
  <2>. QED BY <2>1 DEF Picks
<1>4. \A k \in D : EntriesRead(f)[k] \in Range(EntriesRead(f))
  BY DEF Range
<1>5. ASSUME NEW k \in D, NEW x \in Seq(LockDep)
      PROVE  /\ addEntry(f, x, EntriesRead(f)[k]) \in Seq(LockDep)
             /\ IsInjective(x) =>
                  /\ IsInjective(addEntry(f, x, EntriesRead(f)[k]))
                  /\ Range(addEntry(f, x, EntriesRead(f)[k])) = Range(x) \cup DepAt({k})
  <2>1. CASE Pinned(f, EntriesRead(f)[k])
    <3>1. DepOf(f, EntriesRead(f)[k]) \in LockDep
      BY <1>4, <2>1, DepType
    <3>2. addEntry(f, x, EntriesRead(f)[k]) = add(x, DepOf(f, EntriesRead(f)[k]))
      BY <2>1 DEF addEntry
    <3>3. DepAt({k}) = {DepOf(f, EntriesRead(f)[k])}
      BY <2>1
    <3>. QED BY <3>1, <3>2, <3>3, AddedOnce
  <2>2. CASE ~Pinned(f, EntriesRead(f)[k])
    BY <2>2 DEF addEntry
  <2>. QED BY <2>1, <2>2
<1>6. PICK g : Parse(g) /\ addFile(f, deps) = g[D]
  <2>1. \E g : Parse(g)
    <3>1. step \in [D \X Seq(LockDep) -> Seq(LockDep)]
      BY <1>5
    <3>. HIDE DEF step, pick, D
    <3>2. PICK g \in [SUBSET D -> Seq(LockDep)] : Folds(g, D, deps, step, pick)
      BY <1>2, <1>3, <3>1, FoldExists
    <3>3. \A s \in SUBSET D : s # {} =>
             step[<<pick[s], g[s \ {pick[s]}]>>] = addEntry(f, g[s \ {pick[s]}], EntriesRead(f)[pick[s]])
      <4>1. \A s \in SUBSET D : s # {} =>
               pick[s] \in D /\ g[s \ {pick[s]}] \in Seq(LockDep)
        BY <1>3, <3>2 DEF Picks
      <4>. QED BY <4>1 DEF step
    <3>4. g = [s \in SUBSET D |->
                 IF s = {} THEN deps ELSE addEntry(f, g[s \ {pick[s]}], EntriesRead(f)[pick[s]])]
      BY <3>2, <3>3 DEF Folds
    <3>5. Parse(g)
      BY <3>4 DEF pick
    <3>. QED BY <3>5
  <2>2. addFile(f, deps) = (CHOOSE g : Parse(g))[D]
    BY DEF addFile, FoldLeft, MapThenFoldSet
  <2>. QED BY <2>1, <2>2
<1>7. \A s \in SUBSET D :
         g[s] = IF s = {} THEN deps ELSE addEntry(f, g[s \ {pick[s]}], EntriesRead(f)[pick[s]])
  BY <1>6
<1>8. \A s \in SUBSET D : s # {} => pick[s] \in s
  BY <1>3 DEF Picks
<1>. DEFINE Good == {s \in SUBSET D : /\ g[s] \in Seq(LockDep) /\ IsInjective(g[s])
                                      /\ Range(g[s]) = Range(deps) \cup DepAt(s)}
<1>. HIDE DEF pick, D
<1>9. {} \in Good
  BY <1>7
<1>10. ASSUME NEW s \in SUBSET D, s # {}, s \ {pick[s]} \in Good
       PROVE  s \in Good
  <2>1. PICK k \in s : k = pick[s]
    BY <1>8, <1>10
  <2>2. g[s] = addEntry(f, g[s \ {k}], EntriesRead(f)[k])
    BY <1>7, <1>10, <2>1
  <2>3. /\ g[s \ {k}] \in Seq(LockDep) /\ IsInjective(g[s \ {k}])
        /\ Range(g[s \ {k}]) = Range(deps) \cup DepAt(s \ {k})
    BY <1>10, <2>1
  <2>4. g[s] \in Seq(LockDep) /\ IsInjective(g[s]) /\ Range(g[s]) = Range(g[s \ {k}]) \cup DepAt({k})
    BY <1>5, <2>2, <2>3
  <2>5. DepAt(s) = DepAt(s \ {k}) \cup DepAt({k})
    OBVIOUS
  <2>. QED BY <2>3, <2>4, <2>5
<1>11. D \in Good
  <2>. HIDE DEF Good
  <2>. QED BY <1>2, <1>3, <1>9, <1>10, OneByOne
<1>12. DepAt(D) = Taken(f)
  BY DEF D, Taken, Range
<1>. QED BY <1>6, <1>11, <1>12

(* The pinned entries of the files the walk has looked at. *)
Collected == UNION {Taken(f) : f \in ReadFiles}

CollectInv ==
    /\ toVisit \in Seq(File) /\ \A i \in DOMAIN toVisit : WellFormed(toVisit[i])
    /\ \A f \in visited : WellFormed(f)
    /\ walked \in BOOLEAN
    /\ out \in Seq(LockDep) /\ IsInjective(out) /\ Range(out) \subseteq Collected
    /\ ~walked \/ Len(out) < MaxDeps => Range(out) = Collected
    /\ walked => Len(out) <= MaxDeps /\ toVisit = <<>>

LEMMA CollectInit == LockInit => CollectInv
<1>. SUFFICES ASSUME LockInit PROVE CollectInv
  OBVIOUS
<1>1. toVisit \in Seq(File) /\ \A i \in DOMAIN toVisit : \A k \in DOMAIN toVisit[i].entries :
         ~Below(toVisit[i].entries[k]) => Len(toVisit[i].entries[k].path) = 1
  BY LockfilesAssumption DEF LockInit
<1>2. ASSUME NEW i \in DOMAIN toVisit PROVE WellFormed(toVisit[i])
  <2>1. toVisit[i] \in File
    BY <1>1
  <2>2. toVisit[i].entries \in Seq(Entry)
    BY <2>1 DEF File
  <2>. QED BY <1>1, <2>1, <2>2 DEF WellFormed, Range
<1>3. out = <<>> /\ out \in Seq(LockDep) /\ Range(out) = {} /\ IsInjective(out)
  BY DEF LockInit, Range, IsInjective
<1>4. Collected = {}
  BY DEF Collected, ReadFiles, LockInit
<1>. QED BY <1>1, <1>2, <1>3, <1>4 DEF LockInit, CollectInv

LEMMA VisitCollects == CollectInv /\ Visit => CollectInv'
<1>. SUFFICES ASSUME CollectInv, Visit PROVE CollectInv'
  OBVIOUS
<1>. DEFINE f == Head(toVisit)
<1>1. toVisit \in Seq(File) /\ toVisit # <<>> /\ toVisit' = Tail(toVisit)
      /\ walked = FALSE /\ walked' = FALSE
      /\ visited' = visited \cup {f} /\ out \in Seq(LockDep) /\ IsInjective(out)
      /\ out' = IF Looked(f) THEN addFile(f, out) ELSE out
  <2>1. walked \in BOOLEAN /\ ~walked /\ walked' = walked
    BY DEF CollectInv, Visit
  <2>. QED BY <2>1 DEF CollectInv, Visit
<1>2. f = toVisit[1] /\ 1 \in DOMAIN toVisit
  BY <1>1
<1>3. WellFormed(f)
  BY <1>2 DEF CollectInv
<1>4. toVisit' \in Seq(File) /\ \A i \in DOMAIN toVisit' : WellFormed(toVisit'[i])
  <2>1. toVisit' \in Seq(File) /\ \A i \in DOMAIN toVisit' :
           i + 1 \in DOMAIN toVisit /\ toVisit'[i] = toVisit[i + 1]
    BY <1>1
  <2>. QED BY <2>1 DEF CollectInv
<1>. HIDE DEF f
<1>5. Range(out) = Collected
  BY <1>1 DEF CollectInv
<1>6. Collected' = Collected \cup (IF Looked(f) THEN Taken(f) ELSE {})
  BY <1>1 DEF Collected, ReadFiles
<1>7. out' \in Seq(LockDep) /\ IsInjective(out') /\ Range(out') = Collected'
  <2>1. CASE Looked(f)
    BY <1>1, <1>3, <1>5, <1>6, <2>1, FileAdded
  <2>2. CASE ~Looked(f)
    BY <1>1, <1>5, <1>6, <2>2
  <2>. QED BY <2>1, <2>2
<1>8. \A g \in visited' : WellFormed(g)
  BY <1>1, <1>3 DEF CollectInv
<1>. QED BY <1>1, <1>4, <1>7, <1>8 DEF CollectInv

LEMMA ReturnCollects == CollectInv /\ Return => CollectInv'
<1>. SUFFICES ASSUME CollectInv, Return PROVE CollectInv'
  OBVIOUS
<1>1. out \in Seq(LockDep) /\ IsInjective(out) /\ Range(out) = Collected /\ toVisit = <<>>
      /\ Len(out) \in Nat /\ MaxDeps \in Nat /\ DOMAIN out = 1 .. Len(out)
  BY LockfilesAssumption DEF CollectInv, Return
<1>2. toVisit' = toVisit /\ visited' = visited /\ walked' = TRUE /\ Collected' = Collected
  BY DEF Collected, ReadFiles, Return
<1>. SUFFICES /\ out' \in Seq(LockDep) /\ IsInjective(out') /\ Range(out') \subseteq Collected
              /\ Len(out') < MaxDeps => Range(out') = Collected
              /\ Len(out') <= MaxDeps
  BY <1>1, <1>2 DEF CollectInv
<1>3. CASE Len(out) > MaxDeps
  <2>1. out' = SubSeq(out, 1, MaxDeps)
    BY <1>3 DEF Return
  <2>2. out' \in Seq(LockDep) /\ Len(out') = MaxDeps /\ DOMAIN out' = 1 .. MaxDeps
        /\ \A i \in 1 .. MaxDeps : i \in DOMAIN out /\ out'[i] = out[i]
    BY <1>1, <1>3, <2>1
  <2>3. IsInjective(out') /\ Range(out') \subseteq Range(out)
    BY <1>1, <2>2 DEF IsInjective, Range
  <2>. QED BY <1>1, <2>2, <2>3
<1>4. CASE ~(Len(out) > MaxDeps)
  <2>1. out' = out
    BY <1>4 DEF Return
  <2>. QED BY <1>1, <1>4, <2>1
<1>. QED BY <1>3, <1>4

LEMMA CollectStep == CollectInv /\ [LockNext]_lockVars => CollectInv'
<1>1. CollectInv /\ UNCHANGED lockVars => CollectInv'
  BY DEF CollectInv, Collected, ReadFiles, lockVars
<1>. QED BY <1>1, VisitCollects, ReturnCollects DEF LockNext

LEMMA CollectedSpec == LockSpec => []CollectInv
BY CollectInit, CollectStep, PTL DEF LockSpec

THEOREM LockTypeCorrect == LockSpec => []LockTypeOK
<1>1. CollectInv => LockTypeOK
  BY DEF CollectInv, WellFormed, LockTypeOK
<1>. QED BY CollectedSpec, <1>1, PTL

(* What is taken of the k-th entry is what it pins, if the name is that of a
   package and the version its own. *)
LEMMA PlainTaken ==
    ASSUME NEW f, WellFormed(f), NEW k \in DOMAIN f.entries
    PROVE  LET e == f.entries[k]
               x == EntriesRead(f)[k]
           IN  /\ e.form = "plain" /\ Pin(e, {"plain"}) /\ ~f.meta /\ x = e =>
                     Pinned(f, x) /\ DepOf(f, x) = PinOf(f, e)
               /\ Pinned(f, x) /\ Len(DepOf(f, x).package) = 1 =>
                     /\ DepOf(f, x).package = <<Last(e.path)>>
                     /\ x = e => /\ Pin(e, PinForms \cup {"workspace"})
                                 /\ DepOf(f, x) = PinOf(f, e)
<1>. DEFINE e == f.entries[k]
            x == EntriesRead(f)[k]
<1>0. x.form = e.form /\ x.path = e.path
  BY ReadTypes
<1>1. e.path \in Seq(Packages) /\ e.path # <<>> /\ e.form \in Forms
      /\ (~Below(e) => Len(e.path) = 1)
  BY ReadTypes DEF WellFormed, Entry
<1>2. Len(e.path) = 1 => e.path = <<Last(e.path)>>
  BY <1>1 DEF Last
<1>. HIDE DEF e, x
<1>3. Parsed(f) \subseteq {"plain", "nested", "workspace", "merged"} /\ (~f.meta => "plain" \in Parsed(f))
  BY DEF Parsed, parsePackageLock, parseYarnLock, parsePnpmLock, parseComposerLock,
         parsePipfileLock, parseGoSum, parseRequirementsPinFile
<1>4. ASSUME e.form = "plain", Pin(e, {"plain"}), ~f.meta, x = e
      PROVE  Pinned(f, x) /\ DepOf(f, x) = PinOf(f, e)
  <2>1. NameOf(e) = <<Last(e.path)>>
    BY <1>1, <1>2, <1>4 DEF NameOf, Below
  <2>. QED BY <1>3, <1>4, <2>1 DEF Pinned, Pin, DepOf, PinOf
<1>5. ASSUME Pinned(f, x), Len(DepOf(f, x).package) = 1
      PROVE  /\ DepOf(f, x).package = <<Last(e.path)>>
             /\ x = e => Pin(e, PinForms \cup {"workspace"}) /\ DepOf(f, x) = PinOf(f, e)
  <2>1. x.form # "merged"
    <3>1. Len(e.path) \in Nat /\ Len(e.path \o e.path) = Len(e.path) + Len(e.path)
      BY <1>1
    <3>. QED BY <1>0, <1>5, <3>1 DEF DepOf, NameOf
  <2>2. NameOf(x) = e.path
    BY <1>0, <2>1 DEF NameOf
  <2>3. NameOf(x) = <<Last(e.path)>>
    BY <1>2, <1>5, <2>2 DEF DepOf
  <2>4. DepOf(f, x).package = <<Last(e.path)>>
    BY <2>3 DEF DepOf
  <2>5. x.form \in PinForms \cup {"workspace"}
    BY <1>0, <1>1, <1>3, <1>5 DEF Pinned, PinForms
  <2>. QED BY <1>5, <2>3, <2>4, <2>5 DEF Pinned, Pin, DepOf, PinOf
<1>. QED BY <1>4, <1>5 DEF e, x

(* The walk asks once about every pin of the plain forms that is paired with its
   version, and about no other plain name but those of workspaces and of pairs
   that a poetry.lock does not have, in any checkout. *)
THEOREM PlainPins == LockSpec => []PlainPinsCollected
<1>1. CollectInv => PlainPinsCollected
  <2>. SUFFICES ASSUME CollectInv, walked PROVE PlainPinsCollected
    BY DEF PlainPinsCollected
  <2>1. IsInjective(out) /\ Len(out) <= MaxDeps
    BY DEF CollectInv
  <2>2. ASSUME Len(out) < MaxDeps, NEW f \in ReadFiles, ~f.meta, Paired(f),
               NEW e \in Range(f.entries), Pin(e, {"plain"})
        PROVE  PinOf(f, e) \in Range(out)
    <3>1. WellFormed(f) /\ Range(out) = Collected
      BY <2>2 DEF CollectInv, ReadFiles
    <3>2. PICK k \in DOMAIN f.entries : e = f.entries[k]
      BY DEF Range
    <3>3. EntriesRead(f)[k] = e /\ EntriesRead(f)[k] \in Range(EntriesRead(f))
      BY <2>2, <3>1, <3>2, ReadTypes DEF Paired, Range
    <3>4. Pinned(f, EntriesRead(f)[k]) /\ DepOf(f, EntriesRead(f)[k]) = PinOf(f, e)
      BY <2>2, <3>1, <3>2, <3>3, PlainTaken DEF Pin
    <3>5. PinOf(f, e) \in Taken(f)
      BY <3>3, <3>4 DEF Taken
    <3>. QED BY <3>1, <3>5 DEF Collected
  <2>3. Len(out) < MaxDeps =>
           Pins({f \in ReadFiles : ~f.meta /\ Paired(f)}, {"plain"}) \subseteq Range(out)
    BY <2>2 DEF Pins
  <2>4. ASSUME NEW d \in Range(out), Len(d.package) = 1
        PROVE  d \in Pins(ReadFiles, PinForms \cup {"workspace"}) \/ Mispaired(d)
    <3>1. PICK f \in ReadFiles : d \in Taken(f)
      BY <2>4 DEF CollectInv, Collected
    <3>2. WellFormed(f)
      BY DEF CollectInv, ReadFiles
    <3>3. PICK k \in DOMAIN f.entries : Pinned(f, EntriesRead(f)[k]) /\ d = DepOf(f, EntriesRead(f)[k])
      <4>1. PICK x \in Range(EntriesRead(f)) : Pinned(f, x) /\ d = DepOf(f, x)
        BY <3>1 DEF Taken
      <4>2. PICK k \in DOMAIN EntriesRead(f) : x = EntriesRead(f)[k]
        BY DEF Range
      <4>3. DOMAIN EntriesRead(f) = DOMAIN f.entries
        BY <3>2, ReadTypes
      <4>. QED BY <4>1, <4>2, <4>3
    <3>4. d.package = <<Last(f.entries[k].path)>>
      BY <2>4, <3>2, <3>3, PlainTaken
    <3>5. CASE EntriesRead(f)[k] = f.entries[k]
      <4>1. /\ Pin(f.entries[k], PinForms \cup {"workspace"}) /\ d = PinOf(f, f.entries[k])
            /\ f.entries[k] \in Range(f.entries)
        BY <2>4, <3>2, <3>3, <3>5, PlainTaken, ReadTypes
      <4>. QED BY <4>1 DEF Pins
    <3>6. CASE EntriesRead(f)[k] # f.entries[k]
      <4>1. ~Paired(f)
        BY <3>2, <3>6, ReadTypes DEF Paired
      <4>2. EntriesRead(f)[k].version # NoText /\ d.version = EntriesRead(f)[k].version.number
        BY <3>3 DEF Pinned, DepOf
      <4>3. \E j \in DOMAIN f.lines : EntriesRead(f)[k].version = f.lines[j]
        BY <3>2, <3>6, <4>2, ReadTypes
      <4>. QED BY <3>4, <4>1, <4>2, <4>3 DEF Mispaired
    <3>. QED BY <3>5, <3>6
  <2>. QED BY <2>1, <2>3, <2>4 DEF PlainPinsCollected
<1>. QED BY CollectedSpec, <1>1, PTL

-----------------------------------------------------------------------------
(* The parts together *)

(* A behaviour of MCParts is, for each part, one of that part, which only stutters
   unless it is the part chosen: what is proved of a part holds in MCParts. *)
LEMMA PartsOfParts ==
    PartsSpec => BookSpec /\ FixSpec /\ LockSpec /\ BackfillSpec /\ VulnSpec
<1>1. PartsInit => BookInit /\ FixInit /\ LockInit /\ BackfillInit /\ VulnInit
  BY DEF PartsInit
<1>2. [PartsNext]_partsVars =>
         /\ [BookNext]_bookVars /\ [FixNext]_fixVars /\ [LockNext]_lockVars
         /\ [BackfillNext]_backfillVars /\ [VulnNext]_vulnVars
  BY DEF PartsNext, InBook, InFix, InLock, InBackfill, InVuln, partsVars
<1>. QED BY <1>1, <1>2, PTL DEF PartsSpec, BookSpec, FixSpec, LockSpec, BackfillSpec, VulnSpec

(* The variables of all five parts have their types. *)
THEOREM PartsTypesCorrect == PartsSpec => []PartsTypeOK
BY PartsOfParts, BookTypeCorrect, FixTypeCorrect, LockTypeCorrect, BackfillTypeCorrect,
   VulnTypeCorrect, PTL DEF PartsTypeOK

(* And what the run of MCParts asks of them holds of any instance: of the score's
   arithmetic, the choice of a fix, the collection, the copies, the inventory. *)
THEOREM PartsKeep ==
    PartsSpec => [](/\ MeanOfMeasured /\ PerfectMeansNoPenalty
                    /\ GitFixIsTold /\ LikelyAgrees
                    /\ PlainPinsCollected
                    /\ CopiedOnce
                    /\ IngestMatched /\ ObservedHasSite)
BY PartsOfParts, MeanIsOfMeasured, PerfectIsUnweighed, GitFixTold, ComparatorsAgree, PlainPins,
   CopiesCounted, IngestsMatched, ObservedHasEvidence, PTL
=============================================================================
