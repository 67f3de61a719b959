--------------------------- MODULE FixChoiceProofs ---------------------------
(***************************************************************************)
(* cmpVersion orders all version texts, and nearestFix finds the nearest    *)
(* fix in that order, for any advisory.                                     *)
(***************************************************************************)
EXTENDS FixChoice, WellFoundedInduction, TLAPS

-----------------------------------------------------------------------------
(* The order of versions *)

Positions == Nat \ {0}

LEMMA Least ==
    ASSUME NEW T \in SUBSET Nat, T # {}
    PROVE  \E m \in T : \A n \in T : m <= n
<1>1. PICK m \in T : \A n \in T : <<n, m>> \notin OpToRel(<, Nat)
  BY WFMin, NatLessThanWellFounded, Zenon
<1>2. \A n \in T : ~(n < m)
  BY <1>1, Zenon DEF OpToRel
<1>. QED BY <1>2

(* A number is read only from a segment that is there. *)
LEMMA NumAtType ==
    ASSUME NEW v \in VersionText, NEW i \in Positions
    PROVE  /\ NumAt(v, i) \in Nat
           /\ NumAt(v, i) # 0 => i <= Len(v.segs)
           /\ Len(v.segs) \in Nat
<1>1. v.segs \in Seq(Seg)
  BY DEF VersionText
<1>. QED BY <1>1 DEF NumAt, Read, Positions

(* The first position that differs, wherever it is. *)
NumsBelow(a, b) ==
    \E i \in Positions :
        /\ NumAt(a, i) < NumAt(b, i)
        /\ \A j \in Positions : j < i => NumAt(a, j) = NumAt(b, j)

NumsEqual(a, b) == \A i \in Positions : NumAt(a, i) = NumAt(b, i)

LEMMA NumsLowerIsBelow ==
    ASSUME NEW a \in VersionText, NEW b \in VersionText
    PROVE  NumsLower(a, b) <=> NumsBelow(a, b)
<1>1. ASSUME NumsLower(a, b) PROVE NumsBelow(a, b)
  <2>1. PICK i \in 1 .. Longer(a.segs, b.segs) :
               /\ NumAt(a, i) < NumAt(b, i)
               /\ \A j \in 1 .. i - 1 : NumAt(a, j) = NumAt(b, j)
    BY <1>1 DEF NumsLower
  <2>2. i \in Positions
    BY NumAtType DEF Longer, Positions
  <2>3. \A j \in Positions : j < i => j \in 1 .. i - 1
    BY <2>2 DEF Positions
  <2>. QED BY <2>1, <2>2, <2>3 DEF NumsBelow
<1>2. ASSUME NumsBelow(a, b) PROVE NumsLower(a, b)
  <2>1. PICK i \in Positions :
               /\ NumAt(a, i) < NumAt(b, i)
               /\ \A j \in Positions : j < i => NumAt(a, j) = NumAt(b, j)
    BY <1>2 DEF NumsBelow
  <2>2. NumAt(b, i) # 0
    BY <2>1, NumAtType
  <2>3. i <= Len(b.segs) /\ Len(a.segs) \in Nat /\ Len(b.segs) \in Nat
    BY <2>2, NumAtType
  <2>4. i \in 1 .. Longer(a.segs, b.segs)
    BY <2>3 DEF Longer, Positions
  <2>5. \A j \in 1 .. i - 1 : j \in Positions /\ j < i
    BY DEF Positions
  <2>. QED BY <2>1, <2>4, <2>5 DEF NumsLower
<1>. QED BY <1>1, <1>2

LEMMA NumsTrichotomy ==
    ASSUME NEW a \in VersionText, NEW b \in VersionText
    PROVE  NumsBelow(a, b) \/ NumsBelow(b, a) \/ NumsEqual(a, b)
<1>. DEFINE T == {i \in Positions : NumAt(a, i) # NumAt(b, i)}
<1>1. CASE T = {}
  BY <1>1 DEF NumsEqual
<1>2. CASE T # {}
  <2>1. PICK m \in T : \A n \in T : m <= n
    BY <1>2, Least DEF Positions
  <2>2. \A j \in Positions : j < m => NumAt(a, j) = NumAt(b, j)
    BY <2>1 DEF Positions
  <2>3. NumAt(a, m) < NumAt(b, m) \/ NumAt(b, m) < NumAt(a, m)
    BY NumAtType
  <2>. QED BY <2>2, <2>3 DEF NumsBelow
<1>. QED BY <1>1, <1>2

LEMMA NumsBelowTransitive ==
    ASSUME NEW a \in VersionText, NEW b \in VersionText, NEW c \in VersionText,
           NumsBelow(a, b), NumsBelow(b, c)
    PROVE  NumsBelow(a, c)
<1>1. PICK i \in Positions :
             /\ NumAt(a, i) < NumAt(b, i)
             /\ \A j \in Positions : j < i => NumAt(a, j) = NumAt(b, j)
  BY DEF NumsBelow
<1>2. PICK k \in Positions :
             /\ NumAt(b, k) < NumAt(c, k)
             /\ \A j \in Positions : j < k => NumAt(b, j) = NumAt(c, j)
  BY DEF NumsBelow
<1>3. CASE i < k
  BY <1>1, <1>2, <1>3 DEF NumsBelow, Positions
<1>4. CASE k < i
  BY <1>1, <1>2, <1>4 DEF NumsBelow, Positions
<1>5. CASE i = k
  <2>1. NumAt(a, i) < NumAt(c, i)
    BY <1>1, <1>2, <1>5, NumAtType
  <2>. QED BY <1>1, <1>2, <1>5, <2>1 DEF NumsBelow, Positions
<1>. QED BY <1>3, <1>4, <1>5 DEF Positions

LEMMA NumsBelowIrreflexive ==
    ASSUME NEW a \in VersionText PROVE ~NumsBelow(a, a)
BY NumAtType DEF NumsBelow

-----------------------------------------------------------------------------
(* The order of prereleases *)

LEMMA PreType == ASSUME NEW v \in VersionText PROVE Pre(v) \in Seq(Ident)
<1>1. v.segs \in Seq(Seg) /\ v.dash \in Seq(Ident)
  BY DEF VersionText
<1>2. CASE v.dash # <<>> \/ Tailed(v) = {}
  BY <1>1, <1>2 DEF Pre
<1>3. CASE v.dash = <<>> /\ Tailed(v) # {}
  <2>1. PICK i \in Tailed(v) : i = CHOOSE k \in Tailed(v) : TRUE
    BY <1>3
  <2>2. i \in DOMAIN v.segs /\ v.segs[i].tail # NoTail
    BY <2>1 DEF Tailed, Read
  <2>3. v.segs[i] \in Seg
    BY <1>1, <2>2
  <2>4. v.segs[i].tail \in Ident
    BY <2>2, <2>3 DEF Seg
  <2>5. Pre(v) = <<v.segs[i].tail>>
    BY <1>3, <2>1 DEF Pre
  <2>. QED BY <2>4, <2>5
<1>. QED BY <1>2, <1>3

LEMMA IdentOrder ==
    ASSUME NEW x \in Ident, NEW y \in Ident, NEW z \in Ident
    PROVE  /\ ~IdentLower(x, x)
           /\ IdentLower(x, y) /\ IdentLower(y, z) => IdentLower(x, z)
           /\ IdentLower(x, y) \/ IdentLower(y, x) \/ x = y
BY DEF Ident, IdentLower

LEMMA PreLowerIrreflexive ==
    ASSUME NEW s \in Seq(Ident) PROVE ~PreLower(s, s)
<1>1. \A i \in 1 .. Shorter(s, s) : s[i] \in Ident
  BY DEF Shorter
<1>. QED BY <1>1, IdentOrder DEF PreLower

LEMMA PreLowerTransitive ==
    ASSUME NEW s \in Seq(Ident), NEW t \in Seq(Ident), NEW u \in Seq(Ident),
           PreLower(s, t), PreLower(t, u)
    PROVE  PreLower(s, u)
<1>. DEFINE Differ(p, r, i) == /\ i \in 1 .. Shorter(p, r)
                               /\ IdentLower(p[i], r[i])
                               /\ \A j \in 1 .. i - 1 : p[j] = r[j]
            Prefix(p, r) == Len(p) < Len(r) /\ \A j \in 1 .. Len(p) : p[j] = r[j]
<1>1. /\ (\E i \in Nat : Differ(s, t, i)) \/ Prefix(s, t)
      /\ (\E i \in Nat : Differ(t, u, i)) \/ Prefix(t, u)
  BY DEF PreLower, Shorter
<1>2. ASSUME NEW i \in Nat, Differ(s, u, i) PROVE PreLower(s, u)
  BY <1>2 DEF PreLower
<1>3. ASSUME Prefix(s, u) PROVE PreLower(s, u)
  BY <1>3 DEF PreLower
<1>4. ASSUME NEW i \in Nat, Differ(s, t, i), NEW k \in Nat, Differ(t, u, k)
      PROVE  PreLower(s, u)
  <2>1. CASE i < k
    BY <1>2, <1>4, <2>1 DEF Shorter
  <2>2. CASE k < i
    BY <1>2, <1>4, <2>2 DEF Shorter
  <2>3. CASE i = k
    <3>1. s[i] \in Ident /\ t[i] \in Ident /\ u[i] \in Ident
      BY <1>4, <2>3 DEF Shorter
    <3>2. IdentLower(s[i], u[i])
      BY <1>4, <2>3, <3>1, IdentOrder
    <3>. QED BY <1>2, <1>4, <2>3, <3>2 DEF Shorter
  <2>. QED BY <2>1, <2>2, <2>3
<1>5. ASSUME NEW i \in Nat, Differ(s, t, i), Prefix(t, u) PROVE PreLower(s, u)
  BY <1>2, <1>5 DEF Shorter
<1>6. ASSUME Prefix(s, t), NEW k \in Nat, Differ(t, u, k) PROVE PreLower(s, u)
  <2>1. CASE k <= Len(s)
    BY <1>2, <1>6, <2>1 DEF Shorter
  <2>2. CASE k > Len(s)
    BY <1>3, <1>6, <2>2 DEF Shorter
  <2>. QED BY <2>1, <2>2
<1>7. ASSUME Prefix(s, t), Prefix(t, u) PROVE PreLower(s, u)
  BY <1>3, <1>7
<1>. QED BY <1>1, <1>4, <1>5, <1>6, <1>7

LEMMA PreLowerTrichotomy ==
    ASSUME NEW s \in Seq(Ident), NEW t \in Seq(Ident)
    PROVE  PreLower(s, t) \/ PreLower(t, s) \/ s = t
<1>. DEFINE T == {i \in 1 .. Shorter(s, t) : s[i] # t[i]}
<1>1. CASE T # {}
  <2>0. T \in SUBSET Nat
    BY DEF Shorter
  <2>1. PICK m \in T : \A n \in T : m <= n
    <3>. HIDE DEF T
    <3>. QED BY <1>1, <2>0, Least
  <2>2. \A j \in 1 .. m - 1 : s[j] = t[j]
    BY <2>1 DEF Shorter
  <2>3. m \in 1 .. Shorter(s, t) /\ m \in 1 .. Shorter(t, s)
        /\ s[m] \in Ident /\ t[m] \in Ident /\ s[m] # t[m]
    BY DEF Shorter
  <2>4. IdentLower(s[m], t[m]) \/ IdentLower(t[m], s[m])
    BY <2>3, IdentOrder
  <2>. QED BY <2>2, <2>3, <2>4 DEF PreLower
<1>2. CASE T = {}
  <2>1. CASE Len(s) < Len(t)
    BY <1>2, <2>1 DEF PreLower, Shorter
  <2>2. CASE Len(t) < Len(s)
    BY <1>2, <2>2 DEF PreLower, Shorter
  <2>3. CASE Len(s) = Len(t)
    BY <1>2, <2>3 DEF Shorter
  <2>. QED BY <2>1, <2>2, <2>3
<1>. QED BY <1>1, <1>2

LEMMA TailOrder ==
    ASSUME NEW s \in Seq(Ident), NEW t \in Seq(Ident), NEW u \in Seq(Ident)
    PROVE  /\ ~TailLower(s, s)
           /\ TailLower(s, t) /\ TailLower(t, u) => TailLower(s, u)
           /\ TailLower(s, t) \/ TailLower(t, s) \/ s = t
BY PreLowerIrreflexive, PreLowerTransitive, PreLowerTrichotomy DEF TailLower

-----------------------------------------------------------------------------
Same(a, b) == NumsEqual(a, b) /\ Pre(a) = Pre(b)

LEMMA LowerMeans ==
    ASSUME NEW a \in VersionText, NEW b \in VersionText
    PROVE  Lower(a, b) <=> \/ NumsBelow(a, b)
                           \/ NumsEqual(a, b) /\ TailLower(Pre(a), Pre(b))
<1>1. NumsEqual(a, b) => ~NumsBelow(b, a)
  BY NumAtType DEF NumsEqual, NumsBelow
<1>. QED BY <1>1, NumsLowerIsBelow, NumsTrichotomy DEF Lower

LEMMA LowerIrreflexive == ASSUME NEW a \in VersionText PROVE ~Lower(a, a)
BY LowerMeans, NumsBelowIrreflexive, PreType, TailOrder

LEMMA LowerTransitive ==
    ASSUME NEW a \in VersionText, NEW b \in VersionText, NEW c \in VersionText,
           Lower(a, b), Lower(b, c)
    PROVE  Lower(a, c)
<1>1. CASE NumsBelow(a, b) /\ NumsBelow(b, c)
  BY <1>1, NumsBelowTransitive, LowerMeans
<1>2. CASE NumsBelow(a, b) /\ NumsEqual(b, c)
  <2>1. NumsBelow(a, c)
    BY <1>2 DEF NumsBelow, NumsEqual
  <2>. QED BY <2>1, LowerMeans
<1>3. CASE NumsEqual(a, b) /\ NumsBelow(b, c)
  <2>1. NumsBelow(a, c)
    BY <1>3 DEF NumsBelow, NumsEqual
  <2>. QED BY <2>1, LowerMeans
<1>4. CASE /\ NumsEqual(a, b) /\ TailLower(Pre(a), Pre(b))
           /\ NumsEqual(b, c) /\ TailLower(Pre(b), Pre(c))
  <2>1. NumsEqual(a, c)
    BY <1>4 DEF NumsEqual
  <2>2. TailLower(Pre(a), Pre(c))
    BY <1>4, PreType, TailOrder
  <2>. QED BY <2>1, <2>2, LowerMeans
<1>. QED BY <1>1, <1>2, <1>3, <1>4, LowerMeans

LEMMA LowerTrichotomy ==
    ASSUME NEW a \in VersionText, NEW b \in VersionText
    PROVE  Lower(a, b) \/ Lower(b, a) \/ Same(a, b)
<1>1. NumsEqual(a, b) => NumsEqual(b, a)
  BY DEF NumsEqual
<1>. QED BY <1>1, NumsTrichotomy, LowerMeans, PreType, TailOrder DEF Same

LEMMA LowerOfSame ==
    ASSUME NEW a \in VersionText, NEW b \in VersionText, NEW c \in VersionText,
           Lower(a, b), Same(b, c)
    PROVE  Lower(a, c)
<1>1. CASE NumsBelow(a, b)
  <2>1. NumsBelow(a, c)
    BY <1>1 DEF NumsBelow, NumsEqual, Same
  <2>. QED BY <2>1, LowerMeans
<1>2. CASE NumsEqual(a, b) /\ TailLower(Pre(a), Pre(b))
  <2>1. NumsEqual(a, c)
    BY <1>2 DEF NumsEqual, Same
  <2>. QED BY <1>2, <2>1, LowerMeans DEF Same
<1>. QED BY <1>1, <1>2, LowerMeans

(* cmpVersion is an order of all version texts, whatever scheme they follow:
   it depends on no order of its arguments, and what is not above a version is
   not above what that version is not above.  Two texts are level only if all
   their numbers and their prereleases are the same, so no fix is taken for
   the installed version because a segment was cut off. *)
THEOREM VersionsAreOrdered ==
    ASSUME NEW a \in VersionText, NEW b \in VersionText, NEW c \in VersionText
    PROVE  /\ cmpVersion(a, b) = -cmpVersion(b, a)
           /\ cmpVersion(a, b) <= 0 /\ cmpVersion(b, c) <= 0 => cmpVersion(a, c) <= 0
           /\ cmpVersion(a, b) = 0 => Same(a, b)
<1>1. ~(Lower(a, b) /\ Lower(b, a))
  BY LowerTransitive, LowerIrreflexive
<1>2. ~Lower(b, a) /\ ~Lower(c, b) => ~Lower(c, a)
  <2>. SUFFICES ASSUME ~Lower(b, a), ~Lower(c, b), Lower(c, a) PROVE FALSE
    OBVIOUS
  <2>1. CASE Lower(a, b)
    BY <2>1, LowerTransitive
  <2>2. CASE Same(a, b)
    BY <2>2, LowerOfSame
  <2>. QED BY <2>1, <2>2, LowerTrichotomy
<1>3. \A x, y \in VersionText : cmpVersion(x, y) <= 0 => ~Lower(y, x)
  BY LowerTransitive, LowerIrreflexive DEF cmpVersion
<1>4. \A x, y \in VersionText : ~Lower(y, x) => cmpVersion(x, y) <= 0
  BY DEF cmpVersion
<1>5. cmpVersion(a, b) = 0 => Same(a, b)
  BY LowerTrichotomy DEF cmpVersion
<1>6. cmpVersion(a, b) = -cmpVersion(b, a)
  BY <1>1 DEF cmpVersion
<1>. QED BY <1>2, <1>3, <1>4, <1>5, <1>6

-----------------------------------------------------------------------------
(* The fix *)

(* The versions that nearestFix takes for upgrades, in the code's own order. *)
FixesAbove ==
    {e.at : e \in {f \in read : f.kind = "fixed" /\ ~f.git /\ Upgrade(f.at)}}

(* The result is the least of them, if there is one. *)
BestInv ==
    IF best = NoVersion THEN FixesAbove = {}
    ELSE best \in FixesAbove /\ \A v \in FixesAbove : ~Lower(v, best)

(* The introductions read so far, the beginning itself apart. *)
StartsRead ==
    {e.at : e \in {f \in read : f.kind = "introduced" /\ ~f.git /\ f.at # Zero}}

(* The least of them is kept, if there is one. *)
IntroInv ==
    IF intro = NoVersion THEN StartsRead = {}
    ELSE intro \in StartsRead /\ \A v \in StartsRead : ~Lower(v, intro)

(* What is no commit of a GIT range is a version. *)
ReadInv == \A e \in read : ~e.git => e.at \in Texts

(* The flags, and what the end of the reading makes of them. *)
VerdictInv ==
    /\ sawGitFix <=> \E e \in read : e.git /\ e.kind = "fixed"
    /\ read # {} => range # "none"
    /\ state # "reading" => state = Verdict

FixInv == FixTypeOK /\ ReadInv /\ BestInv /\ IntroInv /\ VerdictInv

LEMMA Replacing ==
    ASSUME NEW v \in VersionText, NEW w \in VersionText
    PROVE  /\ cmpVersion(v, w) < 0 <=> Lower(v, w)
           /\ cmpVersion(v, w) > 0 <=> Lower(w, v)
BY LowerTransitive, LowerIrreflexive DEF cmpVersion

LEMMA FixInitInv == FixInit => FixInv
<1>. SUFFICES ASSUME FixInit PROVE FixInv
  OBVIOUS
<1>1. FixTypeOK
  BY DEF FixInit, FixTypeOK, SomeVersion
<1>2. FixesAbove = {} /\ StartsRead = {}
  BY DEF FixInit, FixesAbove, StartsRead
<1>3. ReadInv /\ BestInv /\ IntroInv /\ VerdictInv
  BY <1>2 DEF FixInit, ReadInv, BestInv, IntroInv, VerdictInv
<1>. QED BY <1>1, <1>3 DEF FixInv

LEMMA ReadKeeps ==
    ASSUME FixInv, NEW e \in Event, ReadEvent(e)
    PROVE  FixInv'
<1>1. /\ read' = read \cup {e} /\ installed' = installed /\ range' = range /\ state' = state
      /\ state = "reading" /\ range = IF e.git THEN "GIT" ELSE "versions"
      /\ e.at \in IF e.git THEN Commits ELSE Texts
  BY DEF ReadEvent
<1>2. FixTypeOK'
  BY <1>1 DEF FixInv, FixTypeOK, ReadEvent, NamesFix, NamesStart, SomeVersion, Event
<1>3. ReadInv'
  BY <1>1 DEF FixInv, ReadInv
<1>4. VerdictInv'
  <2>1. sawGitFix' <=> sawGitFix \/ (e.git /\ e.kind = "fixed")
    BY DEF ReadEvent
  <2>. QED BY <1>1, <2>1 DEF FixInv, VerdictInv
<1>5. BestInv'
  <2>1. \A f \in read : ~f.git => f.at \in Texts
    BY DEF FixInv, ReadInv
  <2>2. FixesAbove \subseteq Texts /\ Texts \subseteq VersionText /\ NoVersion \notin Texts
        /\ best \in Texts \cup {NoVersion}
    BY <2>1, FixAssumption DEF FixesAbove, FixInv, FixTypeOK, SomeVersion
  <2>3. \A v : Upgrade(v)' <=> Upgrade(v)
    BY <1>1 DEF Upgrade
  <2>4. CASE NamesFix(e) /\ Upgrade(e.at)
    <3>1. FixesAbove' = FixesAbove \cup {e.at}
      BY <1>1, <2>3, <2>4 DEF FixesAbove, NamesFix
    <3>2. e.at \in Texts
      BY <1>1, <2>4 DEF NamesFix
    <3>3. CASE Replaces(e.at, best)
      <4>1. best' = e.at
        BY <2>4, <3>3 DEF ReadEvent
      <4>2. \A v \in FixesAbove : ~Lower(v, e.at)
        <5>1. CASE best = NoVersion
          BY <5>1 DEF FixInv, BestInv
        <5>2. CASE best # NoVersion
          <6>1. best \in VersionText /\ e.at \in VersionText /\ Lower(e.at, best)
            BY <2>2, <3>2, <3>3, <5>2, Replacing DEF Replaces
          <6>2. \A v \in FixesAbove : ~Lower(v, best) /\ v \in VersionText
            BY <2>2, <5>2 DEF FixInv, BestInv
          <6>. QED BY <6>1, <6>2, LowerTransitive
        <5>. QED BY <5>1, <5>2
      <4>3. ~Lower(e.at, e.at)
        BY <2>2, <3>2, LowerIrreflexive
      <4>. QED BY <2>2, <3>1, <3>2, <4>1, <4>2, <4>3 DEF BestInv
    <3>4. CASE ~Replaces(e.at, best)
      <4>1. best' = best
        BY <3>4 DEF ReadEvent
      <4>2. best # NoVersion /\ ~Lower(e.at, best)
        BY <2>2, <3>2, <3>4, Replacing DEF Replaces
      <4>. QED BY <3>1, <4>1, <4>2 DEF FixInv, BestInv
    <3>. QED BY <3>3, <3>4
  <2>5. CASE ~(NamesFix(e) /\ Upgrade(e.at))
    <3>1. FixesAbove' = FixesAbove
      BY <1>1, <2>3, <2>5 DEF FixesAbove, NamesFix
    <3>2. best' = best
      BY <2>5 DEF ReadEvent
    <3>. QED BY <3>1, <3>2 DEF FixInv, BestInv
  <2>. QED BY <2>4, <2>5
<1>6. IntroInv'
  <2>. DEFINE start == e.kind = "introduced" /\ ~e.git /\ e.at # Zero
  <2>1. \A f \in read : ~f.git => f.at \in Texts
    BY DEF FixInv, ReadInv
  <2>2. StartsRead \subseteq Texts /\ Texts \subseteq VersionText /\ NoVersion \notin Texts
        /\ intro \in Texts \cup {NoVersion}
    BY <2>1, FixAssumption DEF StartsRead, FixInv, FixTypeOK, SomeVersion
  <2>3. CASE start
    <3>1. StartsRead' = StartsRead \cup {e.at}
      BY <1>1, <2>3 DEF StartsRead
    <3>2. e.at \in Texts
      BY <1>1, <2>3
    <3>3. CASE Replaces(e.at, intro)
      <4>1. intro' = e.at
        BY <2>3, <3>3 DEF ReadEvent, NamesStart
      <4>2. \A v \in StartsRead : ~Lower(v, e.at)
        <5>1. CASE intro = NoVersion
          BY <5>1 DEF FixInv, IntroInv
        <5>2. CASE intro # NoVersion
          <6>1. intro \in VersionText /\ e.at \in VersionText /\ Lower(e.at, intro)
            BY <2>2, <3>2, <3>3, <5>2, Replacing DEF Replaces
          <6>2. \A v \in StartsRead : ~Lower(v, intro) /\ v \in VersionText
            BY <2>2, <5>2 DEF FixInv, IntroInv
          <6>. QED BY <6>1, <6>2, LowerTransitive
        <5>. QED BY <5>1, <5>2
      <4>3. ~Lower(e.at, e.at)
        BY <2>2, <3>2, LowerIrreflexive
      <4>. QED BY <2>2, <3>1, <3>2, <4>1, <4>2, <4>3 DEF IntroInv
    <3>4. CASE ~Replaces(e.at, intro)
      <4>1. intro' = intro
        BY <3>4 DEF ReadEvent, NamesStart
      <4>2. intro # NoVersion /\ ~Lower(e.at, intro)
        BY <2>2, <3>2, <3>4, Replacing DEF Replaces
      <4>. QED BY <3>1, <4>1, <4>2 DEF FixInv, IntroInv
    <3>. QED BY <3>3, <3>4
  <2>4. CASE ~start
    <3>1. StartsRead' = StartsRead
      BY <1>1, <2>4 DEF StartsRead
    <3>2. intro' = intro
      BY <2>4 DEF ReadEvent, NamesStart
    <3>. QED BY <3>1, <3>2 DEF FixInv, IntroInv
  <2>. QED BY <2>3, <2>4
<1>. QED BY <1>2, <1>3, <1>4, <1>5, <1>6 DEF FixInv

LEMMA OtherKeeps ==
    ASSUME FixInv,
           \/ \E type \in {"GIT", "versions"} : OpenRange(type)
           \/ Finish
           \/ UNCHANGED fixVars
    PROVE  FixInv'
<1>1. /\ read' = read /\ installed' = installed /\ best' = best /\ intro' = intro
      /\ sawGitFix' = sawGitFix /\ sawLastAffected' = sawLastAffected
  BY DEF OpenRange, Finish, fixVars
<1>2. FixTypeOK'
  BY <1>1 DEF FixInv, FixTypeOK, OpenRange, Finish, Verdict, fixVars
<1>3. ReadInv' /\ BestInv' /\ IntroInv'
  BY <1>1 DEF FixInv, ReadInv, BestInv, IntroInv, FixesAbove, StartsRead, Upgrade
<1>4. VerdictInv'
  BY <1>1 DEF FixInv, VerdictInv, Verdict, OpenRange, Finish, fixVars
<1>. QED BY <1>2, <1>3, <1>4 DEF FixInv

THEOREM FixInvariance == FixSpec => []FixInv
<1>1. FixInv /\ [FixNext]_fixVars => FixInv'
  BY ReadKeeps, OtherKeeps DEF FixNext
<1>. QED BY FixInitInv, <1>1, PTL DEF FixSpec

(* The result and the introduction are versions of the advisory's ranges, never
   commits, for any advisory. *)
THEOREM FixTypeCorrect == FixSpec => []FixTypeOK
BY FixInvariance, PTL DEF FixInv

(* For any advisory, in whatever order its events come, the result is a fix
   above the installed version with none below it, and there is one as soon as
   a fix above the installed version was read. *)
THEOREM NearestFixFound == FixSpec => []BestInv
BY FixInvariance, PTL DEF FixInv

(* Where cmpVersion orders the texts of the advisory and the installed one as
   their ecosystem does, the result is the nearest upgrade of the ecosystem. *)
THEOREM NearestUpgradeFound ==
    ASSUME \A v, w \in Texts : Lower(v, w) <=> Rank[v] < Rank[w]
    PROVE  FixSpec => []NearestUpgrade
<1>1. FixInv => NearestUpgrade
  <2>. SUFFICES ASSUME FixInv PROVE NearestUpgrade
    OBVIOUS
  <2>1. \A f \in read : ~f.git => f.at \in Texts
    BY DEF FixInv, ReadInv
  <2>2. installed # NoVersion => installed \in Texts
    BY DEF FixInv, FixTypeOK, SomeVersion
  <2>3. Texts \subseteq VersionText /\ \A v \in Texts : Rank[v] \in Nat
    BY FixAssumption
  <2>4. \A v \in Texts : Upgrade(v) <=> installed = NoVersion \/ Rank[v] > Rank[installed]
    BY <2>2, <2>3, Replacing DEF Upgrade
  <2>5. Upgrades = FixesAbove
    BY <2>1, <2>4 DEF Upgrades, FixesAbove
  <2>6. FixesAbove \subseteq Texts /\ NoVersion \notin Texts
    BY <2>1, FixAssumption DEF FixesAbove
  <2>. QED BY <2>3, <2>5, <2>6 DEF NearestUpgrade, FixInv, BestInv
<1>. QED BY FixInvariance, <1>1, PTL

(* Likewise, in whatever order its events come, the introduction is the lowest
   that the advisory names. *)
THEOREM LowestIntroductionFound ==
    ASSUME \A v, w \in Texts : Lower(v, w) <=> Rank[v] < Rank[w]
    PROVE  FixSpec => []LowestIntroduction
<1>1. FixInv => LowestIntroduction
  <2>. SUFFICES ASSUME FixInv PROVE LowestIntroduction
    OBVIOUS
  <2>1. StartsRead \subseteq Texts /\ NoVersion \notin Texts
    BY FixAssumption DEF StartsRead, FixInv, ReadInv
  <2>2. \A v \in Texts : Rank[v] \in Nat
    BY FixAssumption
  <2>. QED BY <2>1, <2>2 DEF LowestIntroduction, StartsRead, FixInv, IntroInv
<1>. QED BY FixInvariance, <1>1, PTL

(* Nobody is told "none" of an advisory in which a commit fixes the trouble,
   nor "unknown" of one that has ranges with events, for any advisory. *)
THEOREM GitFixTold == FixSpec => []GitFixIsTold
<1>1. FixInv => GitFixIsTold
  <2>. SUFFICES ASSUME FixInv PROVE GitFixIsTold
    OBVIOUS
  <2>1. CASE state = "none"
    BY <2>1 DEF GitFixIsTold, FixInv, VerdictInv, Verdict
  <2>2. CASE state = "unknown"
    BY <2>2 DEF GitFixIsTold, FixInv, VerdictInv, Verdict
  <2>. QED BY <2>1, <2>2 DEF GitFixIsTold
<1>. QED BY FixInvariance, <1>1, PTL

-----------------------------------------------------------------------------
(* The two comparators *)

(* Of a plain text both readers see the same: at most three numbers, and
   nothing after them. *)
LEMMA PlainReads ==
    ASSUME NEW v \in VersionText, Plain(v)
    PROVE  /\ Pre(v) = <<>>
           /\ \A i \in 1 .. 3 : NumAt(v, i) = PartAt(v, i)
           /\ \A i \in Positions : i > 3 => NumAt(v, i) = 0
<1>1. Read(v) = DOMAIN v.segs
  <2>1. PICK n \in Nat : DOMAIN v.segs = 1 .. n
    <3>1. v.segs \in Seq(Seg)
      BY DEF VersionText
    <3>. QED BY <3>1
  <2>2. \A i \in DOMAIN v.segs : \A j \in 1 .. i - 1 : j \in DOMAIN v.segs
    BY <2>1
  <2>. QED BY <2>2 DEF Plain, Read
<1>2. Tailed(v) = {}
  BY DEF Plain, Tailed, Read, Ends
<1>3. \A i \in Positions : i > 3 => NumAt(v, i) = 0
  BY NumAtType DEF Plain, Positions
<1>. QED BY <1>1, <1>2, <1>3 DEF Plain, Pre, NumAt, PartAt

LEMMA PlainLower ==
    ASSUME NEW a \in VersionText, NEW b \in VersionText, Plain(a), Plain(b)
    PROVE  LikelyVulnerable(a, b) <=> Lower(a, b)
<1>1. \A i \in 1 .. 3 : NumAt(a, i) = PartAt(a, i) /\ NumAt(b, i) = PartAt(b, i)
  BY PlainReads
<1>2. \A i \in Positions : i > 3 => NumAt(a, i) = 0 /\ NumAt(b, i) = 0
  BY PlainReads
<1>3. ASSUME NumsBelow(a, b) PROVE LikelyVulnerable(a, b)
  <2>1. PICK i \in Positions :
               /\ NumAt(a, i) < NumAt(b, i)
               /\ \A j \in Positions : j < i => NumAt(a, j) = NumAt(b, j)
    BY <1>3 DEF NumsBelow
  <2>2. i \in 1 .. 3
    BY <1>2, <2>1 DEF Positions
  <2>3. \A j \in 1 .. i - 1 : j \in Positions /\ j < i /\ j \in 1 .. 3
    BY <2>2 DEF Positions
  <2>. QED BY <1>1, <2>1, <2>2, <2>3 DEF LikelyVulnerable
<1>4. ASSUME LikelyVulnerable(a, b) PROVE NumsBelow(a, b)
  <2>1. PICK i \in 1 .. 3 : /\ PartAt(a, i) < PartAt(b, i)
                             /\ \A j \in 1 .. i - 1 : PartAt(a, j) = PartAt(b, j)
    BY <1>4 DEF LikelyVulnerable
  <2>2. i \in Positions /\ \A j \in Positions : j < i => j \in 1 .. i - 1 /\ j \in 1 .. 3
    BY DEF Positions
  <2>. QED BY <1>1, <2>1, <2>2 DEF NumsBelow
<1>5. Lower(a, b) <=> NumsBelow(a, b)
  BY PlainReads, NumsLowerIsBelow DEF Lower, TailLower
<1>. QED BY <1>3, <1>4, <1>5

(* The local advisory table and OSV's ranges do not contradict each other: for
   any plain versions, not only those of the ladder, a version is likely
   vulnerable below a bound exactly when the fix at that bound is an upgrade. *)
THEOREM ComparatorsAgree == FixSpec => []LikelyAgrees
<1>1. FixInv => LikelyAgrees
  <2>. SUFFICES ASSUME FixInv, NEW e \in read, installed # NoVersion,
                       Plain(installed), Plain(e.at)
                PROVE  LikelyVulnerable(installed, e.at) <=> Upgrade(e.at)
    BY DEF LikelyAgrees
  <2>1. installed \in VersionText /\ e.at \in VersionText
    BY FixAssumption DEF FixInv, FixTypeOK, SomeVersion, Event
  <2>. QED BY <2>1, PlainLower, Replacing DEF Upgrade
<1>. QED BY FixInvariance, <1>1, PTL
=============================================================================
