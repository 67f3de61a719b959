----------------------------- MODULE CveVersion -----------------------------
(***************************************************************************)
(* cve_version.go and the comparator of vuln.go: how two version texts are  *)
(* ordered.  A text is kept as the pieces its characters fall into:         *)
(*   lead   what precedes the first segment: "", "v" or "="                 *)
(*   segs   what stands between the dots and is not empty: its leading       *)
(*          number (NoNumber if there is none, Huge if it does not fit an    *)
(*          int) and the text that follows it (NoTail if there is none)      *)
(*   dash   the identifiers after the first "-", <<>> if there are none     *)
(* Build metadata, after "+", is cut off by every reader; no text has two    *)
(* dots in a row.                                                           *)
(***************************************************************************)
EXTENDS Integers, Sequences

CONSTANTS NoNumber, Huge, NoTail

(* An identifier of a prerelease: a number, or a text given by its place in
   the order of bytes. *)
Ident == [kind: {"number", "text"}, val: Nat]
Seg == [num: Nat \cup {NoNumber, Huge}, tail: Ident \cup {NoTail}]
VersionText == [lead: {"", "v", "="}, segs: Seq(Seg), dash: Seq(Ident)]

ASSUME VersionAssumption ==
    /\ NoNumber \notin Nat /\ Huge \notin Nat /\ NoNumber # Huge
    /\ NoTail \notin Ident

-----------------------------------------------------------------------------
(* splitVersion *)

(* A segment that ends the numbers: one without a number, one whose number
   does not fit, one with a text after its number. *)
Ends(seg) == seg.num \notin Nat \/ seg.tail # NoTail

(* The segments that are looked at: none comes after one that ends the
   numbers. *)
Read(v) == {i \in DOMAIN v.segs : \A j \in 1 .. i - 1 : ~Ends(v.segs[j])}

(* The number at a position; a missing one is 0. *)
NumAt(v, i) == IF i \in Read(v) /\ v.segs[i].num \in Nat THEN v.segs[i].num ELSE 0

(* The segment whose text is a prerelease without a dash ("1.0rc1"). *)
Tailed(v) == {i \in Read(v) : v.segs[i].num # Huge /\ v.segs[i].tail # NoTail}

(* The prerelease: what follows the dash, or else the text that ended the
   numbers. *)
Pre(v) ==
    IF v.dash # <<>> \/ Tailed(v) = {} THEN v.dash
    ELSE <<v.segs[CHOOSE i \in Tailed(v) : TRUE].tail>>

-----------------------------------------------------------------------------
(* cmpVersion *)

Longer(s, t) == IF Len(s) < Len(t) THEN Len(t) ELSE Len(s)
Shorter(s, t) == IF Len(s) < Len(t) THEN Len(s) ELSE Len(t)

(* The numbers differ first at some position, and there a is the lower. *)
NumsLower(a, b) ==
    \E i \in 1 .. Longer(a.segs, b.segs) :
        /\ NumAt(a, i) < NumAt(b, i)
        /\ \A j \in 1 .. i - 1 : NumAt(a, j) = NumAt(b, j)

IdentLower(x, y) ==
    \/ x.kind = "number" /\ y.kind = "text"
    \/ x.kind = y.kind /\ x.val < y.val

(* cmpPrerelease: the first identifier that differs decides, or else the
   number of identifiers. *)
PreLower(s, t) ==
    \/ \E i \in 1 .. Shorter(s, t) :
          /\ IdentLower(s[i], t[i])
          /\ \A j \in 1 .. i - 1 : s[j] = t[j]
    \/ /\ Len(s) < Len(t)
       /\ \A j \in 1 .. Len(s) : s[j] = t[j]

(* A mutant: a version that has a prerelease is above the one without. *)
TailLowerReversed(s, t) ==
    IF s = <<>> \/ t = <<>> THEN s = <<>> /\ t # <<>> ELSE PreLower(s, t)

(* A version that has a prerelease is below the one without. *)
TailLower(s, t) ==
    IF s = <<>> \/ t = <<>> THEN s # <<>> /\ t = <<>> ELSE PreLower(s, t)

Lower(a, b) ==
    \/ NumsLower(a, b)
    \/ ~NumsLower(b, a) /\ TailLower(Pre(a), Pre(b))

cmpVersion(a, b) == IF Lower(a, b) THEN -1 ELSE IF Lower(b, a) THEN 1 ELSE 0

-----------------------------------------------------------------------------
(* vuln.go *)

(* parseSemverParts: 0 where there is no number or one that does not fit; an
   "=" keeps the first from being read. *)
PartAt(v, i) ==
    IF i \in DOMAIN v.segs /\ v.segs[i].num \in Nat /\ ~(i = 1 /\ v.lead = "=")
    THEN v.segs[i].num ELSE 0

(* A mutant: any lower part makes the version lower. *)
LikelyAnyPart(v, bound) == \E i \in 1 .. 3 : PartAt(v, i) < PartAt(bound, i)

(* versionLikelyVulnerable for the constraint "<bound": cmpSemver(v, bound) < 0. *)
LikelyVulnerable(v, bound) ==
    \E i \in 1 .. 3 :
        /\ PartAt(v, i) < PartAt(bound, i)
        /\ \A j \in 1 .. i - 1 : PartAt(v, j) = PartAt(bound, j)
=============================================================================
