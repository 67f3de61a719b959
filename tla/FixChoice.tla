------------------------------ MODULE FixChoice ------------------------------
(***************************************************************************)
(* nearestFix and introducedVersion (cve_version.go) on the ranges of an    *)
(* advisory, read event by event: the nearest upgrade for an installed      *)
(* version, what is said when there is none, and where the trouble began.   *)
(* An event that names two versions is read as two events: the code looks   *)
(* at its fields one after the other.                                       *)
(***************************************************************************)
EXTENDS CveVersion, FiniteSets

CONSTANTS
    Texts,      \* version texts that occur
    Zero,       \* the text "0", from the beginning
    Commits,    \* the texts of GIT ranges, which are no versions
    NoVersion,  \* the empty text
    Rank,       \* text -> its place in the intended order, for the properties only
    MaxRead     \* bound: different events of an advisory

ASSUME FixAssumption ==
    /\ Texts \subseteq VersionText /\ Zero \in Texts
    /\ Commits \subseteq VersionText /\ Commits \cap Texts = {}
    /\ NoVersion \notin Texts \cup Commits
    /\ Rank \in [Texts -> Nat]
    /\ MaxRead \in Nat

VARIABLES
    installed,   \* the dependency's version
    range,       \* the kind of range being read, "none" before the first
    best, intro, \* the two results so far, NoVersion when there is none
    sawGitFix, sawLastAffected,
    state,       \* the fix state nearestFix returns, "reading" before it does
    read         \* the events read so far (kept for the properties)

fixVars == <<installed, range, best, intro, sawGitFix, sawLastAffected, state, read>>

(* What an event says of the version it names. *)
EventKinds == {"introduced", "fixed", "lastAffected"}
Event == [git: BOOLEAN, kind: EventKinds, at: Texts \cup Commits]
SomeVersion == Texts \cup {NoVersion}

FixInit ==
    /\ installed \in SomeVersion
    /\ range = "none"
    /\ best = NoVersion /\ intro = NoVersion
    /\ sawGitFix = FALSE /\ sawLastAffected = FALSE
    /\ state = "reading"
    /\ read = {}

(* The next range begins. *)
OpenRange(type) ==
    /\ state = "reading"
    /\ range' = type
    /\ UNCHANGED <<installed, best, intro, sawGitFix, sawLastAffected, state, read>>

(* The event names a version that fixes the trouble. *)
NamesFix(e) == e.kind = "fixed" /\ ~e.git

(* Only a fix above the installed version is an upgrade; without an installed
   version every fix is. *)
Upgrade(v) == installed = NoVersion \/ cmpVersion(v, installed) > 0

(* The lower of two versions is kept, the first of two equal ones. *)
Replaces(v, kept) == kept = NoVersion \/ cmpVersion(v, kept) < 0

(* A mutant: the last introduction is kept, not the lowest. *)
NamesStartLast(e) ==
    e.kind = "introduced" /\ ~e.git /\ e.at # Zero

NamesStart(e) ==
    e.kind = "introduced" /\ ~e.git /\ e.at # Zero /\ Replaces(e.at, intro)

(* The next event of the range. *)
ReadEvent(e) ==
    /\ state = "reading"
    /\ range = IF e.git THEN "GIT" ELSE "versions"
    /\ e.at \in IF e.git THEN Commits ELSE Texts
    /\ Cardinality(read \cup {e}) <= MaxRead
    /\ read' = read \cup {e}
    /\ sawLastAffected' = (sawLastAffected \/ e.kind = "lastAffected")
    /\ sawGitFix' = (sawGitFix \/ (e.git /\ e.kind = "fixed"))
    /\ best' = IF NamesFix(e) /\ Upgrade(e.at) /\ Replaces(e.at, best) THEN e.at ELSE best
    /\ intro' = IF NamesStart(e) THEN e.at ELSE intro
    /\ UNCHANGED <<installed, range, state>>

(* A mutant: an advisory that names a last affected version has no fix. *)
VerdictLastFirst ==
    IF best # NoVersion THEN "fixed"
    ELSE IF sawLastAffected THEN "none"
    ELSE IF sawGitFix THEN "git"
    ELSE IF range # "none" THEN "none" ELSE "unknown"

(* The fix state at the end of the ranges. *)
Verdict ==
    IF best # NoVersion THEN "fixed"
    ELSE IF sawGitFix THEN "git"
    ELSE IF sawLastAffected \/ range # "none" THEN "none" ELSE "unknown"

Finish ==
    /\ state = "reading"
    /\ state' = Verdict
    /\ UNCHANGED <<installed, range, best, intro, sawGitFix, sawLastAffected, read>>

FixNext ==
    \/ \E type \in {"GIT", "versions"} : OpenRange(type)
    \/ \E e \in Event : ReadEvent(e)
    \/ Finish

FixSpec == FixInit /\ [][FixNext]_fixVars

-----------------------------------------------------------------------------
(* Types; the result and the introduction are versions, never a commit of a
   GIT range (cve_version.go:208, 244). *)
FixTypeOK ==
    /\ installed \in SomeVersion /\ best \in SomeVersion /\ intro \in SomeVersion
    /\ range \in {"none", "GIT", "versions"}
    /\ {sawGitFix, sawLastAffected} \subseteq BOOLEAN
    /\ state \in {"reading", "fixed", "none", "git", "unknown"}
    /\ read \subseteq Event

(* The fixes that the advisory has named and that the intended order places
   above the installed version. *)
Upgrades ==
    {e.at : e \in {f \in read : /\ f.kind = "fixed" /\ ~f.git
                                /\ \/ installed = NoVersion
                                   \/ Rank[f.at] > Rank[installed]}}

(* The result is the nearest upgrade in the order the ecosystems intend,
   whatever the order of the events: there is one exactly when a fix above the
   installed version was read, and no other upgrade is below it.  A prerelease
   of the fixing release is below it, 1.9 is below 1.10, and a fourth segment
   counts (cve_version.go:34, 191). *)
NearestUpgrade ==
    IF Upgrades = {} THEN best = NoVersion
    ELSE /\ best \in Upgrades
         /\ \A v \in Upgrades : Rank[best] <= Rank[v]

(* Nobody is told that there is no patch when a commit fixes it
   (cve_version.go:186-190), nor that nothing is known when an event was read. *)
GitFixIsTold ==
    /\ state = "none" => \A e \in read : ~(e.git /\ e.kind = "fixed")
    /\ state = "unknown" => read = {}

(* Where the trouble began: the lowest introduction named, the beginning
   itself apart (cve_version.go:241). *)
LowestIntroduction ==
    LET Starts == {e.at : e \in {f \in read : /\ f.kind = "introduced" /\ ~f.git
                                              /\ f.at # Zero}}
    IN IF Starts = {} THEN intro = NoVersion
       ELSE intro \in Starts /\ \A v \in Starts : Rank[intro] <= Rank[v]

(* Texts of at most three numbers, without a prerelease or a leading "=". *)
Plain(v) ==
    /\ v.lead # "=" /\ v.dash = <<>> /\ Len(v.segs) <= 3
    /\ \A i \in DOMAIN v.segs : ~Ends(v.segs[i])

(* The two comparators of the program do not contradict each other on plain
   versions: the local advisory table takes the installed version for
   vulnerable below a bound exactly when the fix at that bound is an upgrade
   (vuln.go:256, cve_version.go:214). *)
LikelyAgrees ==
    \A e \in read :
        installed # NoVersion /\ Plain(installed) /\ Plain(e.at) =>
            (LikelyVulnerable(installed, e.at) <=> Upgrade(e.at))
=============================================================================
