----------------------------- MODULE Lockfiles -----------------------------
(***************************************************************************)
(* cve_collect.go: the walk that turns the lockfiles of a checkout into the *)
(* dependencies that a CVE scan asks about, the Deps of CveFetch.           *)
(*                                                                         *)
(* A lockfile is the sequence of its entries.  An entry is written in some  *)
(* form; it names a package, after those it is installed below, if it is    *)
(* nested; and it has a version, which may begin with a "v", or none.       *)
(* Scope and manifest of a dependency are left out.                        *)
(***************************************************************************)
EXTENDS Naturals, SequencesExt

CONSTANTS
    Packages,
    Checkouts,  \* sequences of files, in the order of the walk
    NoText,     \* no version
    MaxDeps     \* dependencies kept: 5000

(* Forms besides "plain", which every format has:
     package-lock.json  "nested", below another package; "inner", the same in
                        lockfileVersion 1, where packages contain packages;
                        "project", the checkout itself, whose key is empty;
                        "workspace", a directory of it, under a key such as
                        packages/app
     yarn.lock          "merged", one entry for several ranges; "berry", yarn 2
     pnpm-lock.yaml     "at", /name@version, which replaced /name/version
     go.sum             "mod", the line of a go.mod file and of no package
     requirements*.txt  "range", no pin; "extras", name[extra]==version       *)
Forms == {"plain", "nested", "inner", "project", "workspace", "merged", "berry", "at",
          "mod", "range", "extras"}

Release == [v: BOOLEAN, number: Nat]
Entry == [form: Forms, path: Seq(Packages) \ {<<>>}, version: Release \cup {NoText}]

Below(e) == e.form \in {"nested", "inner"}

(* meta: a Pipfile.lock has the section _meta that pipenv writes.
   entries: those of a poetry.lock are its lines name = "..."; lines: its lines
   version = "...", of whatever table, in their order. *)
File == [base: STRING, dir: STRING, readable: BOOLEAN, meta: BOOLEAN,
         entries: Seq(Entry), lines: Seq(Release)]

ASSUME LockfilesAssumption ==
    /\ Checkouts \subseteq Seq(File)
    /\ \A c \in Checkouts : \A i \in DOMAIN c : \A k \in DOMAIN c[i].entries :
          LET e == c[i].entries[k] IN ~Below(e) => Len(e.path) = 1
    /\ MaxDeps \in Nat

VARIABLES
    toVisit,    \* files the walk has not come to
    visited,    \* ghost: those it has
    out,        \* the dependencies collected
    walked      \* the walk is over

lockVars == <<toVisit, visited, out, walked>>

-----------------------------------------------------------------------------
(* The parsers: the forms of entry that each takes for dependencies *)

dependencyLockBasenames ==
    [base \in {"package-lock.json", "yarn.lock", "pnpm-lock.yaml", "poetry.lock",
               "Pipfile.lock", "composer.lock", "go.sum"} |->
        CASE base \in {"poetry.lock", "Pipfile.lock"} -> "pypi"
          [] base = "composer.lock" -> "composer"
          [] base = "go.sum" -> "go"
          [] OTHER -> "npm"]

isRequirements(base) == base \in {"requirements.txt", "requirements-prod.txt"}

isDependencyLockPath(base) == base \in DOMAIN dependencyLockBasenames \/ isRequirements(base)

Ecosystem(base) == IF isRequirements(base) THEN "pypi" ELSE dependencyLockBasenames[base]

parsePackageLock(f) == {"plain", "nested", "workspace"}
parseYarnLock(f) == {"plain", "merged"}
parsePnpmLock(f) == {"plain"}
parseComposerLock(f) == {"plain"}

(* Names and versions are collected apart and paired by their places. *)
parsePoetryLock(f) ==
    [k \in DOMAIN f.entries |->
        [f.entries[k] EXCEPT !.version = IF k \in DOMAIN f.lines THEN f.lines[k] ELSE NoText]]

(* The number in _meta does not fit the maps the file is decoded into. *)
parsePipfileLock(f) == IF f.meta THEN {} ELSE {"plain"}

parseGoSum(f) == {"plain"}
parseRequirementsPinFile(f) == {"plain"}

Parsed(f) ==
    CASE f.base = "package-lock.json" -> parsePackageLock(f)
      [] f.base = "yarn.lock" -> parseYarnLock(f)
      [] f.base = "pnpm-lock.yaml" -> parsePnpmLock(f)
      [] f.base = "composer.lock" -> parseComposerLock(f)
      [] f.base = "poetry.lock" -> {"plain"}
      [] f.base = "Pipfile.lock" -> parsePipfileLock(f)
      [] f.base = "go.sum" -> parseGoSum(f)
      [] OTHER -> parseRequirementsPinFile(f)

(* The entries as the parser of the file reads them. *)
EntriesRead(f) == IF f.base = "poetry.lock" THEN parsePoetryLock(f) ELSE f.entries

Pinned(f, e) == e.form \in Parsed(f) /\ e.version # NoText

(* The name of a nested entry keeps the packages above it, and that of a merged
   one all of its ranges but the last. *)
NameOf(e) == IF e.form = "merged" THEN e.path \o e.path ELSE e.path

DepOf(f, e) == [ecosystem |-> Ecosystem(f.base), package |-> NameOf(e),
                version |-> e.version.number]

-----------------------------------------------------------------------------
(* The walk *)

scanSkipDirs == {".git", "node_modules", "vendor", "dist", "build", ".libs",
                 "autom4te.cache", ".terraform"}

Looked(f) == f.dir \notin scanSkipDirs /\ isDependencyLockPath(f.base) /\ f.readable

(* A mutant: one version of a package is enough. *)
addPackage(deps, d) ==
    IF \E i \in DOMAIN deps : deps[i].ecosystem = d.ecosystem /\ deps[i].package = d.package
    THEN deps ELSE Append(deps, d)

add(deps, d) ==
    IF d \in Range(deps) THEN deps ELSE Append(deps, d)

addEntry(f, deps, e) == IF Pinned(f, e) THEN add(deps, DepOf(f, e)) ELSE deps

addFile(f, deps) == FoldLeft(LAMBDA x, e : addEntry(f, x, e), deps, EntriesRead(f))

LockInit ==
    /\ toVisit \in Checkouts
    /\ visited = {} /\ out = <<>> /\ walked = FALSE

Visit ==
    /\ toVisit # <<>>
    /\ LET f == Head(toVisit)
       IN out' = IF Looked(f) THEN addFile(f, out) ELSE out
    /\ visited' = visited \cup {Head(toVisit)}
    /\ toVisit' = Tail(toVisit)
    /\ UNCHANGED walked

Return ==
    /\ toVisit = <<>> /\ ~walked
    /\ walked' = TRUE
    /\ out' = IF Len(out) > MaxDeps THEN SubSeq(out, 1, MaxDeps) ELSE out
    /\ UNCHANGED <<toVisit, visited>>

LockNext == Visit \/ Return

LockSpec == LockInit /\ [][LockNext]_lockVars

-----------------------------------------------------------------------------
(* Properties *)

LockDep == [ecosystem: {"npm", "pypi", "composer", "go"}, package: Seq(Packages), version: Nat]

(* Every variable has its type. *)
LockTypeOK ==
    /\ \A i \in DOMAIN toVisit : toVisit[i] \in File
    /\ visited \subseteq File
    /\ \A i \in DOMAIN out : out[i] \in LockDep
    /\ walked \in BOOLEAN

(* What the lockfiles say is installed. *)
Pin(e, forms) == e.version # NoText /\ e.form \in forms

PinOf(f, e) == [ecosystem |-> Ecosystem(f.base), package |-> <<Last(e.path)>>,
                version |-> e.version.number]

Pins(files, forms) ==
    UNION {{PinOf(f, e) : e \in {x \in Range(f.entries) : Pin(x, forms)}} : f \in files}

ReadFiles == {f \in visited : Looked(f)}

PinForms == Forms \ {"project", "workspace", "mod", "range"}

(* Each name of a poetry.lock has the version of its own entry beside it. *)
Paired(f) == \A k \in DOMAIN f.entries : EntriesRead(f)[k].version = f.entries[k].version

(* A name and a version of one poetry.lock, though not of one entry. *)
Mispaired(d) ==
    \E f \in ReadFiles :
        /\ ~Paired(f)
        /\ \E k \in DOMAIN f.entries : d.package = <<Last(f.entries[k].path)>>
        /\ \E k \in DOMAIN f.lines : d.version = f.lines[k].number

(* A scan that stays below the cap asks once about every pin of the plain forms,
   several versions of a package included, in whatever order the files and the
   entries come, but for a Pipfile.lock as pipenv writes it (cve_collect.go:139)
   and a poetry.lock in which an entry has no version or a table besides the
   packages has one (320-325).  What it asks about under a plain name is a pin, a
   workspace of the checkout (163-165), or a pair of such a poetry.lock. *)
PlainPinsCollected ==
    walked =>
        /\ IsInjective(out) /\ Len(out) <= MaxDeps
        /\ Len(out) < MaxDeps =>
              Pins({f \in ReadFiles : ~f.meta /\ Paired(f)}, {"plain"}) \subseteq Range(out)
        /\ \A d \in Range(out) :
              Len(d.package) = 1 =>
                  d \in Pins(ReadFiles, PinForms \cup {"workspace"}) \/ Mispaired(d)
=============================================================================
