------------------------------ MODULE MCParts ------------------------------
(* Five parts of the program, each checked from its own beginning: the
   arithmetic of the repository score, the choice of a fix among the ranges of an
   advisory, the collection of lockfiles, the legacy backfill, and the inventory
   of vulnerabilities.  A behaviour is one of the part chosen at the beginning;
   the others do not move. *)
EXTENDS MCScoreBook, FixChoice, Lockfiles, LegacyBackfill, MCVulnInventory

VARIABLE part

partsVars == <<part, bookVars, fixVars, lockVars, backfillVars, vulnVars>>

PartsInit ==
    /\ part \in {"book", "fix", "lock", "backfill", "vuln"}
    /\ BookInit /\ FixInit /\ LockInit /\ BackfillInit /\ VulnInit
    /\ part # "fix" => installed = NoVersion
    /\ part # "lock" => toVisit = <<>>
    /\ part # "backfill" => engine = "plain" /\ hub = {} /\ own = 0

InBook == part = "book" /\ BookNext /\ UNCHANGED <<part, fixVars, lockVars, backfillVars, vulnVars>>
InFix == part = "fix" /\ FixNext /\ UNCHANGED <<part, bookVars, lockVars, backfillVars, vulnVars>>
InLock == part = "lock" /\ LockNext /\ UNCHANGED <<part, bookVars, fixVars, backfillVars, vulnVars>>
InBackfill ==
    part = "backfill" /\ BackfillNext /\ UNCHANGED <<part, bookVars, fixVars, lockVars, vulnVars>>
InVuln == part = "vuln" /\ VulnNext /\ UNCHANGED <<part, bookVars, fixVars, lockVars, backfillVars>>

PartsNext == InBook \/ InFix \/ InLock \/ InBackfill \/ InVuln

PartsSpec == PartsInit /\ [][PartsNext]_partsVars

(* The type invariants of the five parts. *)
PartsTypeOK == BookTypeOK /\ FixTypeOK /\ LockTypeOK /\ BackfillTypeOK /\ VulnTypeOK

-----------------------------------------------------------------------------
(* A ladder of texts in the order that semver and PEP 440 give them:
   0 < 1.0.0-1 < 1.0.0-alpha.2 < 1.0.0-alpha.10 < 1.0rc1 < 1.0.0 = v1.0
     < 1.9.1 < 1.10.0 < 1.10.0.1 *)
Num(n) == [num |-> n, tail |-> NoTail]
Numbers(s) == [i \in DOMAIN s |-> Num(s[i])]
N(n) == [kind |-> "number", val |-> n]
T(n) == [kind |-> "text", val |-> n]
Version(s, pre) == [lead |-> "", segs |-> Numbers(s), dash |-> pre]

Beginning == Version(<<0>>, <<>>)
Alpha == 1
Rc == 2
RcText == [lead |-> "", segs |-> <<Num(1), [num |-> 0, tail |-> T(Rc)]>>, dash |-> <<>>]
Prefixed == [lead |-> "v", segs |-> Numbers(<<1, 0>>), dash |-> <<>>]

Ladder ==
    << {Beginning},
       {Version(<<1, 0, 0>>, <<N(1)>>)},
       {Version(<<1, 0, 0>>, <<T(Alpha), N(2)>>)},
       {Version(<<1, 0, 0>>, <<T(Alpha), N(10)>>)},
       {RcText},
       {Version(<<1, 0, 0>>, <<>>), Prefixed},
       {Version(<<1, 9, 1>>, <<>>)},
       {Version(<<1, 10, 0>>, <<>>)},
       {Version(<<1, 10, 0, 1>>, <<>>)} >>

MCTexts == UNION {Ladder[i] : i \in DOMAIN Ladder}
MCRank == [v \in MCTexts |-> CHOOSE i \in DOMAIN Ladder : v \in Ladder[i]]
(* A hash that begins with a digit could be taken for a version. *)
MCCommits == {[lead |-> "", segs |-> <<[num |-> 4, tail |-> T(3)]>>, dash |-> <<>>]}

-----------------------------------------------------------------------------
(* Two lockfiles of any kinds, with two versions of one package in all the forms
   its format has; one of them may be broken or lie in a directory passed over.  A
   poetry.lock may have an entry without a version, or a version too many. *)

Vers(n) == [v |-> FALSE, number |-> n]
Of(form, path, version) == [form |-> form, path |-> path, version |-> version]
Lock(base, entries) ==
    [base |-> base, dir |-> "", readable |-> TRUE, meta |-> FALSE, entries |-> entries,
     lines |-> <<>>]
PoetryLock(entries, lines) == [Lock("poetry.lock", entries) EXCEPT !.lines = lines]

Lodash == <<Of("plain", <<"p">>, Vers(1)), Of("plain", <<"p">>, Vers(2))>>

PackageLocks ==
    { Lock("package-lock.json", Lodash),
      Lock("package-lock.json", <<Of("project", <<"q">>, Vers(1)), Of("workspace", <<"q">>, Vers(2)),
                                  Of("nested", <<"q", "p">>, Vers(1))>>),
      Lock("package-lock.json", <<Of("inner", <<"q", "p">>, Vers(1)), Of("plain", <<"q">>, NoText)>>) }

MCFiles ==
    PackageLocks \cup
    { Lock("yarn.lock", <<Of("merged", <<"p">>, Vers(1)), Of("plain", <<"p">>, Vers(2))>>),
      Lock("yarn.lock", <<Of("berry", <<"q">>, Vers(1))>>),
      Lock("pnpm-lock.yaml", <<Of("at", <<"p">>, Vers(1)), Of("plain", <<"q">>, Vers(2))>>),
      Lock("composer.lock", <<Of("plain", <<"p">>, [v |-> TRUE, number |-> 1])>> \o Lodash),
      PoetryLock(Lodash, <<Vers(1), Vers(2)>>),
      PoetryLock(<<Of("plain", <<"p">>, NoText), Of("plain", <<"q">>, Vers(1))>>, <<Vers(1)>>),
      PoetryLock(Lodash, <<Vers(1), Vers(3), Vers(2)>>),
      Lock("Pipfile.lock", Lodash),
      [Lock("Pipfile.lock", Lodash) EXCEPT !.meta = TRUE],
      Lock("go.sum", <<Of("mod", <<"q">>, [v |-> TRUE, number |-> 1]),
                       Of("mod", <<"q">>, [v |-> TRUE, number |-> 2]),
                       Of("plain", <<"q">>, [v |-> TRUE, number |-> 2])>>),
      Lock("requirements.txt", <<Of("range", <<"q">>, Vers(1)), Of("plain", <<"p">>, Vers(2))>>),
      Lock("requirements.txt", <<Of("extras", <<"q">>, Vers(1))>>),
      Lock("package.json", <<Of("range", <<"p">>, Vers(1))>>),
      [Lock("yarn.lock", Lodash) EXCEPT !.readable = FALSE],
      [Lock("yarn.lock", Lodash) EXCEPT !.dir = "vendor"] }

MCCheckouts == UNION {[1 .. n -> MCFiles] : n \in 0 .. 2}

-----------------------------------------------------------------------------
(* Two rows of one key: what a replacing table merges, and a plain one does not. *)
MCKeyOf == <<"a", "a">>

(* Nothing tells one replica from the other. *)
MCSymmetry == Permutations(Replicas)
=============================================================================
