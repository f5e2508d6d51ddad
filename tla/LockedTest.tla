----------------------------- MODULE LockedTest -----------------------------
(***************************************************************************)
(* Caches under data/derived/eval and the evaluators that read them.  A    *)
(* compiler replaces the matrices of a bundle one by one and last its      *)
(* adapter, which has their digests; nothing keeps a reader away.  The     *)
(* trimodal XRF55 evaluator reads bundles of three roles, freezes a        *)
(* profile, and may then, once for a cache directory, score the locked     *)
(* test (eval/evaluate-xrf55-trimodal-fusion.py).                          *)
(*                                                                         *)
(* A file is the content it holds, by the number of the revision that it   *)
(* was compiled from, and the run that made it, which stands for its       *)
(* identity.  Temporaries are complete before they are named.              *)
(***************************************************************************)
EXTENDS Naturals, Sequences, FiniteSets, SequencesExt

CONSTANTS
  Processes,   \* programs that run at one time
  Revisions,   \* of corpus and compiler; what one compiles is always the same
  PreGate,     \* the roles that the profile is made of, in order
  Modalities,  \* Modalities[f]: the matrices of an XRF55 bundle of family f, in order
  Families,    \* which of the caches are looked at: "roles", "legacy", "grid", "ruff"
  Gates,       \* sets of profiles, each the set of those that pass the gate
  MaxRuns, MaxKills

Locked == "locked_test"

(* The tuples of the source name a role, and a modality, at least. *)
CacheAssumption ==
  \A s \in {PreGate, Modalities["roles"], Modalities["legacy"]} :
    s \in Seq(Range(s)) \ {<<>>}

VARIABLES
  family, passing, disjoint,  \* of this behaviour; disjoint: roles of two revisions share no group
  disk,     \* the bundles: an adapter and matrices
  receipt,  \* validation-receipt.json
  marker,   \* locked-test-use.json, the receipt it binds
  report,   \* the report of the last evaluation, or locked-test-report.json
  proc,     \* what each program is about
  scored,   \* every score of the locked test that was ever made
  runs, kills

files  == <<disk, receipt, marker, report>>
choice == <<family, passing, disjoint>>
vars   == <<choice, files, proc, scored, runs, kills>>

None == [of |-> 0, by |-> 0]    \* no file; also no document

Bundles == IF family = "roles" THEN Range(PreGate) \cup {Locked} ELSE {family}
Parts   == IF family \in {"roles", "legacy"} THEN Modalities[family] ELSE <<"array">>
Names   == Range(Parts) \cup {"adapter"}

Idle == [at |-> "idle"]

Become(p, r)   == proc' = [proc EXCEPT ![p] = r]
Advance(p, at) == Become(p, [proc[p] EXCEPT !.at = at])
Leave(p)       == Become(p, Idle)    \* with or without an error

\* What is found of bundles: which they were, what was loaded, and whether
\* the profile that is fit to them is ordered and passes the gate.
Passes(data) == \E g \in passing :
  \A i \in DOMAIN data : data[i] = g[(i - 1) \div Len(Parts) + 1]

Findings(c) == [bound |-> c.bound, data |-> c.data, passed |-> Passes(c.data)]

\* The receipt of an earlier validation of bundles that are all of revision r.
ValidationOf(r) ==
  LET of(n) == [i \in 1 .. n |-> r]
  IN Findings([bound |-> of(Len(PreGate)), data |-> of(Len(PreGate) * Len(Parts))])

Init ==
  /\ family \in Families
  /\ passing \in (IF family = "roles" THEN Gates ELSE {{}})
  /\ disjoint \in (IF family = "roles" THEN BOOLEAN ELSE {TRUE})
  /\ \E r \in Revisions \cup {0} :
       /\ disk = [b \in Bundles |-> [n \in Names |->
                    IF r = 0 THEN None ELSE [of |-> r, by |-> 0]]]
       /\ receipt \in {None} \cup (IF family = "roles" /\ r # 0 THEN {ValidationOf(r)} ELSE {})
  /\ marker = None /\ report = None
  /\ proc = [p \in Processes |-> Idle]
  /\ scored = <<>> /\ runs = 0 /\ kills = 0

Begin(p, r) ==
  /\ proc[p] = Idle
  /\ runs < MaxRuns
  /\ runs' = runs + 1
  /\ Become(p, r)
  /\ UNCHANGED <<choice, files, scored, kills>>

-----------------------------------------------------------------------------
(* Compilers.  What they compile is ready, under temporary names, before   *)
(* the first name is replaced.                                             *)

Compiling(p, todo, at) == \E r \in Revisions :
  Begin(p, [at |-> at, todo |-> todo, of |-> r, by |-> runs + 1,
            names |-> Append(Parts, "adapter"), seen |-> <<>>])

\* compile-xrf55-feature-cache.py, by default for all roles but the locked one.
CompileRoles(p) ==
  /\ family = "roles"
  /\ \/ Compiling(p, PreGate, "publish")
     \/ Compiling(p, <<Locked>>, "publish")

CompileLegacy(p) == family = "legacy" /\ Compiling(p, <<"legacy">>, "publish")

CompileGrid(p) == family = "grid" /\ Compiling(p, <<"grid">>, "publish")

\* compile_row_adapter, which keeps files that are right already.
CompileRows(p) == family = "ruff" /\ Compiling(p, <<"ruff">>, "reuse")

LookForReuse(p) ==
  /\ proc[p].at = "reuse"
  /\ IF None \in Range(disk["ruff"]) THEN Advance(p, "publish")
     ELSE Become(p, [proc[p] EXCEPT !.at = "compare", !.seen = disk["ruff"]])
  /\ UNCHANGED <<choice, files, scored, runs, kills>>

Reuse(p) ==
  /\ proc[p].at = "compare"
  /\ IF /\ disk["ruff"]["array"] = proc[p].seen["array"]
        /\ \A n \in Names : proc[p].seen[n].of = proc[p].of
     THEN Leave(p)
     ELSE Advance(p, "publish")
  /\ UNCHANGED <<choice, files, scored, runs, kills>>

\* The next name of the bundle is replaced.
Publish(p) ==
  /\ proc[p].at = "publish"
  /\ LET c == proc[p]
         b == Head(c.todo)
     IN /\ disk' = [disk EXCEPT ![b][Head(c.names)] = [of |-> c.of, by |-> c.by]]
        /\ IF Len(c.names) > 1 THEN Become(p, [c EXCEPT !.names = Tail(@)])
           ELSE IF Len(c.todo) > 1
           THEN Become(p, [c EXCEPT !.todo = Tail(@), !.names = Append(Parts, "adapter")])
           ELSE Leave(p)
  /\ UNCHANGED <<choice, receipt, marker, report, scored, runs, kills>>

-----------------------------------------------------------------------------
(* Loading.  Adapters of all bundles first, then, of each in turn, the     *)
(* matrices: the digest of one is taken, then it is mapped by name.        *)

Reading(todo, purpose) ==
  [at |-> "adapters", todo |-> todo, purpose |-> purpose, bound |-> <<>>, data |-> <<>>,
   fit |-> <<>>, left |-> Parts, hashed |-> None, receipt |-> None]

ReadAdapter(p) ==
  /\ proc[p].at = "adapters"
  /\ LET c == proc[p]
         a == disk[c.todo[Len(c.bound) + 1]]["adapter"]
         bound == Append(c.bound, a.of)
     IN IF a = None THEN Leave(p)
        ELSE IF Len(bound) < Len(c.todo) THEN Become(p, [c EXCEPT !.bound = bound])
        ELSE IF ~disjoint /\ Cardinality(Range(bound \o c.fit)) > 1 THEN Leave(p)
        ELSE Become(p, [c EXCEPT !.at = "hash", !.bound = bound])
  /\ UNCHANGED <<choice, files, scored, runs, kills>>

\* The bundle whose matrices are being loaded, and the next of them.
Current(c) == c.todo[Len(c.data) \div Len(Parts) + 1]
Expected(c) == c.bound[Len(c.data) \div Len(Parts) + 1]

HashMatrix(p) ==
  /\ proc[p].at = "hash"
  /\ LET c == proc[p]
         m == disk[Current(c)][Head(c.left)]
     IN IF m.of # Expected(c) THEN Leave(p)
        ELSE Become(p, [c EXCEPT !.at = "map", !.hashed = m])
  /\ UNCHANGED <<choice, files, scored, runs, kills>>

\* Mutant: nobody looks at the name again.
LoadUnfenced(c, m) == TRUE

\* Whether the file m that was mapped is accepted.  A name is never given
\* back to an earlier file: if it stands for the one whose digest was taken
\* when it is looked at last, it did so when it was mapped.
LoadMatrix(c, m) == m = c.hashed
LoadLegacyMatrix(c, m) == m = c.hashed
LoadWaveforms(c, m) == m = c.hashed
OpenMatrix(c, m) == TRUE    \* nobody looks again

Accepted(c, m) ==
  \/ family = "roles" /\ LoadMatrix(c, m)
  \/ family = "legacy" /\ LoadLegacyMatrix(c, m)
  \/ family = "ruff" /\ LoadWaveforms(c, m)
  \/ family = "grid" /\ OpenMatrix(c, m)

MapMatrix(p) ==
  /\ proc[p].at = "map"
  /\ LET c == proc[p]
         m == disk[Current(c)][Head(c.left)]
         data == Append(c.data, m.of)
     IN IF ~Accepted(c, m) THEN Leave(p)
        ELSE Become(p, [c EXCEPT
               !.data = data,
               !.left = IF Len(@) > 1 THEN Tail(@) ELSE Parts,
               !.at = IF Len(data) = Len(Parts) * Len(c.todo) THEN c.purpose ELSE "hash"])
  /\ UNCHANGED <<choice, files, scored, runs, kills>>

-----------------------------------------------------------------------------
(* Evaluators.                                                             *)

\* evaluate-xrf55-cross-modal-retrieval.py, evaluate-mmwave-jamming-receiver-
\* crossfit.py and evaluate-ruff-uwb-heldout-location.py: a report of one bundle.
Evaluate(p) == family # "roles" /\ Begin(p, Reading(<<family>>, "write"))

\* The commands of evaluate-xrf55-trimodal-fusion.py.
Validate(p) == family = "roles" /\ Begin(p, Reading(PreGate, "write"))
Test(p)     == family = "roles" /\ Begin(p, [at |-> "receipt"])

\* Mutant: that the profile passed is left to the validation.
LoadAnyReceipt(p) ==
  /\ proc[p].at = "receipt"
  /\ IF receipt = None THEN Leave(p)
     ELSE Become(p, [Reading(PreGate, "replay") EXCEPT !.receipt = receipt])
  /\ UNCHANGED <<choice, files, scored, runs, kills>>

LoadReceipt(p) ==
  /\ proc[p].at = "receipt"
  /\ IF receipt = None THEN Leave(p)
     ELSE IF ~receipt.passed THEN Leave(p)
     ELSE Become(p, [Reading(PreGate, "replay") EXCEPT !.receipt = receipt])
  /\ UNCHANGED <<choice, files, scored, runs, kills>>

Replay(p) ==
  /\ proc[p].at = "replay"
  /\ IF Findings(proc[p]) = proc[p].receipt THEN Advance(p, "claim") ELSE Leave(p)
  /\ UNCHANGED <<choice, files, scored, runs, kills>>

\* The link to the marker is refused if there is one, and never removed.
Claim(p) ==
  /\ proc[p].at = "claim"
  /\ IF marker # None THEN Leave(p) /\ UNCHANGED marker
     ELSE /\ marker' = proc[p].receipt
          /\ Become(p, [Reading(<<Locked>>, "score") EXCEPT
               !.receipt = proc[p].receipt, !.fit = proc[p].bound])
  /\ UNCHANGED <<choice, disk, receipt, report, scored, runs, kills>>

Score(p) ==
  /\ proc[p].at = "score"
  /\ scored' = Append(scored, [proc[p] EXCEPT !.at = "write"])
  /\ Advance(p, "write")
  /\ UNCHANGED <<choice, files, runs, kills>>

\* One replacement of the file.
Write(p) ==
  /\ proc[p].at = "write"
  /\ IF proc[p].purpose = "write" /\ family = "roles"
     THEN receipt' = Findings(proc[p]) /\ UNCHANGED report
     ELSE report' = proc[p] /\ UNCHANGED receipt
  /\ Leave(p)
  /\ UNCHANGED <<choice, disk, marker, scored, runs, kills>>

Kill(p) ==
  /\ proc[p] # Idle
  /\ kills < MaxKills
  /\ kills' = kills + 1
  /\ Leave(p)
  /\ UNCHANGED <<choice, files, scored, runs>>

Next == \E p \in Processes :
  \/ CompileRoles(p) \/ CompileLegacy(p) \/ CompileGrid(p) \/ CompileRows(p)
  \/ LookForReuse(p) \/ Reuse(p) \/ Publish(p)
  \/ Evaluate(p) \/ Validate(p) \/ Test(p)
  \/ ReadAdapter(p) \/ HashMatrix(p) \/ MapMatrix(p)
  \/ LoadReceipt(p) \/ Replay(p) \/ Claim(p) \/ Score(p) \/ Write(p)
  \/ Kill(p)

Spec == Init /\ [][Next]_vars

-----------------------------------------------------------------------------

TypeOK ==
  /\ family \in Families /\ disjoint \in BOOLEAN
  /\ \A b \in Bundles : \A n \in Names :
       disk[b][n].of \in Revisions \cup {0} /\ disk[b][n].by \in 0 .. MaxRuns
  /\ runs \in 0 .. MaxRuns /\ kills \in 0 .. MaxKills

\* Whether matrices that were loaded are those that the adapters name.
Whole(bound, data) == \A i \in DOMAIN data : data[i] = bound[(i - 1) \div Len(Parts) + 1]

(* A report is of bundles as they were compiled, each matrix with the      *)
(* adapter that was made for it, although compilers replace them name by   *)
(* name and may be killed between two.  The crossfit evaluator maps its    *)
(* matrix without looking at the name again (open_matrix): it may report   *)
(* on one that was put there since.                                        *)
NothingIsMixed ==
  family # "grid" =>
    /\ receipt # None => Whole(receipt.bound, receipt.data)
    /\ report # None => Whole(report.bound, report.data)

(* Of a cache directory the locked test is scored at most once, whatever   *)
(* runs at a time, is killed or run again, or is recompiled meanwhile:     *)
(* with the profile that the receipt in the marker describes, which passed *)
(* the gate, and on groups that none of it was fit to.                     *)
LockedTestIsScoredOnce ==
  /\ Len(scored) <= 1
  /\ \A i \in DOMAIN scored :
       /\ scored[i].receipt = marker /\ marker.passed /\ Passes(marker.data)
       /\ disjoint \/ Range(scored[i].bound) = Range(marker.bound)
       /\ Whole(scored[i].bound, scored[i].data)
  /\ family = "roles" /\ report # None => Contains(scored, report)

=============================================================================
