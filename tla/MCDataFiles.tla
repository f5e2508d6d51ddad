---------------------------- MODULE MCDataFiles ----------------------------
(***************************************************************************)
(* The files that the evaluations rest on, without a lock on any of them:  *)
(* in one behaviour an artifact that fetchers download (DatasetFetch), in  *)
(* another caches that are compiled while evaluators read them             *)
(* (LockedTest), in a third source files that an adapter projects while    *)
(* they are written to (SourceProjection).                                 *)
(*                                                                         *)
(* Caches, for TLC: two roles before the gate in place of three, one       *)
(* matrix to the bundle of a role and two to a legacy bundle in place of   *)
(* three; a gate that the first revision passes, and one that everything   *)
(* passes.                                                                 *)
(***************************************************************************)
EXTENDS DatasetFetch, MCSources, TLC

CONSTANTS Families, Revisions, PreGate, Modalities, Gates, MaxRuns,
          Requests, Standing0, Others, MaxEdits

VARIABLES subject, family, passing, disjoint, bundles, validation, marker,
          report, proc, scored, runs, stops,
          adapter, request, names, inodes, journal, committed, seen, edits, reader

MCRevisions  == {1, 2}
MCPreGate    == <<"train", "validation">>
MCModalities == [roles |-> <<"wifi">>, legacy |-> <<"wifi", "rfid">>]
MCGates      == {{<<1, 1>>}, [1 .. 2 -> MCRevisions]}

Cache == INSTANCE LockedTest WITH
  Processes <- Procs, disk <- bundles, receipt <- validation, kills <- stops

ASSUME CachesAssumption == Cache!CacheAssumption

Source == INSTANCE SourceProjection

ASSUME SourcesAssumption == Source!SourceAssumption

caches == <<family, passing, disjoint, bundles, validation, marker, report, proc,
            scored, runs, stops>>
call == <<adapter, request, names, inodes, journal, committed, seen, edits, reader>>

Download   == subject = "download" /\ UNCHANGED <<subject, caches, call>>
Evaluation == subject = "evaluation" /\ UNCHANGED <<subject, vars, call>>
Projection == subject = "projection" /\ UNCHANGED <<subject, vars, caches>>

\* The other two have nothing to do.
MCInit ==
  /\ subject \in {"download", "evaluation", "projection"}
  /\ IF subject = "download" THEN Init
     ELSE Init /\ kind = "jamming"
  /\ IF subject = "evaluation" THEN Cache!Init
     ELSE Cache!Init /\ family = "ruff" /\ bundles["ruff"]["array"] = Cache!None
  /\ IF subject = "projection" THEN Source!Init
     ELSE Source!Begin("npy", [first |-> 0, count |-> 1, rank |-> 1],
                       [array |-> <<Array(1, 1), 1>>])

MCNext ==
  \/ Download /\ Drift
  \/ Download /\ Damage
  \/ \E p \in Procs :
       \/ (Download /\ Start(p))          \/ (Download /\ Look(p))
       \/ (Download /\ LookForOrphan(p))  \/ (Download /\ Digest(p))
       \/ (Download /\ Accept(p))         \/ (Download /\ Resume(p))
       \/ (Download /\ Request(p))        \/ (Download /\ Open(p))
       \/ (Download /\ Receive(p))        \/ (Download /\ Check(p))
       \/ (Download /\ Promote(p))        \/ (Download /\ Unlink(p))
       \/ (Download /\ WriteReceipt(p))   \/ (Download /\ Stage(p))
       \/ (Download /\ Rename(p))         \/ (Download /\ Seal(p))
       \/ (Download /\ Rollback(p))       \/ (Download /\ Kill(p))
       \/ (Evaluation /\ Cache!CompileRoles(p))  \/ (Evaluation /\ Cache!CompileLegacy(p))
       \/ (Evaluation /\ Cache!CompileGrid(p))   \/ (Evaluation /\ Cache!CompileRows(p))
       \/ (Evaluation /\ Cache!LookForReuse(p))  \/ (Evaluation /\ Cache!Reuse(p))
       \/ (Evaluation /\ Cache!Publish(p))       \/ (Evaluation /\ Cache!Evaluate(p))
       \/ (Evaluation /\ Cache!Validate(p))      \/ (Evaluation /\ Cache!Test(p))
       \/ (Evaluation /\ Cache!ReadAdapter(p))   \/ (Evaluation /\ Cache!HashMatrix(p))
       \/ (Evaluation /\ Cache!MapMatrix(p))     \/ (Evaluation /\ Cache!LoadReceipt(p))
       \/ (Evaluation /\ Cache!Replay(p))        \/ (Evaluation /\ Cache!Claim(p))
       \/ (Evaluation /\ Cache!Score(p))         \/ (Evaluation /\ Cache!Write(p))
       \/ (Evaluation /\ Cache!Kill(p))
  \/ (Projection /\ Source!Open)     \/ (Projection /\ Source!Read)
  \/ (Projection /\ Source!ReadAll)  \/ (Projection /\ Source!Check)
  \/ (Projection /\ Source!Fence)    \/ (Projection /\ Source!RejectSidecars)
  \/ (Projection /\ Source!Answer)   \/ (Projection /\ Source!BeginTransaction)
  \/ (Projection /\ Source!Commit)
  \/ \E n \in DOMAIN names :
       \/ (Projection /\ Source!Unlink(n))
       \/ \E g \in Others[adapter][n] : Projection /\ Source!Replace(n, g)
       \/ \E g \in Others[adapter][n] :
            \E i \in DOMAIN g : Projection /\ Source!Write(n, g, i)

MCSpec == MCInit /\ [][MCNext]_<<vars, caches, call, subject>>

Alike == Permutations(Procs)

-----------------------------------------------------------------------------

(* A report of an evaluator is of one compiled generation (LockedTest).    *)
NothingIsMixed == Cache!NothingIsMixed

(* The locked test is used once, by a gated profile (LockedTest).          *)
LockedTestIsScoredOnce == Cache!LockedTestIsScoredOnce

(* A projection is of source files as they stood (SourceProjection).       *)
ProjectionIsOfSource == Source!ProjectionIsOfSource

=============================================================================
