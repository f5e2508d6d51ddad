---------------------------- MODULE TsharkBatch ----------------------------
(***************************************************************************)
(* rust/src/adapters/tshark/mod.rs: a batch of captures is normalized      *)
(* between two discoveries of the TShark version and configuration (the    *)
(* fence).  normalize_saved_capture_requests runs the captures in chunks   *)
(* of worker threads and joins each chunk in order;                        *)
(* normalize_saved_captures runs them one by one and also looks for        *)
(* personal plugins at both discoveries.                                   *)
(*                                                                         *)
(* The installation of TShark belongs to others and changes at any moment: *)
(* it is a version and a configuration, each a number, read by separate    *)
(* tool runs.                                                              *)
(***************************************************************************)
EXTENDS Integers, FiniteSets

CONSTANTS
  Requests,        \* number of captures in the batch
  MaxParallelism,  \* max_parallelism
  MaxChanges,      \* bound on changes of the installation
  Reverts,         \* whether a change may undo an earlier one
  MaxFailures      \* bound on captures and discoveries that fail

ASSUME TsharkBatchAssumption ==
  /\ Requests \in Nat \ {0}
  /\ MaxParallelism \in Nat \ {0}
  /\ MaxChanges \in Nat /\ MaxFailures \in Nat
  /\ Reverts \in BOOLEAN

Index    == 1 .. Requests
Parts    == {"version", "configuration"}
Setups   == [Parts -> 0 .. MaxChanges]
Unseen   == [part \in Parts |-> -1]

VARIABLES
  variant,   \* "captures" (sequential) or "requests" (chunks of threads)
  setup,     \* the installation as it is now
  plugins,   \* a personal plugin is installed, and not allowed
  changes, failures,   \* counters for the bounds
  pc,        \* the caller's next step
  before, after,       \* the two snapshots
  worker,    \* worker[i]: how far the normalization of capture i is
  used,      \* used[i]: the installation its TShark run met
  joined,    \* captures whose worker has been joined, always 1 .. joined
  error,     \* the capture whose failure ends the batch, or 0
  result     \* "none", "reports", "failed", "changed", "plugins",
             \* "undiscovered" or "panic"

vars == <<variant, setup, plugins, changes, failures, pc, before, after,
          worker, used, joined, error, result>>
world == <<variant, setup, plugins, changes>>
batch == <<pc, before, after, joined, error, result>>

Init ==
  /\ variant \in {"captures", "requests"}
  /\ setup = [part \in Parts |-> 0]
  /\ plugins = FALSE
  /\ changes = 0
  /\ failures = 0
  /\ pc = "inspect"
  /\ before = Unseen
  /\ after = Unseen
  /\ worker = [i \in Index |-> "waiting"]
  /\ used = [i \in Index |-> Unseen]
  /\ joined = 0
  /\ error = 0
  /\ result = "none"

----------------------------------------------------------------------------
(* The installation, which nothing in this program changes: external.      *)

Change(part) ==
  /\ changes < MaxChanges
  /\ changes' = changes + 1
  /\ \E value \in 0 .. MaxChanges :
       /\ value = setup[part] + 1 \/ (Reverts /\ value < setup[part])
       /\ setup' = [setup EXCEPT ![part] = value]
  /\ UNCHANGED <<variant, plugins, failures, worker, used, batch>>

InstallPlugin ==
  /\ ~plugins
  /\ plugins' = TRUE
  /\ UNCHANGED <<variant, setup, changes, failures, worker, used, batch>>

----------------------------------------------------------------------------
(* The two discoveries.                                                    *)

Goto(label) == pc' = label

Return(how) ==
  /\ pc' = "returned"
  /\ result' = how

\* reject_personal_plugins_unless_allowed
Inspect ==
  /\ pc = "inspect"
  /\ IF plugins THEN Return("plugins") ELSE Goto("version") /\ UNCHANGED result
  /\ UNCHANGED <<world, failures, before, after, worker, used, joined, error>>

\* discover_tshark_snapshot: tshark --version, then the -G reports.
DiscoverVersion ==
  /\ pc = "version"
  /\ before' = [before EXCEPT !["version"] = setup["version"]]
  /\ Goto("configuration")
  /\ UNCHANGED <<world, failures, after, worker, used, joined, error, result>>

DiscoverConfiguration ==
  /\ pc = "configuration"
  /\ before' = [before EXCEPT !["configuration"] = setup["configuration"]]
  /\ Goto("run")
  /\ UNCHANGED <<world, failures, after, worker, used, joined, error, result>>

\* A tool run of either discovery fails, times out or complains: its error is
\* returned, in the closing discovery in place of what became of the captures.
DiscoverFails ==
  /\ pc \in {"version", "configuration", "version_again", "configuration_again"}
  /\ failures < MaxFailures
  /\ failures' = failures + 1
  /\ Return("undiscovered")
  /\ UNCHANGED <<world, before, after, worker, used, joined, error>>

----------------------------------------------------------------------------
(* normalize_saved_capture_with_snapshot, one worker per capture.          *)

Running(i) == worker[i] \in {"staged", "measured", "dissected"}
Ended(i)   == worker[i] \in {"report", "error", "panicked"}

WorkerGoes(i, from, to) ==
  /\ worker[i] = from
  /\ worker' = [worker EXCEPT ![i] = to]
  /\ UNCHANGED <<world, failures, batch>>

\* stage_capture has copied and hashed the input; then capinfos runs.
RunCapinfos(i) == WorkerGoes(i, "staged", "measured") /\ UNCHANGED used

\* TShark dissects the staged file with the installation of this moment.
RunTshark(i) ==
  /\ WorkerGoes(i, "measured", "dissected")
  /\ used' = [used EXCEPT ![i] = setup]

\* The staged file is hashed again and the rows are counted.
CheckCapture(i) == WorkerGoes(i, "dissected", "report") /\ UNCHANGED used

\* A tool fails, times out or complains, the capture is too large or changed,
\* the counts differ; or the thread panics.
FailCapture(i) ==
  /\ Running(i) /\ failures < MaxFailures
  /\ failures' = failures + 1
  /\ \E how \in {"error", "panicked"} : worker' = [worker EXCEPT ![i] = how]
  /\ UNCHANGED <<world, used, batch>>

----------------------------------------------------------------------------
(* run_bounded_parallel and the loop of run_atomic_batch.                  *)

Width == IF variant = "captures" THEN 1 ELSE MaxParallelism

\* The chunk that starts after the captures joined so far.
Chunk == {i \in Index : joined < i /\ i <= joined + Width}

\* Every worker of a chunk is started before the first is joined.
Spawn ==
  /\ pc = "run" /\ joined < Requests
  /\ worker' = [i \in Index |-> IF i \in Chunk THEN "staged" ELSE worker[i]]
  /\ Goto("join")
  /\ UNCHANGED <<world, failures, before, after, used, joined, error, result>>

\* Nothing that was started is left to join after the first n captures.
ChunkEnds(n) == \A i \in Index : i > n => worker[i] = "waiting"

\* Mutant: whichever worker failed decides.
JoinAnyFailure ==
  /\ pc = "join"
  /\ \E i \in Index :
       /\ Ended(i)
       /\ i = joined + 1 \/ worker[i] # "report"
       /\ joined' = i
       /\ IF worker[i] = "report"
            THEN UNCHANGED error /\ Goto(IF ChunkEnds(i) THEN "run" ELSE "join")
            ELSE error' = i /\ Goto("scope")
  /\ UNCHANGED <<world, failures, before, after, worker, used, result>>

\* Workers are joined in the order of the requests; the first that failed
\* ends the loop.
Join ==
  /\ pc = "join"
  /\ LET i == joined + 1 IN
     /\ Ended(i)
     /\ joined' = i
     /\ IF worker[i] = "report"
          THEN /\ UNCHANGED error
               /\ Goto(IF ChunkEnds(i) THEN "run" ELSE "join")
          ELSE /\ error' = i
               /\ Goto("scope")
  /\ UNCHANGED <<world, failures, before, after, worker, used, result>>

AllJoined ==
  /\ pc = "run" /\ joined = Requests
  /\ Goto("scope")
  /\ UNCHANGED <<world, failures, before, after, worker, used, joined, error,
                 result>>

\* The end of thread::scope joins what was not joined.  It panics itself when
\* one of those threads did; a panic in the sequential loop simply unwinds.
LeaveScope ==
  /\ pc = "scope" /\ \A i \in Index : ~Running(i)
  /\ IF \/ \E i \in Index : i > joined /\ worker[i] = "panicked"
        \/ variant = "captures" /\ error # 0 /\ worker[error] = "panicked"
       THEN Return("panic")
       ELSE /\ Goto(IF variant = "captures" THEN "inspect_again" ELSE "version_again")
            /\ UNCHANGED result
  /\ UNCHANGED <<world, failures, before, after, worker, used, joined, error>>

\* The closing fence: its own failures and a difference take precedence over
\* the result of the captures.
InspectAgain ==
  /\ pc = "inspect_again"
  /\ IF plugins
       THEN Return("plugins")
       ELSE Goto("version_again") /\ UNCHANGED result
  /\ UNCHANGED <<world, failures, before, after, worker, used, joined, error>>

DiscoverVersionAgain ==
  /\ pc = "version_again"
  /\ after' = [after EXCEPT !["version"] = setup["version"]]
  /\ Goto("configuration_again")
  /\ UNCHANGED <<world, failures, before, worker, used, joined, error, result>>

DiscoverConfigurationAgain ==
  /\ pc = "configuration_again"
  /\ after' = [after EXCEPT !["configuration"] = setup["configuration"]]
  /\ Goto("compare")
  /\ UNCHANGED <<world, failures, before, worker, used, joined, error, result>>

\* Mutant: only the version is compared.
SameVersion == before["version"] = after["version"]

SameSnapshot == before = after

Compare ==
  /\ pc = "compare"
  /\ Return(IF ~SameSnapshot THEN "changed"
            ELSE IF error # 0 THEN "failed" ELSE "reports")
  /\ UNCHANGED <<world, failures, before, after, worker, used, joined, error>>

Worker(i) == RunCapinfos(i) \/ RunTshark(i) \/ CheckCapture(i)
Caller    == \/ Inspect \/ DiscoverVersion \/ DiscoverConfiguration
             \/ Spawn \/ Join \/ AllJoined \/ LeaveScope \/ InspectAgain
             \/ DiscoverVersionAgain \/ DiscoverConfigurationAgain \/ Compare

Next ==
  \/ \E part \in Parts : Change(part)
  \/ InstallPlugin
  \/ DiscoverFails
  \/ \E i \in Index : Worker(i) \/ FailCapture(i)
  \/ Caller

Spec == Init /\ [][Next]_vars

----------------------------------------------------------------------------
(* Properties.                                                             *)

Steps   == {"waiting", "staged", "measured", "dissected", "report", "error",
            "panicked"}
Labels  == {"inspect", "version", "configuration", "run", "join", "scope",
            "inspect_again", "version_again", "configuration_again", "compare",
            "returned"}
Results == {"none", "reports", "failed", "changed", "plugins", "undiscovered",
            "panic"}

\* Every variable keeps its shape.
TypeOK ==
  /\ variant \in {"captures", "requests"}
  /\ setup \in Setups
  /\ plugins \in BOOLEAN
  /\ changes \in 0 .. MaxChanges
  /\ failures \in 0 .. MaxFailures
  /\ pc \in Labels
  /\ before \in [Parts -> -1 .. MaxChanges]
  /\ after \in [Parts -> -1 .. MaxChanges]
  /\ worker \in [Index -> Steps]
  /\ used \in [Index -> [Parts -> -1 .. MaxChanges]]
  /\ joined \in 0 .. Requests
  /\ error \in 0 .. Requests
  /\ result \in Results

\* When reports are returned there is one for every request, and every TShark
\* run met exactly the installation the reports name, although the snapshots
\* are read piece by piece and the workers run at other moments.
FenceHolds ==
  result = "reports" =>
    \A i \in Index : worker[i] = "report" /\ used[i] = before

\* The error of a batch is that of the first failed request, whatever the
\* order in which the workers ended.
FirstErrorWins ==
  error # 0 => /\ worker[error] \in {"error", "panicked"}
               /\ \A i \in Index : i < error => worker[i] = "report"

\* No worker outlives the fence: from the closing discovery on, no
\* normalization runs.
NoWorkerOutlivesFence ==
  pc \in {"inspect_again", "version_again", "configuration_again", "compare",
          "returned"} => \A i \in Index : ~Running(i)

\* Once a request has failed no later chunk is started.
NothingStartsAfterFailure ==
  [][error # 0 => \A i \in Index : worker[i] = "waiting" =>
       worker'[i] = "waiting"]_vars
=============================================================================
