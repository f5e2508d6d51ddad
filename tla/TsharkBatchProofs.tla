-------------------------- MODULE TsharkBatchProofs --------------------------
(***************************************************************************)
(* What holds of a batch for every number of requests, every parallelism   *)
(* and every bound on failures and changes of the installation; of a       *)
(* bounded run of a tool; and of the two composed.                         *)
(***************************************************************************)
EXTENDS MCProcess, TLAPS

USE TsharkBatchAssumption

Opening == {"inspect", "version", "configuration"}
Closing == {"inspect_again", "version_again", "configuration_again", "compare",
            "returned"}
Failed  == {"error", "panicked"}

----------------------------------------------------------------------------
(* Types.  That no worker beyond the last is ever joined is part of the    *)
(* argument, so the types go together with where the loop stands.          *)

WorldOK ==
  /\ variant \in {"captures", "requests"}
  /\ setup \in Setups
  /\ plugins \in BOOLEAN
  /\ changes \in 0 .. MaxChanges
  /\ failures \in 0 .. MaxFailures

BatchOK ==
  /\ pc \in Labels
  /\ before \in [Parts -> -1 .. MaxChanges]
  /\ after \in [Parts -> -1 .. MaxChanges]
  /\ joined \in 0 .. Requests
  /\ error \in 0 .. Requests
  /\ result \in Results

WorkersOK ==
  /\ worker \in [Index -> Steps]
  /\ used \in [Index -> [Parts -> -1 .. MaxChanges]]

LEMMA TypeParts == TypeOK <=> WorldOK /\ BatchOK /\ WorkersOK
BY DEF TypeOK, WorldOK, BatchOK, WorkersOK

\* The loop: workers are started in the order of the requests, a chunk at a
\* time, and joined in that order up to the first that failed.
Started ==
  /\ pc \in Opening => \A i \in Index : worker[i] = "waiting"
  /\ \A i, j \in Index : i < j /\ worker[i] = "waiting" => worker[j] = "waiting"
  /\ pc = "run" => \A i \in Index : i > joined => worker[i] = "waiting"
  /\ pc = "join" => joined < Requests /\ worker[joined + 1] # "waiting"

Joined ==
  /\ pc \in {"run", "join"} \cup Opening => error = 0
  /\ pc \in Opening => joined = 0
  /\ error = 0 => \A i \in Index : i <= joined => worker[i] = "report"
  /\ error # 0 => /\ error = joined
                  /\ worker[error] \in Failed
                  /\ \A i \in Index : i < error => worker[i] = "report"
  /\ pc \in {"scope"} \cup (Closing \ {"returned"}) =>
       error # 0 \/ joined = Requests
  /\ result = "reports" => pc = "returned" /\ error = 0 /\ joined = Requests

\* The closing discovery starts when all workers have ended.
Fenced ==
  pc \in Closing => \A i \in Index : ~Running(i)

LoopInv == Started /\ Joined /\ Fenced

----------------------------------------------------------------------------
LEMMA InitLoop == Init => TypeOK /\ LoopInv
<1> SUFFICES ASSUME Init PROVE TypeOK /\ LoopInv
  OBVIOUS
<1>1. WorldOK
  <2>1. setup \in Setups
    BY DEF Init, Setups
  <2>2. changes \in 0 .. MaxChanges /\ failures \in 0 .. MaxFailures
    BY DEF Init
  <2>3. variant \in {"captures", "requests"} /\ plugins \in BOOLEAN
    BY DEF Init
  <2> QED BY <2>1, <2>2, <2>3 DEF WorldOK
<1>2. BatchOK
  BY DEF Init, BatchOK, Labels, Results, Unseen
<1>3. WorkersOK
  BY DEF Init, WorkersOK, Steps, Unseen
<1>4. LoopInv
  BY DEF Init, LoopInv, Started, Joined, Fenced, Opening, Closing, Index
<1> QED BY <1>1, <1>2, <1>3, <1>4, TypeParts

\* Other programs touch the installation only.
LEMMA WorldStep ==
  ASSUME TypeOK, LoopInv, (\E part \in Parts : Change(part)) \/ InstallPlugin
  PROVE  TypeOK' /\ LoopInv'
<1>0. WorldOK /\ BatchOK /\ WorkersOK
  BY TypeParts
<1>1. UNCHANGED <<variant, failures, worker, used, pc, before, after, joined,
                  error, result>>
  BY DEF Change, InstallPlugin, batch
<1>2. WorldOK'
  <2>1. CASE InstallPlugin
    BY <1>0, <2>1 DEF InstallPlugin, WorldOK
  <2>2. ASSUME NEW part \in Parts, Change(part) PROVE WorldOK'
    <3>1. PICK value \in 0 .. MaxChanges : setup' = [setup EXCEPT ![part] = value]
      BY <2>2 DEF Change
    <3> QED BY <1>0, <2>2, <3>1 DEF Change, WorldOK, Setups
  <2> QED BY <2>1, <2>2
<1>3. TypeOK'
  BY <1>0, <1>1, <1>2 DEF TypeOK, WorldOK, BatchOK, WorkersOK
<1>4. LoopInv'
  BY <1>1 DEF LoopInv, Started, Joined, Fenced, Running
<1> QED BY <1>3, <1>4

\* A worker that runs goes on, or ends.
LEMMA WorkerStep ==
  ASSUME TypeOK, LoopInv, NEW i \in Index, Worker(i) \/ FailCapture(i)
  PROVE  TypeOK' /\ LoopInv'
<1>0. WorldOK /\ BatchOK /\ WorkersOK
  BY TypeParts
<1>1. UNCHANGED <<world, batch>>
  BY DEF Worker, WorkerGoes, RunCapinfos, RunTshark, CheckCapture, FailCapture
<1>2. failures' \in 0 .. MaxFailures
  BY <1>0 DEF Worker, WorkerGoes, RunCapinfos, RunTshark, CheckCapture,
     FailCapture, WorldOK
<1>3. /\ Running(i)
      /\ \E to \in Steps \ {"waiting"} : worker' = [worker EXCEPT ![i] = to]
  BY DEF Worker, WorkerGoes, RunCapinfos, RunTshark, CheckCapture, FailCapture,
     Running, Steps
<1>4. used' = used \/ used' = [used EXCEPT ![i] = setup]
  BY DEF Worker, RunCapinfos, RunTshark, CheckCapture, FailCapture
<1>5. setup \in [Parts -> -1 .. MaxChanges]
  BY <1>0 DEF WorldOK, Setups
<1>6. WorkersOK'
  BY <1>0, <1>3, <1>4, <1>5 DEF WorkersOK
<1>7. TypeOK'
  BY <1>0, <1>1, <1>2, <1>6 DEF world, batch, TypeOK, WorldOK, BatchOK, WorkersOK
<1>8. /\ worker[i] # "waiting" /\ worker'[i] # "waiting"
      /\ worker[i] \notin Failed \cup {"report"}
      /\ \A j \in Index \ {i} : worker'[j] = worker[j]
  BY <1>0, <1>3 DEF WorkersOK, Running, Failed
<1>9. pc \notin Closing
  BY <1>3 DEF LoopInv, Fenced
<1>10. Started'
  <2>1. pc' = pc /\ joined' = joined
    BY <1>1 DEF batch
  <2>2. \A j \in Index : worker'[j] = "waiting" <=> worker[j] = "waiting"
    BY <1>8
  <2>3. joined < Requests => joined + 1 \in Index
    BY <1>0 DEF BatchOK, Index
  <2> QED BY <2>1, <2>2, <2>3 DEF LoopInv, Started
<1>11. Joined'
  <2>1. UNCHANGED <<pc, joined, error, result>>
    BY <1>1 DEF batch
  <2>2. \A j \in Index : worker[j] \in Failed \cup {"report"} =>
          worker'[j] = worker[j]
    BY <1>8
  <2>3. error # 0 => error \in Index
    BY <1>0 DEF BatchOK, Index
  <2> QED BY <2>1, <2>2, <2>3 DEF LoopInv, Joined
<1>12. Fenced'
  BY <1>1, <1>9 DEF batch, Fenced
<1> QED BY <1>7, <1>10, <1>11, <1>12 DEF LoopInv

LEMMA SpawnStep ==
  ASSUME TypeOK, LoopInv, Spawn PROVE TypeOK' /\ LoopInv'
<1>0. WorldOK /\ BatchOK /\ WorkersOK /\ Width \in Nat \ {0}
  BY TypeParts DEF Width
<1>1. /\ pc = "run" /\ pc' = "join" /\ joined < Requests
      /\ worker' = [i \in Index |-> IF i \in Chunk THEN "staged" ELSE worker[i]]
      /\ UNCHANGED <<world, failures, before, after, used, joined, error, result>>
  BY DEF Spawn, Goto
<1>2. \A i \in Index : i \in Chunk <=> joined < i /\ i <= joined + Width
  BY DEF Chunk
<1>3. joined + 1 \in Chunk
  BY <1>0, <1>1, <1>2 DEF BatchOK, Index
<1>4. TypeOK'
  BY <1>0, <1>1 DEF world, TypeOK, WorldOK, BatchOK, WorkersOK, Labels, Steps
<1>5. Started'
  <2>1. ASSUME NEW i \in Index, NEW j \in Index, i < j, worker'[i] = "waiting"
        PROVE  worker'[j] = "waiting"
    <3>1. worker[i] = "waiting" /\ i \notin Chunk
      BY <1>1, <2>1
    <3>2. worker[j] = "waiting"
      BY <2>1, <3>1 DEF LoopInv, Started
    <3>3. i > joined
      <4>1. i <= joined => worker[i] = "report"
        BY <1>1 DEF LoopInv, Joined
      <4> QED BY <1>0, <3>1, <4>1 DEF BatchOK, Index
    <3>4. j \notin Chunk
      BY <1>0, <1>2, <2>1, <3>1, <3>3 DEF BatchOK, Index
    <3> QED BY <1>1, <3>2, <3>4
  <2>2. worker'[joined + 1] # "waiting"
    BY <1>1, <1>3 DEF Chunk
  <2> QED BY <1>1, <2>1, <2>2 DEF Started, Opening
<1>6. Joined'
  <2>1. error = 0 /\ result # "reports"
    BY <1>1 DEF LoopInv, Joined, Opening
  <2>2. \A i \in Index : i <= joined => worker'[i] = "report"
    BY <1>0, <1>1, <1>2, <2>1 DEF LoopInv, Joined, BatchOK, Index
  <2> QED BY <1>1, <2>1, <2>2 DEF Joined, Opening, Closing
<1>7. Fenced'
  BY <1>1 DEF Fenced, Closing
<1> QED BY <1>4, <1>5, <1>6, <1>7 DEF LoopInv

LEMMA JoinStep ==
  ASSUME TypeOK, LoopInv, Join PROVE TypeOK' /\ LoopInv'
<1> DEFINE n == joined + 1
<1>0. WorldOK /\ BatchOK /\ WorkersOK
  BY TypeParts
<1>1. /\ pc = "join" /\ Ended(n) /\ joined' = n
      /\ UNCHANGED <<world, failures, before, after, worker, used, result>>
  BY DEF Join
<1>2. n \in Index /\ joined \in Nat /\ error = 0 /\ result # "reports"
  BY <1>0, <1>1 DEF LoopInv, Started, Joined, BatchOK, Index
<1>3. \A i \in Index : i < n => worker[i] = "report"
  BY <1>2 DEF LoopInv, Joined, Index
<1>4. CASE worker[n] = "report"
  <2>1. error' = 0 /\ pc' = IF ChunkEnds(n) THEN "run" ELSE "join"
    BY <1>2, <1>4 DEF Join, Goto
  <2>2. TypeOK'
    BY <1>0, <1>1, <1>2, <2>1 DEF world, TypeOK, WorldOK, BatchOK, WorkersOK,
       Labels, Index
  <2>3. Started'
    <3>1. CASE ChunkEnds(n)
      BY <1>1, <2>1, <3>1 DEF LoopInv, Started, Opening, ChunkEnds
    <3>2. CASE ~ChunkEnds(n)
      <4>1. PICK j \in Index : j > n /\ worker[j] # "waiting"
        BY <3>2 DEF ChunkEnds
      <4>2. n < Requests /\ n + 1 \in Index
        BY <1>2, <4>1 DEF Index
      <4>3. worker[n + 1] # "waiting"
        <5>1. n + 1 < j \/ n + 1 = j
          BY <1>2, <4>1 DEF Index
        <5> QED BY <4>1, <4>2, <5>1 DEF LoopInv, Started
      <4> QED BY <1>1, <2>1, <3>2, <4>2, <4>3 DEF LoopInv, Started, Opening
    <3> QED BY <3>1, <3>2
  <2>4. Joined'
    <3>1. \A i \in Index : i <= n => worker[i] = "report"
      BY <1>2, <1>3, <1>4 DEF Index
    <3> QED BY <1>1, <1>2, <2>1, <3>1 DEF Joined, Opening, Closing
  <2>5. Fenced'
    BY <2>1 DEF Fenced, Closing
  <2> QED BY <2>2, <2>3, <2>4, <2>5 DEF LoopInv
<1>5. CASE worker[n] # "report"
  <2>1. error' = n /\ pc' = "scope" /\ worker[n] \in Failed
    BY <1>1, <1>5 DEF Join, Goto, Ended, Failed
  <2>2. TypeOK'
    BY <1>0, <1>1, <1>2, <2>1 DEF world, TypeOK, WorldOK, BatchOK, WorkersOK,
       Labels, Index
  <2>3. Started'
    BY <1>1, <2>1 DEF LoopInv, Started, Opening
  <2>4. Joined'
    BY <1>1, <1>2, <1>3, <2>1 DEF Joined, Opening, Closing, Index
  <2>5. Fenced'
    BY <2>1 DEF Fenced, Closing
  <2> QED BY <2>2, <2>3, <2>4, <2>5 DEF LoopInv
<1> QED BY <1>4, <1>5

\* The steps of the caller that move no worker.
LEMMA FenceStep ==
  ASSUME TypeOK, LoopInv,
         \/ Inspect \/ DiscoverVersion \/ DiscoverConfiguration \/ AllJoined
         \/ LeaveScope \/ InspectAgain \/ DiscoverVersionAgain
         \/ DiscoverConfigurationAgain \/ Compare
  PROVE  TypeOK' /\ LoopInv'
<1>0. WorldOK /\ BatchOK /\ WorkersOK
  BY TypeParts
<1>1. UNCHANGED <<world, failures, worker, used, joined, error>>
  BY DEF Inspect, DiscoverVersion, DiscoverConfiguration, AllJoined, LeaveScope,
     InspectAgain, DiscoverVersionAgain, DiscoverConfigurationAgain, Compare
<1>2. before' \in [Parts -> -1 .. MaxChanges]
      /\ after' \in [Parts -> -1 .. MaxChanges]
  BY <1>0 DEF Inspect, DiscoverVersion, DiscoverConfiguration, AllJoined,
     LeaveScope, InspectAgain, DiscoverVersionAgain, DiscoverConfigurationAgain,
     Compare, WorldOK, BatchOK, Setups, Parts
<1>3. pc' \in Labels /\ result' \in Results
  BY <1>0 DEF Inspect, DiscoverVersion, DiscoverConfiguration, AllJoined,
     LeaveScope, InspectAgain, DiscoverVersionAgain, DiscoverConfigurationAgain,
     Compare, Goto, Return, BatchOK, Labels, Results
<1>4. TypeOK'
  BY <1>0, <1>1, <1>2, <1>3 DEF world, TypeOK, WorldOK, BatchOK, WorkersOK
<1>5. CASE Inspect \/ DiscoverVersion \/ DiscoverConfiguration
  <2>1. /\ pc \in Opening
        /\ \/ pc' \in Opening \cup {"run"} /\ result' = result
           \/ pc' = "returned" /\ result' = "plugins"
    BY <1>5 DEF Inspect, DiscoverVersion, DiscoverConfiguration, Goto, Return,
       Opening
  <2>2. \A i \in Index : worker[i] = "waiting"
    BY <2>1 DEF LoopInv, Started
  <2>3. error = 0 /\ joined = 0
    BY <2>1 DEF LoopInv, Joined
  <2> QED BY <1>1, <1>4, <2>1, <2>2, <2>3 DEF LoopInv, Started, Joined, Fenced,
          Opening, Closing, Running, Index
<1>6. CASE AllJoined
  BY <1>1, <1>4, <1>6 DEF AllJoined, Goto, LoopInv, Started, Joined, Fenced,
     Opening, Closing
<1>7. CASE LeaveScope
  <2>1. /\ pc = "scope" /\ pc' \in Closing /\ \A i \in Index : ~Running(i)
        /\ result' \in {result, "panic"}
    BY <1>7 DEF LeaveScope, Goto, Return, Closing
  <2>2. (error # 0 \/ joined = Requests) /\ result # "reports"
    BY <2>1 DEF LoopInv, Joined
  <2> QED BY <1>1, <1>4, <2>1, <2>2 DEF LoopInv, Started, Joined, Fenced,
          Opening, Closing, Running
<1>8. CASE InspectAgain \/ DiscoverVersionAgain \/ DiscoverConfigurationAgain
           \/ Compare
  <2>1. /\ pc \in Closing \ {"returned"} /\ pc' \in Closing
        /\ result' = "reports" => result = "reports" \/ (pc' = "returned" /\ error = 0)
    BY <1>8 DEF InspectAgain, DiscoverVersionAgain, DiscoverConfigurationAgain,
       Compare, Goto, Return, Closing
  <2> QED BY <1>1, <1>4, <2>1 DEF LoopInv, Started, Joined, Fenced, Opening,
          Closing, Running
<1> QED BY <1>5, <1>6, <1>7, <1>8

LEMMA DiscoverFailsStep ==
  ASSUME TypeOK, LoopInv, DiscoverFails PROVE TypeOK' /\ LoopInv'
<1>0. WorldOK /\ BatchOK /\ WorkersOK
  BY TypeParts
<1>1. /\ pc \in Opening \cup (Closing \ {"returned"}) /\ pc' = "returned"
      /\ result' = "undiscovered"
      /\ UNCHANGED <<world, before, after, worker, used, joined, error>>
  BY DEF DiscoverFails, Return, Opening, Closing
<1>2. failures' \in 0 .. MaxFailures
  BY <1>0 DEF DiscoverFails, WorldOK
<1>3. TypeOK'
  BY <1>0, <1>1, <1>2 DEF world, TypeOK, WorldOK, BatchOK, WorkersOK, Labels,
     Results
<1>4. \A i \in Index : ~Running(i)
  BY <1>1 DEF LoopInv, Started, Fenced, Running
<1>5. Started' /\ Joined' /\ Fenced'
  BY <1>1, <1>4 DEF LoopInv, Started, Joined, Fenced, Running, Opening, Closing
<1> QED BY <1>3, <1>5 DEF LoopInv

LEMMA NextLoop == TypeOK /\ LoopInv /\ [Next]_vars => TypeOK' /\ LoopInv'
<1> SUFFICES ASSUME TypeOK, LoopInv, [Next]_vars PROVE TypeOK' /\ LoopInv'
  OBVIOUS
<1>1. CASE UNCHANGED vars
  <2>1. TypeOK'
    BY <1>1 DEF vars, TypeOK
  <2>2. LoopInv'
    BY <1>1 DEF vars, LoopInv, Started, Joined, Fenced, Running
  <2> QED BY <2>1, <2>2
<1>2. CASE (\E part \in Parts : Change(part)) \/ InstallPlugin
  BY <1>2, WorldStep
<1>3. ASSUME NEW i \in Index, Worker(i) \/ FailCapture(i)
      PROVE  TypeOK' /\ LoopInv'
  BY <1>3, WorkerStep
<1>4. CASE Caller
  BY <1>4, SpawnStep, JoinStep, FenceStep DEF Caller
<1>5. CASE DiscoverFails
  BY <1>5, DiscoverFailsStep
<1> QED BY <1>1, <1>2, <1>3, <1>4, <1>5 DEF Next

LEMMA LoopInvariance == Spec => [](TypeOK /\ LoopInv)
BY InitLoop, NextLoop, PTL DEF Spec

\* Type correctness: among the rest, no capture beyond the last is joined or
\* named as the one that failed.
THEOREM TypeCorrect == Spec => []TypeOK
BY LoopInvariance, PTL

\* From the closing discovery on no normalization runs, whichever failed and
\* however many were still running when the loop gave up.
THEOREM WorkersEndBeforeFence == Spec => []NoWorkerOutlivesFence
<1>1. LoopInv => NoWorkerOutlivesFence
  BY DEF LoopInv, Fenced, Closing, NoWorkerOutlivesFence
<1> QED BY <1>1, LoopInvariance, PTL

\* The failure that is returned is that of the first request that failed, in
\* the order of the requests, whatever the order in which threads ended.
THEOREM FirstFailureWins == Spec => []FirstErrorWins
<1>1. LoopInv => FirstErrorWins
  BY DEF LoopInv, Joined, Failed, FirstErrorWins
<1> QED BY <1>1, LoopInvariance, PTL

\* Once a request has failed no later chunk is started.
THEOREM FailureStopsStarts == Spec => NothingStartsAfterFailure
<1>1. ASSUME TypeOK, LoopInv, Next, error # 0, NEW i \in Index,
             worker[i] = "waiting"
      PROVE  worker'[i] = "waiting"
  <2>1. ~Spawn
    BY <1>1 DEF Spawn, LoopInv, Joined
  <2>2. CASE \/ \E part \in Parts : Change(part)
             \/ InstallPlugin \/ DiscoverFails \/ Caller
    BY <1>1, <2>1, <2>2 DEF Change, InstallPlugin, DiscoverFails, Caller, Inspect,
       DiscoverVersion, DiscoverConfiguration, Join, AllJoined, LeaveScope,
       InspectAgain, DiscoverVersionAgain, DiscoverConfigurationAgain, Compare
  <2>3. ASSUME NEW j \in Index, Worker(j) \/ FailCapture(j)
        PROVE  worker'[i] = "waiting"
    <3>1. worker[j] # "waiting" /\ \E to \in Steps : worker' = [worker EXCEPT ![j] = to]
      BY <2>3 DEF Worker, WorkerGoes, RunCapinfos, RunTshark, CheckCapture,
         FailCapture, Running, Steps
    <3> QED BY <1>1, <3>1 DEF TypeOK
  <2> QED BY <1>1, <2>2, <2>3 DEF Next
<1>2. TypeOK /\ LoopInv /\ [Next]_vars =>
        [error # 0 => \A i \in Index : worker[i] = "waiting" =>
           worker'[i] = "waiting"]_vars
  BY <1>1
<1> QED BY <1>2, LoopInvariance, PTL DEF Spec, NothingStartsAfterFailure

----------------------------------------------------------------------------
(* The fence, when the installation only moves forward: what a worker met  *)
(* lies between the two snapshots, and these are equal.                    *)

Measured(i) == worker[i] \in {"dissected", "report"}

\* The snapshots and the runs of TShark are in the order of time.
Ordered(part) ==
  /\ before[part] <= setup[part]
  /\ after[part] <= setup[part]
  /\ \A i \in Index : Measured(i) =>
       /\ before[part] <= used[i][part]
       /\ used[i][part] <= setup[part]
       /\ after[part] # -1 => used[i][part] <= after[part]

\* Where the second snapshot is read, and that it decides.
Compared ==
  /\ pc \notin Closing => \A part \in Parts : after[part] = -1
  /\ pc = "configuration_again" => after["version"] # -1
  /\ pc = "compare" => \A part \in Parts : after[part] # -1
  /\ result = "reports" => before = after /\ \A part \in Parts : after[part] # -1

FenceInv == Compared /\ \A part \in Parts : Ordered(part)

LEMMA Numbers ==
  ASSUME TypeOK
  PROVE  \A part \in Parts :
           /\ setup[part] \in Nat
           /\ before[part] \in Int /\ after[part] \in Int
           /\ \A i \in Index : used[i][part] \in Int
BY DEF TypeOK, Setups

LEMMA WorldFence ==
  ASSUME TypeOK, FenceInv, Reverts = FALSE,
         (\E part \in Parts : Change(part)) \/ InstallPlugin
  PROVE  FenceInv'
<1>1. UNCHANGED <<worker, used, pc, before, after, result>>
  BY DEF Change, InstallPlugin, batch
<1>2. ASSUME NEW part \in Parts PROVE setup'[part] \in Nat /\ setup[part] <= setup'[part]
  <2>1. setup[part] \in Nat /\ setup \in [Parts -> 0 .. MaxChanges]
    BY Numbers DEF TypeOK, Setups
  <2>2. CASE InstallPlugin
    BY <2>1, <2>2 DEF InstallPlugin
  <2>3. ASSUME NEW q \in Parts, Change(q)
        PROVE  setup'[part] \in Nat /\ setup[part] <= setup'[part]
    BY <2>1, <2>3 DEF Change
  <2> QED BY <2>2, <2>3
<1>3. Compared'
  BY <1>1 DEF FenceInv, Compared
<1>4. ASSUME NEW part \in Parts PROVE Ordered(part)'
  BY <1>1, <1>2, Numbers DEF FenceInv, Ordered, Measured
<1> QED BY <1>3, <1>4 DEF FenceInv

LEMMA WorkerFence ==
  ASSUME TypeOK, LoopInv, FenceInv, NEW i \in Index, Worker(i) \/ FailCapture(i)
  PROVE  FenceInv'
<1>1. UNCHANGED <<setup, pc, before, after, result>>
  BY DEF Worker, WorkerGoes, RunCapinfos, RunTshark, CheckCapture, FailCapture,
     world, batch
<1>2. \A j \in Index \ {i} : worker'[j] = worker[j] /\ used'[j] = used[j]
  BY DEF Worker, WorkerGoes, RunCapinfos, RunTshark, CheckCapture, FailCapture,
     TypeOK
<1>3. pc \notin Closing
  BY DEF Worker, WorkerGoes, RunCapinfos, RunTshark, CheckCapture, FailCapture,
     LoopInv, Fenced, Running
<1>4. \/ ~Measured(i)'
      \/ Measured(i) /\ used'[i] = used[i]
      \/ used'[i] = setup
  <2>1. CASE RunTshark(i)
    BY <2>1 DEF RunTshark, TypeOK
  <2>2. CASE RunCapinfos(i)
    BY <2>2 DEF RunCapinfos, WorkerGoes, Measured, TypeOK
  <2>3. CASE CheckCapture(i)
    BY <2>3 DEF CheckCapture, WorkerGoes, Measured, TypeOK
  <2>4. CASE FailCapture(i)
    BY <2>4 DEF FailCapture, Measured, TypeOK
  <2> QED BY <2>1, <2>2, <2>3, <2>4 DEF Worker
<1>5. Compared'
  BY <1>1 DEF FenceInv, Compared
<1>6. ASSUME NEW part \in Parts PROVE Ordered(part)'
  <2>1. after[part] = -1 /\ Ordered(part)
    BY <1>3 DEF FenceInv, Compared
  <2>2. ASSUME NEW j \in Index, Measured(j)'
        PROVE  before[part] <= used'[j][part] /\ used'[j][part] <= setup[part]
    <3>1. CASE j = i
      BY <1>4, <2>1, <2>2, <3>1, Numbers DEF Ordered
    <3>2. CASE j # i
      BY <1>2, <2>1, <2>2, <3>2 DEF Ordered, Measured
    <3> QED BY <3>1, <3>2
  <2> QED BY <1>1, <2>1, <2>2 DEF Ordered
<1> QED BY <1>5, <1>6 DEF FenceInv

LEMMA CallerFence ==
  ASSUME TypeOK, LoopInv, FenceInv, Caller PROVE FenceInv'
<1>1. UNCHANGED <<setup, used>> /\ (~Spawn => worker' = worker)
  BY DEF Caller, Inspect, DiscoverVersion, DiscoverConfiguration, Spawn, Join,
     AllJoined, LeaveScope, InspectAgain, DiscoverVersionAgain,
     DiscoverConfigurationAgain, Compare, world
<1>2. \A i \in Index : Measured(i)' => Measured(i)
  BY <1>1 DEF Spawn, Measured, TypeOK
<1>3. CASE /\ ~DiscoverVersion /\ ~DiscoverConfiguration
           /\ ~DiscoverVersionAgain /\ ~DiscoverConfigurationAgain
  <2>0. UNCHANGED <<before, after>>
    BY <1>3 DEF Caller, Inspect, Spawn, Join, AllJoined, LeaveScope,
       InspectAgain, Compare
  <2>1. ASSUME NEW part \in Parts PROVE Ordered(part)'
    BY <1>1, <1>2, <2>0 DEF FenceInv, Ordered
  <2>2. Compared'
    <3>1. CASE Compare
      BY <2>0, <3>1 DEF Compare, Return, SameSnapshot, FenceInv, Compared, Closing
    <3>2. CASE ~Compare
      <4>1. pc' \in {"configuration_again", "compare"} => pc' = pc
        BY <1>3, <3>2 DEF Caller, Inspect, Spawn, Join, AllJoined, LeaveScope,
           InspectAgain, Goto, Return
      <4>2. pc \in Closing => pc' \in Closing
        BY <3>2 DEF Caller, Inspect, DiscoverVersion, DiscoverConfiguration,
           Spawn, Join, AllJoined, LeaveScope, InspectAgain, DiscoverVersionAgain,
           DiscoverConfigurationAgain, Goto, Return, Closing
      <4>3. result' = "reports" => result = "reports"
        BY <3>2 DEF Caller, Inspect, DiscoverVersion, DiscoverConfiguration,
           Spawn, Join, AllJoined, LeaveScope, InspectAgain, DiscoverVersionAgain,
           DiscoverConfigurationAgain, Goto, Return
      <4> QED BY <2>0, <4>1, <4>2, <4>3 DEF FenceInv, Compared
    <3> QED BY <3>1, <3>2
  <2> QED BY <2>1, <2>2 DEF FenceInv
<1>4. CASE DiscoverVersion \/ DiscoverConfiguration
  <2>1. /\ pc \in Opening /\ pc' \notin Closing
        /\ UNCHANGED <<after, worker, result>>
        /\ \E q \in Parts : before' = [before EXCEPT ![q] = setup[q]]
    BY <1>4 DEF DiscoverVersion, DiscoverConfiguration, Goto, Opening, Closing,
       Parts
  <2>2. \A i \in Index : ~Measured(i)'
    BY <2>1 DEF LoopInv, Started, Measured
  <2>3. result # "reports"
    BY <2>1 DEF LoopInv, Joined, Opening
  <2>4. Compared'
    BY <2>1, <2>3 DEF FenceInv, Compared, Opening, Closing
  <2>5. ASSUME NEW part \in Parts PROVE Ordered(part)'
    <3>1. before'[part] \in {before[part], setup[part]}
      BY <2>1 DEF TypeOK
    <3>2. before'[part] <= setup[part]
      BY <3>1, Numbers DEF FenceInv, Ordered
    <3> QED BY <1>1, <2>1, <2>2, <3>2 DEF FenceInv, Ordered
  <2> QED BY <2>4, <2>5 DEF FenceInv
<1>5. CASE DiscoverVersionAgain \/ DiscoverConfigurationAgain
  <2>1. /\ pc \in Closing /\ pc # "returned"
        /\ UNCHANGED <<before, worker, result>>
        /\ \/ /\ pc' = "configuration_again"
              /\ after' = [after EXCEPT !["version"] = setup["version"]]
           \/ /\ pc = "configuration_again" /\ pc' = "compare"
              /\ after' = [after EXCEPT !["configuration"] = setup["configuration"]]
    BY <1>5 DEF DiscoverVersionAgain, DiscoverConfigurationAgain, Goto, Closing
  <2>2. result # "reports"
    BY <2>1 DEF LoopInv, Joined
  <2>3. \A part \in Parts : after'[part] \in {after[part], setup[part]}
    BY <2>1 DEF TypeOK
  <2>4. Compared'
    <3>1. after \in [Parts -> -1 .. MaxChanges] /\ Parts = {"version", "configuration"}
          /\ setup["version"] \in Nat /\ setup["configuration"] \in Nat
      BY Numbers DEF TypeOK, Parts
    <3>2. CASE pc' = "configuration_again"
      BY <2>1, <2>2, <3>1, <3>2 DEF Compared, Closing
    <3>3. CASE pc' = "compare"
      <4>1. after["version"] # -1 /\ after'["version"] = after["version"]
            /\ after'["configuration"] = setup["configuration"]
        BY <2>1, <3>1, <3>3 DEF FenceInv, Compared
      <4> QED BY <2>1, <2>2, <3>1, <3>3, <4>1 DEF Compared, Closing
    <3> QED BY <2>1, <3>2, <3>3
  <2>5. ASSUME NEW part \in Parts PROVE Ordered(part)'
    <3>1. Ordered(part)
      BY DEF FenceInv
    <3>2. after'[part] <= setup[part]
      BY <2>3, <3>1, Numbers DEF Ordered
    <3>3. ASSUME NEW i \in Index, Measured(i)', after'[part] # -1
          PROVE  used[i][part] <= after'[part]
      BY <1>2, <2>3, <3>1, <3>3 DEF Ordered
    <3> QED BY <1>1, <1>2, <2>1, <3>1, <3>2, <3>3 DEF Ordered
  <2> QED BY <2>4, <2>5 DEF FenceInv
<1> QED BY <1>3, <1>4, <1>5

LEMMA DiscoverFailsFence ==
  ASSUME TypeOK, LoopInv, FenceInv, DiscoverFails PROVE FenceInv'
<1>1. /\ pc' = "returned" /\ result' = "undiscovered"
      /\ UNCHANGED <<setup, before, after, worker, used>>
  BY DEF DiscoverFails, Return, world
<1> QED BY <1>1 DEF FenceInv, Compared, Ordered, Measured, Closing

\* As long as no change undoes an earlier one, reports that are returned were
\* all made with exactly the installation they name, although it is read in
\* two pieces, twice, while others may change it.
THEOREM FenceIsSound ==
  ASSUME Reverts = FALSE PROVE Spec => []FenceHolds
<1>1. Init => FenceInv
  <2> SUFFICES ASSUME Init PROVE FenceInv
    OBVIOUS
  <2>1. Compared
    BY DEF Init, Compared, Unseen
  <2>2. \A part \in Parts : Ordered(part)
    BY DEF Init, Ordered, Measured, Unseen
  <2> QED BY <2>1, <2>2 DEF FenceInv
<1>2. TypeOK /\ LoopInv /\ FenceInv /\ [Next]_vars => FenceInv'
  <2> SUFFICES ASSUME TypeOK, LoopInv, FenceInv, [Next]_vars PROVE FenceInv'
    OBVIOUS
  <2>1. CASE UNCHANGED vars
    BY <2>1 DEF vars, FenceInv, Compared, Ordered, Measured
  <2>2. CASE (\E part \in Parts : Change(part)) \/ InstallPlugin
    BY <2>2, WorldFence
  <2>3. ASSUME NEW i \in Index, Worker(i) \/ FailCapture(i) PROVE FenceInv'
    BY <2>3, WorkerFence
  <2>4. CASE Caller
    BY <2>4, CallerFence
  <2>5. CASE DiscoverFails
    BY <2>5, DiscoverFailsFence
  <2> QED BY <2>1, <2>2, <2>3, <2>4, <2>5 DEF Next
<1>3. TypeOK /\ LoopInv /\ FenceInv => FenceHolds
  <2> SUFFICES ASSUME TypeOK, LoopInv, FenceInv, result = "reports",
                      NEW i \in Index
               PROVE  worker[i] = "report" /\ used[i] = before
    BY DEF FenceHolds
  <2>1. worker[i] = "report"
    BY DEF LoopInv, Joined, Index
  <2>2. before = after /\ \A part \in Parts : after[part] # -1
    BY DEF FenceInv, Compared
  <2>3. ASSUME NEW part \in Parts PROVE used[i][part] = before[part]
    BY <2>1, <2>2, Numbers DEF FenceInv, Ordered, Measured
  <2>4. used[i] \in [Parts -> -1 .. MaxChanges]
        /\ before \in [Parts -> -1 .. MaxChanges]
    BY DEF TypeOK
  <2> QED BY <2>1, <2>3, <2>4
<1> QED BY <1>1, <1>2, <1>3, LoopInvariance, PTL DEF Spec

----------------------------------------------------------------------------
(* The bounded run of one tool, for every pair of limits, every pipe size, *)
(* every deadline and every amount of output.                              *)

HIDE TsharkBatchAssumption

USE ProcessLimits DEF Tool!BoundedProcessAssumption

LEMMA LimitType ==
  \A s \in Tool!Streams : Tool!Limit(s) \in Nat
BY DEF Tool!Limit, Tool!Streams

----------------------------------------------------------------------------
(* Types.                                                                  *)

LEMMA InitType ==
  Tool!Init => Tool!TypeOK
<1> SUFFICES ASSUME Tool!Init PROVE Tool!TypeOK
  OBVIOUS
<1>1. \A s \in Tool!Streams : got[s] <= Tool!Limit(s) + 1
  BY LimitType DEF Tool!Init
<1>2. got \in [Tool!Streams -> Nat] /\ pipe \in [Tool!Streams -> 0 .. PipeSize]
      /\ written \in [Tool!Streams -> 0 .. MaxWritten] /\ elapsed \in 0 .. Deadline
  BY DEF Tool!Init
<1> QED BY <1>1, <1>2 DEF Tool!Init, Tool!TypeOK, Tool!Labels, Tool!Results

\* The moves of the pipes and their readers.
LEMMA DataType ==
  ASSUME Tool!TypeOK, NEW s \in Tool!Streams,
         \/ Tool!ChildWrites(s) \/ Tool!HeirWrites(s) \/ Tool!Read(s)
            \/ Tool!StopReading(s)
         \/ Tool!ReaderFails(s)
  PROVE  Tool!TypeOK'
<1>1. Tool!Limit(s) \in Nat
  BY LimitType
<1>2. CASE Tool!ChildWrites(s) \/ Tool!HeirWrites(s)
  BY <1>2 DEF Tool!TypeOK, Tool!ChildWrites, Tool!HeirWrites, Tool!Fill, Tool!tool,
     Tool!caller
<1>3. CASE Tool!Read(s)
  BY <1>1, <1>3 DEF Tool!TypeOK, Tool!Read, Tool!tool, Tool!caller
<1>4. CASE Tool!StopReading(s) \/ Tool!ReaderFails(s)
  BY <1>4 DEF Tool!TypeOK, Tool!StopReading, Tool!ReaderFails, Tool!tool, Tool!data,
     Tool!caller
<1> QED BY <1>2, <1>3, <1>4

\* The moves of the tool, its heir, the clock and the caller.
LEMMA ControlType ==
  ASSUME Tool!TypeOK,
         \/ \E s \in Tool!Streams : Tool!ChildWants(s) \/ Tool!ChildBroken(s)
         \/ Tool!ChildExits \/ Tool!ChildForks \/ Tool!HeirExits
         \/ Tool!Caller \/ Tool!PollFails \/ Tool!KillRefused \/ Tool!Tick
  PROVE  Tool!TypeOK'
<1>1. CASE \/ \E s \in Tool!Streams : Tool!ChildWants(s) \/ Tool!ChildBroken(s)
           \/ Tool!ChildExits \/ Tool!ChildForks \/ Tool!HeirExits
  BY <1>1 DEF Tool!TypeOK, Tool!ChildWants, Tool!ChildBroken, Tool!ChildExits,
     Tool!ChildForks, Tool!HeirExits, Tool!data, Tool!caller
<1>2. CASE Tool!TryWait \/ Tool!ReadClock \/ Tool!Sleep \/ Tool!Kill
           \/ Tool!Wait \/ Tool!PollFails \/ Tool!KillRefused
  BY <1>2 DEF Tool!TypeOK, Tool!TryWait, Tool!ReadClock, Tool!Sleep, Tool!Kill,
     Tool!Wait, Tool!PollFails, Tool!KillRefused, Tool!Goto, Tool!Labels,
     Tool!Results, Tool!tool, Tool!data
<1>3. CASE Tool!JoinStdout \/ Tool!JoinStderr
  BY <1>3 DEF Tool!TypeOK, Tool!JoinStdout, Tool!JoinStderr, Tool!Goto, Tool!Return,
     Tool!Verdict, Tool!Labels, Tool!Results, Tool!tool, Tool!data
<1>4. CASE Tool!Tick
  BY <1>4 DEF Tool!TypeOK, Tool!Tick, Tool!tool, Tool!data, Tool!caller
<1> QED BY <1>1, <1>2, <1>3, <1>4 DEF Tool!Caller

LEMMA NextType ==
  Tool!TypeOK /\ [Tool!Next]_(Tool!vars) => Tool!TypeOK'
<1> SUFFICES ASSUME Tool!TypeOK, [Tool!Next]_(Tool!vars) PROVE Tool!TypeOK'
  OBVIOUS
<1>1. CASE UNCHANGED Tool!vars
  BY <1>1 DEF Tool!vars, Tool!TypeOK
<1>2. CASE Tool!Next
  BY <1>2, DataType, ControlType DEF Tool!Next, Tool!Reader
<1> QED BY <1>1, <1>2

\* Type correctness; above all, a reader never holds more than one byte over
\* its limit, whatever the tool writes.
THEOREM ProcessTypeCorrect ==
  Tool!Spec => []Tool!TypeOK
<1>1. Tool!Init => Tool!TypeOK
  BY InitType
<1>2. Tool!TypeOK /\ [Tool!Next]_(Tool!vars) => Tool!TypeOK'
  BY NextType
<1> QED BY <1>1, <1>2, PTL DEF Tool!Spec

----------------------------------------------------------------------------
(* The life of the tool.                                                   *)

\* The caller joins its readers only after it has waited for the tool.
LifeInv == callerPc \in {"join_stdout", "join_stderr", "returned"} => child = "reaped"

LEMMA NextLife ==
  Tool!TypeOK /\ LifeInv /\ [Tool!Next]_(Tool!vars) => LifeInv'
<1> SUFFICES ASSUME Tool!TypeOK, LifeInv, [Tool!Next]_(Tool!vars) PROVE LifeInv'
  OBVIOUS
<1>1. CASE \/ \E s \in Tool!Streams : \/ Tool!ChildWants(s) \/ Tool!ChildWrites(s)
                \/ Tool!ChildBroken(s) \/ Tool!HeirWrites(s)
                \/ Tool!Reader(s) \/ Tool!ReaderFails(s)
           \/ Tool!ChildExits \/ Tool!ChildForks \/ Tool!HeirExits
              \/ Tool!Tick \/ UNCHANGED Tool!vars
  <2>1. callerPc' = callerPc
    BY <1>1 DEF Tool!ChildWants, Tool!ChildWrites, Tool!ChildBroken,
       Tool!HeirWrites, Tool!Reader, Tool!Read, Tool!StopReading, Tool!ReaderFails,
       Tool!ChildExits, Tool!ChildForks, Tool!HeirExits, Tool!Tick, Tool!vars,
       Tool!caller
  <2>2. child = "reaped" => child' = "reaped"
    BY <1>1 DEF Tool!ChildWants, Tool!ChildWrites, Tool!ChildBroken,
       Tool!HeirWrites, Tool!Reader, Tool!Read, Tool!StopReading, Tool!ReaderFails,
       Tool!ChildExits, Tool!ChildForks, Tool!HeirExits, Tool!Tick, Tool!vars,
       Tool!tool
  <2> QED BY <2>1, <2>2 DEF LifeInv
<1>2. CASE Tool!Caller \/ Tool!PollFails \/ Tool!KillRefused
  BY <1>2 DEF LifeInv, Tool!Caller, Tool!TryWait, Tool!ReadClock, Tool!Sleep,
     Tool!Kill, Tool!Wait, Tool!JoinStdout, Tool!JoinStderr, Tool!PollFails,
     Tool!KillRefused, Tool!Goto, Tool!Return, Tool!tool
<1> QED BY <1>1, <1>2 DEF Tool!Next

LEMMA LifeInvariance ==
  Tool!Spec => []LifeInv
<1>1. Tool!Init => LifeInv
  BY DEF Tool!Init, LifeInv
<1>2. Tool!TypeOK /\ LifeInv /\ [Tool!Next]_(Tool!vars) => LifeInv'
  BY NextLife
<1>3. Tool!Spec => []Tool!TypeOK
  BY ProcessTypeCorrect
<1> QED BY <1>1, <1>2, <1>3, PTL DEF Tool!Spec

\* No zombie: whatever the answer, the tool was waited for.
THEOREM RunsReap ==
  Tool!Spec => []Tool!ReturnReaps
<1>1. LifeInv => Tool!ReturnReaps
  BY DEF LifeInv, Tool!ReturnReaps
<1>2. Tool!Spec => []LifeInv
  BY LifeInvariance
<1> QED BY <1>1, <1>2, PTL

----------------------------------------------------------------------------
(* The bytes.                                                              *)

\* Every byte written is in a pipe or with a reader.
Conserved(s) == written[s] = got[s] + pipe[s]

\* A reader that is done found the end of the file or passed its limit.
Drained(s) ==
  reader[s] = "done" => got[s] > Tool!Limit(s) \/ (Tool!NoWriter /\ pipe[s] = 0)

\* An answer is given when both streams were good, the first looked at first.
Judged ==
  /\ callerPc = "join_stderr" /\ outcome = "none" => ~Tool!Bad("stdout")
  /\ outcome = "ok" => callerPc = "returned" /\ \A s \in Tool!Streams : ~Tool!Bad(s)

BytesInv == /\ \A s \in Tool!Streams : Conserved(s) /\ Drained(s)
            /\ Judged

\* A step of the tool or the readers does not disturb a verdict.
LEMMA SameVerdict ==
  ASSUME Tool!TypeOK, Judged, UNCHANGED <<callerPc, outcome>>,
         \A s \in Tool!Streams : reader[s] = "done" =>
           reader'[s] = "done" /\ got'[s] = got[s]
  PROVE  Judged'
<1>1. \A s \in Tool!Streams : ~Tool!Bad(s) => ~Tool!Bad(s)'
  BY DEF Tool!Bad, Tool!Limit
<1> QED BY <1>1 DEF Judged, Tool!Streams

LEMMA FillKeeps ==
  ASSUME Tool!TypeOK, BytesInv, NEW s \in Tool!Streams, Tool!Fill(s),
         child = "running" \/ heir, UNCHANGED <<child, heir, reader, callerPc, outcome>>
  PROVE  BytesInv'
<1>1. ASSUME NEW t \in Tool!Streams PROVE Conserved(t)' /\ Drained(t)'
  <2>1. Conserved(t) /\ Drained(t)
    BY DEF BytesInv
  <2>2. pipe[t] \in Int /\ written[t] \in Int /\ got[t] \in Int
    BY DEF Tool!TypeOK
  <2>3. CASE t = s
    <3>1. pipe'[t] = pipe[t] + 1 /\ written'[t] = written[t] + 1 /\ got' = got
      BY <2>3 DEF Tool!Fill, Tool!TypeOK
    <3>2. reader'[t] = "reading"
      BY <2>3 DEF Tool!Fill
    <3> QED BY <2>1, <2>2, <3>1, <3>2 DEF Conserved, Drained
  <2>4. CASE t # s
    <3>1. pipe'[t] = pipe[t] /\ written'[t] = written[t] /\ got' = got
      BY <2>4 DEF Tool!Fill, Tool!TypeOK
    <3> QED BY <2>1, <3>1 DEF Conserved, Drained, Tool!NoWriter, Tool!Limit
  <2> QED BY <2>3, <2>4
<1>2. Judged'
  BY SameVerdict DEF BytesInv, Tool!Fill
<1> QED BY <1>1, <1>2 DEF BytesInv

LEMMA ReaderKeeps ==
  ASSUME Tool!TypeOK, BytesInv, NEW s \in Tool!Streams, Tool!Reader(s) \/ Tool!ReaderFails(s)
  PROVE  BytesInv'
<1>1. UNCHANGED <<child, heir, written, callerPc, outcome>>
  BY DEF Tool!Reader, Tool!Read, Tool!StopReading, Tool!ReaderFails, Tool!tool,
     Tool!data, Tool!caller
<1>2. ASSUME NEW t \in Tool!Streams PROVE Conserved(t)' /\ Drained(t)'
  <2>1. Conserved(t) /\ Drained(t)
    BY DEF BytesInv
  <2>2. Conserved(t)'
    BY <1>1, <2>1 DEF Tool!Reader, Tool!Read, Tool!StopReading, Tool!ReaderFails,
       Tool!data, Conserved, Tool!TypeOK
  <2>3. ASSUME Tool!Read(s) PROVE Drained(t)'
    BY <1>1, <2>1, <2>3 DEF Tool!Read, Drained, Tool!NoWriter, Tool!TypeOK,
       Tool!Limit
  <2>4. ASSUME Tool!StopReading(s) \/ Tool!ReaderFails(s) PROVE Drained(t)'
    BY <1>1, <2>1, <2>4 DEF Tool!StopReading, Tool!ReaderFails, Tool!data, Drained,
       Tool!NoWriter, Tool!TypeOK, Tool!Limit
  <2> QED BY <2>2, <2>3, <2>4 DEF Tool!Reader
<1>3. \A t \in Tool!Streams : reader[t] = "done" =>
        reader'[t] = "done" /\ got'[t] = got[t]
  BY DEF Tool!Reader, Tool!Read, Tool!StopReading, Tool!ReaderFails, Tool!data,
     Tool!TypeOK
<1>4. Judged'
  BY <1>1, <1>3, SameVerdict DEF BytesInv
<1> QED BY <1>2, <1>4 DEF BytesInv

\* The other steps move no byte; at most the last writer goes.
LEMMA StillKeeps ==
  ASSUME Tool!TypeOK, BytesInv, UNCHANGED <<pipe, written, got, reader>>,
         Tool!NoWriter => Tool!NoWriter', Judged'
  PROVE  BytesInv'
BY DEF BytesInv, Conserved, Drained, Tool!Limit

LEMMA NextBytes ==
  Tool!TypeOK /\ LifeInv /\ BytesInv /\ [Tool!Next]_(Tool!vars) => BytesInv'
<1> SUFFICES ASSUME Tool!TypeOK, LifeInv, BytesInv, [Tool!Next]_(Tool!vars) PROVE BytesInv'
  OBVIOUS
<1>0. Judged
  BY DEF BytesInv
<1>1. ASSUME NEW s \in Tool!Streams, Tool!ChildWrites(s)
                \/ Tool!HeirWrites(s) PROVE BytesInv'
  BY <1>1, FillKeeps DEF Tool!ChildWrites, Tool!HeirWrites, Tool!tool, Tool!caller
<1>2. ASSUME NEW s \in Tool!Streams, Tool!Reader(s)
                \/ Tool!ReaderFails(s) PROVE BytesInv'
  BY <1>2, ReaderKeeps
<1>3. CASE \/ \E s \in Tool!Streams : Tool!ChildWants(s) \/ Tool!ChildBroken(s)
           \/ Tool!ChildExits \/ Tool!ChildForks \/ Tool!HeirExits
              \/ Tool!Tick \/ UNCHANGED Tool!vars
  <2>1. UNCHANGED <<pipe, written, got, reader, callerPc, outcome>>
    BY <1>3 DEF Tool!ChildWants, Tool!ChildBroken, Tool!ChildExits, Tool!ChildForks,
       Tool!HeirExits, Tool!Tick, Tool!vars, Tool!data, Tool!caller
  <2>2. Tool!NoWriter => Tool!NoWriter'
    BY <1>3 DEF Tool!ChildWants, Tool!ChildBroken, Tool!ChildExits, Tool!ChildForks,
       Tool!HeirExits, Tool!Tick, Tool!vars, Tool!tool, Tool!NoWriter
  <2>3. Judged'
    BY <1>0, <2>1, SameVerdict
  <2> QED BY <2>1, <2>2, <2>3, StillKeeps
<1>4. CASE Tool!Caller \/ Tool!PollFails \/ Tool!KillRefused
  <2>1. UNCHANGED <<pipe, written, got, reader, heir>>
    BY <1>4 DEF Tool!Caller, Tool!TryWait, Tool!ReadClock, Tool!Sleep, Tool!Kill,
       Tool!Wait, Tool!JoinStdout, Tool!JoinStderr, Tool!PollFails,
       Tool!KillRefused, Tool!tool, Tool!data
  <2>2. Tool!NoWriter => Tool!NoWriter'
    BY <1>4, <2>1 DEF Tool!Caller, Tool!TryWait, Tool!ReadClock, Tool!Sleep,
       Tool!Kill, Tool!Wait, Tool!JoinStdout, Tool!JoinStderr, Tool!PollFails,
       Tool!KillRefused, Tool!tool, Tool!NoWriter
  <2>3. \A s \in Tool!Streams : Tool!Bad(s)' <=> Tool!Bad(s)
    BY <2>1 DEF Tool!Bad, Tool!Limit
  <2>4. ASSUME Tool!JoinStdout PROVE Judged'
    BY <1>0, <2>3, <2>4 DEF Tool!JoinStdout, Judged, Tool!Goto, Tool!Return,
       Tool!GivenUp, Tool!Streams
  <2>5. ASSUME Tool!JoinStderr PROVE Judged'
    BY <1>0, <2>3, <2>5 DEF Tool!JoinStderr, Judged, Tool!Return, Tool!GivenUp,
       Tool!Verdict, Tool!Streams
  <2>6. ASSUME ~Tool!JoinStdout, ~Tool!JoinStderr PROVE Judged'
    BY <1>0, <1>4, <2>3, <2>6 DEF Tool!Caller, Tool!TryWait, Tool!ReadClock,
       Tool!Sleep, Tool!Kill, Tool!Wait, Tool!PollFails, Tool!KillRefused, Judged,
       Tool!Goto
  <2> QED BY <2>1, <2>2, <2>4, <2>5, <2>6, StillKeeps
<1> QED BY <1>1, <1>2, <1>3, <1>4 DEF Tool!Next

LEMMA BytesInvariance ==
  Tool!Spec => []BytesInv
<1>1. Tool!Init => BytesInv
  BY DEF Tool!Init, BytesInv, Conserved, Drained, Judged, Tool!Streams
<1>2. Tool!TypeOK /\ LifeInv /\ BytesInv /\ [Tool!Next]_(Tool!vars) => BytesInv'
  BY NextBytes
<1>3. Tool!Spec => []Tool!TypeOK /\ []LifeInv
  BY ProcessTypeCorrect, LifeInvariance
<1> QED BY <1>1, <1>2, <1>3, PTL DEF Tool!Spec

\* Output that run_bounded returns is every byte the tool and its heirs ever
\* wrote, and nobody can write any more.
LEMMA RunsAnswerWhole ==
  Tool!Spec => []Tool!OutputIsWhole
<1>1. Tool!TypeOK /\ LifeInv /\ BytesInv => Tool!OutputIsWhole
  <2> SUFFICES ASSUME Tool!TypeOK, LifeInv, BytesInv, outcome = "ok"
               PROVE  /\ child = "reaped" /\ ~heir
                      /\ \A s \in Tool!Streams : got[s] = written[s]
                              /\ got[s] <= Tool!Limit(s)
    BY DEF Tool!OutputIsWhole
  <2>1. \A s \in Tool!Streams : reader[s] = "done" /\ ~(got[s] > Tool!Limit(s))
    BY DEF BytesInv, Judged, Tool!Bad
  <2>2. \A s \in Tool!Streams : Tool!NoWriter /\ pipe[s] = 0
    BY <2>1 DEF BytesInv, Drained
  <2>3. child = "reaped" /\ ~heir
    BY <2>2 DEF BytesInv, Judged, LifeInv, Tool!NoWriter, Tool!Streams
  <2>4. \A s \in Tool!Streams : got[s] = written[s] /\ got[s] <= Tool!Limit(s)
    BY <2>1, <2>2, LimitType DEF BytesInv, Conserved, Tool!TypeOK
  <2> QED BY <2>3, <2>4
<1>2. Tool!Spec => []Tool!TypeOK /\ []LifeInv /\ []BytesInv
  BY ProcessTypeCorrect, LifeInvariance, BytesInvariance
<1> QED BY <1>1, <1>2, PTL

----------------------------------------------------------------------------
(* The batch and its first command.                                        *)

USE DEF MCVars, vars, run

\* The composition is a run of the tool and a batch.
LEMMA ComposedOfBoth ==
  /\ MCSpec => Tool!Spec
  /\ MCSpec => Spec
<1>1. MCInit => Tool!Init /\ Init
  BY DEF MCInit
<1>2. [MCNext]_MCVars => [Tool!Next]_(Tool!vars)
  BY DEF MCNext, Tool!vars
<1>3. [MCNext]_MCVars => [Next]_vars
  BY DEF MCNext
<1> QED BY <1>1, <1>2, <1>3, PTL DEF MCSpec, Spec, Tool!Spec

\* What the batch gets from its command is every byte the tool and its heirs
\* ever wrote, and nobody can write any more.
THEOREM AnswersAreWhole == MCSpec => []OutputIsWhole
BY ComposedOfBoth, RunsAnswerWhole, PTL DEF OutputIsWhole
=============================================================================
