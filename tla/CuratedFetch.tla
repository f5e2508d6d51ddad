---------------------------- MODULE CuratedFetch ----------------------------
(***************************************************************************)
(* data/fetch/fetch-curated-eval.py: fetch_artifacts acquires a list of    *)
(* published artifacts one after the other.  Each is downloaded into a     *)
(* partial file that survives failures and kills and is resumed with a     *)
(* Range request, promoted to its target when its digest is the            *)
(* publisher's, and recorded in a receipt.  A lock file per artifact keeps *)
(* two fetchers apart; a killed fetcher leaves its lock behind, and an     *)
(* operator who sees that nobody holds it removes it.                      *)
(*                                                                         *)
(* A file is its length and whether its bytes are the publisher's (good).  *)
(* One action is one check, request, chunk or system call.                 *)
(***************************************************************************)
EXTENDS Integers

CONSTANTS
  Artifacts,    \* number of selected artifacts, fetched in order
  Bytes,        \* declared length of each, in chunks
  MaxAttempts,  \* len(DOWNLOAD_RETRY_DELAYS_SECONDS) + 1
  Procs,        \* concurrent fetchers
  NoProc,       \* no fetcher
  MaxFaults,    \* bound on kills, refusals and broken connections
  MaxCorrupt    \* bound on chunks that are not the publisher's bytes

ASSUME FetchAssumption ==
  /\ Artifacts \in Nat \ {0}
  /\ Bytes \in Nat \ {0}
  /\ MaxAttempts \in Nat \ {0}
  /\ NoProc \notin Procs
  /\ MaxFaults \in Nat
  /\ MaxCorrupt \in Nat

Index    == 1 .. Artifacts
Contents == [size : 0 .. Bytes, good : BOOLEAN]
Empty    == [size |-> 0, good |-> TRUE]
Absent   == [size |-> -1, good |-> FALSE]
Whole    == [size |-> Bytes, good |-> TRUE]

VARIABLES
  target, partial,  \* the two files of each artifact, or Absent
  receipt,          \* "none", or whether it records the good digest
  lock,             \* the fetcher that created the lock file, or NoProc
  pc, at,           \* per fetcher: next step, artifact it works on
  attempt,          \* per fetcher: attempts of this artifact begun before
  have,             \* per fetcher: what its running digest has consumed
  outcome,          \* per fetcher: how the current artifact ended
  reader,           \* a status command: its next step or its report, and
                    \* the artifact it looks at
  faults, corrupt   \* counters for the bounds

vars  == <<target, partial, receipt, lock, pc, at, attempt, have, outcome,
           reader, faults, corrupt>>
files == <<target, partial, receipt>>
count == <<faults, corrupt, reader>>

----------------------------------------------------------------------------
Goto(p, label) == pc' = [pc EXCEPT ![p] = label]

\* raise FetchError, or return: either way the finally clause follows.
Finish(p, how) ==
  /\ Goto(p, "unlock")
  /\ outcome' = [outcome EXCEPT ![p] = how]

Ended == {"done", "failed", "killed"}

Quiet(p) == UNCHANGED <<at, attempt, have>>

Raise(p) == Finish(p, "error") /\ Quiet(p) /\ UNCHANGED <<files, lock>>

\* A check of the code: go on, or raise.
Require(p, condition, label) ==
  \/ condition /\ Goto(p, label) /\ Quiet(p) /\ UNCHANGED <<outcome, files, lock>>
  \/ ~condition /\ Raise(p)

Art(p) == at[p]

Init ==
  /\ target = [a \in Index |-> Absent]
  /\ partial = [a \in Index |-> Absent]
  /\ receipt = [a \in Index |-> "none"]
  /\ lock = [a \in Index |-> NoProc]
  /\ pc = [p \in Procs |-> "lock"]
  /\ at = [p \in Procs |-> 1]
  /\ attempt = [p \in Procs |-> 0]
  /\ have = [p \in Procs |-> Empty]
  /\ outcome = [p \in Procs |-> "none"]
  /\ reader = [step |-> "idle", at |-> 1]
  /\ faults = 0
  /\ corrupt = 0

----------------------------------------------------------------------------
(* acquire_artifact: the lock, then what is already on disk.               *)

\* Mutant: the lock file opened without O_EXCL.
LockShared(p) ==
  /\ pc[p] = "lock"
  /\ lock' = [lock EXCEPT ![Art(p)] = p]
  /\ Goto(p, "see_target")
  /\ UNCHANGED <<files, at, attempt, have, outcome, count>>

\* _acquire_lock: O_CREAT | O_EXCL.  Failing is outside the try: no release.
AcquireLock(p) ==
  /\ pc[p] = "lock"
  /\ IF lock[Art(p)] = NoProc
       THEN /\ lock' = [lock EXCEPT ![Art(p)] = p]
            /\ Goto(p, "see_target")
       ELSE /\ Goto(p, "failed")
            /\ UNCHANGED lock
  /\ UNCHANGED <<files, at, attempt, have, outcome, count>>

SeeTarget(p) ==
  /\ pc[p] = "see_target"
  /\ Goto(p, IF target[Art(p)] # Absent THEN "see_both" ELSE "see_orphan")
  /\ UNCHANGED <<files, lock, at, attempt, have, outcome, count>>

\* target_and_partial_both_present
SeeBoth(p) ==
  /\ pc[p] = "see_both"
  /\ Require(p, partial[Art(p)] = Absent, "verify")
  /\ UNCHANGED count

\* Mutant: a target without a receipt is an error.
VerifyUnrepaired(p) ==
  /\ pc[p] = "verify"
  /\ IF target[Art(p)] = Whole /\ receipt[Art(p)] # "none"
       THEN /\ have' = [have EXCEPT ![p] = target[Art(p)]]
            /\ Goto(p, "compare")
            /\ UNCHANGED <<files, lock, at, attempt, outcome>>
       ELSE Raise(p)
  /\ UNCHANGED count

\* _verify_existing: size and digest of the target, then its receipt.
Verify(p) ==
  /\ pc[p] = "verify"
  /\ IF target[Art(p)] = Whole
       THEN /\ have' = [have EXCEPT ![p] = target[Art(p)]]
            /\ Goto(p, IF receipt[Art(p)] = "none" THEN "free_receipt"
                                                   ELSE "compare")
            /\ UNCHANGED <<files, lock, at, attempt, outcome>>
       ELSE Raise(p)
  /\ UNCHANGED count

Compare(p) ==
  /\ pc[p] = "compare"
  /\ Finish(p, IF receipt[Art(p)] = "good" THEN "ok" ELSE "error")
  /\ UNCHANGED <<files, lock, at, attempt, have, count>>

\* orphan_receipt
SeeOrphan(p) ==
  /\ pc[p] = "see_orphan"
  /\ Require(p, receipt[Art(p)] = "none", "partial")
  /\ UNCHANGED count

----------------------------------------------------------------------------
(* The attempts: _partial_state, _download_once, retry.                    *)

ReadPartial(p) ==
  /\ pc[p] = "partial"
  /\ LET found == IF partial[Art(p)] = Absent THEN Empty ELSE partial[Art(p)] IN
     /\ have' = [have EXCEPT ![p] = found]
     /\ Goto(p, IF found.size = Bytes THEN "check" ELSE "request")
  /\ UNCHANGED <<files, lock, at, attempt, outcome, count>>

\* The response passed _validate_response: the requested range, the declared
\* length.
Accepted(p) ==
  /\ pc[p] = "request"
  /\ Goto(p, "open")
  /\ UNCHANGED <<files, lock, at, attempt, have, outcome, count>>

\* A permanent status, a response that is not the requested range and length,
\* or an I/O error of a local call: the finally clause still runs.
Refused(p) ==
  /\ pc[p] \notin {"lock", "unlock"} \cup Ended /\ faults < MaxFaults
  /\ faults' = faults + 1
  /\ Raise(p)
  /\ UNCHANGED <<corrupt, reader>>

\* A transient status, a connection that breaks, a body that ends early: the
\* next attempt reads the partial file again.
Interrupted(p) ==
  /\ pc[p] \in {"request", "stream"} /\ faults < MaxFaults
  /\ faults' = faults + 1
  /\ IF attempt[p] + 1 = MaxAttempts
       THEN Raise(p)
       ELSE /\ attempt' = [attempt EXCEPT ![p] = @ + 1]
            /\ Goto(p, "partial")
            /\ UNCHANGED <<files, lock, at, have, outcome>>
  /\ UNCHANGED <<corrupt, reader>>

\* Create the partial, or reopen it; its length must still be the offset.
OpenPartial(p) ==
  /\ pc[p] = "open"
  /\ LET found == partial[Art(p)] IN
     IF found = Absent /\ have[p].size = 0
       THEN /\ partial' = [partial EXCEPT ![Art(p)] = Empty]
            /\ Goto(p, "stream")
            /\ UNCHANGED <<target, receipt, lock, at, attempt, have, outcome>>
       ELSE Require(p, found.size = have[p].size, "stream")
  /\ UNCHANGED count

\* One chunk is appended to the file and fed to the digest.
Chunk(p, honest) ==
  /\ pc[p] = "stream" /\ have[p].size < Bytes
  /\ honest \/ corrupt < MaxCorrupt
  /\ corrupt' = IF honest THEN corrupt ELSE corrupt + 1
  /\ LET before == partial[Art(p)] IN
       partial' = [partial EXCEPT ![Art(p)] =
         [size |-> IF before.size < Bytes THEN before.size + 1 ELSE Bytes,
          good |-> before.good /\ honest /\ before.size = have[p].size]]
  /\ have' = [have EXCEPT ![p] = [size |-> @.size + 1, good |-> @.good /\ honest]]
  /\ UNCHANGED <<target, receipt, lock, pc, at, attempt, outcome, faults, reader>>

\* download_exceeded_declared_bytes: raised before the surplus is written.
Surplus(p) ==
  /\ pc[p] = "stream" /\ have[p].size = Bytes /\ faults < MaxFaults
  /\ faults' = faults + 1
  /\ Raise(p)
  /\ UNCHANGED <<corrupt, reader>>

EndOfBody(p) ==
  /\ pc[p] = "stream" /\ have[p].size = Bytes
  /\ Goto(p, "check")
  /\ UNCHANGED <<files, lock, at, attempt, have, outcome, count>>

----------------------------------------------------------------------------
(* _finalize_partial and _write_receipt.                                   *)

\* Mutant: the length is enough.
CheckLength(p) ==
  /\ pc[p] = "check"
  /\ Require(p, have[p].size = Bytes /\ target[Art(p)] = Absent, "promote")
  /\ UNCHANGED count

\* download_incomplete, artifact_md5_mismatch, target_appeared: the partial
\* file stays.
CheckPartial(p) ==
  /\ pc[p] = "check"
  /\ Require(p, have[p] = Whole /\ target[Art(p)] = Absent, "promote")
  /\ UNCHANGED count

\* Mutant: the partial file is copied.
PromoteCopying(p) ==
  /\ pc[p] = "promote"
  /\ IF partial[Art(p)] # Absent
       THEN /\ target' = [target EXCEPT ![Art(p)] = partial[Art(p)]]
            /\ Goto(p, "free_receipt")
            /\ UNCHANGED <<partial, receipt, lock, at, attempt, have, outcome>>
       ELSE Raise(p)
  /\ UNCHANGED count

\* os.replace(partial, target)
Promote(p) ==
  /\ pc[p] = "promote"
  /\ IF partial[Art(p)] # Absent
       THEN /\ target' = [target EXCEPT ![Art(p)] = partial[Art(p)]]
            /\ partial' = [partial EXCEPT ![Art(p)] = Absent]
            /\ Goto(p, "free_receipt")
            /\ UNCHANGED <<receipt, lock, at, attempt, have, outcome>>
       ELSE Raise(p)
  /\ UNCHANGED count

\* receipt_appeared_during_acquisition, looked for before the temporary file
\* is written ...
FreeReceipt(p) ==
  /\ pc[p] = "free_receipt"
  /\ Require(p, receipt[Art(p)] = "none", "recheck_receipt")
  /\ UNCHANGED count

\* ... and again before it is renamed.
RecheckReceipt(p) ==
  /\ pc[p] = "recheck_receipt"
  /\ Require(p, receipt[Art(p)] = "none", "place_receipt")
  /\ UNCHANGED count

PlaceReceipt(p) ==
  /\ pc[p] = "place_receipt"
  /\ receipt' = [receipt EXCEPT ![Art(p)] =
                   IF have[p] = Whole THEN "good" ELSE "bad"]
  /\ Finish(p, "ok")
  /\ UNCHANGED <<target, partial, lock, at, attempt, have, count>>

----------------------------------------------------------------------------
(* The finally clause, the loop over the artifacts, and the outside.       *)

\* _release_lock, then the next artifact or the end of fetch_artifacts: the
\* first failure abandons the artifacts that are left.
Leave(p) ==
  /\ IF outcome[p] = "ok" /\ at[p] < Artifacts
       THEN Goto(p, "lock") /\ at' = [at EXCEPT ![p] = @ + 1]
       ELSE /\ Goto(p, IF outcome[p] = "ok" THEN "done" ELSE "failed")
            /\ UNCHANGED at
  /\ outcome' = [outcome EXCEPT ![p] = "none"]
  /\ attempt' = [attempt EXCEPT ![p] = 0]
  /\ have' = [have EXCEPT ![p] = Empty]

Release(p) ==
  /\ pc[p] = "unlock"
  /\ lock' = [lock EXCEPT ![Art(p)] = IF @ = p THEN NoProc ELSE @]
  /\ Leave(p)
  /\ UNCHANGED <<files, count>>

Kill(p) ==
  /\ pc[p] \notin Ended /\ faults < MaxFaults
  /\ faults' = faults + 1
  /\ Goto(p, "killed")
  /\ outcome' = [outcome EXCEPT ![p] = "none"]
  /\ attempt' = [attempt EXCEPT ![p] = 0]
  /\ have' = [have EXCEPT ![p] = Empty]
  /\ UNCHANGED <<files, lock, at, corrupt, reader>>

\* The same command is given again.
Rerun(p) ==
  /\ pc[p] \in Ended
  /\ Goto(p, "lock")
  /\ at' = [at EXCEPT ![p] = 1]
  /\ UNCHANGED <<files, lock, attempt, have, outcome, count>>

Holds(p, a) == at[p] = a /\ pc[p] \notin Ended \cup {"lock"}

\* The operator removes a lock that no live fetcher holds.
ClearStaleLock(a) ==
  /\ lock[a] # NoProc
  /\ \A p \in Procs : ~Holds(p, a)
  /\ lock' = [lock EXCEPT ![a] = NoProc]
  /\ UNCHANGED <<files, pc, at, attempt, have, outcome, count>>

----------------------------------------------------------------------------
(* _status_one, which takes no lock and writes nothing.                    *)

Reports == {"locked", "both", "mismatch", "unreceipted", "verified", "orphan",
            "missing"}

ReadStatus(label) ==
  /\ reader' = [reader EXCEPT !.step = label]
  /\ UNCHANGED <<files, lock, pc, at, attempt, have, outcome, faults, corrupt>>

StatusStart ==
  /\ reader.step = "idle"
  /\ ReadStatus(IF lock[reader.at] # NoProc THEN "locked" ELSE "target")

StatusTarget ==
  /\ reader.step = "target"
  /\ ReadStatus(IF target[reader.at] # Absent THEN "partial" ELSE "receipt")

StatusBoth ==
  /\ reader.step = "partial"
  /\ ReadStatus(IF partial[reader.at] # Absent THEN "both" ELSE "digest")

StatusDigest ==
  /\ reader.step = "digest"
  /\ ReadStatus(IF target[reader.at] = Whole THEN "compare" ELSE "mismatch")

\* Mutant: the receipt is not looked at.
StatusUnreceipted ==
  /\ reader.step = "compare"
  /\ ReadStatus("verified")

StatusReceipt ==
  /\ reader.step = "compare"
  /\ ReadStatus(IF receipt[reader.at] = "good" THEN "verified" ELSE "unreceipted")

\* The target was not there when it was looked for.
StatusOrphan ==
  /\ reader.step = "receipt"
  /\ ReadStatus(IF receipt[reader.at] # "none" THEN "orphan" ELSE "missing")

\* The next artifact of the list, or the command again.
StatusNext ==
  /\ reader.step \in Reports
  /\ reader' = [step |-> "idle",
                at |-> IF reader.at = Artifacts THEN 1 ELSE reader.at + 1]
  /\ UNCHANGED <<files, lock, pc, at, attempt, have, outcome, faults, corrupt>>

Status == \/ StatusStart \/ StatusTarget \/ StatusBoth \/ StatusDigest
          \/ StatusReceipt \/ StatusOrphan \/ StatusNext

----------------------------------------------------------------------------
\* What a fetcher does when nothing goes wrong.
Advance(p) ==
  \/ AcquireLock(p) \/ SeeTarget(p) \/ SeeBoth(p) \/ Verify(p) \/ Compare(p)
  \/ SeeOrphan(p) \/ ReadPartial(p) \/ Accepted(p) \/ OpenPartial(p)
  \/ Chunk(p, TRUE) \/ EndOfBody(p) \/ CheckPartial(p) \/ Promote(p)
  \/ FreeReceipt(p) \/ RecheckReceipt(p) \/ PlaceReceipt(p) \/ Release(p)

Next ==
  \/ \E p \in Procs :
       \/ Advance(p) \/ Refused(p) \/ Interrupted(p) \/ Chunk(p, FALSE)
       \/ Surplus(p) \/ Kill(p) \/ Rerun(p)
  \/ \E a \in Index : ClearStaleLock(a)
  \/ Status

Spec == Init /\ [][Next]_vars

\* Live fetchers go on, a command that ended is given again, stale locks are
\* removed.  Faults are bounded, so from some point on the server answers.
FairSpec ==
  /\ Spec
  /\ \A p \in Procs : WF_vars(Advance(p)) /\ WF_vars(Rerun(p))
  /\ \A a \in Index : WF_vars(ClearStaleLock(a))

----------------------------------------------------------------------------
(* Properties.                                                             *)

Labels == {"lock", "see_target", "see_both", "verify", "compare", "see_orphan",
           "partial", "request", "open", "stream", "check", "promote",
           "free_receipt", "recheck_receipt", "place_receipt", "unlock"}
          \cup Ended

\* Every variable keeps its shape.
TypeOK ==
  /\ target \in [Index -> Contents \cup {Absent}]
  /\ partial \in [Index -> Contents \cup {Absent}]
  /\ receipt \in [Index -> {"none", "good", "bad"}]
  /\ lock \in [Index -> Procs \cup {NoProc}]
  /\ pc \in [Procs -> Labels]
  /\ at \in [Procs -> Index]
  /\ attempt \in [Procs -> 0 .. (MaxAttempts - 1)]
  /\ have \in [Procs -> Contents]
  /\ outcome \in [Procs -> {"none", "ok", "error"}]
  /\ reader \in [step : Reports \cup {"idle", "target", "partial", "digest",
                                      "compare", "receipt"}, at : Index]
  /\ faults \in 0 .. MaxFaults
  /\ corrupt \in 0 .. MaxCorrupt

\* Two fetchers never work on the same artifact, through failures, kills,
\* stale locks and their removal.
LockExclusion ==
  \A a \in Index : \A p, q \in Procs : Holds(p, a) /\ Holds(q, a) => p = q

\* Whatever the server sent and however the download was cut into attempts
\* and runs, a target is the publisher's file, all of it.
TargetIsGenuine == \A a \in Index : target[a] \in {Absent, Whole}

\* The files of an artifact agree, whatever the server sent, however the download
\* was cut into attempts and runs, and whoever removed a stale lock: a target is
\* the publisher's file, all of it; a receipt comes after its target and tells
\* the truth about it, so that a rerun never meets orphan_receipt; and a partial
\* file is gone once there is a target, so that it never meets
\* target_and_partial_both_present.
StoreIsCoherent ==
  \A a \in Index :
    /\ target[a] \in {Absent, Whole}
    /\ receipt[a] # "none" => receipt[a] = "good" /\ target[a] = Whole
    /\ target[a] # Absent => partial[a] = Absent

\* The running digest of a fetcher is the digest of the file on disk, although
\* it was computed from a file read before the request and from chunks since.
DigestMatchesDisk ==
  \A p \in Procs : pc[p] \in {"open", "stream", "check", "promote"} =>
    IF partial[at[p]] = Absent THEN have[p] = Empty
                               ELSE have[p] = partial[at[p]]

\* Downloaded bytes are never given up: a partial file only grows, until it
\* becomes the target.
PartialOnlyGrows ==
  [][\A a \in Index : partial[a] # Absent =>
       \/ partial'[a].size >= partial[a].size
       \/ partial'[a] = Absent /\ target'[a] = partial[a]]_vars

\* A status command, which looks while fetchers work, calls an artifact
\* verified only when the publisher's bytes and a true receipt are in place.
StatusVerifiesTruth ==
  reader.step = "verified" =>
    target[reader.at] = Whole /\ receipt[reader.at] = "good"

\* Once the faults stop, every artifact ends up in place with its receipt,
\* unless bytes that are not the publisher's were received.
EventuallyAcquired ==
  <>(\/ corrupt > 0
     \/ \A a \in Index : target[a] = Whole /\ receipt[a] = "good")
=============================================================================
