------------------------- MODULE CuratedFetchProofs -------------------------
(***************************************************************************)
(* What holds of the fetch for every list of artifacts, every length, every *)
(* set of fetchers and every bound on faults.                              *)
(***************************************************************************)
EXTENDS CuratedFetch, TLAPS

USE FetchAssumption

\* What fetchers and operators do, the status command apart.
Work(p) == \/ Advance(p) \/ Refused(p) \/ Interrupted(p) \/ Chunk(p, FALSE)
           \/ Surplus(p) \/ Kill(p) \/ Rerun(p)

----------------------------------------------------------------------------
(* Types, in two halves: the files and the fetchers.                       *)

FilesOK ==
  /\ target \in [Index -> Contents \cup {Absent}]
  /\ partial \in [Index -> Contents \cup {Absent}]
  /\ receipt \in [Index -> {"none", "good", "bad"}]
  /\ lock \in [Index -> Procs \cup {NoProc}]

FetchersOK ==
  /\ pc \in [Procs -> Labels]
  /\ at \in [Procs -> Index]
  /\ attempt \in [Procs -> 0 .. (MaxAttempts - 1)]
  /\ have \in [Procs -> Contents]
  /\ outcome \in [Procs -> {"none", "ok", "error"}]

CountsOK ==
  /\ reader \in [step : Reports \cup {"idle", "target", "partial", "digest",
                                      "compare", "receipt"}, at : Index]
  /\ faults \in 0 .. MaxFaults
  /\ corrupt \in 0 .. MaxCorrupt

LEMMA TypeParts == TypeOK <=> FilesOK /\ FetchersOK /\ CountsOK
BY DEF TypeOK, FilesOK, FetchersOK, CountsOK

LEMMA InitType == Init => TypeOK
<1> SUFFICES ASSUME Init PROVE TypeOK
  OBVIOUS
<1>1. FilesOK
  BY DEF Init, FilesOK
<1>2. FetchersOK
  BY DEF Init, FetchersOK, Labels, Index, Contents, Empty
<1>3. CountsOK
  BY DEF Init, CountsOK, Index
<1> QED BY <1>1, <1>2, <1>3, TypeParts

LEMMA FilesStep ==
  ASSUME TypeOK, NEW p \in Procs, Work(p) PROVE FilesOK'
<1>1. FilesOK /\ at[p] \in Index /\ have[p] \in Contents
  BY TypeParts DEF FetchersOK
<1>2. CASE UNCHANGED <<files, lock>>
  BY <1>1, <1>2 DEF files, FilesOK
<1>3. CASE AcquireLock(p) \/ Release(p)
  BY <1>1, <1>3 DEF AcquireLock, Release, files, FilesOK, Art
<1>4. CASE OpenPartial(p)
  <2>1. \/ UNCHANGED <<files, lock>>
        \/ /\ partial' = [partial EXCEPT ![at[p]] = Empty]
           /\ UNCHANGED <<target, receipt, lock>>
    BY <1>4 DEF OpenPartial, Require, Raise, Art
  <2>2. Empty \in Contents
    BY DEF Empty, Contents
  <2> QED BY <1>1, <1>2, <2>1, <2>2 DEF FilesOK
<1>5. CASE \E honest \in BOOLEAN : Chunk(p, honest)
  <2>1. PICK honest \in BOOLEAN : Chunk(p, honest)
    BY <1>5
  <2> DEFINE b == partial[at[p]]
             c == [size |-> IF b.size < Bytes THEN b.size + 1 ELSE Bytes,
                   good |-> b.good /\ honest /\ b.size = have[p].size]
  <2>2. b \in Contents \cup {Absent}
    BY <1>1 DEF FilesOK
  <2>3. c \in Contents
    <3>1. b.size \in -1 .. Bytes
      BY <2>2 DEF Contents, Absent
    <3> QED BY <3>1 DEF Contents
  <2>4. partial' = [partial EXCEPT ![at[p]] = c]
        /\ UNCHANGED <<target, receipt, lock>>
    BY <2>1 DEF Chunk, Art
  <2> HIDE DEF c
  <2> QED BY <1>1, <2>3, <2>4 DEF FilesOK
<1>6. CASE Promote(p) \/ PlaceReceipt(p)
  BY <1>1, <1>6 DEF Promote, PlaceReceipt, Raise, files, FilesOK, Art
<1>7. CASE SeeTarget(p) \/ SeeBoth(p) \/ Verify(p) \/ Compare(p) \/ SeeOrphan(p)
           \/ ReadPartial(p) \/ Accepted(p) \/ EndOfBody(p) \/ CheckPartial(p)
           \/ FreeReceipt(p) \/ RecheckReceipt(p)
  BY <1>2, <1>7 DEF SeeTarget, SeeBoth, Verify, Compare, SeeOrphan, ReadPartial,
     Accepted, EndOfBody, CheckPartial, FreeReceipt, RecheckReceipt, Require,
     Raise
<1>8. CASE Refused(p) \/ Interrupted(p) \/ Surplus(p) \/ Kill(p) \/ Rerun(p)
  BY <1>2, <1>8 DEF Refused, Interrupted, Surplus, Kill, Rerun, Raise
<1> QED BY <1>3, <1>4, <1>5, <1>6, <1>7, <1>8 DEF Work, Advance

\* The ways a fetcher goes on: to a label, to its finally clause, out of it.
LEMMA FetchersGo ==
  ASSUME TypeOK, NEW p \in Procs, NEW label \in Labels, Goto(p, label),
         UNCHANGED <<at, attempt, have, outcome>>
  PROVE  FetchersOK'
BY TypeParts DEF FetchersOK, Goto

LEMMA FetchersRaise ==
  ASSUME TypeOK, NEW p \in Procs, Raise(p) PROVE FetchersOK'
BY TypeParts DEF FetchersOK, Raise, Finish, Goto, Quiet, Labels

LEMMA FetchersRequire ==
  ASSUME TypeOK, NEW p \in Procs, NEW label \in Labels, NEW c \in BOOLEAN,
         Require(p, c, label)
  PROVE  FetchersOK'
BY FetchersGo, FetchersRaise DEF Require, Quiet

LEMMA FetchersStep ==
  ASSUME TypeOK, NEW p \in Procs, Work(p) PROVE FetchersOK'
<1>1. FilesOK /\ FetchersOK /\ at[p] \in Index /\ have[p] \in Contents
  BY TypeParts DEF FetchersOK
<1>2. CASE Raise(p)
  BY <1>2, FetchersRaise
<1>3. CASE AcquireLock(p) \/ SeeTarget(p) \/ Accepted(p) \/ EndOfBody(p)
  <2>1. UNCHANGED <<at, attempt, have, outcome>>
    BY <1>3 DEF AcquireLock, SeeTarget, Accepted, EndOfBody
  <2>2. \E label \in Labels : Goto(p, label)
    BY <1>3 DEF AcquireLock, SeeTarget, Accepted, EndOfBody, Labels, Ended
  <2> QED BY <2>1, <2>2, FetchersGo
<1>4. CASE ~Raise(p) /\ (SeeBoth(p) \/ SeeOrphan(p) \/ CheckPartial(p)
                           \/ FreeReceipt(p) \/ RecheckReceipt(p))
  <2>1. UNCHANGED <<at, attempt, have, outcome>>
    BY <1>4 DEF SeeBoth, SeeOrphan, CheckPartial, FreeReceipt, RecheckReceipt,
       Require, Quiet
  <2>2. \E label \in Labels : Goto(p, label)
    BY <1>4 DEF SeeBoth, SeeOrphan, CheckPartial, FreeReceipt, RecheckReceipt,
       Require, Labels
  <2> QED BY <2>1, <2>2, FetchersGo
<1>5. CASE Verify(p) /\ ~Raise(p)
  <2>1. /\ target[at[p]] = Whole
        /\ have' = [have EXCEPT ![p] = Whole]
        /\ \E label \in {"free_receipt", "compare"} : Goto(p, label)
        /\ UNCHANGED <<at, attempt, outcome>>
    BY <1>5 DEF Verify, Art
  <2>2. Whole \in Contents
    BY DEF Whole, Contents
  <2> QED BY <1>1, <2>1, <2>2 DEF FetchersOK, Goto, Labels
<1>6. CASE Compare(p) \/ PlaceReceipt(p)
  BY <1>1, <1>6 DEF Compare, PlaceReceipt, FetchersOK, Finish, Goto, Labels
<1>7. CASE ReadPartial(p)
  <2> DEFINE f == IF partial[at[p]] = Absent THEN Empty ELSE partial[at[p]]
  <2>1. f \in Contents
    BY <1>1 DEF FilesOK, Empty, Contents
  <2>2. /\ have' = [have EXCEPT ![p] = f]
        /\ \E label \in {"check", "request"} : Goto(p, label)
        /\ UNCHANGED <<at, attempt, outcome>>
    BY <1>7 DEF ReadPartial, Art
  <2> HIDE DEF f
  <2> QED BY <1>1, <2>1, <2>2 DEF FetchersOK, Goto, Labels
<1>8. CASE OpenPartial(p) /\ ~Raise(p)
  <2>1. Goto(p, "stream") /\ UNCHANGED <<at, attempt, have, outcome>>
    BY <1>8 DEF OpenPartial, Require, Quiet
  <2> QED BY <2>1, FetchersGo DEF Labels
<1>9. CASE \E honest \in BOOLEAN : Chunk(p, honest)
  <2>1. PICK honest \in BOOLEAN : Chunk(p, honest)
    BY <1>9
  <2> DEFINE c == [size |-> have[p].size + 1, good |-> have[p].good /\ honest]
  <2>2. c \in Contents
    BY <1>1, <2>1 DEF Chunk, Contents
  <2>3. have' = [have EXCEPT ![p] = c] /\ UNCHANGED <<pc, at, attempt, outcome>>
    BY <2>1 DEF Chunk
  <2> HIDE DEF c
  <2> QED BY <1>1, <2>2, <2>3 DEF FetchersOK
<1>10. CASE Promote(p) /\ ~Raise(p)
  <2>1. Goto(p, "free_receipt") /\ UNCHANGED <<at, attempt, have, outcome>>
    BY <1>10 DEF Promote
  <2> QED BY <2>1, FetchersGo DEF Labels
<1>11. CASE Release(p)
  <2>1. Empty \in Contents
    BY DEF Empty, Contents
  <2>2. at' \in [Procs -> Index]
    BY <1>1, <1>11 DEF Release, Leave, FetchersOK, Index
  <2>3. pc' \in [Procs -> Labels]
    BY <1>1, <1>11 DEF Release, Leave, Goto, FetchersOK, Labels, Ended
  <2>4. /\ outcome' = [outcome EXCEPT ![p] = "none"]
        /\ attempt' = [attempt EXCEPT ![p] = 0]
        /\ have' = [have EXCEPT ![p] = Empty]
    BY <1>11 DEF Release, Leave
  <2> QED BY <1>1, <2>1, <2>2, <2>3, <2>4 DEF FetchersOK
<1>12. CASE Interrupted(p) /\ ~Raise(p)
  <2>1. /\ attempt[p] + 1 # MaxAttempts
        /\ attempt' = [attempt EXCEPT ![p] = @ + 1]
        /\ Goto(p, "partial")
        /\ UNCHANGED <<at, have, outcome>>
    BY <1>12 DEF Interrupted
  <2>2. attempt[p] \in 0 .. (MaxAttempts - 1)
    BY <1>1 DEF FetchersOK
  <2>3. attempt[p] + 1 \in 0 .. (MaxAttempts - 1)
    BY <2>1, <2>2
  <2> QED BY <1>1, <2>1, <2>3 DEF FetchersOK, Goto, Labels
<1>13. CASE Kill(p)
  <2>1. Empty \in Contents
    BY DEF Empty, Contents
  <2> QED BY <1>1, <1>13, <2>1 DEF Kill, Goto, FetchersOK, Labels, Ended
<1>14. CASE Rerun(p)
  <2>1. 1 \in Index
    BY DEF Index
  <2> QED BY <1>1, <1>14, <2>1 DEF Rerun, Goto, FetchersOK, Labels
<1>15. CASE Refused(p) \/ Surplus(p)
  BY <1>2, <1>15 DEF Refused, Surplus
<1> QED BY <1>2, <1>3, <1>4, <1>5, <1>6, <1>7, <1>8, <1>9, <1>10, <1>11, <1>12,
           <1>13, <1>14, <1>15 DEF Work, Advance

LEMMA CountsStep ==
  ASSUME TypeOK, NEW p \in Procs, Work(p) PROVE CountsOK'
<1>1. CountsOK
  BY TypeParts
<1>2. reader' = reader
  BY DEF Work, Advance, AcquireLock, SeeTarget, SeeBoth, Verify, Compare,
     SeeOrphan, ReadPartial, Accepted, OpenPartial, Chunk, EndOfBody,
     CheckPartial, Promote, FreeReceipt, RecheckReceipt, PlaceReceipt, Release,
     Refused, Interrupted, Surplus, Kill, Rerun, count
<1>3. faults' = faults \/ (faults < MaxFaults /\ faults' = faults + 1)
  BY DEF Work, Advance, AcquireLock, SeeTarget, SeeBoth, Verify, Compare,
     SeeOrphan, ReadPartial, Accepted, OpenPartial, Chunk, EndOfBody,
     CheckPartial, Promote, FreeReceipt, RecheckReceipt, PlaceReceipt, Release,
     Refused, Interrupted, Surplus, Kill, Rerun, count
<1>4. corrupt' = corrupt \/ (corrupt < MaxCorrupt /\ corrupt' = corrupt + 1)
  BY DEF Work, Advance, AcquireLock, SeeTarget, SeeBoth, Verify, Compare,
     SeeOrphan, ReadPartial, Accepted, OpenPartial, Chunk, EndOfBody,
     CheckPartial, Promote, FreeReceipt, RecheckReceipt, PlaceReceipt, Release,
     Refused, Interrupted, Surplus, Kill, Rerun, count
<1> QED BY <1>1, <1>2, <1>3, <1>4 DEF CountsOK

LEMMA NextType == TypeOK /\ [Next]_vars => TypeOK'
<1> SUFFICES ASSUME TypeOK, [Next]_vars PROVE TypeOK'
  OBVIOUS
<1>0. FilesOK /\ FetchersOK /\ CountsOK
  BY TypeParts
<1>1. CASE UNCHANGED vars
  BY <1>1 DEF vars, TypeOK
<1>2. ASSUME NEW p \in Procs, Work(p) PROVE TypeOK'
  <2>1. FilesOK' /\ FetchersOK' /\ CountsOK'
    BY <1>2, FilesStep, FetchersStep, CountsStep
  <2> QED BY <2>1 DEF TypeOK, FilesOK, FetchersOK, CountsOK
<1>3. ASSUME NEW a \in Index, ClearStaleLock(a) PROVE TypeOK'
  BY <1>0, <1>3 DEF ClearStaleLock, files, count, TypeOK, FilesOK, FetchersOK,
     CountsOK
<1>4. CASE Status
  <2>1. reader \in [step : Reports \cup {"idle", "target", "partial", "digest",
                                         "compare", "receipt"}, at : Index]
    BY <1>0 DEF CountsOK
  <2>2. reader' \in [step : Reports \cup {"idle", "target", "partial", "digest",
                                          "compare", "receipt"}, at : Index]
    <3>1. CASE StatusNext
      BY <2>1, <3>1 DEF StatusNext, Index
    <3>2. CASE ~StatusNext
      <4>1. \E l \in Reports \cup {"idle", "target", "partial", "digest",
                                   "compare", "receipt"} : ReadStatus(l)
        BY <1>4, <3>2 DEF Status, StatusStart, StatusTarget, StatusBoth,
           StatusDigest, StatusReceipt, StatusOrphan, Reports
      <4> QED BY <2>1, <4>1 DEF ReadStatus
    <3> QED BY <3>1, <3>2
  <2>3. UNCHANGED <<files, lock, pc, at, attempt, have, outcome, faults, corrupt>>
    BY <1>4 DEF Status, StatusStart, StatusTarget, StatusBoth, StatusDigest,
       StatusReceipt, StatusOrphan, StatusNext, ReadStatus
  <2> QED BY <1>0, <2>2, <2>3 DEF files, TypeOK, FilesOK, FetchersOK, CountsOK
<1> QED BY <1>1, <1>2, <1>3, <1>4 DEF Next, Work

\* Type correctness: files, fetchers and counters keep their shape, so that no
\* file is longer than declared and no fetcher begins one attempt too many.
THEOREM TypeCorrect == Spec => []TypeOK
BY InitType, NextType, PTL DEF Spec

----------------------------------------------------------------------------
(* The lock.                                                               *)

Busy(p) == pc[p] \notin Ended \cup {"lock"}

\* A fetcher that works on an artifact is the one its lock names.
LockInv == \A p \in Procs : Busy(p) => lock[at[p]] = p

\* A step of fetcher p leaves the other fetchers, and the files of the other
\* artifacts, alone.
Alone(p) ==
  /\ \A q \in Procs \ {p} :
       pc'[q] = pc[q] /\ at'[q] = at[q] /\ have'[q] = have[q]
  /\ \A a \in Index \ {at[p]} :
       /\ target'[a] = target[a] /\ partial'[a] = partial[a]
       /\ receipt'[a] = receipt[a]

LEMMA RaiseAlone ==
  ASSUME TypeOK, NEW p \in Procs, Raise(p)
  PROVE  Alone(p) /\ lock' = lock /\ at' = at /\ pc'[p] = "unlock"
BY DEF Raise, Finish, Goto, Quiet, files, Alone, TypeOK

LEMMA StepAlone ==
  ASSUME TypeOK, NEW p \in Procs, Work(p) PROVE Alone(p)
<1>0. FilesOK /\ FetchersOK
  BY TypeParts
<1>1. CASE Raise(p)
  BY <1>1, RaiseAlone
<1>2. ASSUME ~Raise(p), NEW q \in Procs \ {p}
      PROVE  pc'[q] = pc[q] /\ at'[q] = at[q] /\ have'[q] = have[q]
  <2>1. pc'[q] = pc[q]
    BY <1>0, <1>2 DEF Work, Advance, AcquireLock, SeeTarget, SeeBoth, Verify,
       Compare, SeeOrphan, ReadPartial, Accepted, OpenPartial, Chunk, EndOfBody,
       CheckPartial, Promote, FreeReceipt, RecheckReceipt, PlaceReceipt, Release,
       Leave, Refused, Interrupted, Surplus, Kill, Rerun, Require, Goto, Finish,
       FetchersOK
  <2>2. at'[q] = at[q]
    BY <1>0, <1>2 DEF Work, Advance, AcquireLock, SeeTarget, SeeBoth, Verify,
       Compare, SeeOrphan, ReadPartial, Accepted, OpenPartial, Chunk, EndOfBody,
       CheckPartial, Promote, FreeReceipt, RecheckReceipt, PlaceReceipt, Release,
       Leave, Refused, Interrupted, Surplus, Kill, Rerun, Require, Quiet,
       FetchersOK
  <2>3. have'[q] = have[q]
    BY <1>0, <1>2 DEF Work, Advance, AcquireLock, SeeTarget, SeeBoth, Verify,
       Compare, SeeOrphan, ReadPartial, Accepted, OpenPartial, Chunk, EndOfBody,
       CheckPartial, Promote, FreeReceipt, RecheckReceipt, PlaceReceipt, Release,
       Leave, Refused, Interrupted, Surplus, Kill, Rerun, Require, Quiet,
       FetchersOK
  <2> QED BY <2>1, <2>2, <2>3
<1>3. ASSUME ~Raise(p), NEW a \in Index \ {at[p]}
      PROVE  /\ target'[a] = target[a] /\ partial'[a] = partial[a]
             /\ receipt'[a] = receipt[a]
  BY <1>0, <1>3 DEF Work, Advance, AcquireLock, SeeTarget, SeeBoth, Verify,
     Compare, SeeOrphan, ReadPartial, Accepted, OpenPartial, Chunk, EndOfBody,
     CheckPartial, Promote, FreeReceipt, RecheckReceipt, PlaceReceipt, Release,
     Refused, Interrupted, Surplus, Kill, Rerun, Require, Art, files, FilesOK
<1> QED BY <1>1, <1>2, <1>3 DEF Alone

\* A step of fetcher p takes a free lock, gives up its own, or goes on with
\* the artifact it holds.
Trades(p) ==
  \/ /\ lock' = lock
     /\ Busy(p)' => Busy(p) /\ at'[p] = at[p]
  \/ /\ lock[at[p]] = NoProc /\ at'[p] = at[p]
     /\ lock' = [lock EXCEPT ![at[p]] = p]
  \/ /\ Busy(p) /\ ~Busy(p)'
     /\ lock' = [lock EXCEPT ![at[p]] = IF @ = p THEN NoProc ELSE @]

LEMMA StepTrades ==
  ASSUME TypeOK, NEW p \in Procs, Work(p) PROVE Trades(p)
<1>0. FilesOK /\ FetchersOK
  BY TypeParts
<1>1. CASE Raise(p) /\ Busy(p)
  BY <1>1, RaiseAlone DEF Trades
<1>2. CASE AcquireLock(p)
  BY <1>0, <1>2 DEF AcquireLock, Art, Goto, Trades, Busy, Ended, FetchersOK
<1>3. CASE Release(p)
  BY <1>0, <1>3 DEF Release, Leave, Art, Goto, Trades, Busy, Ended, FetchersOK
<1>4. CASE Kill(p) \/ Rerun(p)
  BY <1>0, <1>4 DEF Kill, Rerun, Goto, Trades, Busy, Ended, FetchersOK
<1>5. CASE /\ ~AcquireLock(p) /\ ~Release(p) /\ ~Kill(p) /\ ~Rerun(p)
  <2>1. Busy(p)
    BY <1>5 DEF Work, Advance, SeeTarget, SeeBoth, Verify, Compare, SeeOrphan,
       ReadPartial, Accepted, OpenPartial, Chunk, EndOfBody, CheckPartial,
       Promote, FreeReceipt, RecheckReceipt, PlaceReceipt, Refused, Interrupted,
       Surplus, Busy, Ended
  <2>2. CASE ~Raise(p)
    <3>1. lock' = lock /\ at' = at
      BY <1>5, <2>2 DEF Work, Advance, SeeTarget, SeeBoth, Verify, Compare,
         SeeOrphan, ReadPartial, Accepted, OpenPartial, Chunk, EndOfBody,
         CheckPartial, Promote, FreeReceipt, RecheckReceipt, PlaceReceipt,
         Refused, Interrupted, Surplus, Require, Quiet
    <3> QED BY <2>1, <3>1 DEF Trades
  <2> QED BY <1>1, <2>1, <2>2
<1> QED BY <1>2, <1>3, <1>4, <1>5

LEMMA NextLockInv == TypeOK /\ LockInv /\ [Next]_vars => LockInv'
<1> SUFFICES ASSUME TypeOK, LockInv, [Next]_vars PROVE LockInv'
  OBVIOUS
<1>0. FilesOK /\ FetchersOK
  BY TypeParts
<1>1. ASSUME NEW p \in Procs, Work(p) PROVE LockInv'
  <2>1. Alone(p) /\ Trades(p)
    BY <1>1, StepAlone, StepTrades
  <2>2. \A q \in Procs \ {p} : Busy(q)' <=> Busy(q)
    BY <2>1 DEF Alone, Busy
  <2>3. \A q \in Procs \ {p} : Busy(q) => lock'[at[q]] = q
    <3> SUFFICES ASSUME NEW q \in Procs \ {p}, Busy(q) PROVE lock'[at[q]] = q
      OBVIOUS
    <3>1. lock[at[q]] = q /\ at[q] \in Index /\ at[p] \in Index
      BY <1>0 DEF LockInv, FetchersOK
    <3> QED BY <1>0, <2>1, <3>1 DEF Trades, FilesOK
  <2>4. Busy(p)' => lock'[at'[p]] = p
    BY <1>0, <2>1 DEF Trades, LockInv, FilesOK, FetchersOK
  <2> QED BY <2>1, <2>2, <2>3, <2>4 DEF LockInv, Alone
<1>2. ASSUME NEW a \in Index, ClearStaleLock(a) PROVE LockInv'
  BY <1>0, <1>2 DEF ClearStaleLock, Holds, LockInv, Busy, FilesOK, FetchersOK
<1>3. CASE Status \/ UNCHANGED vars
  <2>1. UNCHANGED <<lock, pc, at>>
    BY <1>3 DEF Status, StatusStart, StatusTarget, StatusBoth, StatusDigest,
       StatusReceipt, StatusOrphan, StatusNext, ReadStatus, vars
  <2> QED BY <2>1 DEF LockInv, Busy
<1> QED BY <1>1, <1>2, <1>3 DEF Next, Work

LEMMA LockInvariance == Spec => []LockInv
<1>1. Init => LockInv
  BY DEF Init, LockInv, Busy
<1> QED BY <1>1, TypeCorrect, NextLockInv, PTL DEF Spec

\* Two fetchers never work on the same artifact, whatever fails, is killed or
\* is cleared, for any number of fetchers and artifacts.
THEOREM LockExcludes == Spec => []LockExclusion
<1>1. LockInv => LockExclusion
  BY DEF LockInv, LockExclusion, Busy, Holds
<1> QED BY <1>1, LockInvariance, PTL

----------------------------------------------------------------------------
(* The files.                                                              *)

\* The files of an artifact agree with each other.
Coherent(a) ==
  /\ target[a] \in {Absent, Whole}
  /\ receipt[a] # "none" => receipt[a] = "good" /\ target[a] = Whole
  /\ target[a] # Absent => partial[a] = Absent

\* What a fetcher knows of the files of the artifact it works on.
Matches(p) == IF partial[at[p]] = Absent THEN have[p] = Empty
                                         ELSE have[p] = partial[at[p]]

Knows(p) ==
  /\ pc[p] \in {"see_orphan", "partial", "request", "open", "stream", "check",
                "promote"} => target[at[p]] = Absent
  /\ pc[p] \in {"request", "open", "stream", "check", "promote"} => Matches(p)
  /\ pc[p] \in {"stream", "check", "promote"} => partial[at[p]] # Absent
  /\ pc[p] = "promote" => have[p] = Whole
  /\ pc[p] \in {"free_receipt", "recheck_receipt", "place_receipt"} =>
       have[p] = Whole /\ target[at[p]] = Whole

StoreInv == /\ \A a \in Index : Coherent(a)
            /\ \A p \in Procs : Knows(p)

\* What a step of fetcher p must show of its own artifact.
Keeps(p) ==
  /\ Coherent(at[p])'
  /\ Knows(p)'
  /\ partial[at[p]] # Absent =>
       \/ partial'[at[p]].size >= partial[at[p]].size
       \/ partial'[at[p]] = Absent /\ target'[at[p]] = partial[at[p]]

\* Whole, empty and absent files are told apart.
LEMMA Kinds == Whole # Absent /\ Whole # Empty /\ Empty # Absent
BY DEF Whole, Empty, Absent

LEMMA SizeType ==
  ASSUME TypeOK, NEW a \in Index
  PROVE  partial[a].size \in Int /\ (partial[a] # Absent => partial[a] \in Contents)
BY DEF TypeOK, Contents, Absent

\* A step that changes no file: what the fetcher knows next is what matters.
LEMMA SameFiles ==
  ASSUME TypeOK, NEW p \in Procs, Coherent(at[p]), Knows(p)',
         UNCHANGED <<files, at>>
  PROVE  Keeps(p)
<1>1. at[p] \in Index
  BY DEF TypeOK
<1>2. partial[at[p]].size \in Int
  BY <1>1, SizeType
<1> QED BY <1>1, <1>2 DEF Keeps, Coherent, files

LEMMA RaiseKeeps ==
  ASSUME TypeOK, NEW p \in Procs, Coherent(at[p]), Raise(p) PROVE Keeps(p)
<1>1. Knows(p)'
  BY DEF Raise, Finish, Goto, Knows, TypeOK
<1> QED BY <1>1, SameFiles DEF Raise, Quiet

LEMMA StepKeeps ==
  ASSUME TypeOK, NEW p \in Procs, Coherent(at[p]), Knows(p), Work(p),
         ~Release(p), ~Rerun(p)
  PROVE  Keeps(p)
<1> DEFINE a == at[p]
<1>0. /\ FilesOK /\ FetchersOK /\ a \in Index /\ pc[p] \in Labels
      /\ have[p] \in Contents
  BY TypeParts DEF FetchersOK
<1>1. CASE Raise(p)
  BY <1>1, RaiseKeeps
<1>2. ASSUME UNCHANGED <<files, at, have>>, pc'[p] \in {"see_target", "failed",
               "see_both", "verify", "unlock", "killed"}
      PROVE  Keeps(p)
  <2>1. Knows(p)'
    BY <1>2 DEF Knows
  <2> QED BY <1>2, <2>1, SameFiles
<1>3. CASE AcquireLock(p)
  BY <1>0, <1>2, <1>3 DEF AcquireLock, Goto, FetchersOK
<1>4. CASE SeeTarget(p)
  <2>1. /\ UNCHANGED <<files, at, have>>
        /\ pc'[p] = IF target[a] # Absent THEN "see_both" ELSE "see_orphan"
    BY <1>0, <1>4 DEF SeeTarget, Goto, Art, FetchersOK
  <2>2. Knows(p)'
    BY <2>1 DEF Knows, files
  <2> QED BY <2>1, <2>2, SameFiles
<1>5. CASE SeeBoth(p) /\ ~Raise(p)
  BY <1>0, <1>2, <1>5 DEF SeeBoth, Require, Quiet, Goto, FetchersOK
<1>6. CASE Verify(p) /\ ~Raise(p)
  <2>1. /\ target[a] = Whole
        /\ have' = [have EXCEPT ![p] = Whole]
        /\ pc'[p] \in {"free_receipt", "compare"}
        /\ UNCHANGED <<files, at>>
    BY <1>0, <1>6 DEF Verify, Goto, Art, FetchersOK
  <2>2. Knows(p)'
    BY <1>0, <2>1 DEF Knows, files, FetchersOK
  <2> QED BY <2>1, <2>2, SameFiles
<1>7. CASE Compare(p)
  <2>1. pc'[p] = "unlock" /\ UNCHANGED <<files, at, have>>
    BY <1>0, <1>7 DEF Compare, Finish, Goto, FetchersOK
  <2> QED BY <1>2, <2>1
<1>8. CASE SeeOrphan(p) /\ ~Raise(p)
  <2>1. /\ pc[p] = "see_orphan" /\ pc'[p] = "partial"
        /\ UNCHANGED <<files, at, have>>
    BY <1>0, <1>8 DEF SeeOrphan, Require, Quiet, Goto, FetchersOK
  <2>2. Knows(p)'
    BY <2>1 DEF Knows, files
  <2> QED BY <2>1, <2>2, SameFiles
<1>9. CASE ReadPartial(p)
  <2> DEFINE f == IF partial[a] = Absent THEN Empty ELSE partial[a]
  <2>1. /\ pc[p] = "partial"
        /\ pc'[p] = IF f.size = Bytes THEN "check" ELSE "request"
        /\ have'[p] = f
        /\ UNCHANGED <<files, at>>
    BY <1>0, <1>9 DEF ReadPartial, Goto, Art, FetchersOK
  <2>2. partial[a] = Absent => f.size # Bytes
    BY DEF Empty
  <2>3. Knows(p)'
    BY <2>1, <2>2 DEF Knows, Matches, files
  <2> QED BY <2>1, <2>3, SameFiles
<1>10. CASE Accepted(p)
  <2>1. /\ pc[p] = "request" /\ pc'[p] = "open"
        /\ UNCHANGED <<files, at, have>>
    BY <1>0, <1>10 DEF Accepted, Goto, FetchersOK
  <2>2. Knows(p)'
    BY <2>1 DEF Knows, Matches, files
  <2> QED BY <2>1, <2>2, SameFiles
<1>11. CASE OpenPartial(p) /\ ~Raise(p)
  <2>1. /\ pc[p] = "open" /\ pc'[p] = "stream"
        /\ UNCHANGED <<target, receipt, at, have>>
        /\ \/ partial[a] = Absent /\ partial' = [partial EXCEPT ![a] = Empty]
           \/ partial' = partial /\ partial[a].size = have[p].size
    BY <1>0, <1>11 DEF OpenPartial, Require, Quiet, Goto, Art, files, FetchersOK
  <2>2. target[a] = Absent /\ Matches(p)
    BY <2>1 DEF Knows
  <2>3. CASE partial[a] = Absent /\ partial' = [partial EXCEPT ![a] = Empty]
    <3>1. partial'[a] = Empty /\ have[p] = Empty
      BY <1>0, <2>2, <2>3 DEF Matches, FilesOK
    <3> QED BY <2>1, <2>2, <2>3, <3>1, Kinds DEF Keeps, Knows, Matches, Coherent
  <2>4. CASE partial' = partial /\ partial[a].size = have[p].size
    <3>1. partial[a] # Absent
      BY <1>0, <2>4 DEF Contents, Absent
    <3>2. Knows(p)'
      BY <2>1, <2>2, <2>4, <3>1 DEF Knows, Matches
    <3> QED BY <2>1, <2>4, <3>2, SameFiles DEF files
  <2> QED BY <2>1, <2>3, <2>4
<1>12. CASE \E honest \in BOOLEAN : Chunk(p, honest)
  <2>1. PICK honest \in BOOLEAN : Chunk(p, honest)
    BY <1>12
  <2> DEFINE b == partial[a]
             c == [size |-> IF b.size < Bytes THEN b.size + 1 ELSE Bytes,
                   good |-> b.good /\ honest /\ b.size = have[p].size]
             h == [size |-> have[p].size + 1, good |-> have[p].good /\ honest]
  <2>2. /\ pc[p] = "stream" /\ have[p].size < Bytes
        /\ partial' = [partial EXCEPT ![a] = c]
        /\ have' = [have EXCEPT ![p] = h]
        /\ UNCHANGED <<target, receipt, pc, at>>
    BY <2>1 DEF Chunk, Art
  <2>3. b # Absent /\ b = have[p] /\ target[a] = Absent
    BY <2>2 DEF Knows, Matches
  <2>4. c = h /\ c.size = b.size + 1 /\ c # Absent /\ b.size \in Nat
    BY <1>0, <2>2, <2>3 DEF Contents, Absent
  <2> HIDE DEF b, c, h
  <2>5. partial'[a] = c /\ have'[p] = h
    BY <1>0, <2>2 DEF FilesOK, FetchersOK
  <2>6. Knows(p)'
    BY <2>2, <2>3, <2>4, <2>5 DEF Knows, Matches
  <2>7. partial'[a].size >= b.size
    BY <2>4, <2>5
  <2>8. receipt[a] = "none"
    BY <2>3, Kinds DEF Coherent
  <2>9. Coherent(a)'
    BY <2>2, <2>3, <2>8 DEF Coherent
  <2> QED BY <2>6, <2>7, <2>9 DEF Keeps, b
<1>13. CASE EndOfBody(p)
  <2>1. /\ pc[p] = "stream" /\ pc'[p] = "check"
        /\ UNCHANGED <<files, at, have>>
    BY <1>0, <1>13 DEF EndOfBody, Goto, FetchersOK
  <2>2. Knows(p)'
    BY <2>1 DEF Knows, Matches, files
  <2> QED BY <2>1, <2>2, SameFiles
<1>14. CASE CheckPartial(p) /\ ~Raise(p)
  <2>1. /\ pc[p] = "check" /\ pc'[p] = "promote" /\ have[p] = Whole
        /\ UNCHANGED <<files, at, have>>
    BY <1>0, <1>14 DEF CheckPartial, Require, Quiet, Goto, FetchersOK
  <2>2. Knows(p)'
    BY <2>1 DEF Knows, Matches, files
  <2> QED BY <2>1, <2>2, SameFiles
<1>15. CASE Promote(p) /\ ~Raise(p)
  <2>1. /\ pc[p] = "promote" /\ pc'[p] = "free_receipt"
        /\ target' = [target EXCEPT ![a] = partial[a]]
        /\ partial' = [partial EXCEPT ![a] = Absent]
        /\ UNCHANGED <<receipt, at, have>>
    BY <1>0, <1>15 DEF Promote, Goto, Art, FetchersOK
  <2>2. partial[a] = Whole /\ have[p] = Whole /\ target[a] = Absent
    BY <2>1, Kinds DEF Knows, Matches
  <2>3. target'[a] = Whole /\ partial'[a] = Absent /\ receipt'[a] = "none"
    BY <1>0, <2>1, <2>2, Kinds DEF FilesOK, Coherent
  <2> QED BY <2>1, <2>2, <2>3 DEF Keeps, Coherent, Knows
<1>16. CASE (FreeReceipt(p) \/ RecheckReceipt(p)) /\ ~Raise(p)
  <2>1. /\ pc[p] \in {"free_receipt", "recheck_receipt"}
        /\ pc'[p] \in {"recheck_receipt", "place_receipt"}
        /\ UNCHANGED <<files, at, have>>
    BY <1>0, <1>16 DEF FreeReceipt, RecheckReceipt, Require, Quiet, Goto,
       FetchersOK
  <2>2. Knows(p)'
    BY <2>1 DEF Knows, files
  <2> QED BY <2>1, <2>2, SameFiles
<1>17. CASE PlaceReceipt(p)
  <2>1. /\ pc[p] = "place_receipt" /\ pc'[p] = "unlock"
        /\ receipt' = [receipt EXCEPT ![a] =
                         IF have[p] = Whole THEN "good" ELSE "bad"]
        /\ UNCHANGED <<target, partial, at, have>>
    BY <1>0, <1>17 DEF PlaceReceipt, Finish, Goto, Art, FetchersOK
  <2>2. receipt'[a] = "good" /\ target[a] = Whole
    BY <1>0, <2>1 DEF Knows, FilesOK
  <2>3. partial[a].size \in Int
    BY <1>0, SizeType
  <2> QED BY <2>1, <2>2, <2>3 DEF Keeps, Coherent, Knows
<1>18. CASE Interrupted(p) /\ ~Raise(p)
  <2>1. /\ pc[p] \in {"request", "stream"} /\ pc'[p] = "partial"
        /\ UNCHANGED <<files, at, have>>
    BY <1>0, <1>18 DEF Interrupted, Goto, FetchersOK
  <2>2. Knows(p)'
    BY <2>1 DEF Knows, files
  <2> QED BY <2>1, <2>2, SameFiles
<1>19. CASE Kill(p)
  <2>1. pc'[p] = "killed" /\ UNCHANGED <<files, at>>
    BY <1>0, <1>19 DEF Kill, Goto, FetchersOK
  <2>2. Knows(p)'
    BY <2>1 DEF Knows
  <2> QED BY <2>1, <2>2, SameFiles
<1>20. CASE Refused(p) \/ Surplus(p)
  BY <1>1, <1>20 DEF Refused, Surplus
<1> QED BY <1>1, <1>3, <1>4, <1>5, <1>6, <1>7, <1>8, <1>9, <1>10, <1>11, <1>12,
           <1>13, <1>14, <1>15, <1>16, <1>17, <1>18, <1>19, <1>20
     DEF Work, Advance

\* Leaving an artifact, and being run again: no file changes and nothing is
\* known yet.
LEMMA OutsideKnows ==
  ASSUME TypeOK, NEW p \in Procs, Release(p) \/ Rerun(p)
  PROVE  Knows(p)' /\ UNCHANGED files
<1>1. pc'[p] \in {"lock", "done", "failed"} /\ UNCHANGED files
  BY DEF Release, Leave, Rerun, Goto, TypeOK
<1> QED BY <1>1 DEF Knows

\* Another fetcher's knowledge survives: the lock keeps its artifact apart.
LEMMA OthersKnow ==
  ASSUME TypeOK, LockInv, NEW p \in Procs, Work(p), NEW q \in Procs \ {p},
         Knows(q)
  PROVE  Knows(q)'
<1>1. Alone(p) /\ at[q] \in Index /\ at[p] \in Index
  BY StepAlone DEF TypeOK
<1>2. CASE ~Busy(q)
  BY <1>1, <1>2 DEF Alone, Knows, Busy, Ended
<1>3. CASE Busy(q) /\ (UNCHANGED files \/ at[q] # at[p])
  <2>1. target'[at[q]] = target[at[q]] /\ partial'[at[q]] = partial[at[q]]
    BY <1>1, <1>3 DEF Alone, files
  <2>2. pc'[q] = pc[q] /\ at'[q] = at[q] /\ have'[q] = have[q]
    BY <1>1 DEF Alone
  <2> QED BY <2>1, <2>2 DEF Knows, Matches
<1>4. CASE Busy(q) /\ at[q] = at[p]
  <2>1. ~Busy(p)
    BY <1>4 DEF LockInv
  <2>2. UNCHANGED files
    BY <2>1 DEF Busy, Ended, Work, Advance, AcquireLock, SeeTarget, SeeBoth,
       Verify, Compare, SeeOrphan, ReadPartial, Accepted, OpenPartial, Chunk,
       EndOfBody, CheckPartial, Promote, FreeReceipt, RecheckReceipt,
       PlaceReceipt, Release, Refused, Interrupted, Surplus, Kill, Rerun
  <2> QED BY <1>3, <1>4, <2>2
<1> QED BY <1>2, <1>3, <1>4

\* A partial file only grows, until it becomes the target.
Grows(a) ==
  partial[a] # Absent =>
    \/ partial'[a].size >= partial[a].size
    \/ partial'[a] = Absent /\ target'[a] = partial[a]

LEMMA WorkStore ==
  ASSUME TypeOK, LockInv, StoreInv, NEW p \in Procs, Work(p)
  PROVE  StoreInv' /\ \A a \in Index : Grows(a)
<1>0. Alone(p) /\ at[p] \in Index /\ Coherent(at[p]) /\ Knows(p)
  BY StepAlone DEF TypeOK, StoreInv
<1>1. ASSUME NEW a \in Index \ {at[p]} PROVE Coherent(a)' /\ Grows(a)
  <2>1. Coherent(a) /\ partial[a].size \in Int
    BY SizeType DEF StoreInv
  <2> QED BY <1>0, <2>1 DEF Alone, Coherent, Grows
<1>2. \A q \in Procs \ {p} : Knows(q)'
  BY OthersKnow DEF StoreInv
<1>3. CASE ~Release(p) /\ ~Rerun(p)
  <2>1. Keeps(p)
    BY <1>0, <1>3, StepKeeps
  <2>2. Coherent(at[p])' /\ at'[p] = at[p]
    <3>1. at' = at
      BY <1>3 DEF Work, Advance, AcquireLock, SeeTarget, SeeBoth, Verify,
         Compare, SeeOrphan, ReadPartial, Accepted, OpenPartial, Chunk,
         EndOfBody, CheckPartial, Promote, FreeReceipt, RecheckReceipt,
         PlaceReceipt, Refused, Interrupted, Surplus, Kill, Require, Quiet,
         Raise
    <3> QED BY <2>1, <3>1 DEF Keeps
  <2>3. \A a \in Index : Coherent(a)'
    BY <1>1, <2>2 DEF Coherent
  <2>4. \A a \in Index : Grows(a)
    BY <1>1, <2>1 DEF Keeps, Grows
  <2>5. Knows(p)'
    BY <2>1 DEF Keeps
  <2> QED BY <1>2, <2>3, <2>4, <2>5 DEF StoreInv
<1>4. CASE Release(p) \/ Rerun(p)
  <2>1. Knows(p)' /\ UNCHANGED files
    BY <1>4, OutsideKnows
  <2>2. ASSUME NEW a \in Index PROVE Coherent(a)' /\ Grows(a)
    <3>1. Coherent(a) /\ partial[a].size \in Int
      BY SizeType DEF StoreInv
    <3> QED BY <2>1, <3>1 DEF files, Coherent, Grows
  <2> QED BY <1>2, <2>1, <2>2 DEF StoreInv
<1> QED BY <1>3, <1>4

LEMMA NextStore ==
  TypeOK /\ LockInv /\ StoreInv /\ [Next]_vars =>
    StoreInv' /\ \A a \in Index : Grows(a)
<1> SUFFICES ASSUME TypeOK, LockInv, StoreInv, [Next]_vars
             PROVE  StoreInv' /\ \A a \in Index : Grows(a)
  OBVIOUS
<1>1. ASSUME NEW p \in Procs, Work(p)
      PROVE  StoreInv' /\ \A a \in Index : Grows(a)
  BY <1>1, WorkStore
<1>2. CASE (\E a \in Index : ClearStaleLock(a)) \/ Status \/ UNCHANGED vars
  <2>1. UNCHANGED <<files, pc, at, have>>
    BY <1>2 DEF ClearStaleLock, Status, StatusStart, StatusTarget, StatusBoth,
       StatusDigest, StatusReceipt, StatusOrphan, StatusNext, ReadStatus, vars,
       files
  <2>2. StoreInv'
    BY <2>1 DEF StoreInv, Coherent, Knows, Matches, files
  <2>3. \A a \in Index : Grows(a)
    BY <2>1, SizeType DEF Grows, files
  <2> QED BY <2>2, <2>3
<1> QED BY <1>1, <1>2 DEF Next, Work

LEMMA StoreInvariance == Spec => []StoreInv
<1>1. Init => StoreInv
  <2> SUFFICES ASSUME Init PROVE StoreInv
    OBVIOUS
  <2>1. \A a \in Index : Coherent(a)
    BY DEF Init, Coherent
  <2>2. \A p \in Procs : Knows(p)
    BY DEF Init, Knows
  <2> QED BY <2>1, <2>2 DEF StoreInv
<1> QED BY <1>1, TypeCorrect, LockInvariance, NextStore, PTL DEF Spec

\* A target is the publisher's file, all of it, whatever the server sent and
\* however the download was interrupted, resumed and killed.
THEOREM TargetsAreGenuine == Spec => []TargetIsGenuine
<1>1. StoreInv => TargetIsGenuine
  BY DEF StoreInv, Coherent, TargetIsGenuine
<1> QED BY <1>1, StoreInvariance, PTL

\* A receipt tells the truth about the target that stands beside it, and no
\* partial file stands beside a target: after any crash a rerun finds a state
\* it knows how to finish.
THEOREM StoreStaysCoherent == Spec => []StoreIsCoherent
<1>1. StoreInv => StoreIsCoherent
  BY DEF StoreInv, Coherent, StoreIsCoherent
<1> QED BY <1>1, StoreInvariance, PTL

\* The digest a fetcher has computed is that of the file on disk, whenever it
\* is about to rely on it.
THEOREM DigestsMatch == Spec => []DigestMatchesDisk
<1>1. StoreInv => DigestMatchesDisk
  BY DEF StoreInv, Knows, Matches, DigestMatchesDisk
<1> QED BY <1>1, StoreInvariance, PTL

\* Downloaded bytes are never given up by any run.
THEOREM PartialsGrow == Spec => PartialOnlyGrows
<1>1. TypeOK /\ LockInv /\ StoreInv /\ [Next]_vars =>
        [\A a \in Index : partial[a] # Absent =>
           \/ partial'[a].size >= partial[a].size
           \/ partial'[a] = Absent /\ target'[a] = partial[a]]_vars
  BY NextStore DEF Grows
<1> QED BY <1>1, TypeCorrect, LockInvariance, StoreInvariance, PTL
        DEF Spec, PartialOnlyGrows

----------------------------------------------------------------------------
(* The status command.                                                     *)

\* A target that is there, and a receipt that is there, are there for good.
Settled(a) == /\ target[a] # Absent => target'[a] # Absent
              /\ receipt[a] # "none" => receipt'[a] # "none"

LEMMA WorkSettles ==
  ASSUME TypeOK, NEW p \in Procs, Work(p) PROVE \A a \in Index : Settled(a)
<1>0. FilesOK /\ at[p] \in Index
  BY TypeParts DEF FetchersOK
<1>1. target' # target =>
        /\ target' = [target EXCEPT ![at[p]] = partial[at[p]]]
        /\ partial[at[p]] # Absent
  BY DEF Work, Advance, AcquireLock, SeeTarget, SeeBoth, Verify, Compare,
     SeeOrphan, ReadPartial, Accepted, OpenPartial, Chunk, EndOfBody,
     CheckPartial, Promote, FreeReceipt, RecheckReceipt, PlaceReceipt, Release,
     Refused, Interrupted, Surplus, Kill, Rerun, Require, Raise, Art, files
<1>2. receipt' # receipt =>
        \E r \in {"good", "bad"} : receipt' = [receipt EXCEPT ![at[p]] = r]
  BY DEF Work, Advance, AcquireLock, SeeTarget, SeeBoth, Verify, Compare,
     SeeOrphan, ReadPartial, Accepted, OpenPartial, Chunk, EndOfBody,
     CheckPartial, Promote, FreeReceipt, RecheckReceipt, PlaceReceipt, Release,
     Refused, Interrupted, Surplus, Kill, Rerun, Require, Raise, Art, files
<1>3. ASSUME NEW a \in Index PROVE target[a] # Absent => target'[a] # Absent
  BY <1>0, <1>1 DEF FilesOK
<1>4. ASSUME NEW a \in Index PROVE receipt[a] # "none" => receipt'[a] # "none"
  BY <1>0, <1>2 DEF FilesOK
<1> QED BY <1>3, <1>4 DEF Settled

LEMMA NextSettles ==
  TypeOK /\ [Next]_vars => \A a \in Index : Settled(a)
<1> SUFFICES ASSUME TypeOK, [Next]_vars PROVE \A a \in Index : Settled(a)
  OBVIOUS
<1>1. ASSUME NEW p \in Procs, Work(p) PROVE \A a \in Index : Settled(a)
  BY <1>1, WorkSettles
<1>2. CASE (\E a \in Index : ClearStaleLock(a)) \/ Status \/ UNCHANGED vars
  BY <1>2 DEF ClearStaleLock, Status, StatusStart, StatusTarget, StatusBoth,
     StatusDigest, StatusReceipt, StatusOrphan, StatusNext, ReadStatus, vars,
     files, Settled
<1> QED BY <1>1, <1>2 DEF Next, Work

\* What the status command has seen is still so, although it holds no lock and
\* its looks are apart: a verified artifact was whole when its digest was
\* computed, and has been since.
StatusInv ==
  /\ reader.step \in {"compare", "verified"} => target[reader.at] = Whole
  /\ reader.step = "verified" => receipt[reader.at] = "good"

LEMMA StatusStep ==
  TypeOK /\ StoreInv /\ StoreInv' /\ StatusInv /\ [Next]_vars => StatusInv'
<1> SUFFICES ASSUME TypeOK, StoreInv, StoreInv', StatusInv, [Next]_vars
             PROVE  StatusInv'
  OBVIOUS
<1>0. CountsOK /\ reader.at \in Index
  BY TypeParts DEF CountsOK
<1>1. CASE reader' = reader
  <2>1. target[reader.at] = Whole => target'[reader.at] = Whole
    BY <1>0, NextSettles, Kinds DEF Settled, StoreInv, Coherent
  <2>2. receipt[reader.at] = "good" => receipt'[reader.at] = "good"
    BY <1>0, NextSettles DEF Settled, StoreInv, Coherent
  <2> QED BY <1>1, <2>1, <2>2 DEF StatusInv
<1>2. CASE Status
  <2>1. UNCHANGED files
    BY <1>2 DEF Status, StatusStart, StatusTarget, StatusBoth, StatusDigest,
       StatusReceipt, StatusOrphan, StatusNext, ReadStatus
  <2>2. CASE StatusNext
    <3>1. reader'.step = "idle"
      BY <2>2 DEF StatusNext
    <3> QED BY <3>1 DEF StatusInv
  <2>3. CASE StatusDigest
    <3>1. /\ reader'.at = reader.at
          /\ reader'.step = IF target[reader.at] = Whole THEN "compare"
                                                         ELSE "mismatch"
      BY <1>0, <2>3 DEF StatusDigest, ReadStatus, CountsOK
    <3> QED BY <2>1, <3>1 DEF StatusInv, files
  <2>4. CASE StatusReceipt
    <3>1. /\ reader.step = "compare" /\ reader'.at = reader.at
          /\ reader'.step = IF receipt[reader.at] = "good" THEN "verified"
                                                           ELSE "unreceipted"
      BY <1>0, <2>4 DEF StatusReceipt, ReadStatus, CountsOK
    <3> QED BY <2>1, <3>1 DEF StatusInv, files
  <2>5. CASE StatusStart \/ StatusTarget \/ StatusBoth \/ StatusOrphan
    <3>1. reader'.step \in {"locked", "target", "partial", "receipt", "both",
                            "digest", "orphan", "missing"}
      BY <1>0, <2>5 DEF StatusStart, StatusTarget, StatusBoth, StatusOrphan,
         ReadStatus, CountsOK
    <3> QED BY <3>1 DEF StatusInv
  <2> QED BY <1>2, <2>2, <2>3, <2>4, <2>5 DEF Status
<1>3. CASE ~Status
  <2>1. reader' = reader
    BY <1>3 DEF Next, Advance, AcquireLock, SeeTarget, SeeBoth, Verify, Compare,
       SeeOrphan, ReadPartial, Accepted, OpenPartial, Chunk, EndOfBody,
       CheckPartial, Promote, FreeReceipt, RecheckReceipt, PlaceReceipt, Release,
       Refused, Interrupted, Surplus, Kill, Rerun, ClearStaleLock, count, vars
  <2> QED BY <1>1, <2>1
<1> QED BY <1>2, <1>3

\* An artifact that status calls verified has the publisher's bytes and a true
\* receipt, at the moment of the report and for as long as the report stands,
\* although the command takes no lock and fetchers work between its looks.
THEOREM StatusTellsTheTruth == Spec => []StatusVerifiesTruth
<1>1. Init => StatusInv
  BY DEF Init, StatusInv
<1>2. Spec => []StatusInv
  BY <1>1, TypeCorrect, StoreInvariance, StatusStep, PTL DEF Spec
<1>3. StatusInv => StatusVerifiesTruth
  BY DEF StatusInv, StatusVerifiesTruth
<1> QED BY <1>2, <1>3, PTL

\* No run and no fault takes back what is in place: an acquired target, and a
\* receipt, are never removed or replaced by anything else.
THEOREM AcquisitionsStay ==
  Spec => [][\A a \in Index :
               /\ target[a] # Absent => target'[a] = target[a]
               /\ receipt[a] # "none" => receipt'[a] = receipt[a]]_vars
<1>1. TypeOK /\ StoreInv /\ StoreInv' /\ [Next]_vars =>
        [\A a \in Index :
           /\ target[a] # Absent => target'[a] = target[a]
           /\ receipt[a] # "none" => receipt'[a] = receipt[a]]_vars
  BY NextSettles DEF Settled, StoreInv, Coherent
<1> QED BY <1>1, TypeCorrect, StoreInvariance, PTL DEF Spec
=============================================================================
