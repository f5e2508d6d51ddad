-------------------------- MODULE RoleCacheProofs --------------------------
(***************************************************************************)
(* AlwaysRecoverable of RoleCache, for every number of targets and of      *)
(* faults.  The inductive invariant speaks of what the names may stand for *)
(* after a loss of power, not only of what they stand for now: a name is   *)
(* changed only while the journal that decides about it is durably there,  *)
(* or durably gone.                                                        *)
(***************************************************************************)
EXTENDS RoleCache, TLAPS

TargetsAre(g) == \A i \in Index : may[Target(i)] = {g}

BackupsAre(j, g) ==
  \A i \in Index : /\ may[Backup(i)] = {g}
                   /\ i \in listed[j] <=> g # 0

\* Recoverable after a loss of power at this moment.
Safe ==
  /\ 0 \in may[Journal] => \E g \in Runs : g >= success /\ TargetsAre(g)
  /\ \A j \in may[Journal] \ {0} : \E g \in Runs : g >= success /\ BackupsAre(j, g)

\* No journal, and none that may come back.
Gone == may[Journal] = {0}

\* Recovery can begin here: a journal that may not be durable has not been acted
\* on, and a target that is absent is durably absent.
Undoable ==
  /\ dir[Journal] = 0 => Gone
  /\ may[Journal] \subseteq {0, dir[Journal]}
  /\ 0 \in may[Journal] /\ dir[Journal] # 0 =>
       \A i \in Index : may[Target(i)] = may[Backup(i)]
  /\ \A i \in Index : dir[Target(i)] = 0 => may[Target(i)] = {0}

RestoredTo(n) == \A i \in Index : i < n => may[Target(i)] = {dir[Backup(i)]}
BackedUpTo(n) ==
  /\ listed[run] = Existing
  /\ \A i \in Index : dir[Backup(i)] = IF i < n THEN dir[Target(i)] ELSE 0
BackedUpAll ==
  /\ listed[run] = Existing
  /\ \A i \in Index : may[Backup(i)] = {dir[Target(i)]}
PublishedTo(n) ==
  /\ may[Journal] = {run}
  /\ \A i \in Index : /\ i < n => may[Target(i)] = {run}
                      /\ dir[Target(i)] = 0 => may[Target(i)] = {0}

Recovering == {"verify", "restore", "relink", "return", "restore_sync"}
Preparing  == {"clean", "stage", "document", "back_up", "name_copy",
               "write_journal", "name_journal"}

PcInv ==
  /\ pc \in Recovering \cup {"recover", "recovered"} => ctx \in {"start", "failed"}
  /\ pc \in {"failed", "recover", "verify"} => Undoable
  /\ pc \in Recovering => dir[Journal] # 0
  /\ pc \in {"restore", "relink", "return"} => Undoable /\ RestoredTo(k)
  /\ pc = "relink" => k \in listed[dir[Journal]]
  /\ pc = "return" => k \in listed[dir[Journal]] /\ dir[Restored(k)] = dir[Backup(k)]
  /\ pc = "restore_sync" =>
       /\ RestoredTo(k) /\ dir[Target(k)] = dir[Backup(k)]
       /\ may[Journal] \subseteq {0, dir[Journal]}
       /\ 0 \in may[Journal] => \A i \in Index : may[Target(i)] = may[Backup(i)]
  /\ pc = "recovered" => dir[Journal] = 0 /\ \E g \in Runs : g >= success /\ TargetsAre(g)
  /\ pc \in Preparing => Gone
  /\ pc = "document" => \A i \in Index : dir[Backup(i)] = 0
  /\ pc = "back_up" => BackedUpTo(k)
  /\ pc = "name_copy" => BackedUpTo(k) /\ dir[Copied(k)] = dir[Target(k)]
  /\ pc \in {"write_journal", "name_journal"} => BackedUpAll
  /\ pc = "name_journal" => dir[JournalTemp] = run
  /\ pc = "journal_sync" => Undoable /\ dir[Journal] = run
  /\ pc = "publish" => PublishedTo(k)
  /\ pc = "publish_sync" => PublishedTo(k) /\ dir[Target(k)] = run
  /\ pc = "committed" => dir[Journal] = 0 /\ TargetsAre(run)
  /\ pc = "clean" /\ ctx = "commit" => TargetsAre(run)

\* Calls about one target.
AtTarget == {"relink", "return", "restore_sync", "name_copy", "publish_sync"}

Coherent == \A n \in Names : dir[n] \in may[n]

Basic ==
  /\ TypeOK
  /\ Coherent
  /\ success <= run
  /\ pc \notin {"idle", "off"} => run # 0
  /\ pc \in AtTarget => k \in Index

Inv == Basic /\ (hasty \/ (Safe /\ PcInv))

USE SizeAssumption, BoundAssumption

-----------------------------------------------------------------------------
(* Names, and what changes when one is bound.                              *)

LEMMA NameFacts ==
  /\ Journal \in Names /\ JournalTemp \in Names /\ Journal # JournalTemp
  /\ Debris \subseteq Names /\ Journal \notin Debris
  /\ \A i \in Index :
       /\ {Target(i), Backup(i), Copied(i), Restored(i)} \subseteq Names
       /\ {Backup(i), Copied(i), Restored(i)} \subseteq Debris
       /\ Target(i) \notin Debris /\ Journal # Target(i) /\ JournalTemp # Target(i)
       /\ JournalTemp # Backup(i)
  /\ \A i, j \in Index :
       /\ i # j => Target(i) # Target(j) /\ Backup(i) # Backup(j)
       /\ Target(i) \notin {Backup(j), Copied(j), Restored(j)}
       /\ Backup(i) \notin {Copied(j), Restored(j)}
BY DEF Names, Debris, Journal, JournalTemp, Target, Backup, Copied, Restored

LEMMA IndexFacts == Index \subseteq Nat /\ \A i \in Nat : i \in Index <=> 1 <= i /\ i <= N
BY DEF Index

LEMMA NextIndex == \A i, j \in Index : i < j + 1 <=> (i < j \/ i = j)
BY DEF Index

LEMMA RunsFacts == 0 \in Runs /\ Runs \subseteq Nat
BY DEF Runs

LEMMA PutEffect ==
  ASSUME Basic, NEW n \in Names, NEW v \in Runs, Put(n, v)
  PROVE  /\ dir' \in [Names -> Runs] /\ may' \in [Names -> SUBSET Runs]
         /\ Coherent'
         /\ dir'[n] = v /\ may'[n] = may[n] \cup {v}
         /\ \A m \in Names \ {n} : dir'[m] = dir[m] /\ may'[m] = may[m]
BY DEF Basic, TypeOK, Coherent, Put

LEMMA ReplaceEffect ==
  ASSUME Basic, NEW m \in Names, NEW n \in Names, m # n, Replace(m, n)
  PROVE  /\ dir' \in [Names -> Runs] /\ may' \in [Names -> SUBSET Runs]
         /\ Coherent'
         /\ dir'[n] = dir[m]
         /\ dir[m] = dir[n] => may'[n] = may[n]
         /\ may'[n] \subseteq may[n] \cup {dir[m]}
         /\ \A l \in Names \ {m, n} : dir'[l] = dir[l] /\ may'[l] = may[l]
BY RunsFacts DEF Basic, TypeOK, Coherent, Replace, files

LEMMA SyncEffect ==
  ASSUME Basic, Sync
  PROVE  /\ dir' \in [Names -> Runs] /\ may' \in [Names -> SUBSET Runs]
         /\ Coherent'
         /\ dir' = dir
         /\ \A n \in Names : may'[n] = {dir[n]}
BY DEF Basic, TypeOK, Coherent, Sync

-----------------------------------------------------------------------------
(* Types and coherence.                                                    *)

Binds ==
  /\ dir' \in [Names -> Runs] /\ may' \in [Names -> SUBSET Runs]
  /\ Coherent'

LEMMA KeepsFiles == ASSUME Basic, UNCHANGED files PROVE Binds
BY DEF Basic, TypeOK, Coherent, files, Binds

LEMMA RecoveryBasic == ASSUME Basic, Recovery PROVE Basic'
<1> USE NameFacts, RunsFacts, IndexFacts
<1>1. CASE Recover
  <2>1. Binds
    BY <1>1, KeepsFiles DEF Recover, Binds
  <2> QED BY <1>1, <2>1 DEF Recover, Goto, Clean, Binds, Basic, TypeOK, AtTarget, book, Labels
<1>2. CASE Verify
  <2>1. Binds
    BY <1>2, KeepsFiles DEF Verify, Binds
  <2> QED BY <1>2, <2>1 DEF Verify, Goto, Clean, Binds, Basic, TypeOK, AtTarget, book, Labels
<1>3. CASE Restore
  <2>1. k \in Index
    BY <1>3 DEF Restore, Basic, TypeOK, AtTarget
  <2>2. Binds
    BY <1>3, <2>1, KeepsFiles, PutEffect DEF Restore, Binds
  <2> QED BY <1>3, <2>1, <2>2 DEF Restore, Goto, Clean, Binds, Basic, TypeOK, AtTarget, book, Labels
<1>4. CASE Relink
  <2>1. k \in Index
    BY <1>4 DEF Relink, Basic, TypeOK, AtTarget
  <2>2. Binds
    BY <1>4, <2>1, KeepsFiles, PutEffect DEF Relink, Binds, Basic, TypeOK
  <2> QED BY <1>4, <2>1, <2>2 DEF Relink, Goto, Clean, Binds, Basic, TypeOK, AtTarget, book, Labels
<1>5. CASE ReturnTarget
  <2>1. k \in Index
    BY <1>5 DEF ReturnTarget, Basic, TypeOK, AtTarget
  <2>2. Binds
    BY <1>5, <2>1, ReplaceEffect DEF ReturnTarget, Binds
  <2> QED BY <1>5, <2>1, <2>2 DEF ReturnTarget, Goto, Clean, Binds, Basic, TypeOK, AtTarget, book, Labels
<1>6. CASE RestoreSync
  <2>1. k \in Index
    BY <1>6 DEF RestoreSync, Basic, TypeOK, AtTarget
  <2>2. Binds
    BY <1>6, <2>1, SyncEffect DEF RestoreSync, Binds
  <2> QED BY <1>6, <2>1, <2>2 DEF RestoreSync, Goto, Clean, Binds, Basic, TypeOK, AtTarget, book, Labels
<1>7. CASE RestoredAll
  <2>1. Binds
    BY <1>7, PutEffect DEF RestoredAll, Binds
  <2> QED BY <1>7, <2>1 DEF RestoredAll, Goto, Clean, Binds, Basic, TypeOK, AtTarget, book, Labels
<1>8. CASE Recovered
  <2>1. Binds
    BY <1>8, SyncEffect DEF Recovered, Binds
  <2> QED BY <1>8, <2>1 DEF Recovered, Goto, Clean, Binds, Basic, TypeOK, AtTarget, book, Labels
<1>9. CASE CleanOne
  <2>1. Binds
    BY <1>9, PutEffect DEF CleanOne, Binds
  <2> QED BY <1>9, <2>1 DEF CleanOne, Goto, Clean, Binds, Basic, TypeOK, AtTarget, book, Labels
<1>10. CASE CleanSync
  <2>1. Binds
    BY <1>10, KeepsFiles, SyncEffect DEF CleanSync, Binds
  <2> QED BY <1>10, <2>1 DEF CleanSync, Goto, Clean, Binds, Basic, TypeOK, AtTarget, book, Labels, AfterClean
<1> QED BY <1>1, <1>2, <1>3, <1>4, <1>5, <1>6, <1>7, <1>8, <1>9, <1>10 DEF Recovery

LEMMA PublicationBasic == ASSUME Basic, Publication PROVE Basic'
<1> USE NameFacts, RunsFacts, IndexFacts
<1>1. CASE Stage
  <2>1. Binds
    BY <1>1, KeepsFiles DEF Stage, Binds
  <2> QED BY <1>1, <2>1 DEF Stage, Goto, Clean, Binds, Basic, TypeOK, AtTarget, book, Labels
<1>2. CASE Document
  <2>1. Binds
    BY <1>2, KeepsFiles DEF Document, Binds
  <2> QED BY <1>2, <2>1 DEF Document, Goto, Clean, Binds, Basic, TypeOK, AtTarget, book, Labels, Existing
<1>3. CASE BackUp
  <2>1. k \in Index
    BY <1>3 DEF BackUp, Basic, TypeOK, AtTarget
  <2>2. Binds
    BY <1>3, <2>1, KeepsFiles, PutEffect DEF BackUp, Binds, Basic, TypeOK
  <2> QED BY <1>3, <2>1, <2>2 DEF BackUp, Goto, Clean, Binds, Basic, TypeOK, AtTarget, book, Labels
<1>4. CASE NameCopy
  <2>1. k \in Index
    BY <1>4 DEF NameCopy, Basic, TypeOK, AtTarget
  <2>2. Binds
    BY <1>4, <2>1, ReplaceEffect DEF NameCopy, Binds
  <2> QED BY <1>4, <2>1, <2>2 DEF NameCopy, Goto, Clean, Binds, Basic, TypeOK, AtTarget, book, Labels
<1>5. CASE BackedUp
  <2>1. Binds
    BY <1>5, SyncEffect DEF BackedUp, Binds
  <2> QED BY <1>5, <2>1 DEF BackedUp, Goto, Clean, Binds, Basic, TypeOK, AtTarget, book, Labels
<1>6. CASE WriteJournal
  <2>1. Binds
    BY <1>6, PutEffect DEF WriteJournal, Binds, Basic, TypeOK
  <2> QED BY <1>6, <2>1 DEF WriteJournal, Goto, Clean, Binds, Basic, TypeOK, AtTarget, book, Labels
<1>7. CASE NameJournal
  <2>1. Binds
    BY <1>7, ReplaceEffect DEF NameJournal, Binds
  <2> QED BY <1>7, <2>1 DEF NameJournal, Goto, Clean, Binds, Basic, TypeOK, AtTarget, book, Labels
<1>8. CASE JournalSync
  <2>1. Binds
    BY <1>8, SyncEffect DEF JournalSync, Binds
  <2> QED BY <1>8, <2>1 DEF JournalSync, Goto, Clean, Binds, Basic, TypeOK, AtTarget, book, Labels
<1>9. CASE Publish
  <2>1. k \in Index
    BY <1>9 DEF Publish, Basic, TypeOK, AtTarget
  <2>2. Binds
    BY <1>9, <2>1, PutEffect DEF Publish, Binds, Basic, TypeOK
  <2> QED BY <1>9, <2>1, <2>2 DEF Publish, Goto, Clean, Binds, Basic, TypeOK, AtTarget, book, Labels
<1>10. CASE PublishSync
  <2>1. k \in Index
    BY <1>10 DEF PublishSync, Basic, TypeOK, AtTarget
  <2>2. Binds
    BY <1>10, <2>1, SyncEffect DEF PublishSync, Binds
  <2> QED BY <1>10, <2>1, <2>2 DEF PublishSync, Goto, Clean, Binds, Basic, TypeOK, AtTarget, book, Labels
<1>11. CASE Commit
  <2>1. Binds
    BY <1>11, PutEffect DEF Commit, Binds
  <2> QED BY <1>11, <2>1 DEF Commit, Goto, Clean, Binds, Basic, TypeOK, AtTarget, book, Labels
<1>12. CASE Committed
  <2>1. Binds
    BY <1>12, SyncEffect DEF Committed, Binds
  <2> QED BY <1>12, <2>1 DEF Committed, Goto, Clean, Binds, Basic, TypeOK, AtTarget, book, Labels
<1>13. CASE Failed
  <2>1. Binds
    BY <1>13, KeepsFiles DEF Failed, Binds
  <2> QED BY <1>13, <2>1 DEF Failed, Goto, Clean, Binds, Basic, TypeOK, AtTarget, book, Labels
<1> QED BY <1>1, <1>2, <1>3, <1>4, <1>5, <1>6, <1>7, <1>8, <1>9, <1>10, <1>11, <1>12, <1>13 DEF Publication

LEMMA OtherBasic == ASSUME Basic, Start \/ Settle \/ Reboot \/ Fault PROVE Basic'
<1> USE NameFacts, RunsFacts, IndexFacts
<1>1. CASE Start
  <2>1. Binds
    BY <1>1, KeepsFiles DEF Start, Binds
  <2> QED BY <1>1, <2>1 DEF Start, Goto, Binds, Basic, TypeOK, AtTarget, book, Labels, Runs
<1>2. CASE Reboot
  <2>1. Binds
    BY <1>2, KeepsFiles DEF Reboot, Binds
  <2> QED BY <1>2, <2>1 DEF Reboot, Goto, Clean, Binds, Basic, TypeOK, AtTarget, book, Labels
<1>3. CASE Error
  <2>1. Binds
    BY <1>3, KeepsFiles DEF Error, Binds
  <2> QED BY <1>3, <2>1 DEF Error, Goto, Clean, Binds, Basic, TypeOK, AtTarget, book, Labels
<1>4. CASE Kill
  <2>1. Binds
    BY <1>4, KeepsFiles DEF Kill, Binds
  <2> QED BY <1>4, <2>1 DEF Kill, Goto, Clean, Binds, Basic, TypeOK, AtTarget, book, Labels
<1>5. CASE LosePower
  <2>1. Binds
    BY <1>5, KeepsFiles DEF LosePower, Binds
  <2> QED BY <1>5, <2>1 DEF LosePower, Goto, Clean, Binds, Basic, TypeOK, AtTarget, book, Labels
<1>6. CASE Settle
  <2>1. PICK n \in Names : \E v \in may[n] : dir' = [dir EXCEPT ![n] = v]
                                          /\ may' = [may EXCEPT ![n] = {v}]
    BY <1>6 DEF Settle
  <2>2. PICK v \in may[n] : dir' = [dir EXCEPT ![n] = v] /\ may' = [may EXCEPT ![n] = {v}]
    BY <2>1
  <2>3. v \in Runs
    BY DEF Basic, TypeOK
  <2>4. Binds
    BY <2>2, <2>3 DEF Binds, Basic, TypeOK, Coherent
  <2> QED BY <1>6, <2>4 DEF Settle, Binds, Basic, TypeOK, AtTarget, book, Labels
<1> QED BY <1>1, <1>2, <1>3, <1>4, <1>5, <1>6 DEF Fault


-----------------------------------------------------------------------------
(* What a run does before anything it hurried past is durable.             *)

LEMMA SafeShrinks ==
  ASSUME Safe, UNCHANGED <<listed, success>>,
         may'[Journal] \subseteq may[Journal],
         \A i \in Index : \A n \in {Target(i), Backup(i)} :
           may'[n] \subseteq may[n] /\ may'[n] # {}
  PROVE  Safe'
BY DEF Safe, TargetsAre, BackupsAre

LEMMA SafeStays ==
  ASSUME Safe, UNCHANGED <<listed, success>>,
         may'[Journal] = may[Journal],
         \A i \in Index : \A n \in {Target(i), Backup(i)} : may'[n] = may[n]
  PROVE  Safe'
BY DEF Safe, TargetsAre, BackupsAre

LEMMA SafeSynced ==
  ASSUME Basic, Safe, Sync, UNCHANGED <<listed, success>>
  PROVE  Safe'
<1>1. \A n \in Names : may'[n] = {dir[n]} /\ dir[n] \in may[n]
  BY SyncEffect DEF Basic, Coherent
<1> QED BY <1>1, NameFacts, SafeShrinks

\* The generation that the journal can bring back.
LEMMA JournalNames ==
  ASSUME Basic, Safe, dir[Journal] # 0
  PROVE  \E g \in Runs : g >= success /\ BackupsAre(dir[Journal], g)
BY NameFacts DEF Basic, Coherent, Safe

LEMMA GoneIsUndoable ==
  ASSUME Basic, Safe, Gone
  PROVE  Undoable
BY NameFacts DEF Basic, Coherent, Safe, Gone, Undoable, TargetsAre

Core == Safe /\ PcInv

LEMMA RecoverCore == ASSUME Basic, Core, Recover \/ Verify PROVE Core'
<1>1. Safe'
  BY SafeStays DEF Core, Recover, Verify, files, book
<1>2. CASE Recover
  BY <1>1, <1>2 DEF Core, Recover, Clean, Goto, files, book, PcInv, Recovering, Preparing,
     Undoable, Gone
<1>3. CASE Verify
  BY <1>1, <1>3, IndexFacts DEF Core, Verify, Goto, files, book, PcInv, Recovering, Preparing,
     Undoable, Gone, RestoredTo
<1> QED BY <1>2, <1>3

LEMMA RestoreCore == ASSUME Basic, Core, Restore PROVE Core'
<1> USE NameFacts, IndexFacts, RunsFacts
<1>1. k \in Index /\ pc = "restore" /\ dir[Journal] # 0 /\ Undoable /\ RestoredTo(k)
  BY DEF Restore, Basic, TypeOK, Core, PcInv, Recovering
<1>2. PICK g \in Runs : g >= success /\ BackupsAre(dir[Journal], g)
  BY <1>1, JournalNames DEF Core
<1>3. \A i \in Index : dir[Backup(i)] = g
  BY <1>2 DEF BackupsAre, Basic, Coherent
<1>4. CASE k \in listed[dir[Journal]]
  <2>1. Put(Restored(k), 0) /\ pc' = "relink" /\ UNCHANGED <<listed, run, k, ctx, success>>
    BY <1>4 DEF Restore, Goto, book
  <2>2. \A m \in Names \ {Restored(k)} : dir'[m] = dir[m] /\ may'[m] = may[m]
    BY <1>1, <2>1, PutEffect
  <2>3. Safe'
    BY <1>1, <2>1, <2>2, SafeStays DEF Core
  <2>4. Undoable' /\ RestoredTo(k)' /\ dir'[Journal] # 0
    BY <1>1, <2>1, <2>2 DEF Undoable, Gone, RestoredTo
  <2> QED BY <1>1, <1>4, <2>1, <2>2, <2>3, <2>4 DEF Core, PcInv, Recovering, Preparing
<1>5. CASE k \notin listed[dir[Journal]] /\ dir[Target(k)] # 0
  <2>1. Put(Target(k), 0) /\ pc' = "restore_sync" /\ UNCHANGED <<listed, run, k, ctx, success>>
    BY <1>5 DEF Restore, Goto, book
  <2>2. /\ dir'[Target(k)] = 0
        /\ \A m \in Names \ {Target(k)} : dir'[m] = dir[m] /\ may'[m] = may[m]
    BY <1>1, <2>1, PutEffect
  <2>3. g = 0 /\ may[Backup(k)] = {0}
    BY <1>1, <1>2, <1>5 DEF BackupsAre
  <2>4. 0 \notin may[Journal]
    BY <1>1, <1>5, <2>3 DEF Undoable, Basic, Coherent
  <2>5. Safe'
    BY <1>1, <2>1, <2>2, <2>4 DEF Core, Safe, BackupsAre
  <2>6. RestoredTo(k)'
    BY <1>1, <2>1, <2>2 DEF RestoredTo
  <2> QED BY <1>1, <1>3, <2>1, <2>2, <2>3, <2>4, <2>5, <2>6 DEF Core, PcInv, Recovering, Preparing,
      Undoable
<1>6. CASE k \notin listed[dir[Journal]] /\ dir[Target(k)] = 0
  <2>1. UNCHANGED <<files, pc>> /\ k' = k + 1 /\ UNCHANGED <<listed, run, ctx, success>>
    BY <1>6 DEF Restore, book
  <2>2. may[Target(k)] = {dir[Backup(k)]}
    BY <1>1, <1>2, <1>3, <1>6 DEF Undoable, BackupsAre
  <2>3. RestoredTo(k + 1)
    <3> SUFFICES ASSUME NEW i \in Index, i < k + 1 PROVE may[Target(i)] = {dir[Backup(i)]}
      BY DEF RestoredTo
    <3>1. i < k \/ i = k
      BY <1>1, NextIndex
    <3> QED BY <1>1, <2>2, <3>1 DEF RestoredTo
  <2>4. Safe' /\ Undoable' /\ RestoredTo(k)' /\ dir'[Journal] # 0
    BY <1>1, <2>1, <2>3, SafeStays DEF files, Core, Undoable, Gone, RestoredTo
  <2> QED BY <1>1, <2>1, <2>4 DEF Core, PcInv, Recovering, Preparing
<1> QED BY <1>4, <1>5, <1>6

LEMMA RelinkCore == ASSUME Basic, Core, Relink PROVE Core'
<1> USE NameFacts, IndexFacts, RunsFacts
<1>1. /\ k \in Index /\ pc = "relink" /\ dir[Journal] # 0 /\ Undoable /\ RestoredTo(k)
      /\ k \in listed[dir[Journal]] /\ ctx \in {"start", "failed"}
      /\ dir[Backup(k)] \in Runs
  BY DEF Relink, Basic, TypeOK, AtTarget, Core, PcInv, Recovering
<1>2. CASE pc' = "return"
  <2>1. Put(Restored(k), dir[Backup(k)]) /\ UNCHANGED <<listed, run, k, ctx, success>>
    BY <1>2 DEF Relink, Goto, book
  <2>2. /\ dir'[Restored(k)] = dir[Backup(k)]
        /\ \A m \in Names \ {Restored(k)} : dir'[m] = dir[m] /\ may'[m] = may[m]
    BY <1>1, <2>1, PutEffect
  <2>3. Safe'
    BY <1>1, <2>1, <2>2, SafeStays DEF Core
  <2>4. Undoable' /\ RestoredTo(k)' /\ dir'[Journal] # 0
    BY <1>1, <2>1, <2>2 DEF Undoable, Gone, RestoredTo
  <2> QED BY <1>1, <1>2, <2>1, <2>2, <2>3, <2>4 DEF Core, PcInv, Recovering, Preparing
<1>3. CASE UNCHANGED files /\ pc' = "idle"
  <2>1. Safe'
    BY <1>3, SafeStays DEF Core, Relink, files, book
  <2> QED BY <1>3, <2>1 DEF Core, PcInv, Recovering, Preparing
<1> QED BY <1>2, <1>3 DEF Relink, Goto

LEMMA ReturnCore == ASSUME Basic, Core, ReturnTarget PROVE Core'
<1> USE NameFacts, IndexFacts, RunsFacts
<1>1. /\ k \in Index /\ pc = "return" /\ dir[Journal] # 0 /\ Undoable /\ RestoredTo(k)
      /\ ctx \in {"start", "failed"} /\ dir[Restored(k)] = dir[Backup(k)]
  BY DEF ReturnTarget, Basic, TypeOK, AtTarget, Core, PcInv, Recovering
<1>2. Replace(Restored(k), Target(k)) /\ pc' = "restore_sync" /\ UNCHANGED <<listed, run, k, ctx, success>>
  BY DEF ReturnTarget, Goto, book
<1>3. Target(k) # Restored(k)
  BY <1>1
<1>4. /\ dir'[Target(k)] = dir[Backup(k)]
      /\ dir[Target(k)] = dir[Backup(k)] => may'[Target(k)] = may[Target(k)]
      /\ \A m \in Names \ {Restored(k), Target(k)} : dir'[m] = dir[m] /\ may'[m] = may[m]
  BY <1>1, <1>2, <1>3, ReplaceEffect
<1>5. PICK g \in Runs : g >= success /\ BackupsAre(dir[Journal], g)
  BY <1>1, JournalNames DEF Core
<1>6. 0 \in may[Journal] => may'[Target(k)] = may[Target(k)]
  BY <1>1, <1>4, <1>5 DEF Undoable, BackupsAre, Basic, Coherent
<1>7. Safe'
  BY <1>1, <1>2, <1>4, <1>6 DEF Core, Safe, TargetsAre, BackupsAre
<1>8. RestoredTo(k)'
  <2> SUFFICES ASSUME NEW i \in Index, i < k PROVE may'[Target(i)] = {dir'[Backup(i)]}
    BY <1>2 DEF RestoredTo
  <2>1. Target(i) \notin {Restored(k), Target(k)} /\ Backup(i) \notin {Restored(k), Target(k)}
    BY <1>1
  <2> QED BY <1>1, <1>4, <2>1 DEF RestoredTo
<1>9. 0 \in may'[Journal] => \A i \in Index : may'[Target(i)] = may'[Backup(i)]
  BY <1>1, <1>4, <1>6 DEF Undoable
<1> QED BY <1>1, <1>2, <1>4, <1>7, <1>8, <1>9 DEF Core, PcInv, Recovering, Preparing, Undoable

LEMMA RecoveredCore ==
  ASSUME Basic, Core, RestoreSync \/ RestoredAll \/ Recovered
  PROVE  Core'
<1> USE NameFacts, IndexFacts, RunsFacts
<1>1. CASE RestoreSync
  <2>1. /\ k \in Index /\ pc = "restore_sync" /\ dir[Journal] # 0 /\ RestoredTo(k)
        /\ ctx \in {"start", "failed"} /\ dir[Target(k)] = dir[Backup(k)]
    BY <1>1 DEF RestoreSync, Basic, TypeOK, AtTarget, Core, PcInv, Recovering
  <2>2. Sync /\ pc' = "restore" /\ k' = k + 1 /\ UNCHANGED <<listed, run, ctx, success>>
    BY <1>1 DEF RestoreSync, Goto, book
  <2>3. dir' = dir /\ \A n \in Names : may'[n] = {dir[n]}
    BY <2>2, SyncEffect
  <2>4. Safe'
    BY <2>2, SafeSynced DEF Core
  <2>5. \A i \in Index : i < k => dir[Target(i)] = dir[Backup(i)]
    BY <2>1 DEF RestoredTo, Basic, Coherent
  <2>6. RestoredTo(k)'
    <3> SUFFICES ASSUME NEW i \in Index, i < k + 1 PROVE dir[Target(i)] = dir[Backup(i)]
      BY <2>2, <2>3 DEF RestoredTo
    <3>1. i < k \/ i = k
      BY <2>1, NextIndex
    <3> QED BY <2>1, <2>5, <3>1
  <2>7. Undoable'
    BY <2>1, <2>3 DEF Undoable, Gone
  <2> QED BY <2>1, <2>2, <2>3, <2>4, <2>6, <2>7 DEF Core, PcInv, Recovering, Preparing
<1>2. CASE RestoredAll
  <2>1. /\ pc = "restore" /\ k > N /\ k \in Nat /\ dir[Journal] # 0 /\ RestoredTo(k)
        /\ ctx \in {"start", "failed"}
    BY <1>2 DEF RestoredAll, Basic, TypeOK, Core, PcInv, Recovering
  <2>2. Put(Journal, 0) /\ pc' = "recovered" /\ UNCHANGED <<listed, run, k, ctx, success>>
    BY <1>2 DEF RestoredAll, Goto, book
  <2>3. /\ dir'[Journal] = 0 /\ may'[Journal] = may[Journal] \cup {0}
        /\ \A m \in Names \ {Journal} : dir'[m] = dir[m] /\ may'[m] = may[m]
    BY <2>2, PutEffect
  <2>4. PICK g \in Runs : g >= success /\ BackupsAre(dir[Journal], g)
    BY <2>1, JournalNames DEF Core
  <2>5. \A i \in Index : may[Target(i)] = {g}
    BY <2>1, <2>4 DEF RestoredTo, BackupsAre, Basic, Coherent
  <2>6. TargetsAre(g)' /\ g >= success'
    BY <2>2, <2>3, <2>4, <2>5 DEF TargetsAre
  <2>7. Safe'
    BY <2>2, <2>3, <2>6 DEF Core, Safe, BackupsAre
  <2> QED BY <2>1, <2>2, <2>3, <2>6, <2>7 DEF Core, PcInv, Recovering, Preparing
<1>3. CASE Recovered
  <2>1. pc = "recovered" /\ dir[Journal] = 0 /\ ctx \in {"start", "failed"}
    BY <1>3 DEF Recovered, Core, PcInv
  <2>2. Sync /\ pc' = "clean" /\ UNCHANGED <<listed, run, ctx, success>>
    BY <1>3 DEF Recovered, Clean, Goto, book
  <2>3. may'[Journal] = {0}
    BY <2>1, <2>2, SyncEffect
  <2>4. Safe'
    BY <2>2, SafeSynced DEF Core
  <2> QED BY <2>1, <2>2, <2>3, <2>4 DEF Core, PcInv, Recovering, Preparing, Gone
<1> QED BY <1>1, <1>2, <1>3

LEMMA CleanCore == ASSUME Basic, Core, CleanOne \/ CleanSync PROVE Core'
<1> USE NameFacts, IndexFacts, RunsFacts
<1>1. pc = "clean" /\ Gone
  BY DEF CleanOne, CleanSync, Core, PcInv, Preparing
<1>2. CASE CleanOne
  <2>1. PICK n \in Debris : Put(n, 0)
    BY <1>2 DEF CleanOne
  <2>2. UNCHANGED <<listed, run, pc, ctx, success>>
    BY <1>2 DEF CleanOne, book
  <2>3. \A m \in Names \ {n} : dir'[m] = dir[m] /\ may'[m] = may[m]
    BY <2>1, PutEffect
  <2>4. Gone' /\ \A i \in Index : may'[Target(i)] = may[Target(i)]
    BY <1>1, <2>1, <2>3 DEF Gone
  <2>5. Safe'
    BY <1>1, <2>2, <2>4 DEF Core, Safe, TargetsAre, Gone
  <2> QED BY <1>1, <2>2, <2>4, <2>5 DEF Core, PcInv, Recovering, Preparing, TargetsAre
<1>3. CASE CleanSync
  <2>1. /\ \A n \in Debris : dir[n] = 0
        /\ Sync \/ UNCHANGED files
        /\ success' = IF ctx = "commit" THEN run ELSE success
        /\ pc' = AfterClean /\ UNCHANGED <<listed, run, ctx>>
    BY <1>3 DEF CleanSync, Goto
  <2>2. dir' = dir /\ \A n \in Names : may'[n] \subseteq may[n] /\ may'[n] # {}
    BY <2>1, SyncEffect DEF files, Basic, Coherent
  <2>3. Gone'
    BY <1>1, <2>2 DEF Gone
  <2>4. Safe'
    <3>1. CASE ctx = "commit"
      <4>1. TargetsAre(run) /\ success' = run /\ run \in Runs
        BY <1>1, <2>1, <3>1 DEF Core, PcInv, Basic, TypeOK
      <4>2. TargetsAre(run)'
        BY <2>1, <2>2, <4>1 DEF TargetsAre
      <4> QED BY <2>1, <2>3, <4>1, <4>2 DEF Safe, Gone
    <3>2. CASE ctx # "commit"
      BY <2>1, <2>2, <3>2, SafeShrinks DEF Core
    <3> QED BY <3>1, <3>2
  <2>5. pc' \in {"stage", "document", "idle"}
    BY <2>1 DEF AfterClean
  <2> QED BY <1>1, <2>1, <2>2, <2>3, <2>4, <2>5 DEF Core, PcInv, Recovering, Preparing
<1> QED BY <1>2, <1>3

LEMMA BackedUpStep ==
  ASSUME k \in Index, BackedUpTo(k), k' = k + 1, UNCHANGED <<listed, run>>,
         \A i \in Index : dir'[Target(i)] = dir[Target(i)],
         \A i \in Index \ {k} : dir'[Backup(i)] = dir[Backup(i)],
         dir'[Backup(k)] = dir[Target(k)]
  PROVE  BackedUpTo(k)'
<1>1. listed'[run'] = Existing'
  BY DEF BackedUpTo, Existing
<1>2. ASSUME NEW i \in Index
      PROVE  dir'[Backup(i)] = IF i < k + 1 THEN dir'[Target(i)] ELSE 0
  <2>1. CASE i = k
    BY <2>1, IndexFacts
  <2>2. CASE i # k
    <3>1. i < k + 1 <=> i < k
      BY <2>2, NextIndex
    <3> QED BY <2>2, <3>1 DEF BackedUpTo
  <2> QED BY <2>1, <2>2
<1> QED BY <1>1, <1>2 DEF BackedUpTo

LEMMA BackUpCore == ASSUME Basic, Core, Stage \/ Document \/ BackUp \/ NameCopy PROVE Core'
<1> USE NameFacts, IndexFacts, RunsFacts
<1>1. Gone
  BY DEF Stage, Document, BackUp, NameCopy, Core, PcInv, Preparing
<1>2. CASE Stage
  <2>1. Safe'
    BY <1>2, SafeStays DEF Core, Stage, Clean, files, book
  <2> QED BY <1>1, <1>2, <2>1 DEF Stage, Clean, Goto, files, book, Core, PcInv, Recovering,
      Preparing, Gone
<1>3. CASE Document
  <2>1. /\ UNCHANGED <<files, run, success>> /\ pc' = "back_up" /\ k' = 1
        /\ listed' = [listed EXCEPT ![run] = Existing]
        /\ \A i \in Index : dir[Backup(i)] = 0
    BY <1>3 DEF Document, Goto, book, Core, PcInv
  <2>2. Safe'
    BY <1>1, <2>1 DEF Core, Safe, TargetsAre, Gone, files
  <2>3. listed'[run] = Existing
    BY <2>1 DEF Basic, TypeOK
  <2>4. BackedUpTo(k)'
    BY <2>1, <2>3 DEF BackedUpTo, Existing, files
  <2> QED BY <1>1, <2>1, <2>2, <2>4 DEF Core, PcInv, Recovering, Preparing, Gone, files
<1>4. ASSUME pc' \in {"back_up", "name_copy"}, BackedUpTo(k)', Gone',
             UNCHANGED <<listed, run, success>>,
             \A i \in Index : may'[Target(i)] = may[Target(i)],
             pc' = "name_copy" => dir'[Copied(k')] = dir'[Target(k')]
      PROVE  Core'
  <2>1. Safe'
    BY <1>1, <1>4 DEF Core, Safe, TargetsAre, Gone
  <2> QED BY <1>4, <2>1 DEF Core, PcInv, Recovering, Preparing
<1>5. CASE BackUp
  <2>1. k \in Index /\ pc = "back_up" /\ BackedUpTo(k) /\ UNCHANGED <<listed, run, success>>
    BY <1>5 DEF BackUp, Basic, TypeOK, Core, PcInv, book
  <2>2. CASE k \notin listed[run]
    <3>1. UNCHANGED <<files, pc>> /\ k' = k + 1 /\ dir[Target(k)] = 0
      BY <1>5, <2>1, <2>2 DEF BackUp, BackedUpTo, Existing
    <3>2. BackedUpTo(k)'
      <4>1. dir[Backup(k)] = 0
        <5>1. ~(k < k)
          BY <2>1
        <5> QED BY <2>1, <5>1 DEF BackedUpTo
      <4> QED BY <2>1, <3>1, <4>1, BackedUpStep DEF files
    <3> QED BY <1>1, <1>4, <2>1, <3>1, <3>2 DEF files, Gone
  <2>3. CASE k \in listed[run] /\ links
    <3>1. Put(Backup(k), dir[Target(k)]) /\ k' = k + 1 /\ pc' = pc
      BY <1>5, <2>3 DEF BackUp
    <3>2. dir[Target(k)] \in Runs
      BY <2>1 DEF Basic, TypeOK
    <3>3. /\ dir'[Backup(k)] = dir[Target(k)]
          /\ \A m \in Names \ {Backup(k)} : dir'[m] = dir[m] /\ may'[m] = may[m]
      BY <2>1, <3>1, <3>2, PutEffect
    <3>4. BackedUpTo(k)'
      BY <2>1, <3>1, <3>3, BackedUpStep
    <3> QED BY <1>1, <1>4, <2>1, <3>1, <3>3, <3>4 DEF Gone
  <2>4. CASE k \in listed[run] /\ ~links
    <3>1. Put(Copied(k), dir[Target(k)]) /\ k' = k /\ pc' = "name_copy"
      BY <1>5, <2>4 DEF BackUp, Goto
    <3>2. dir[Target(k)] \in Runs
      BY <2>1 DEF Basic, TypeOK
    <3>3. /\ dir'[Copied(k)] = dir[Target(k)]
          /\ \A m \in Names \ {Copied(k)} : dir'[m] = dir[m] /\ may'[m] = may[m]
      BY <2>1, <3>1, <3>2, PutEffect
    <3>4. BackedUpTo(k)'
      BY <2>1, <3>1, <3>3 DEF BackedUpTo, Existing
    <3> QED BY <1>1, <1>4, <2>1, <3>1, <3>3, <3>4 DEF Gone
  <2> QED BY <2>2, <2>3, <2>4 DEF Basic, TypeOK
<1>6. CASE NameCopy
  <2>1. /\ k \in Index /\ BackedUpTo(k) /\ dir[Copied(k)] = dir[Target(k)]
        /\ Replace(Copied(k), Backup(k)) /\ k' = k + 1 /\ pc' = "back_up"
        /\ UNCHANGED <<listed, run, success>>
    BY <1>6 DEF NameCopy, Goto, Basic, AtTarget, Core, PcInv, book
  <2>2. /\ dir'[Backup(k)] = dir[Target(k)]
        /\ \A m \in Names \ {Copied(k), Backup(k)} : dir'[m] = dir[m] /\ may'[m] = may[m]
    BY <2>1, ReplaceEffect
  <2>3. \A i \in Index : dir'[Target(i)] = dir[Target(i)] /\ may'[Target(i)] = may[Target(i)]
    BY <2>1, <2>2
  <2>4. Journal \notin {Copied(k), Backup(k)}
    BY <2>1
  <2>5. \A i \in Index \ {k} : dir'[Backup(i)] = dir[Backup(i)]
    BY <2>1, <2>2
  <2>6. BackedUpTo(k)'
    BY <2>1, <2>2, <2>3, <2>5, BackedUpStep
  <2> QED BY <1>1, <1>4, <2>1, <2>2, <2>3, <2>4, <2>6 DEF Gone
<1> QED BY <1>2, <1>3, <1>5, <1>6

LEMMA JournalCore ==
  ASSUME Basic, Core, BackedUp \/ WriteJournal \/ NameJournal \/ JournalSync
  PROVE  Core'
<1> USE NameFacts, IndexFacts, RunsFacts
<1>1. CASE BackedUp
  <2>1. /\ k \in Nat /\ k > N /\ BackedUpTo(k) /\ Gone /\ Sync /\ pc' = "write_journal"
        /\ UNCHANGED <<listed, run, success>>
    BY <1>1 DEF BackedUp, Goto, Basic, TypeOK, Core, PcInv, Preparing, book
  <2>2. dir' = dir /\ \A n \in Names : may'[n] = {dir[n]}
    BY <2>1, SyncEffect
  <2>3. \A i \in Index : i < k
    BY <2>1
  <2>4. BackedUpAll'
    BY <2>1, <2>2, <2>3 DEF BackedUpTo, BackedUpAll, Existing
  <2>5. Safe'
    BY <2>1, SafeSynced DEF Core
  <2>6. Gone'
    BY <2>1, <2>2 DEF Gone, Basic, Coherent
  <2> QED BY <2>1, <2>4, <2>5, <2>6 DEF Core, PcInv, Recovering, Preparing
<1>2. CASE WriteJournal
  <2>1. /\ BackedUpAll /\ Gone /\ Put(JournalTemp, run) /\ run \in Runs
        /\ pc' = "name_journal" /\ UNCHANGED <<listed, run, success>>
    BY <1>2 DEF WriteJournal, Goto, Basic, TypeOK, Core, PcInv, Preparing, book
  <2>2. /\ dir'[JournalTemp] = run
        /\ \A m \in Names \ {JournalTemp} : dir'[m] = dir[m] /\ may'[m] = may[m]
    BY <2>1, PutEffect
  <2>3. \A i \in Index : /\ dir'[Target(i)] = dir[Target(i)]
                         /\ may'[Backup(i)] = may[Backup(i)]
    BY <2>2
  <2>4. Existing' = Existing /\ Gone'
    BY <2>1, <2>2, <2>3 DEF Existing, Gone
  <2>5. BackedUpAll'
    BY <2>1, <2>3, <2>4 DEF BackedUpAll
  <2>6. Safe'
    BY <2>1, <2>2, SafeStays DEF Core
  <2> QED BY <2>1, <2>2, <2>4, <2>5, <2>6 DEF Core, PcInv, Recovering, Preparing
<1>3. CASE NameJournal
  <2>1. /\ BackedUpAll /\ Gone /\ Replace(JournalTemp, Journal) /\ dir[JournalTemp] = run
        /\ run # 0 /\ pc' = "journal_sync" /\ UNCHANGED <<listed, run, success>>
    BY <1>3 DEF NameJournal, Goto, Basic, Core, PcInv, Preparing, book
  <2>2. /\ dir'[Journal] = run /\ may'[Journal] \subseteq {0, run}
        /\ \A m \in Names \ {JournalTemp, Journal} : dir'[m] = dir[m] /\ may'[m] = may[m]
    BY <2>1, ReplaceEffect DEF Gone
  <2>3. PICK g \in Runs : g >= success /\ TargetsAre(g)
    BY <2>1 DEF Core, Safe, Gone
  <2>4. \A i \in Index : dir[Target(i)] = g
    BY <2>3 DEF TargetsAre, Basic, Coherent
  <2>5. /\ TargetsAre(g)' /\ BackupsAre(run, g)'
        /\ \A i \in Index : dir'[Target(i)] = g
    <3>1. \A i \in Index : /\ dir'[Target(i)] = g /\ may'[Target(i)] = {g}
                           /\ may'[Backup(i)] = may[Backup(i)]
      BY <2>2, <2>3, <2>4 DEF TargetsAre
    <3>2. \A i \in Index : may[Backup(i)] = {g} /\ (i \in listed[run] <=> g # 0)
      BY <2>1, <2>4 DEF BackedUpAll, Existing
    <3> QED BY <2>1, <3>1, <3>2 DEF TargetsAre, BackupsAre
  <2>6. Safe'
    BY <2>1, <2>2, <2>3, <2>5 DEF Safe
  <2>7. Undoable'
    BY <2>1, <2>2, <2>5 DEF Undoable, TargetsAre, BackupsAre
  <2> QED BY <2>1, <2>2, <2>6, <2>7 DEF Core, PcInv, Recovering, Preparing
<1>4. CASE JournalSync
  <2>1. /\ Undoable /\ dir[Journal] = run /\ Sync /\ k' = 1 /\ pc' = "publish"
        /\ UNCHANGED <<listed, run, success>>
    BY <1>4 DEF JournalSync, Goto, Core, PcInv, book
  <2>2. dir' = dir /\ \A n \in Names : may'[n] = {dir[n]}
    BY <2>1, SyncEffect
  <2>3. PublishedTo(k)'
    BY <2>1, <2>2 DEF PublishedTo
  <2>4. Safe'
    BY <2>1, SafeSynced DEF Core
  <2> QED BY <2>1, <2>3, <2>4 DEF Core, PcInv, Recovering, Preparing
<1> QED BY <1>1, <1>2, <1>3, <1>4

LEMMA PublishCore ==
  ASSUME Basic, Core, Publish \/ PublishSync \/ Commit \/ Committed
  PROVE  Core'
<1> USE NameFacts, IndexFacts, RunsFacts
<1>1. CASE Publish
  <2>1. /\ k \in Index /\ PublishedTo(k) /\ run \in Runs /\ run # 0 /\ Put(Target(k), run)
        /\ pc' = "publish_sync" /\ UNCHANGED <<listed, run, k, success>>
    BY <1>1 DEF Publish, Goto, Basic, TypeOK, Core, PcInv, book
  <2>2. /\ dir'[Target(k)] = run
        /\ \A m \in Names \ {Target(k)} : dir'[m] = dir[m] /\ may'[m] = may[m]
    BY <2>1, PutEffect
  <2>3. PublishedTo(k)'
    <3>1. ASSUME NEW i \in Index
          PROVE  /\ i < k => may'[Target(i)] = {run}
                 /\ dir'[Target(i)] = 0 => may'[Target(i)] = {0}
      <4>1. CASE i = k
        BY <2>1, <2>2, <4>1
      <4>2. CASE i # k
        BY <2>1, <2>2, <4>2 DEF PublishedTo
      <4> QED BY <4>1, <4>2
    <3> QED BY <2>1, <2>2, <3>1 DEF PublishedTo
  <2>4. Safe'
    BY <2>1, <2>2 DEF Core, Safe, PublishedTo, BackupsAre
  <2> QED BY <2>1, <2>2, <2>3, <2>4 DEF Core, PcInv, Recovering, Preparing
<1>2. CASE PublishSync
  <2>1. /\ k \in Index /\ PublishedTo(k) /\ dir[Target(k)] = run /\ Sync /\ k' = k + 1
        /\ pc' = "publish" /\ UNCHANGED <<listed, run, success>>
    BY <1>2 DEF PublishSync, Goto, Basic, AtTarget, Core, PcInv, book
  <2>2. dir' = dir /\ \A n \in Names : may'[n] = {dir[n]}
    BY <2>1, SyncEffect
  <2>3. PublishedTo(k)'
    <3>1. ASSUME NEW i \in Index, i < k + 1 PROVE dir[Target(i)] = run
      <4>1. i < k \/ i = k
        BY <2>1, <3>1, NextIndex
      <4> QED BY <2>1, <4>1 DEF PublishedTo, Basic, Coherent
    <3>2. dir[Journal] = run
      BY <2>1 DEF PublishedTo, Basic, Coherent
    <3> QED BY <2>1, <2>2, <3>1, <3>2 DEF PublishedTo
  <2>4. Safe'
    BY <2>1, SafeSynced DEF Core
  <2> QED BY <2>1, <2>3, <2>4 DEF Core, PcInv, Recovering, Preparing
<1>3. CASE Commit
  <2>1. /\ k \in Nat /\ k > N /\ PublishedTo(k) /\ Put(Journal, 0) /\ run \in Runs
        /\ run >= success /\ pc' = "committed" /\ UNCHANGED <<listed, run, success>>
    BY <1>3 DEF Commit, Goto, Basic, TypeOK, Core, PcInv, book
  <2>2. /\ dir'[Journal] = 0 /\ may'[Journal] = may[Journal] \cup {0}
        /\ \A m \in Names \ {Journal} : dir'[m] = dir[m] /\ may'[m] = may[m]
    BY <2>1, PutEffect
  <2>3. \A i \in Index : i < k
    BY <2>1
  <2>4. TargetsAre(run)'
    BY <2>1, <2>2, <2>3 DEF TargetsAre, PublishedTo
  <2>5. Safe'
    BY <2>1, <2>2, <2>4 DEF Core, Safe, BackupsAre
  <2> QED BY <2>1, <2>2, <2>4, <2>5 DEF Core, PcInv, Recovering, Preparing
<1>4. CASE Committed
  <2>1. /\ dir[Journal] = 0 /\ TargetsAre(run) /\ Sync /\ pc' = "clean"
        /\ UNCHANGED <<listed, run, success>>
    BY <1>4 DEF Committed, Clean, Goto, Core, PcInv, book
  <2>2. \A n \in Names : may'[n] = {dir[n]} /\ dir[n] \in may[n]
    BY <2>1, SyncEffect DEF Basic, Coherent
  <2>3. Gone' /\ TargetsAre(run)'
    BY <2>1, <2>2 DEF Gone, TargetsAre
  <2>4. Safe'
    BY <2>1, SafeSynced DEF Core
  <2>5. ctx' = "commit"
    BY <1>4 DEF Committed, Clean
  <2> QED BY <2>1, <2>3, <2>4, <2>5 DEF Core, PcInv, Recovering, Preparing
<1> QED BY <1>1, <1>2, <1>3, <1>4

\* What a failure finds can be undone.
LEMMA FailureCore == ASSUME Basic, Core, Failed \/ Fault PROVE Core'
<1> USE NameFacts, IndexFacts, RunsFacts
<1>1. Safe'
  BY SafeStays DEF Core, Failed, Clean, Fault, Error, Kill, LosePower, files, book
<1>2. CASE Failed
  <2>1. Undoable /\ UNCHANGED <<files, listed, run, k, success>>
    BY <1>2 DEF Failed, Core, PcInv, book
  <2> QED BY <1>1, <1>2, <2>1 DEF Failed, Clean, Goto, Core, PcInv, Recovering, Preparing,
      Undoable, Gone, files
<1>3. CASE Kill \/ LosePower
  BY <1>1, <1>3 DEF Kill, LosePower, Goto, Core, PcInv, Recovering, Preparing
<1>4. CASE Error /\ ~InGuarded
  BY <1>1, <1>4 DEF Error, Goto, Core, PcInv, Recovering, Preparing
<1>5. CASE Error /\ InGuarded
  <2>1. Undoable
    <3>1. CASE pc \in Preparing
      BY <3>1, GoneIsUndoable DEF Core, PcInv
    <3>2. CASE pc = "journal_sync"
      BY <3>2 DEF Core, PcInv
    <3>3. CASE pc \in {"publish", "publish_sync"}
      <4>1. PublishedTo(k) /\ run # 0
        BY <3>3 DEF Core, PcInv, Basic
      <4>2. dir[Journal] = run
        BY <4>1 DEF PublishedTo, Basic, Coherent
      <4> QED BY <4>1, <4>2 DEF PublishedTo, Undoable, Gone
    <3> QED BY <1>5, <3>1, <3>2, <3>3 DEF InGuarded, Guarded, Preparing
  <2>2. pc' = "failed" /\ UNCHANGED files
    BY <1>5 DEF Error, Goto
  <2>3. Undoable'
    BY <2>1, <2>2 DEF Undoable, Gone, files
  <2> QED BY <1>1, <2>2, <2>3 DEF Core, PcInv, Recovering, Preparing
<1> QED BY <1>2, <1>3, <1>4, <1>5 DEF Fault

LEMMA StartCore == ASSUME Inv, Start, ~hasty' PROVE Core'
<1> USE NameFacts, IndexFacts, RunsFacts
<1>1. /\ Basic /\ Core /\ Settled /\ pc' = "recover" /\ ctx' = "start"
      /\ UNCHANGED <<files, listed, success>>
  BY DEF Inv, Start, Goto, Core
<1>2. Safe'
  BY <1>1, SafeStays DEF Core, files
<1>3. /\ may[Journal] = {dir[Journal]}
      /\ \A i \in Index : may[Target(i)] = {dir[Target(i)]}
  BY <1>1 DEF Settled
<1>4. Undoable'
  BY <1>1, <1>3 DEF Undoable, Gone, files
<1> QED BY <1>1, <1>2, <1>4 DEF Core, PcInv, Recovering, Preparing

LEMMA RebootCore == ASSUME Basic, Core, Settle \/ Reboot PROVE Core'
<1> USE NameFacts, IndexFacts, RunsFacts
<1>1. CASE Settle
  <2>1. PICK n \in Names : \E v \in may[n] : may' = [may EXCEPT ![n] = {v}]
    BY <1>1 DEF Settle
  <2>2. PICK v \in may[n] : may' = [may EXCEPT ![n] = {v}]
    BY <2>1
  <2>3. \A m \in Names : may'[m] \subseteq may[m] /\ may'[m] # {}
    BY <2>2 DEF Basic, TypeOK, Coherent
  <2>4. Safe'
    BY <1>1, <2>3, SafeShrinks DEF Settle, Core, book
  <2> QED BY <1>1, <2>4 DEF Settle, Core, PcInv, Recovering, Preparing
<1>2. CASE Reboot
  <2>1. Safe'
    BY <1>2, SafeStays DEF Reboot, Core, files, book
  <2> QED BY <1>2, <2>1 DEF Reboot, Goto, Core, PcInv, Recovering, Preparing
<1> QED BY <1>1, <1>2

-----------------------------------------------------------------------------
(* The invariant and what follows from it.                                 *)

LEMMA InitInv == Init => Inv
<1> SUFFICES ASSUME Init PROVE Inv
  OBVIOUS
<1> USE NameFacts, IndexFacts, RunsFacts
<1>1. PICK g \in {0, 1} \cap Runs :
        /\ dir = [n \in Names |-> IF n \in {Target(i) : i \in Index} THEN g ELSE 0]
        /\ run = g /\ success = g
  BY DEF Init
<1>2. may = [n \in Names |-> {dir[n]}]
  BY DEF Init
<1>3. /\ dir \in [Names -> Runs] /\ may \in [Names -> SUBSET Runs]
      /\ \A i \in Index : may[Target(i)] = {g}
      /\ may[Journal] = {0}
  BY <1>1, <1>2
<1>4. TypeOK
  <2>1. listed \in [Runs -> SUBSET Index] /\ k \in 1 .. N + 1 /\ run \in Runs /\ success \in Runs
    BY <1>1 DEF Init
  <2> QED BY <1>3, <2>1 DEF Init, TypeOK, Labels
<1>5. Coherent
  BY <1>2 DEF Coherent
<1>6. Basic
  BY <1>1, <1>4, <1>5 DEF Init, Basic, AtTarget
<1>7. Safe
  BY <1>1, <1>3 DEF Safe, TargetsAre
<1> QED BY <1>6, <1>7 DEF Init, Inv, PcInv, Recovering, Preparing

LEMMA NextInv == Inv /\ [Next]_vars => Inv'
<1> SUFFICES ASSUME Inv, [Next]_vars PROVE Inv'
  OBVIOUS
<1>1. CASE UNCHANGED vars
  BY <1>1 DEF vars, files, book, Inv, Basic, TypeOK, Coherent, AtTarget, Safe, PcInv,
     TargetsAre, BackupsAre, Undoable, Gone, RestoredTo, BackedUpTo, BackedUpAll,
     PublishedTo, Existing
<1>2. CASE Next
  <2>1. Basic'
    BY <1>2, RecoveryBasic, PublicationBasic, OtherBasic DEF Next, Step, Inv
  <2>2. CASE Start
    BY <2>1, <2>2, StartCore DEF Inv, Core
  <2>3. CASE ~Start /\ ~hasty
    <3>1. Core
      BY <2>3 DEF Inv, Core
    <3>2. Core'
      BY <1>2, <2>3, <3>1, RecoverCore, RestoreCore, RelinkCore, ReturnCore, RecoveredCore,
         CleanCore, BackUpCore, JournalCore, PublishCore, FailureCore, RebootCore
      DEF Next, Step, Recovery, Publication, Inv
    <3> QED BY <2>1, <3>2 DEF Inv, Core
  <2>4. CASE ~Start /\ hasty
    <3>1. hasty' = hasty
      BY <1>2, <2>4 DEF Next, Step, Recovery, Publication, Fault, Recover, Verify, Restore,
         Relink, ReturnTarget, RestoreSync, RestoredAll, Recovered, CleanOne, CleanSync,
         Stage, Document, BackUp, NameCopy, BackedUp, WriteJournal, NameJournal,
         JournalSync, Publish, PublishSync, Commit, Committed, Failed, Error, Kill,
         LosePower, Settle, Reboot, book
    <3> QED BY <2>1, <2>4, <3>1 DEF Inv
  <2> QED BY <2>2, <2>3, <2>4
<1> QED BY <1>1, <1>2

LEMMA InvRecoverable == Inv => AlwaysRecoverable
<1> SUFFICES ASSUME Inv, ~hasty PROVE AlwaysRecoverable
  BY DEF AlwaysRecoverable
<1> USE NameFacts
<1>1. Basic /\ Safe
  BY DEF Inv
<1>2. CASE dir[Journal] = 0
  <2>1. PICK g \in Runs : g >= success /\ TargetsAre(g)
    BY <1>1, <1>2 DEF Basic, Coherent, Safe
  <2>2. Whole(g)
    BY <1>1, <2>1 DEF Basic, Coherent, TargetsAre, Whole
  <2> QED BY <1>2, <2>1, <2>2 DEF AlwaysRecoverable
<1>3. CASE dir[Journal] # 0
  <2>1. PICK g \in Runs : g >= success /\ BackupsAre(dir[Journal], g)
    BY <1>1, <1>3, JournalNames
  <2>2. Kept(g)
    BY <1>1, <2>1 DEF Basic, Coherent, BackupsAre, Kept
  <2> QED BY <1>3, <2>1, <2>2 DEF AlwaysRecoverable
<1> QED BY <1>2, <1>3

\* Whatever calls fail, whenever the compiler is killed or the power is lost,
\* a generation that is whole can be had: it is in place, or its backups and the
\* journal that names them are.  (_publish, _recover_interrupted_publication.)
THEOREM PublicationIsRecoverable == Spec => []AlwaysRecoverable
<1>1. Spec => []Inv
  BY InitInv, NextInv, PTL DEF Spec
<1> QED BY <1>1, InvRecoverable, PTL
=============================================================================
