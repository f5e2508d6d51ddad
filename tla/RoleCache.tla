----------------------------- MODULE RoleCache -----------------------------
(***************************************************************************)
(* Publication of a generation of the XRF55 joint role caches             *)
(* (eval/compile-xrf55-joint-role-cache.py): twelve role files and, last,  *)
(* a manifest replace those of the previous generation.  A journal and     *)
(* backups undo a publication that an error, a kill or a loss of power cut *)
(* short.  One action stands for one call that changes a name of the       *)
(* output directory or syncs it; reads belong to the action they decide.   *)
(*                                                                         *)
(* A file is the number of the run that compiled it, 0 if there is none:   *)
(* temporary files are written and synced before they get a name used      *)
(* here, so no file of this directory is ever torn.  A hard link has the   *)
(* number of the file it links to.                                         *)
(***************************************************************************)
EXTENDS Naturals, FiniteSets

CONSTANTS
  N,            \* number of targets; the manifest is the last
  MaxRuns,      \* bound on runs of the compiler, one may precede the model
  MaxErrors,    \* bound on calls that fail
  MaxCrashes    \* bound on kills and losses of power

ASSUME SizeAssumption == N \in Nat \ {0}
ASSUME BoundAssumption == MaxRuns \in Nat /\ MaxErrors \in Nat /\ MaxCrashes \in Nat

Index == 1 .. N
Runs  == 0 .. MaxRuns

Target(i)   == <<"target", i>>
Backup(i)   == <<"backup", i>>
Copied(i)   == <<"backup_copy", i>>
Restored(i) == <<"restore", i>>
Journal     == <<"journal", 0>>
JournalTemp == <<"journal_temporary", 0>>

Debris == {JournalTemp} \cup {Backup(i) : i \in Index} \cup {Copied(i) : i \in Index}
            \cup {Restored(i) : i \in Index}
Names  == {Journal} \cup Debris \cup {Target(i) : i \in Index}

VARIABLES
  links,      \* whether the file system makes hard links
  dir,        \* what each name stands for
  may,        \* what it may stand for after a loss of power
  listed,     \* the targets that the journal of each run lists as existing
  run,        \* the number of this run
  pc, k,      \* its next call and its place in the list of targets
  ctx,        \* what a cleanup or recovery is part of
  changed,    \* whether the cleanup has removed anything
  success,    \* the last run that ended without an error
  hasty,      \* whether a run began before what an earlier one did was durable
  errors, crashes

files == <<dir, may>>
book  == <<links, success, hasty, errors, crashes>>
vars  == <<dir, may, listed, run, pc, k, ctx, changed, book>>

-----------------------------------------------------------------------------

Goto(l) == pc' = l

\* A name is bound, rebound or (v = 0) removed; it is durable after a sync.
Put(n, v) ==
  /\ dir' = [dir EXCEPT ![n] = v]
  /\ may' = [may EXCEPT ![n] = @ \cup {v}]

\* os.replace: nothing happens when both names are links to one file.
Replace(from, to) ==
  IF dir[from] = dir[to]
    THEN UNCHANGED files
    ELSE /\ dir' = [dir EXCEPT ![to] = dir[from], ![from] = 0]
         /\ may' = [may EXCEPT ![to] = @ \cup {dir[from]}, ![from] = @ \cup {0}]

Sync == may' = [n \in Names |-> {dir[n]}] /\ UNCHANGED dir

Settled == \A n \in Names : may[n] = {dir[n]}

Existing == {i \in Index : dir[Target(i)] # 0}

Init ==
  /\ \E g \in {0, 1} \cap Runs :
       /\ dir = [n \in Names |-> IF n \in {Target(i) : i \in Index} THEN g ELSE 0]
       /\ run = g /\ success = g
  /\ may = [n \in Names |-> {dir[n]}]
  /\ listed = [r \in Runs |-> {}] /\ links \in BOOLEAN
  /\ pc = "idle" /\ k = 1 /\ ctx = "start" /\ changed = FALSE
  /\ hasty = FALSE /\ errors = 0 /\ crashes = 0

-----------------------------------------------------------------------------
\* Recovery and cleanup, at the start of a run, before and after its
\* publication, and when the publication fails.

\* The compiler is run, for the first time or again.
Start ==
  /\ pc = "idle" /\ run < MaxRuns
  /\ run' = run + 1 /\ ctx' = "start" /\ Goto("recover")
  /\ hasty' = (hasty \/ ~Settled)
  /\ UNCHANGED <<files, listed, k, changed, links, success, errors, crashes>>

Clean(c) == Goto("clean") /\ ctx' = c /\ changed' = FALSE

\* _recover_interrupted_publication looks for a journal.
Recover ==
  /\ pc = "recover"
  /\ IF dir[Journal] = 0
       THEN Clean(ctx)
       ELSE Goto("verify") /\ UNCHANGED <<ctx, changed>>
  /\ UNCHANGED <<files, listed, run, k, book>>

\* Every listed target has a backup and no other has.
Verify ==
  /\ pc = "verify"
  /\ IF \A i \in Index : i \in listed[dir[Journal]] <=> dir[Backup(i)] # 0
       THEN k' = 1 /\ Goto("restore")
       ELSE Goto("idle") /\ UNCHANGED k
  /\ UNCHANGED <<files, listed, run, ctx, changed, book>>

\* Mutant: _restore_backup trusts that nothing is in its way.
RestoreUncleared ==
  /\ pc = "restore" /\ k <= N
  /\ IF k \in listed[dir[Journal]]
       THEN UNCHANGED <<files, k>> /\ Goto("relink")
       ELSE IF dir[Target(k)] # 0
              THEN Put(Target(k), 0) /\ Goto("restore_sync") /\ UNCHANGED k
              ELSE UNCHANGED <<files, pc>> /\ k' = k + 1
  /\ UNCHANGED <<listed, run, ctx, changed, book>>

\* _restore_backup clears the name it restores through; a target that was not
\* there is removed.
Restore ==
  /\ pc = "restore" /\ k <= N
  /\ IF k \in listed[dir[Journal]]
       THEN Put(Restored(k), 0) /\ Goto("relink") /\ UNCHANGED k
       ELSE IF dir[Target(k)] # 0
              THEN Put(Target(k), 0) /\ Goto("restore_sync") /\ UNCHANGED k
              ELSE UNCHANGED <<files, pc>> /\ k' = k + 1
  /\ UNCHANGED <<listed, run, ctx, changed, book>>

\* A name in the way is an error; so is a file system without hard links: here nothing
\* falls back on copying.
Relink ==
  /\ pc = "relink"
  /\ IF links /\ dir[Restored(k)] = 0
       THEN Put(Restored(k), dir[Backup(k)]) /\ Goto("return")
       ELSE UNCHANGED files /\ Goto("idle")
  /\ UNCHANGED <<listed, run, k, ctx, changed, book>>

ReturnTarget ==
  /\ pc = "return"
  /\ Replace(Restored(k), Target(k)) /\ Goto("restore_sync")
  /\ UNCHANGED <<listed, run, k, ctx, changed, book>>

RestoreSync ==
  /\ pc = "restore_sync"
  /\ Sync /\ k' = k + 1 /\ Goto("restore")
  /\ UNCHANGED <<listed, run, ctx, changed, book>>

RestoredAll ==
  /\ pc = "restore" /\ k > N
  /\ Put(Journal, 0) /\ Goto("recovered")
  /\ UNCHANGED <<listed, run, k, ctx, changed, book>>

\* The journal goes, durably, before the backups.
Recovered ==
  /\ pc = "recovered"
  /\ Sync /\ Clean(ctx)
  /\ UNCHANGED <<listed, run, k, book>>

Rank(n) ==
  CASE n[1] = "journal_temporary" -> 0
    [] n[1] = "backup"            -> n[2]
    [] n[1] = "backup_copy"       -> N + n[2]
    [] n[1] = "restore"           -> 2 * N + n[2]

\* _cleanup_transaction_debris removes name after name.
CleanOne ==
  /\ pc = "clean"
  /\ \E n \in Debris :
       /\ dir[n] # 0 /\ \A m \in Debris : Rank(m) < Rank(n) => dir[m] = 0
       /\ Put(n, 0)
  /\ changed' = TRUE
  /\ UNCHANGED <<listed, run, pc, k, ctx, book>>

\* What follows a cleanup.
AfterClean ==
  CASE ctx = "start"   -> "stage"
    [] ctx = "publish" -> "document"
    [] OTHER           -> "idle"

CleanSync ==
  /\ pc = "clean" /\ \A n \in Debris : dir[n] = 0
  /\ IF changed THEN Sync ELSE UNCHANGED files
  /\ success' = IF ctx = "commit" THEN run ELSE success
  /\ Goto(AfterClean)
  /\ UNCHANGED <<listed, run, k, ctx, changed, links, hasty, errors, crashes>>

-----------------------------------------------------------------------------
\* Publication.

\* The new generation is compiled under temporary names.
Stage ==
  /\ pc = "stage"
  /\ Clean("publish")
  /\ UNCHANGED <<files, listed, run, k, book>>

\* _journal_document notes which targets exist.
Document ==
  /\ pc = "document"
  /\ listed' = [listed EXCEPT ![run] = Existing]
  /\ k' = 1 /\ Goto("back_up")
  /\ UNCHANGED <<files, run, ctx, changed, book>>

\* _create_backup links, or copies where links are refused.
BackUp ==
  /\ pc = "back_up" /\ k <= N
  /\ IF k \notin listed[run]
       THEN UNCHANGED <<files, pc>> /\ k' = k + 1
       ELSE IF links
              THEN Put(Backup(k), dir[Target(k)]) /\ k' = k + 1 /\ UNCHANGED pc
              ELSE Put(Copied(k), dir[Target(k)]) /\ Goto("name_copy") /\ UNCHANGED k
  /\ UNCHANGED <<listed, run, ctx, changed, book>>

NameCopy ==
  /\ pc = "name_copy"
  /\ Replace(Copied(k), Backup(k)) /\ k' = k + 1 /\ Goto("back_up")
  /\ UNCHANGED <<listed, run, ctx, changed, book>>

BackedUp ==
  /\ pc = "back_up" /\ k > N
  /\ Sync /\ Goto("write_journal")
  /\ UNCHANGED <<listed, run, k, ctx, changed, book>>

\* _write_journal: written under a name of its own, then put in place.
WriteJournal ==
  /\ pc = "write_journal"
  /\ Put(JournalTemp, run) /\ Goto("name_journal")
  /\ UNCHANGED <<listed, run, k, ctx, changed, book>>

NameJournal ==
  /\ pc = "name_journal"
  /\ Replace(JournalTemp, Journal) /\ Goto("journal_sync")
  /\ UNCHANGED <<listed, run, k, ctx, changed, book>>

JournalSync ==
  /\ pc = "journal_sync"
  /\ Sync /\ k' = 1 /\ Goto("publish")
  /\ UNCHANGED <<listed, run, ctx, changed, book>>

Publish ==
  /\ pc = "publish" /\ k <= N
  /\ Put(Target(k), run) /\ Goto("publish_sync")
  /\ UNCHANGED <<listed, run, k, ctx, changed, book>>

PublishSync ==
  /\ pc = "publish_sync"
  /\ Sync /\ k' = k + 1 /\ Goto("publish")
  /\ UNCHANGED <<listed, run, ctx, changed, book>>

\* The generation is committed when its journal goes.
Commit ==
  /\ pc = "publish" /\ k > N
  /\ Put(Journal, 0) /\ Goto("committed")
  /\ UNCHANGED <<listed, run, k, ctx, changed, book>>

\* Mutant: the cleanup starts before the journal is durably gone.
CommittedUnsynced ==
  /\ pc = "committed"
  /\ UNCHANGED files /\ Clean("commit")
  /\ UNCHANGED <<listed, run, k, book>>

Committed ==
  /\ pc = "committed"
  /\ Sync /\ Clean("commit")
  /\ UNCHANGED <<listed, run, k, book>>

\* _publish meets an exception before the last sync of its targets.
Failed ==
  /\ pc = "failed"
  /\ IF dir[Journal] # 0
       THEN ctx' = "failed" /\ Goto("recover") /\ UNCHANGED changed
       ELSE Clean("failed")
  /\ UNCHANGED <<files, listed, run, k, book>>

-----------------------------------------------------------------------------
\* Faults.

Guarded == {"back_up", "name_copy", "write_journal", "name_journal",
            "journal_sync", "publish_sync"}
InGuarded == pc \in Guarded \/ (pc = "publish" /\ k <= N)

\* A call fails.
Error ==
  /\ pc \notin {"idle", "off", "failed"} /\ errors < MaxErrors
  /\ errors' = errors + 1
  /\ Goto(IF InGuarded THEN "failed" ELSE "idle")
  /\ UNCHANGED <<files, listed, run, k, ctx, changed, links, success, hasty, crashes>>

Kill ==
  /\ pc \notin {"idle", "off"} /\ crashes < MaxCrashes
  /\ crashes' = crashes + 1
  /\ Goto("idle")
  /\ UNCHANGED <<files, listed, run, k, ctx, changed, links, success, hasty, errors>>

LosePower ==
  /\ pc # "off" /\ crashes < MaxCrashes
  /\ crashes' = crashes + 1
  /\ Goto("off")
  /\ UNCHANGED <<files, listed, run, k, ctx, changed, links, success, hasty, errors>>

\* Each name comes back as one of the things it stood for since the last sync.
Settle ==
  /\ pc = "off"
  /\ \E n \in Names : \E v \in may[n] :
       /\ may[n] # {v}
       /\ dir' = [dir EXCEPT ![n] = v]
       /\ may' = [may EXCEPT ![n] = {v}]
  /\ UNCHANGED <<listed, run, pc, k, ctx, changed, book>>

Reboot ==
  /\ pc = "off" /\ Settled
  /\ Goto("idle")
  /\ UNCHANGED <<files, listed, run, k, ctx, changed, book>>

-----------------------------------------------------------------------------

Recovery    == \/ Recover \/ Verify \/ Restore \/ Relink \/ ReturnTarget
               \/ RestoreSync \/ RestoredAll \/ Recovered \/ CleanOne \/ CleanSync
Publication == \/ Stage \/ Document \/ BackUp \/ NameCopy \/ BackedUp
               \/ WriteJournal \/ NameJournal \/ JournalSync
               \/ Publish \/ PublishSync \/ Commit \/ Committed \/ Failed
Fault       == Error \/ Kill \/ LosePower

Step == Start \/ Recovery \/ Publication \/ Settle \/ Reboot
Next == Step \/ Fault

Spec     == Init /\ [][Next]_vars
FairSpec == Spec /\ WF_vars(Step)

-----------------------------------------------------------------------------

Labels == {"idle", "off", "recover", "verify", "restore", "relink", "return",
           "restore_sync", "recovered", "clean", "stage", "document", "back_up",
           "name_copy", "write_journal", "name_journal", "journal_sync",
           "publish", "publish_sync", "committed", "failed"}

TypeOK ==
  /\ links \in BOOLEAN
  /\ dir \in [Names -> Runs]
  /\ may \in [Names -> SUBSET Runs]
  /\ listed \in [Runs -> SUBSET Index]
  /\ run \in Runs
  /\ pc \in Labels
  /\ k \in 1 .. N + 1
  /\ ctx \in {"start", "publish", "failed", "commit"}
  /\ changed \in BOOLEAN
  /\ success \in Runs
  /\ hasty \in BOOLEAN
  /\ errors \in Nat /\ crashes \in Nat

Whole(g) == \A i \in Index : dir[Target(i)] = g

\* The backups are those of one whole generation, or there was none.
Kept(g) ==
  \A i \in Index : /\ i \in listed[dir[Journal]] <=> g # 0
                   /\ dir[Backup(i)] = g

\* At every moment, and after any kill or loss of power, either the targets are
\* one whole generation or the journal names backups that are: every failed
\* publication can be undone.  A generation whose compilation succeeded is not
\* undone.  (_publish, _recover_interrupted_publication.)
AlwaysRecoverable ==
  hasty \/ \E g \in Runs :
    /\ g >= success
    /\ IF dir[Journal] = 0 THEN Whole(g) ELSE Kept(g)

\* Whatever happened, once the faults stop a rerun of the compiler succeeds,
\* if the file system makes hard links.  (_recover_interrupted_publication.)
RecoversByLinks == <>(hasty \/ ~links \/ success > 1)

\* "kill after every replace recovers at next compile"
\* (eval/test-compile-xrf55-joint-role-cache.py:586): on every file system.
RecoversAtNextCompile == <>(hasty \/ success > 1)
=============================================================================
