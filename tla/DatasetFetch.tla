---------------------------- MODULE DatasetFetch ----------------------------
(***************************************************************************)
(* The dataset fetchers of data/fetch that take no lock, on one artifact:  *)
(*   "jamming"  fetch-controlled-jamming.py   "osu"     fetch-osu-lora.py  *)
(*   "xrf55"    fetch-xrf55.py                "public"  fetch-public-eval- *)
(*   "smorffi"  fetch-smorffi.py                        corpus.py          *)
(* Each downloads into a partial file next to the artifact (smorffi into a *)
(* private directory), gives the finished file its name and writes a       *)
(* receipt with its digest.  They differ in what they resume, in what they *)
(* pin, in how the name is given and in what a rerun accepts.              *)
(*                                                                         *)
(* A content is a sequence of chunks <<version, index>>; its digest is the *)
(* content itself.  A file is an inode, an index of `disk', so that a name *)
(* may be linked or replaced under an open file.                           *)
(***************************************************************************)
EXTENDS Integers, Sequences, FiniteSets

CONSTANTS
    Kinds,      \* the fetchers to consider
    Procs,      \* invocations that may run at the same time
    Size,       \* chunks of the artifact
    MaxStarts,  \* bound: invocations
    MaxKills,   \* bound: kills
    MaxDrifts,  \* bound: changes of what the publisher serves
    MaxDamages  \* bound: changes of the artifact by other programs

ASSUME DatasetFetchAssumption ==
    /\ Kinds \subseteq {"jamming", "osu", "xrf55", "public", "smorffi"}
    /\ Size \in Nat \ {0}
    /\ {MaxStarts, MaxKills, MaxDrifts, MaxDamages} \subseteq Nat

VARIABLES
    kind,       \* the fetcher
    served,     \* the version that the publisher serves
    disk,       \* the contents of the inodes
    partial,    \* the inode of the partial file, 0 when there is none
    target,     \* the inode of the artifact (its directory for smorffi), or 0
    receipt,    \* <<>>, or <<[version, content]>>
    legacy,     \* a receipt of an older layout lies next to the artifact
    pc,         \* next step of an invocation
    expect,     \* the version that an invocation asks for
    sum,        \* its running digest
    mode,       \* how it opens the partial file
    fd,         \* the inode that it writes
    conn,       \* the version that its connection sends
    starts, kills, damages,
    overlapped  \* two invocations have been at work at the same time

local  == <<pc, expect, sum, mode, fd, conn>>
store  == <<disk, partial, target, receipt>>
world  == <<kind, legacy, served, starts, kills, damages, overlapped>>
vars   == <<local, store, world>>

Pin == 1                                   \* the version of the pinned digests
Pinned == {"jamming", "xrf55", "public"}   \* kinds that compare a publisher digest
Full(v) == [i \in 1 .. Size |-> <<v, i>>]
Hole == <<0, 0>>                           \* bytes that nobody wrote
Receipt(v, content) == [version |-> v, content |-> content]

Goto(p, step) == pc' = [pc EXCEPT ![p] = step]

\* "refused": the local files do not allow it.  "failed": the network did.
Idle == {"idle", "done", "refused", "failed"}

----------------------------------------------------------------------------
\* main: an invocation starts; osu first lists the publisher's versions (discover).
Start(p) ==
    /\ pc[p] \in Idle /\ starts < MaxStarts
    /\ starts' = starts + 1
    /\ overlapped' = (overlapped \/ \E q \in Procs \ {p} : pc[q] \notin Idle)
    /\ expect' = [expect EXCEPT ![p] = IF kind = "osu" THEN served ELSE Pin]
    /\ sum' = [sum EXCEPT ![p] = <<>>]
    /\ Goto(p, "look")
    /\ UNCHANGED <<store, kind, legacy, served, kills, damages, mode, fd, conn>>

\* download, _acquire, download_one, verify_local: is the artifact there?  osu
\* refuses first when the publisher has changed since the inventory (head_remote).
Look(p) ==
    /\ pc[p] = "look"
    /\ Goto(p, IF kind = "osu" /\ served # expect[p] THEN "failed"
               ELSE IF target # 0 THEN "verify" ELSE "orphan")
    /\ UNCHANGED <<store, world, expect, sum, mode, fd, conn>>

\* A receipt without its artifact is refused; public refuses a partial file too.
LookForOrphan(p) ==
    /\ pc[p] = "orphan"
    /\ Goto(p, IF receipt # <<>> \/ legacy \/ (kind = "public" /\ partial # 0) THEN "refused"
               ELSE IF kind = "smorffi" THEN "stage" ELSE "resume")
    /\ UNCHANGED <<store, world, expect, sum, mode, fd, conn>>

----------------------------------------------------------------------------
\* An artifact that is there: its digest, then what the fetcher accepts.

\* digest_file, _digest_regular, inventory_tree, of a file that does not change.
Digest(p) ==
    /\ pc[p] = "verify"
    /\ IF target = 0 THEN Goto(p, "refused") /\ UNCHANGED sum
       ELSE Goto(p, "accept") /\ sum' = [sum EXCEPT ![p] = disk[target]]
    /\ UNCHANGED <<store, world, expect, mode, fd, conn>>

\* Mutant: a missing receipt is not written again.
AcceptOnlyReceipted(p) ==
    IF sum[p] = Full(Pin) /\ receipt = <<Receipt(Pin, sum[p])>> THEN "done" ELSE "refused"

\* fetch-controlled-jamming.py, _verify_existing: the pin decides, a missing
\* receipt is written again.
AcceptJamming(p) ==
    CASE sum[p] # Full(Pin)                           -> "refused"
      [] sum[p] = Full(Pin) /\ receipt = <<>>         -> "receipt"
      [] sum[p] = Full(Pin) /\ receipt = <<Receipt(Pin, sum[p])>> -> "done"
      [] OTHER                                        -> "refused"

\* fetch-public-eval-corpus.py, verify_existing_archive and
\* _validate_or_create_receipt: a receipt of the older layout must agree as well.
AcceptPublic(p) == AcceptJamming(p)

\* fetch-osu-lora.py, _verify_existing: the receipt decides.
AcceptOsu(p) ==
    IF receipt = <<Receipt(expect[p], sum[p])>> THEN "done" ELSE "refused"

\* fetch-xrf55.py, verify_existing: a receipt decides, the older layout's too.
AcceptXrf55(p) ==
    CASE receipt = <<Receipt(Pin, sum[p])>>                    -> "done"
      [] receipt = <<>> /\ legacy /\ sum[p] = Full(Pin)        -> "receipt"
      [] OTHER                                                 -> "refused"

\* fetch-smorffi.py, verify_local: the tree and the receipt, or neither.
AcceptSmorffi(p) ==
    IF receipt = <<Receipt(Pin, sum[p])>> THEN "done" ELSE "refused"

Accept(p) ==
    /\ pc[p] = "accept"
    /\ Goto(p, CASE kind = "jamming" -> AcceptJamming(p)
                 [] kind = "public"  -> AcceptPublic(p)
                 [] kind = "osu"     -> AcceptOsu(p)
                 [] kind = "xrf55"   -> AcceptXrf55(p)
                 [] kind = "smorffi" -> AcceptSmorffi(p))
    /\ UNCHANGED <<store, world, expect, sum, mode, fd, conn>>

----------------------------------------------------------------------------
\* A download into the partial file.

\* The mode in which the partial file will be opened.
OpenMode(offset) ==
    CASE kind = "jamming" /\ partial # 0               -> "append"
      [] kind \in {"osu", "xrf55"} /\ offset > 0       -> "append"
      [] kind \in {"osu", "xrf55"} /\ offset = 0       -> "truncate"
      [] OTHER                                         -> "create"

\* _resume_state, _partial_state: a partial file is read and digested; a longer one
\* is refused, one of the full size is taken as it is.  public starts afresh.
Resume(p) ==
    /\ pc[p] = "resume"
    /\ LET found == IF partial = 0 THEN <<>> ELSE disk[partial]
       IN  /\ sum'  = [sum EXCEPT ![p] = IF kind = "public" THEN <<>> ELSE found]
           /\ mode' = [mode EXCEPT ![p] = OpenMode(Len(found))]
           /\ Goto(p, CASE kind # "public" /\ Len(found) > Size -> "refused"
                        [] kind # "public" /\ Len(found) = Size -> "check"
                        [] OTHER                                -> "request")
    /\ UNCHANGED <<store, world, expect, fd, conn>>

\* _open, _validate_response: the publisher answers with the rest of the version
\* that it serves; osu compares the validators of its inventory.
Request(p) ==
    /\ pc[p] = "request"
    /\ \/ Goto(p, "failed") /\ UNCHANGED conn
       \/ /\ kind = "osu" => served = expect[p]
          /\ conn' = [conn EXCEPT ![p] = served]
          /\ Goto(p, "open")
    /\ UNCHANGED <<store, world, expect, sum, mode, fd>>

\* os.open and the comparison of the size with the offset.
Open(p) ==
    /\ pc[p] = "open"
    /\ LET exists  == partial # 0
           inode   == IF exists THEN partial ELSE Len(disk) + 1
           content == IF exists /\ mode[p] # "truncate" THEN disk[partial] ELSE <<>>
       IN  CASE mode[p] = "create" /\ exists -> Goto(p, "refused") /\ UNCHANGED <<disk, partial, fd>>
             [] mode[p] = "append" /\ kind = "jamming" /\ ~exists ->
                    Goto(p, "failed") /\ UNCHANGED <<disk, partial, fd>>
             [] OTHER ->
                    /\ disk' = IF exists THEN [disk EXCEPT ![inode] = content]
                               ELSE Append(disk, content)
                    /\ partial' = inode
                    /\ fd' = [fd EXCEPT ![p] = inode]
                    /\ Goto(p, IF Len(content) = Len(sum[p]) THEN "receive" ELSE "failed")
    /\ UNCHANGED <<target, receipt, world, expect, sum, mode, conn>>

\* A chunk written at the end of a file, or at the writer's own position.
Written(content, how, at, chunk) ==
    IF how = "append" \/ at > Len(content)
    THEN content \o (IF how = "append" THEN <<>>
                     ELSE [i \in 1 .. (at - 1 - Len(content)) |-> Hole]) \o <<chunk>>
    ELSE [content EXCEPT ![at] = chunk]

\* One chunk of the response, written and digested; or the connection ends.
Receive(p) ==
    /\ pc[p] = "receive"
    /\ \/ /\ Len(sum[p]) < Size
          /\ LET at == Len(sum[p]) + 1
                 chunk == <<conn[p], at>>
             IN  /\ disk' = [disk EXCEPT ![fd[p]] = Written(@, mode[p], at, chunk)]
                 /\ sum' = [sum EXCEPT ![p] = Append(@, chunk)]
          /\ UNCHANGED pc
       \/ /\ Goto(p, IF Len(sum[p]) = Size THEN "check" ELSE "failed")
          /\ UNCHANGED <<disk, sum>>
    /\ UNCHANGED <<partial, target, receipt, world, expect, mode, fd, conn>>

\* Mutant: the digest of the publisher is not compared.
CheckNothing(p) ==
    /\ pc[p] = "check"
    /\ Goto(p, "promote")
    /\ UNCHANGED <<store, world, expect, sum, mode, fd, conn>>

\* _finalize, _finalize_partial, download: the size and the pinned digest.
Check(p) ==
    /\ pc[p] = "check"
    /\ Goto(p, IF (kind \in Pinned => sum[p] = Full(Pin)) THEN "promote" ELSE "refused")
    /\ UNCHANGED <<store, world, expect, sum, mode, fd, conn>>

\* os.link of the partial file, which never replaces (jamming, osu), or os.replace,
\* which does (xrf55, public).
Promote(p) ==
    /\ pc[p] = "promote"
    /\ IF partial = 0 \/ (kind \in {"jamming", "osu"} /\ target # 0)
       THEN Goto(p, "refused") /\ UNCHANGED <<partial, target>>
       ELSE /\ target' = partial
            /\ IF kind \in {"jamming", "osu"} THEN Goto(p, "unlink") /\ UNCHANGED partial
               ELSE Goto(p, "receipt") /\ partial' = 0
    /\ UNCHANGED <<disk, receipt, world, expect, sum, mode, fd, conn>>

\* os.unlink of the partial name.
Unlink(p) ==
    /\ pc[p] = "unlink"
    /\ partial' = 0
    /\ Goto(p, IF partial = 0 THEN "refused" ELSE "receipt")
    /\ UNCHANGED <<disk, target, receipt, world, expect, sum, mode, fd, conn>>

\* _write_receipt, write_receipt, _write_json_new: linked into place, never replaced.
\* public accepts one that says the same, if it looks after the other was written.
WriteReceipt(p) ==
    /\ pc[p] = "receipt"
    /\ LET mine == <<Receipt(expect[p], sum[p])>>
       IN  IF receipt = <<>> THEN receipt' = mine /\ Goto(p, "done")
           ELSE /\ UNCHANGED receipt
                /\ \/ Goto(p, "refused")
                   \/ kind = "public" /\ receipt = mine /\ Goto(p, "done")
    /\ UNCHANGED <<disk, partial, target, world, expect, sum, mode, fd, conn>>

----------------------------------------------------------------------------
\* smorffi: a private directory takes the name of the dataset.

\* fetch_dataset: KaggleHub downloads into the staging directory, which is
\* inventoried twice.
Stage(p) ==
    /\ pc[p] = "stage"
    /\ \/ Goto(p, "failed") /\ UNCHANGED sum
       \/ Goto(p, "rename") /\ sum' = [sum EXCEPT ![p] = Full(served)]
    /\ UNCHANGED <<store, world, expect, mode, fd, conn>>

\* staging.rename(raw_dir): a directory that has files is not replaced.
Rename(p) ==
    /\ pc[p] = "rename"
    /\ IF target # 0 THEN Goto(p, "refused") /\ UNCHANGED <<disk, target>>
       ELSE /\ disk' = Append(disk, sum[p]) /\ target' = Len(disk) + 1
            /\ Goto(p, "seal")
    /\ UNCHANGED <<partial, receipt, world, expect, sum, mode, fd, conn>>

\* Mutant: a receipt that cannot be written is passed over.
SealUnrecorded(p) ==
    /\ pc[p] = "seal"
    /\ \/ receipt = <<>> /\ receipt' = <<Receipt(Pin, sum[p])>> /\ Goto(p, "done")
       \/ Goto(p, "done") /\ UNCHANGED receipt
    /\ UNCHANGED <<disk, partial, target, world, expect, sum, mode, fd, conn>>

\* _write_receipt; when it fails, raw_dir is renamed back and removed.
Seal(p) ==
    /\ pc[p] = "seal"
    /\ \/ receipt = <<>> /\ receipt' = <<Receipt(Pin, sum[p])>> /\ Goto(p, "done")
       \/ Goto(p, "rollback") /\ UNCHANGED receipt
    /\ UNCHANGED <<disk, partial, target, world, expect, sum, mode, fd, conn>>

Rollback(p) ==
    /\ pc[p] = "rollback"
    /\ target' = 0
    /\ Goto(p, "failed")
    /\ UNCHANGED <<disk, partial, receipt, world, expect, sum, mode, fd, conn>>

----------------------------------------------------------------------------
\* The process is killed; its files stay as they are.
Kill(p) ==
    /\ pc[p] \notin Idle /\ kills < MaxKills
    /\ kills' = kills + 1
    /\ Goto(p, "idle")
    /\ UNCHANGED <<store, kind, legacy, served, starts, damages, overlapped,
                   expect, sum, mode, fd, conn>>

\* The publisher replaces the artifact by another version of the same size.
Drift ==
    /\ served <= MaxDrifts
    /\ served' = served + 1
    /\ UNCHANGED <<store, local, kind, legacy, starts, kills, damages, overlapped>>

\* While no invocation is at work, another program edits the artifact, or removes
\* it or its receipt.
Damage ==
    /\ \A p \in Procs : pc[p] \in Idle
    /\ damages < MaxDamages /\ damages' = damages + 1
    /\ \/ /\ target # 0 /\ disk' = [disk EXCEPT ![target] = [@ EXCEPT ![1] = Hole]]
          /\ UNCHANGED <<target, receipt>>
       \/ target # 0 /\ target' = 0 /\ UNCHANGED <<disk, receipt>>
       \/ receipt # <<>> /\ receipt' = <<>> /\ UNCHANGED <<disk, target>>
    /\ UNCHANGED <<local, partial, kind, legacy, served, starts, kills, overlapped>>

Init ==
    /\ kind \in Kinds /\ served = Pin
    /\ legacy \in IF kind \in {"xrf55", "public"} THEN BOOLEAN ELSE {FALSE}
    /\ disk = IF legacy THEN <<Full(Pin)>> ELSE <<>>
    /\ target = IF legacy THEN 1 ELSE 0
    /\ partial = 0 /\ receipt = <<>>
    /\ pc = [p \in Procs |-> "idle"] /\ expect = [p \in Procs |-> Pin]
    /\ sum = [p \in Procs |-> <<>>] /\ mode = [p \in Procs |-> "create"]
    /\ fd = [p \in Procs |-> 0] /\ conn = [p \in Procs |-> Pin]
    /\ starts = 0 /\ kills = 0 /\ damages = 0 /\ overlapped = FALSE

Step(p) ==
    \/ Look(p) \/ LookForOrphan(p) \/ Digest(p) \/ Accept(p)
    \/ Resume(p) \/ Request(p) \/ Open(p) \/ Receive(p) \/ Check(p)
    \/ Promote(p) \/ Unlink(p) \/ WriteReceipt(p)
    \/ Stage(p) \/ Rename(p) \/ Seal(p) \/ Rollback(p)

Next == (\E p \in Procs : Start(p) \/ Step(p) \/ Kill(p)) \/ Drift \/ Damage

Spec == Init /\ [][Next]_vars

----------------------------------------------------------------------------
\* A receipt states the digest of what the publisher served: of the pinned version
\* whatever happens, also when invocations overlap; of one version of smorffi
\* unless the publisher changes it.  osu digests a partial file that is left over
\* without knowing its version (_resume_state), so there invocations must not overlap
\* either; and a kill between link and unlink leaves the partial name on the
\* artifact's own inode, so that an edit of the artifact and its removal make
\* the edited bytes the next download.
ReceiptsAreGenuine ==
    receipt # <<>> =>
        \/ receipt[1] = Receipt(Pin, Full(Pin))
        \/ kind = "smorffi" /\ served # Pin
        \/ kind = "osu" /\ (overlapped \/ served # Pin \/ damages > 1)

\* An invocation that reports success, alone at work, leaves the artifact and its
\* receipt in place, and they agree: what was digested on the way is what the name
\* stands for, over resumed and killed downloads (the end of download, _acquire).
SuccessIsOnDisk ==
    [][\A p \in Procs : pc[p] # "done" /\ pc'[p] = "done" /\ ~overlapped =>
         target' # 0 /\ receipt' # <<>> /\ disk'[target'] = receipt'[1].content]_vars

\* What a rerun must be able to recover from is known: alone at work and with a
\* publisher that does not change, jamming is never refused by its own leftovers;
\* the others are by an artifact without a receipt, public by a partial file.
RefusalsAreKnown ==
    \A p \in Procs : pc[p] = "refused" /\ ~overlapped /\ served = Pin /\ damages = 0 =>
        \/ kind \in {"osu", "xrf55", "smorffi"} /\ kills > 0 /\ target # 0 /\ receipt = <<>>
        \/ kind = "public" /\ partial # 0

=============================================================================
