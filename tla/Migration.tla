----------------------------- MODULE Migration -----------------------------
(***************************************************************************)
(* data/migrate/migrate-legacy-derived.py: moves a fixed list of files     *)
(* from data/raw (or from an earlier archive location) into the archive    *)
(* directory and seals it with a receipt.  There is no lock: two operators *)
(* may run the script at once, it may be killed at any system call, and    *)
(* other programs may edit the files or drop a file into the archive.      *)
(*                                                                         *)
(* A file is an inode, a directory maps names to inodes, and one action is *)
(* one system call (or a run of reads whose order does not matter) of      *)
(* migrate().  Names 1..N are the allowlisted basenames in their order,    *)
(* N+1 is the receipt.                                                     *)
(***************************************************************************)
EXTENDS Integers, FiniteSets

CONSTANTS
  N,          \* length of ALLOWLIST
  Procs,      \* concurrent runs of the script
  Kinds,      \* initial states to start from: "fresh", "legacy", "split"
  Spare,      \* inodes available to mkstemp
  MaxFaults,  \* bound on kills and I/O errors
  MaxEdits    \* bound on edits and intrusions by other programs

ASSUME MigrationAssumption ==
  /\ N \in Nat \ {0}
  /\ Kinds \subseteq {"fresh", "legacy", "split"}
  /\ Spare \in Nat
  /\ MaxFaults \in Nat
  /\ MaxEdits \in Nat

Files   == 1 .. N
Receipt == N + 1
Names   == 1 .. (N + 1)
Dirs    == {"raw", "legacy", "archive"}
None    == 0
Foreign == N + 2                        \* a file some other program makes
Inodes  == 1 .. (N + 2 + Spare)
NoText  == [k \in Files |-> [file |-> None, ver |-> 0]]

VARIABLES
  entry,   \* entry[d][n]: the inode that name n of directory d is linked to
  exists,  \* exists[d]: the directory is there
  temps,   \* inodes linked in the archive under a .migration-receipt.* name
  ver,     \* ver[i]: version of the bytes of inode i
  text,    \* text[i]: what inode i says, for an inode that is a receipt
  pc,      \* pc[p]: the next system call of run p
  k,       \* k[p]: position in the list it works through
  mem,     \* mem[p]: what run p remembers
  faults, edits                         \* counters for the bounds

vars == <<entry, exists, temps, ver, text, pc, k, mem, faults, edits>>
disk == <<entry, exists, temps, ver, text>>
env  == <<faults, edits>>

----------------------------------------------------------------------------
(* What lstat and a digest return.                                         *)

LinksIn(d, i) == Cardinality({n \in Names : entry[d][n] = i})
Links(i) == LinksIn("raw", i) + LinksIn("legacy", i) + LinksIn("archive", i)
              + (IF i \in temps THEN 1 ELSE 0)

\* _fingerprint: the mode and device never change here.
Meta(i) == [ino |-> i, ver |-> ver[i], nlink |-> Links(i)]
NoMeta  == [ino |-> None, ver |-> 0, nlink |-> 0]

\* _identity: everything but the link count.
SameFile(a, b) == a.ino = b.ino /\ a.ver = b.ver

\* The (bytes, sha256) of a file: two inodes never agree by accident.
Digest(i) == [file |-> i, ver |-> ver[i]]
NoDigest  == [file |-> None, ver |-> 0]

----------------------------------------------------------------------------
(* A run's memory: what it listed, the fingerprints and digests it took.   *)

Fresh == [archiveThere |-> FALSE, legacyThere |-> FALSE,
          archiveNames |-> {}, legacyNames |-> {},
          route |-> "none",   \* "fresh", "relocate" or "verify"
          phase |-> "survey", \* "survey" before the moves, "check" after
          src |-> [n \in Names |-> NoMeta],   \* source fingerprints
          dst |-> [n \in Names |-> NoMeta],   \* archive fingerprints
          first |-> NoText,   \* digests of the survey ("records")
          again |-> NoText,   \* digests of the check ("archived_records")
          cur |-> NoMeta,     \* "current" of _move_new
          temp |-> None]      \* the temporary receipt

Final == {"migrated", "relocated", "verified", "error", "killed"}

Goto(p, label)    == pc' = [pc EXCEPT ![p] = label]
Recall(p, record) == mem' = [mem EXCEPT ![p] = record]

\* A run that ends forgets everything.
Return(p, result) ==
  /\ Goto(p, result)
  /\ k' = [k EXCEPT ![p] = 1]
  /\ Recall(p, Fresh)

\* raise MigrationError: nothing on disk changes.
Raise(p) == Return(p, "error") /\ UNCHANGED <<disk, env>>

\* Checks that must hold for the run to go on; the code raises otherwise.
Require(p, condition, continue) ==
  \/ condition /\ continue
  \/ ~condition /\ Raise(p)

SrcDir(p) == IF mem[p].route = "fresh" THEN "raw" ELSE "legacy"
SrcNames(p) == IF mem[p].route = "fresh" THEN Files ELSE mem[p].legacyNames
DstNames(p) == IF mem[p].route = "fresh" THEN {} ELSE mem[p].archiveNames
LastName(p) == IF mem[p].route = "fresh" THEN N ELSE Receipt

----------------------------------------------------------------------------
Layout(kind) ==
  [d \in Dirs |-> [n \in Names |->
     IF \/ d = "raw" /\ kind = "fresh" /\ n \in Files
        \/ d = "legacy" /\ (kind = "legacy" \/ (kind = "split" /\ n > 1))
        \/ d = "archive" /\ kind = "split" /\ n = 1
       THEN n ELSE None]]

\* The receipt of an earlier archive describes its files.
OldReceipt == [n \in Files |-> [file |-> n, ver |-> 0]]

Init ==
  /\ \E kind \in Kinds :
       /\ entry = Layout(kind)
       /\ exists = [d \in Dirs |-> \/ d = "raw"
                                   \/ (d = "legacy" /\ kind # "fresh")
                                   \/ (d = "archive" /\ kind = "split")]
       /\ text = [i \in Inodes |-> IF i = Receipt /\ kind # "fresh"
                                     THEN OldReceipt ELSE NoText]
  /\ temps = {}
  /\ ver = [i \in Inodes |-> 0]
  /\ pc = [p \in Procs |-> "start"]
  /\ k = [p \in Procs |-> 1]
  /\ mem = [p \in Procs |-> Fresh]
  /\ faults = 0
  /\ edits = 0

----------------------------------------------------------------------------
(* migrate(): look at the three directories, then choose a route.          *)

Listing(d) == {n \in Names : entry[d][n] # None}

\* archive_exists, then legacy_archive_exists.
SeeArchive(p) ==
  /\ pc[p] = "start"
  /\ Goto(p, "see_legacy")
  /\ Recall(p, [mem[p] EXCEPT !.archiveThere = exists["archive"]])
  /\ UNCHANGED <<disk, k, env>>

SeeLegacy(p) ==
  /\ pc[p] = "see_legacy"
  /\ Goto(p, "scan_archive")
  /\ Recall(p, [mem[p] EXCEPT !.legacyThere = exists["legacy"]])
  /\ UNCHANGED <<disk, k, env>>

\* _archive_entries: any name that is not expected is a conflict.
ScanArchive(p) ==
  /\ pc[p] = "scan_archive"
  /\ Require(p, temps = {},
       /\ Goto(p, "scan_legacy")
       /\ Recall(p, [mem[p] EXCEPT !.archiveNames = Listing("archive")])
       /\ UNCHANGED <<disk, k, env>>)

ScanLegacy(p) ==
  /\ pc[p] = "scan_legacy"
  /\ Goto(p, "choose")
  /\ Recall(p, [mem[p] EXCEPT !.legacyNames = Listing("legacy")])
  /\ UNCHANGED <<disk, k, env>>

\* Mutant: files in data/raw make a fresh state, whatever the archive.
RouteAnyway(p, sources) ==
  LET m == mem[p] IN
  IF sources = {} /\ m.archiveNames = Names /\ ~m.legacyThere
    THEN "verify"
  ELSE IF sources = {} /\ m.legacyThere
            /\ m.archiveNames \cup m.legacyNames = Names
    THEN "relocate"
  ELSE IF sources = Files /\ ~m.legacyThere
    THEN "fresh"
  ELSE "none"

\* source_presence and the three recognised states.  Names only ever leave
\* data/raw, so probing them one by one sees what one probe would see.
Route(p, sources) ==
  LET m == mem[p] IN
  IF sources = {} /\ m.archiveNames = Names /\ ~m.legacyThere
    THEN "verify"
  ELSE IF sources = {} /\ m.legacyThere
            /\ m.archiveNames \cup m.legacyNames = Names
    THEN "relocate"
  ELSE IF sources = Files /\ ~m.archiveThere /\ ~m.legacyThere
    THEN "fresh"
  ELSE "none"

Choose(p) ==
  /\ pc[p] = "choose"
  /\ LET route == Route(p, Listing("raw")) IN
     Require(p, route # "none",
       /\ Goto(p, "look")
       /\ Recall(p, [mem[p] EXCEPT
            !.route = route,
            !.phase = IF route = "verify" THEN "check" ELSE "survey"])
       /\ UNCHANGED <<disk, k, env>>)

----------------------------------------------------------------------------
(* _inventory, _verified_relocation and _verified_archive: for each name,  *)
(* lstat it, then digest it between two fstat calls.                       *)

Seen(inode) == IF inode = None THEN NoMeta ELSE Meta(inode)

\* In the check, and for a file that is there, the archive is looked at.
SurveyLook(p) ==
  LET s == IF k[p] \in SrcNames(p) THEN entry[SrcDir(p)][k[p]] ELSE None
      d == IF k[p] \in DstNames(p) THEN entry["archive"][k[p]] ELSE None
  IN Require(p, /\ k[p] \in SrcNames(p) => s # None
                /\ k[p] \in DstNames(p) => d # None
                /\ s # None /\ d # None => SameFile(Meta(s), Meta(d)),
       /\ Recall(p, [mem[p] EXCEPT
            !.src[k[p]] = Seen(s),
            !.dst[k[p]] = Seen(d),
            !.cur = IF d = None THEN Seen(s) ELSE Seen(d)])
       /\ Goto(p, "digest")
       /\ UNCHANGED <<disk, k, env>>)

CheckLook(p) ==
  LET d == entry["archive"][k[p]] IN
  Require(p, d # None,
    /\ Recall(p, [mem[p] EXCEPT !.cur = Meta(d)])
    /\ Goto(p, "digest")
    /\ UNCHANGED <<disk, k, env>>)

Look(p) ==
  /\ pc[p] = "look"
  /\ IF mem[p].phase = "survey" THEN SurveyLook(p) ELSE CheckLook(p)

\* The file that is digested, found again by its path.
Digested(p) ==
  IF mem[p].phase = "check" \/ mem[p].dst[k[p]] # NoMeta
    THEN entry["archive"][k[p]]
    ELSE entry[SrcDir(p)][k[p]]

Known(p) == IF mem[p].phase = "survey" THEN mem[p].first ELSE mem[p].again

\* Mutant: a relocation ends when its digests agree, the previous archive
\* directory left behind.
AfterPassUncleaned(p) ==
  IF mem[p].phase = "survey" THEN "mkdir"
  ELSE IF mem[p].route = "fresh" THEN "receipt"
  ELSE "verified"

\* Where the run goes once the last name of this pass has been read.
AfterPass(p) ==
  IF mem[p].phase = "survey" THEN "mkdir"
  ELSE IF mem[p].route = "fresh" THEN "receipt"
  ELSE IF mem[p].route = "relocate" THEN "scan_cleanup"
  ELSE "verified"

ReadFile(p, i) ==
  /\ IF mem[p].phase = "survey"
       THEN Recall(p, [mem[p] EXCEPT !.first[k[p]] = Digest(i)])
       ELSE Recall(p, [mem[p] EXCEPT !.again[k[p]] = Digest(i)])
  /\ IF k[p] = LastName(p)
       THEN Goto(p, AfterPass(p)) /\ k' = [k EXCEPT ![p] = 1]
       ELSE Goto(p, "look") /\ k' = [k EXCEPT ![p] = k[p] + 1]

\* The receipt must say what was digested; after a relocation the digests
\* must also be those of the survey.
ReceiptHolds(p, i) ==
  /\ text[i] = Known(p)
  /\ mem[p].route = "relocate" /\ mem[p].phase = "check" =>
       mem[p].again = mem[p].first

ReadReceipt(p) ==
  IF AfterPass(p) = "verified"
    THEN Return(p, "verified")
    ELSE /\ Goto(p, AfterPass(p))
         /\ k' = [k EXCEPT ![p] = 1]
         /\ UNCHANGED mem

Read(p) ==
  /\ pc[p] = "digest"
  /\ LET i == Digested(p)
         same == i # None /\ Seen(i) = mem[p].cur
     IN IF k[p] = Receipt
          THEN Require(p, same /\ ReceiptHolds(p, i),
                 ReadReceipt(p) /\ UNCHANGED <<disk, env>>)
          ELSE Require(p, same, ReadFile(p, i) /\ UNCHANGED <<disk, env>>)

\* _ensure_directory(archive_dir)
Mkdir(p) ==
  /\ pc[p] = "mkdir"
  /\ exists' = [exists EXCEPT !["archive"] = TRUE]
  /\ Goto(p, "move")
  /\ UNCHANGED <<entry, temps, ver, text, k, mem, env>>

----------------------------------------------------------------------------
(* _move_new and _complete_relocation_entry: link, verify, unlink, verify. *)

\* Advance to the next file to move, or to the directory syncs after the last.
NextMove(p) ==
  IF k[p] = LastName(p)
    THEN Goto(p, "sync") /\ k' = [k EXCEPT ![p] = 1]
    ELSE Goto(p, "move") /\ k' = [k EXCEPT ![p] = k[p] + 1]

\* The name had already left the source directory.
ConfirmMoved(p) ==
  /\ pc[p] = "move"
  /\ mem[p].src[k[p]] = NoMeta
  /\ Require(p, /\ entry[SrcDir(p)][k[p]] = None
                /\ Seen(entry["archive"][k[p]]) = mem[p].dst[k[p]],
       NextMove(p) /\ UNCHANGED <<disk, mem, env>>)

\* The name is in the source directory only.
StartMove(p) ==
  /\ pc[p] = "move"
  /\ mem[p].src[k[p]] # NoMeta /\ mem[p].dst[k[p]] = NoMeta
  /\ Require(p, /\ entry["archive"][k[p]] = None
                /\ Seen(entry[SrcDir(p)][k[p]]) = mem[p].src[k[p]],
       /\ Recall(p, [mem[p] EXCEPT !.cur = mem[p].src[k[p]]])
       /\ Goto(p, "link")
       /\ UNCHANGED <<disk, k, env>>)

\* Mutant: a name in both places is a conflict.
RetireRefused(p) ==
  /\ pc[p] = "move"
  /\ mem[p].src[k[p]] # NoMeta /\ mem[p].dst[k[p]] # NoMeta
  /\ Raise(p)

\* The name is in both: an earlier run was stopped between link and unlink.
StartRetire(p) ==
  /\ pc[p] = "move"
  /\ mem[p].src[k[p]] # NoMeta /\ mem[p].dst[k[p]] # NoMeta
  /\ LET s == entry[SrcDir(p)][k[p]]
         d == entry["archive"][k[p]]
     IN Require(p, /\ Seen(s) = mem[p].src[k[p]]
                   /\ Seen(d) = mem[p].dst[k[p]]
                   /\ SameFile(Seen(s), Seen(d))
                   /\ Links(d) >= 2,
          /\ Recall(p, [mem[p] EXCEPT !.cur = [Meta(d) EXCEPT !.nlink = @ - 1]])
          /\ Goto(p, "unlink")
          /\ UNCHANGED <<disk, k, env>>)

\* Mutant: os.replace in place of os.link, which takes over a target that
\* appeared after the check.
LinkReplacing(p) ==
  /\ pc[p] = "link"
  /\ LET s == entry[SrcDir(p)][k[p]] IN
     Require(p, s # None,
       /\ entry' = [entry EXCEPT !["archive"][k[p]] = s]
       /\ Goto(p, "verify_link")
       /\ UNCHANGED <<exists, temps, ver, text, k, mem, env>>)

\* Mutant: os.rename in place of os.link.
LinkByRename(p) ==
  /\ pc[p] = "link"
  /\ LET s == entry[SrcDir(p)][k[p]] IN
     Require(p, s # None /\ entry["archive"][k[p]] = None,
       /\ entry' = [entry EXCEPT ![SrcDir(p)][k[p]] = None,
                                 !["archive"][k[p]] = s]
       /\ Goto(p, "verify_link")
       /\ UNCHANGED <<exists, temps, ver, text, k, mem, env>>)

\* os.link fails when the target exists or the source is gone.
Link(p) ==
  /\ pc[p] = "link"
  /\ LET s == entry[SrcDir(p)][k[p]] IN
     Require(p, s # None /\ entry["archive"][k[p]] = None,
       /\ entry' = [entry EXCEPT !["archive"][k[p]] = s]
       /\ Goto(p, "verify_link")
       /\ UNCHANGED <<exists, temps, ver, text, k, mem, env>>)

VerifyLink(p) ==
  /\ pc[p] = "verify_link"
  /\ LET s == Seen(entry[SrcDir(p)][k[p]])
         d == Seen(entry["archive"][k[p]])
         cur == mem[p].cur
     IN Require(p, /\ SameFile(s, cur) /\ SameFile(d, cur)
                   /\ s.nlink = cur.nlink + 1
                   /\ d.nlink = s.nlink,
          Goto(p, "unlink") /\ UNCHANGED <<disk, k, mem, env>>)

Unlink(p) ==
  /\ pc[p] = "unlink"
  /\ Require(p, entry[SrcDir(p)][k[p]] # None,
       /\ entry' = [entry EXCEPT ![SrcDir(p)][k[p]] = None]
       /\ Goto(p, "verify_move")
       /\ UNCHANGED <<exists, temps, ver, text, k, mem, env>>)

VerifyMove(p) ==
  /\ pc[p] = "verify_move"
  /\ LET d == Seen(entry["archive"][k[p]]) IN
     Require(p, d = mem[p].cur,
       NextMove(p) /\ UNCHANGED <<disk, mem, env>>)

\* _sync_directory of both directories: the source one must still be there.
Sync(p) ==
  /\ pc[p] = "sync"
  /\ Require(p, exists[SrcDir(p)],
       /\ Recall(p, [mem[p] EXCEPT !.phase = "check"])
       /\ Goto(p, "look")
       /\ UNCHANGED <<disk, k, env>>)

----------------------------------------------------------------------------
(* _write_receipt_new and the end of _relocate_verified_archive.           *)

FreeInodes == {i \in Inodes : i > Foreign /\ Links(i) = 0}

\* Mutant: the archive is not compared with the survey.
SealUncompared(p) ==
  /\ pc[p] = "receipt"
  /\ Require(p, entry["archive"][Receipt] = None,
       \E i \in FreeInodes :
         /\ temps' = temps \cup {i}
         /\ text' = [text EXCEPT ![i] = NoText]
         /\ Recall(p, [mem[p] EXCEPT !.temp = i])
         /\ Goto(p, "write")
         /\ UNCHANGED <<entry, exists, ver, k, env>>)

\* post_move_verification, receipt_conflict, then mkstemp.
MakeTemp(p) ==
  /\ pc[p] = "receipt"
  /\ Require(p, mem[p].again = mem[p].first /\ entry["archive"][Receipt] = None,
       \E i \in FreeInodes :
         /\ temps' = temps \cup {i}
         /\ text' = [text EXCEPT ![i] = NoText]
         /\ Recall(p, [mem[p] EXCEPT !.temp = i])
         /\ Goto(p, "write")
         /\ UNCHANGED <<entry, exists, ver, k, env>>)

WriteTemp(p) ==
  /\ pc[p] = "write"
  /\ text' = [text EXCEPT ![mem[p].temp] = mem[p].again]
  /\ Goto(p, "publish")
  /\ UNCHANGED <<entry, exists, temps, ver, k, mem, env>>

\* os.link; when it fails the finally clause removes the temporary file.
Publish(p) ==
  /\ pc[p] = "publish"
  /\ IF entry["archive"][Receipt] = None
       THEN /\ entry' = [entry EXCEPT !["archive"][Receipt] = mem[p].temp]
            /\ Goto(p, "drop_temp")
            /\ UNCHANGED <<exists, temps, ver, text, k, mem, env>>
       ELSE /\ Return(p, "error")
            /\ temps' = temps \ {mem[p].temp}
            /\ UNCHANGED <<entry, exists, ver, text, env>>

DropTemp(p) ==
  /\ pc[p] = "drop_temp"
  /\ temps' = temps \ {mem[p].temp}
  /\ Return(p, "migrated")
  /\ UNCHANGED <<entry, exists, ver, text, env>>

\* The previous archive must be empty before rmdir; scandir of a directory
\* that is gone yields nothing.
ScanCleanup(p) ==
  /\ pc[p] = "scan_cleanup"
  /\ Require(p, Listing("legacy") = {},
       Goto(p, "rmdir") /\ UNCHANGED <<disk, k, mem, env>>)

Rmdir(p) ==
  /\ pc[p] = "rmdir"
  /\ Require(p, exists["legacy"] /\ Listing("legacy") = {},
       /\ exists' = [exists EXCEPT !["legacy"] = FALSE]
       /\ Return(p, "relocated")
       /\ UNCHANGED <<entry, temps, ver, text, env>>)

----------------------------------------------------------------------------
(* The world around a run.                                                 *)

Active(p) == pc[p] \notin Final

\* An OSError at any call raises and runs the finally clause, whose unlink
\* may itself fail; a kill runs nothing.
IoError(p) ==
  /\ Active(p) /\ faults < MaxFaults
  /\ faults' = faults + 1
  /\ temps' \in {temps, temps \ {mem[p].temp}}
  /\ Return(p, "error")
  /\ UNCHANGED <<entry, exists, ver, text, edits>>

Kill(p) ==
  /\ Active(p) /\ faults < MaxFaults
  /\ faults' = faults + 1
  /\ Return(p, "killed")
  /\ UNCHANGED <<entry, exists, temps, ver, text, edits>>

\* The operator runs the script again.
Rerun(p) ==
  /\ pc[p] \in Final
  /\ Goto(p, "start")
  /\ UNCHANGED <<disk, k, mem, env>>

\* Another program changes the bytes of a data file.
Edit(i) ==
  /\ edits < MaxEdits
  /\ i \in Files
  /\ edits' = edits + 1
  /\ ver' = [ver EXCEPT ![i] = @ + 1]
  /\ UNCHANGED <<entry, exists, temps, text, pc, k, mem, faults>>

\* Another program puts a file of its own under a free name of the archive.
Intrude(n) ==
  /\ edits < MaxEdits
  /\ exists["archive"] /\ entry["archive"][n] = None
  /\ \A d \in Dirs : Foreign \notin {entry[d][m] : m \in Names}
  /\ edits' = edits + 1
  /\ entry' = [entry EXCEPT !["archive"][n] = Foreign]
  /\ UNCHANGED <<exists, temps, ver, text, pc, k, mem, faults>>

Observe(p) == \/ SeeArchive(p) \/ SeeLegacy(p) \/ ScanArchive(p)
              \/ ScanLegacy(p) \/ Choose(p) \/ Look(p) \/ Read(p)
Move(p)    == \/ Mkdir(p) \/ ConfirmMoved(p) \/ StartMove(p) \/ StartRetire(p)
              \/ Link(p) \/ VerifyLink(p) \/ Unlink(p) \/ VerifyMove(p)
Seal(p)    == \/ Sync(p) \/ MakeTemp(p) \/ WriteTemp(p) \/ Publish(p)
              \/ DropTemp(p) \/ ScanCleanup(p) \/ Rmdir(p)
Step(p)    == Observe(p) \/ Move(p) \/ Seal(p)

Next ==
  \/ \E p \in Procs : Step(p) \/ Rerun(p) \/ IoError(p) \/ Kill(p)
  \/ \E i \in Files : Edit(i)
  \/ \E n \in Names : Intrude(n)

Spec == Init /\ [][Next]_vars

\* A live process makes its next call, and the operator reruns a run that
\* did not succeed.
FairSpec == Spec /\ \A p \in Procs : WF_vars(Step(p)) /\ WF_vars(Rerun(p))
----------------------------------------------------------------------------
(* Properties.                                                             *)

Labels == {"start", "see_legacy", "scan_archive", "scan_legacy", "choose",
           "look", "digest", "mkdir", "move", "link", "verify_link", "unlink",
           "verify_move", "sync", "receipt", "write", "publish", "drop_temp",
           "scan_cleanup", "rmdir"} \cup Final

Digests  == [file : Inodes \cup {None}, ver : 0 .. MaxEdits]
Receipts == [Files -> Digests]
Metas    == [ino : Inodes \cup {None}, ver : 0 .. MaxEdits, nlink : Int]
Memories == [archiveThere : BOOLEAN, legacyThere : BOOLEAN,
             archiveNames : SUBSET Names, legacyNames : SUBSET Names,
             route : {"none", "fresh", "relocate", "verify"},
             phase : {"survey", "check"},
             src : [Names -> Metas], dst : [Names -> Metas],
             first : Receipts, again : Receipts,
             cur : Metas, temp : Inodes \cup {None}]

\* Every variable keeps its shape.
TypeOK ==
  /\ entry \in [Dirs -> [Names -> Inodes \cup {None}]]
  /\ exists \in [Dirs -> BOOLEAN]
  /\ temps \subseteq Inodes
  /\ ver \in [Inodes -> 0 .. MaxEdits]
  /\ text \in [Inodes -> Receipts]
  /\ pc \in [Procs -> Labels]
  /\ k \in [Procs -> Names]
  /\ mem \in [Procs -> Memories]
  /\ faults \in 0 .. MaxFaults
  /\ edits \in 0 .. MaxEdits

Named(i) == \E d \in Dirs, n \in Names : entry[d][n] = i

\* No file is ever lost: once an inode has a name in one of the three
\* directories, no step of any run, and no kill between two calls, takes its
\* last name away (the order link, verify, unlink of _move_new).
NoFileLost == [][\A i \in Inodes : Named(i) => Named(i)']_vars

\* "never replaces an existing file" (module docstring): a name of the
\* archive, the receipt's included, stays bound to the inode that took it,
\* whoever put that inode there.
NeverReplaces ==
  [][\A n \in Names : entry["archive"][n] # None =>
       entry'["archive"][n] = entry["archive"][n]]_vars

\* A receipt that says something: another program's file says nothing.
Sealed == /\ entry["archive"][Receipt] # None
          /\ entry["archive"][Receipt] # Foreign

\* The receipt comes last and is true: when it is in the archive, so is every
\* file it lists, the very inode it describes, and no other run still holds a
\* file of the list in a source directory; and a fresh run publishes the digests
\* it took before the first move: an edit between the inventory of data/raw and
\* that of the archive stops it (post_move_verification_failed).
SealIsTrue ==
  /\ Sealed => \A n \in Files :
       /\ entry["archive"][n] # None
       /\ text[entry["archive"][Receipt]][n].file = entry["archive"][n]
       /\ entry["raw"][n] = None /\ entry["legacy"][n] = None
  /\ \A p \in Procs : pc[p] = "drop_temp" =>
       text[entry["archive"][Receipt]] = mem[p].first

\* A run that reports success leaves every file in a sealed archive, nothing
\* in the source directories, and no previous archive directory.
SuccessIsComplete ==
  (\E p \in Procs : pc[p] \in {"migrated", "relocated", "verified"}) =>
    /\ Sealed
    /\ Listing("archive") = Names
    /\ Listing("raw") = {} /\ Listing("legacy") = {}
    /\ ~exists["legacy"]

\* A fresh run that has linked its first file and has not returned.
Holding(p) ==
  /\ mem[p].route = "fresh"
  /\ \/ mem[p].phase = "check"
     \/ pc[p] \in {"verify_link", "unlink", "verify_move", "sync"}
     \/ pc[p] \in {"move", "link"} /\ k[p] > 1

\* There is no lock: the link of the first file is one.  Two runs that both
\* saw a fresh state never both get past it.
OneFreshRunMoves ==
  \A p, q \in Procs : Holding(p) /\ Holding(q) => p = q

\* The three states of the module docstring.
FreshState    == Listing("raw") = Files /\ ~exists["archive"] /\ ~exists["legacy"]
ArchivedState == /\ Listing("raw") = {} /\ ~exists["legacy"]
                 /\ Listing("archive") = Names
SplitState    == /\ Listing("raw") = {} /\ exists["legacy"]
                 /\ Listing("archive") \cup Listing("legacy") = Names

\* A relocation, wherever it was stopped and however many runs work at it, is
\* finished by running it again, unless another program changes its files.
RelocationCompletes == SplitState ~> (edits > 0 \/ (ArchivedState /\ Sealed))

\* The abstract archive: a file is in the archive when its own inode is.
InSource(n) == entry["raw"][n] = n \/ entry["legacy"][n] = n
Place == [n \in Files |->
            IF entry["archive"][n] # n THEN "source"
            ELSE IF InSource(n) THEN "both" ELSE "archive"]

Abstract == INSTANCE ArchiveMove WITH place <- Place, sealed <- Sealed

\* Any number of runs, kills, edits and intrusions do no more than copy each
\* file, retire it, and seal the archive once all are in it.
ImplementsArchive == Abstract!Spec
=============================================================================
