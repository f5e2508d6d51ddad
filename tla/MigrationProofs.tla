--------------------------- MODULE MigrationProofs ---------------------------
(***************************************************************************)
(* What holds of the migration for every list of files, every set of runs  *)
(* and every bound on faults and edits.                                    *)
(***************************************************************************)
EXTENDS MCMigration, FiniteSetTheorems, TLAPS

\* The two halves of the types: what the runs remember, what is on disk.
RunsOK ==
  /\ pc \in [Procs -> Labels]
  /\ k \in [Procs -> Names]
  /\ mem \in [Procs -> Memories]

DiskOK ==
  /\ entry \in [Dirs -> [Names -> Inodes \cup {None}]]
  /\ exists \in [Dirs -> BOOLEAN]
  /\ temps \subseteq Inodes
  /\ ver \in [Inodes -> 0 .. MaxEdits]
  /\ text \in [Inodes -> Receipts]
  /\ faults \in 0 .. MaxFaults
  /\ edits \in 0 .. MaxEdits
  /\ \A i \in Inodes : ver[i] <= edits

\* A run is at the head of its list until it starts to work through it, and a
\* fresh run never looks past the last file.
Head == Final \cup {"start", "see_legacy", "scan_archive", "scan_legacy",
                    "choose", "mkdir", "sync", "receipt", "scan_cleanup"}

RunPlaced(p) ==
  /\ pc[p] \in Head => k[p] = 1
  /\ mem[p].route = "fresh" => k[p] \in Files

\* The strengthening of TypeOK that is inductive.
TypeInv == RunsOK /\ DiskOK /\ \A p \in Procs : RunPlaced(p)

LEMMA TypeInvTypes == TypeInv => TypeOK
BY DEF TypeInv, TypeOK, RunsOK, DiskOK

\* The link count of an inode is a number.
LEMMA LinksType == \A i : Links(i) \in Int
<1> SUFFICES ASSUME NEW i PROVE Links(i) \in Int
  OBVIOUS
<1>1. ASSUME NEW d PROVE LinksIn(d, i) \in Nat
  <2>1. IsFiniteSet(Names)
    BY MigrationAssumption, FS_Interval DEF Names
  <2>2. {n \in Names : entry[d][n] = i} \in SUBSET Names
    OBVIOUS
  <2>3. IsFiniteSet({n \in Names : entry[d][n] = i})
    BY <2>1, <2>2, FS_Subset
  <2> QED BY <2>3, FS_CardinalityType DEF LinksIn
<1> QED BY <1>1 DEF Links

\* What a look at a name returns is a fingerprint.
LEMMA SeenType ==
  ASSUME TypeOK, NEW i \in Inodes \cup {None}
  PROVE  Seen(i) \in Metas /\ (i # None => Meta(i) \in Metas)
<1>1. i \in Inodes => Meta(i) \in Metas
  BY LinksType DEF TypeOK, Metas, Meta
<1>2. NoMeta \in Metas
  BY MigrationAssumption DEF NoMeta, Metas, None
<1> QED BY <1>1, <1>2 DEF Seen

LEMMA FreshType == Fresh \in Memories
<1>1. NoMeta \in Metas
  BY MigrationAssumption DEF NoMeta, Metas, None
<1>2. NoText \in Receipts
  BY MigrationAssumption DEF NoText, Receipts, Digests, None
<1> QED BY <1>1, <1>2 DEF Fresh, Memories, None

LEMMA InitTypeInv == Init => TypeInv
<1> SUFFICES ASSUME Init PROVE TypeInv
  OBVIOUS
<1> USE MigrationAssumption
<1>1. NoText \in Receipts /\ OldReceipt \in Receipts
  BY DEF NoText, OldReceipt, Receipts, Digests, None, Files, Inodes
<1>2. text \in [Inodes -> Receipts]
  BY <1>1 DEF Init
<1>3. entry \in [Dirs -> [Names -> Inodes \cup {None}]]
  <2>1. ASSUME NEW kind PROVE Layout(kind) \in [Dirs -> [Names -> Inodes \cup {None}]]
    BY DEF Layout, Dirs, Names, Files, Inodes, None
  <2> QED BY <2>1 DEF Init
<1>4. exists \in [Dirs -> BOOLEAN]
  BY DEF Init
<1>5. Fresh.route = "none"
  BY DEF Fresh
<1>6. RunsOK /\ DiskOK
  BY <1>2, <1>3, <1>4, FreshType DEF Init, RunsOK, DiskOK, Labels, Final, Names
<1>7. \A p \in Procs : RunPlaced(p)
  BY <1>5 DEF Init, RunPlaced
<1> QED BY <1>6, <1>7 DEF TypeInv

\* A step of run p that leaves it at a label, a place and a memory that fit
\* together, and the other runs alone.
LEMMA RunStep ==
  ASSUME TypeInv, NEW p \in Procs,
         NEW label \in Labels, NEW place \in Names, NEW record \in Memories,
         pc' = [pc EXCEPT ![p] = label],
         k' = [k EXCEPT ![p] = place],
         mem' = [mem EXCEPT ![p] = record],
         label \in Head => place = 1,
         record.route = "fresh" => place \in Files
  PROVE  RunsOK' /\ \A q \in Procs : RunPlaced(q)'
<1>1. RunsOK'
  BY DEF TypeInv, RunsOK
<1>2. ASSUME NEW q \in Procs PROVE RunPlaced(q)'
  BY <1>2 DEF TypeInv, RunsOK, RunPlaced
<1> QED BY <1>1, <1>2

LEMMA ReturnStep ==
  ASSUME TypeInv, NEW p \in Procs, NEW how \in Final, Return(p, how)
  PROVE  RunsOK' /\ \A q \in Procs : RunPlaced(q)'
<1>1. 1 \in Names /\ Fresh.route # "fresh"
  BY MigrationAssumption DEF Names, Fresh
<1> QED BY <1>1, FreshType, RunStep DEF Return, Goto, Recall, Labels

LEMMA DiskSame == ASSUME TypeInv, UNCHANGED <<disk, env>> PROVE DiskOK'
BY DEF TypeInv, DiskOK, disk, env

LEMMA RaiseStep ==
  ASSUME TypeInv, NEW p \in Procs, Raise(p) PROVE TypeInv'
<1>1. "error" \in Final
  BY DEF Final
<1> QED BY <1>1, ReturnStep, DiskSame DEF Raise, TypeInv

\* A step of run p that changes its label and its memory, and nothing on disk.
LEMMA RememberStep ==
  ASSUME TypeInv, NEW p \in Procs,
         NEW label \in Labels, NEW record \in Memories,
         Goto(p, label), Recall(p, record), UNCHANGED <<disk, k, env>>,
         label \in Head => k[p] = 1,
         record.route = "fresh" => k[p] \in Files
  PROVE  TypeInv'
<1>1. k[p] \in Names /\ k' = [k EXCEPT ![p] = k[p]]
  BY DEF TypeInv, RunsOK
<1>2. RunsOK' /\ \A q \in Procs : RunPlaced(q)'
  BY <1>1, RunStep DEF Goto, Recall
<1> QED BY <1>2, DiskSame DEF TypeInv

\* A step of run p that changes its label, and perhaps the disk.
LEMMA LabelStep ==
  ASSUME TypeInv, NEW p \in Procs, NEW label \in Labels,
         Goto(p, label), UNCHANGED <<k, mem>>,
         label \in Head => k[p] = 1
  PROVE  RunsOK' /\ \A q \in Procs : RunPlaced(q)'
<1>1. RunsOK'
  BY DEF TypeInv, RunsOK, Goto
<1>2. ASSUME NEW q \in Procs PROVE RunPlaced(q)'
  BY <1>2 DEF TypeInv, RunsOK, RunPlaced, Goto
<1> QED BY <1>1, <1>2

LEMMA GotoStep ==
  ASSUME TypeInv, NEW p \in Procs, NEW label \in Labels,
         Goto(p, label), UNCHANGED <<disk, k, mem, env>>,
         label \in Head => k[p] = 1
  PROVE  TypeInv'
<1>1. RunsOK' /\ \A q \in Procs : RunPlaced(q)'
  BY LabelStep
<1> QED BY <1>1, DiskSame DEF TypeInv

\* The first part of a run, up to the digests of each pass.
LEMMA ObserveTypeInv ==
  ASSUME TypeInv, NEW p \in Procs, Observe(p) PROVE TypeInv'
<1> DEFINE m == mem[p]
<1>0. m \in Memories /\ k[p] \in Names /\ RunPlaced(p)
  BY DEF TypeInv, RunsOK
<1>1. CASE SeeArchive(p)
  <2> DEFINE r == [m EXCEPT !.archiveThere = exists["archive"]]
  <2>1. r \in Memories /\ r.route = m.route
    BY <1>0 DEF Memories, TypeInv, DiskOK, Dirs
  <2>2. Goto(p, "see_legacy") /\ Recall(p, r) /\ UNCHANGED <<disk, k, env>>
    BY <1>1 DEF SeeArchive
  <2>3. k[p] = 1
    BY <1>0, <1>1 DEF SeeArchive, RunPlaced, Head
  <2> HIDE DEF r
  <2> QED BY <1>0, <2>1, <2>2, <2>3, RememberStep DEF Labels, RunPlaced
<1>2. CASE SeeLegacy(p)
  <2> DEFINE r == [m EXCEPT !.legacyThere = exists["legacy"]]
  <2>1. r \in Memories /\ r.route = m.route
    BY <1>0 DEF Memories, TypeInv, DiskOK, Dirs
  <2>2. Goto(p, "scan_archive") /\ Recall(p, r) /\ UNCHANGED <<disk, k, env>>
    BY <1>2 DEF SeeLegacy
  <2>3. k[p] = 1
    BY <1>0, <1>2 DEF SeeLegacy, RunPlaced, Head
  <2> HIDE DEF r
  <2> QED BY <1>0, <2>1, <2>2, <2>3, RememberStep DEF Labels, RunPlaced
<1>3. CASE ScanArchive(p)
  <2> DEFINE r == [m EXCEPT !.archiveNames = Listing("archive")]
  <2>1. r \in Memories /\ r.route = m.route
    BY <1>0 DEF Memories, Listing
  <2>2. \/ Raise(p)
        \/ Goto(p, "scan_legacy") /\ Recall(p, r) /\ UNCHANGED <<disk, k, env>>
    BY <1>3 DEF ScanArchive, Require
  <2>3. k[p] = 1
    BY <1>0, <1>3 DEF ScanArchive, RunPlaced, Head
  <2> HIDE DEF r
  <2> QED BY <1>0, <2>1, <2>2, <2>3, RaiseStep, RememberStep
        DEF Labels, RunPlaced
<1>4. CASE ScanLegacy(p)
  <2> DEFINE r == [m EXCEPT !.legacyNames = Listing("legacy")]
  <2>1. r \in Memories /\ r.route = m.route
    BY <1>0 DEF Memories, Listing
  <2>2. Goto(p, "choose") /\ Recall(p, r) /\ UNCHANGED <<disk, k, env>>
    BY <1>4 DEF ScanLegacy
  <2>3. k[p] = 1
    BY <1>0, <1>4 DEF ScanLegacy, RunPlaced, Head
  <2> HIDE DEF r
  <2> QED BY <1>0, <2>1, <2>2, <2>3, RememberStep DEF Labels, RunPlaced
<1>5. CASE Choose(p)
  <2> DEFINE route == Route(p, Listing("raw"))
             r == [m EXCEPT !.route = route,
                            !.phase = IF route = "verify" THEN "check"
                                                          ELSE "survey"]
  <2>1. route \in {"none", "fresh", "relocate", "verify"}
    BY DEF Route
  <2>2. \/ Raise(p)
        \/ Goto(p, "look") /\ Recall(p, r) /\ UNCHANGED <<disk, k, env>>
    BY <1>5 DEF Choose, Require
  <2>3. k[p] = 1 /\ 1 \in Files
    BY <1>0, <1>5, MigrationAssumption DEF Choose, RunPlaced, Head, Files
  <2> HIDE DEF route
  <2>4. r \in Memories
    BY <1>0, <2>1 DEF Memories
  <2> HIDE DEF r
  <2> QED BY <2>2, <2>3, <2>4, RaiseStep, RememberStep DEF Labels
<1>6. CASE Look(p)
  <2>1. CASE SurveyLook(p)
    <3> DEFINE s == IF k[p] \in SrcNames(p) THEN entry[SrcDir(p)][k[p]] ELSE None
               d == IF k[p] \in DstNames(p) THEN entry["archive"][k[p]] ELSE None
               c == IF d = None THEN Seen(s) ELSE Seen(d)
               r == [m EXCEPT !.src[k[p]] = Seen(s), !.dst[k[p]] = Seen(d),
                              !.cur = c]
    <3>1. Seen(s) \in Metas /\ Seen(d) \in Metas /\ c \in Metas
      <4>1. s \in Inodes \cup {None} /\ d \in Inodes \cup {None}
        BY <1>0 DEF TypeInv, DiskOK, SrcDir, Dirs
      <4> QED BY <4>1, SeenType, TypeInvTypes
    <3>2. \/ Raise(p)
          \/ Goto(p, "digest") /\ Recall(p, r) /\ UNCHANGED <<disk, k, env>>
      BY <2>1 DEF SurveyLook, Require
    <3> HIDE DEF s, d, c
    <3>3. r \in Memories /\ r.route = m.route
      BY <1>0, <3>1 DEF Memories
    <3> HIDE DEF r
    <3> QED BY <1>0, <3>2, <3>3, RaiseStep, RememberStep
          DEF Labels, Head, Final, RunPlaced
  <2>2. CASE CheckLook(p)
    <3> DEFINE d == entry["archive"][k[p]]
               c == Meta(d)
               r == [m EXCEPT !.cur = c]
    <3>1. d # None => c \in Metas
      <4>1. d \in Inodes \cup {None}
        BY <1>0 DEF TypeInv, DiskOK, Dirs
      <4> QED BY <4>1, SeenType, TypeInvTypes
    <3>2. \/ Raise(p)
          \/ /\ d # None
             /\ Goto(p, "digest") /\ Recall(p, r) /\ UNCHANGED <<disk, k, env>>
      BY <2>2 DEF CheckLook, Require
    <3> HIDE DEF c
    <3>3. d # None => r \in Memories /\ r.route = m.route
      BY <1>0, <3>1 DEF Memories
    <3> HIDE DEF r, d
    <3> QED BY <1>0, <3>2, <3>3, RaiseStep, RememberStep
          DEF Labels, Head, Final, RunPlaced
  <2> QED BY <1>6, <2>1, <2>2 DEF Look
<1>7. CASE Read(p)
  <2>1. AfterPass(p) \in Labels \cap Head
    BY DEF AfterPass, Labels, Head, Final
  <2>2. pc[p] = "digest"
    BY <1>7 DEF Read
  <2>3. CASE Raise(p)
    BY <2>3, RaiseStep
  <2>4. ASSUME NEW i \in Inodes, ReadFile(p, i), UNCHANGED <<disk, env>>,
               k[p] # Receipt
        PROVE  TypeInv'
    <3> DEFINE r == IF m.phase = "survey"
                      THEN [m EXCEPT !.first[k[p]] = Digest(i)]
                      ELSE [m EXCEPT !.again[k[p]] = Digest(i)]
    <3>1. Digest(i) \in Digests
      BY DEF Digest, Digests, TypeInv, DiskOK
    <3>2. k[p] \in Files
      BY <1>0, <2>4, MigrationAssumption DEF Names, Files, Receipt
    <3>3. Recall(p, r)
      BY <2>4 DEF ReadFile
    <3>4. r \in Memories /\ r.route = m.route
      BY <1>0, <3>1, <3>2 DEF Memories, Receipts
    <3> HIDE DEF r
    <3>5. DiskOK'
      BY <2>4, DiskSame
    <3>6. CASE k[p] = LastName(p)
      <4>1. Goto(p, AfterPass(p)) /\ k' = [k EXCEPT ![p] = 1]
        BY <2>4, <3>6 DEF ReadFile
      <4>2. 1 \in Files /\ 1 \in Names
        BY MigrationAssumption DEF Files, Names
      <4> QED BY <2>1, <3>3, <3>4, <3>5, <4>1, <4>2, RunStep
            DEF Goto, Recall, TypeInv
    <3>7. CASE k[p] # LastName(p)
      <4>1. Goto(p, "look") /\ k' = [k EXCEPT ![p] = k[p] + 1]
        BY <2>4, <3>7 DEF ReadFile
      <4>2. k[p] + 1 \in Names
        BY <3>2, MigrationAssumption DEF Files, Names
      <4>3. m.route = "fresh" => k[p] + 1 \in Files
        BY <3>2, <3>7, MigrationAssumption DEF LastName, Files
      <4>4. "look" \in Labels /\ "look" \notin Head
        BY DEF Labels, Head, Final
      <4> QED BY <3>3, <3>4, <3>5, <4>1, <4>2, <4>3, <4>4, RunStep
            DEF Goto, Recall, TypeInv
    <3> QED BY <3>6, <3>7
  <2>5. CASE ReadReceipt(p) /\ UNCHANGED <<disk, env>>
    <3>1. DiskOK'
      BY <2>5, DiskSame
    <3>2. CASE Return(p, "verified")
      BY <3>1, <3>2, ReturnStep DEF Final, TypeInv
    <3>3. CASE /\ Goto(p, AfterPass(p))
               /\ k' = [k EXCEPT ![p] = 1]
               /\ UNCHANGED mem
      <4>1. 1 \in Files /\ 1 \in Names
        BY MigrationAssumption DEF Files, Names
      <4>2. mem' = [mem EXCEPT ![p] = m]
        BY <3>3 DEF TypeInv, RunsOK
      <4> QED BY <1>0, <2>1, <3>1, <3>3, <4>1, <4>2, RunStep
            DEF Goto, TypeInv
    <3> QED BY <2>5, <3>2, <3>3 DEF ReadReceipt
  <2>6. Digested(p) \in Inodes \cup {None}
    BY <1>0 DEF Digested, SrcDir, TypeInv, DiskOK, Dirs
  <2> QED BY <1>7, <2>3, <2>4, <2>5, <2>6 DEF Read, Require
<1> QED BY <1>1, <1>2, <1>3, <1>4, <1>5, <1>6, <1>7 DEF Observe

\* The moves: the disk changes in Mkdir, Link and Unlink only.
LEMMA MoveTypeInv ==
  ASSUME TypeInv, NEW p \in Procs, Move(p) PROVE TypeInv'
<1> DEFINE m == mem[p]
<1>0. m \in Memories /\ k[p] \in Names /\ RunPlaced(p)
  BY DEF TypeInv, RunsOK
<1>a. mem' = mem => mem' = [mem EXCEPT ![p] = m]
  BY DEF TypeInv, RunsOK
<1>b. 1 \in Files /\ 1 \in Names
  BY MigrationAssumption DEF Files, Names
<1>c. SrcDir(p) \in Dirs /\ "archive" \in Dirs
  BY DEF SrcDir, Dirs
<1>1. CASE Mkdir(p)
  <2>1. DiskOK'
    BY <1>1 DEF Mkdir, TypeInv, DiskOK, env
  <2>2. Goto(p, "move") /\ mem' = mem /\ k' = k
    BY <1>1 DEF Mkdir
  <2>3. "move" \in Labels /\ "move" \notin Head
    BY DEF Labels, Head, Final
  <2> QED BY <2>1, <2>2, <2>3, LabelStep DEF TypeInv
<1>2. ASSUME NextMove(p), UNCHANGED <<disk, mem, env>> PROVE TypeInv'
  <2>1. CASE k[p] = LastName(p)
    <3>1. Goto(p, "sync") /\ k' = [k EXCEPT ![p] = 1]
      BY <1>2, <2>1 DEF NextMove
    <3>2. "sync" \in Labels
      BY DEF Labels
    <3> QED BY <1>0, <1>2, <1>a, <1>b, <3>1, <3>2, RunStep, DiskSame
          DEF Goto, TypeInv
  <2>2. CASE k[p] # LastName(p)
    <3>1. Goto(p, "move") /\ k' = [k EXCEPT ![p] = k[p] + 1]
      BY <1>2, <2>2 DEF NextMove
    <3>2. k[p] + 1 \in Names /\ (m.route = "fresh" => k[p] + 1 \in Files)
      BY <1>0, <2>2, MigrationAssumption
         DEF LastName, RunPlaced, Names, Files, Receipt
    <3>3. "move" \in Labels /\ "move" \notin Head
      BY DEF Labels, Head, Final
    <3> QED BY <1>0, <1>2, <1>a, <3>1, <3>2, <3>3, RunStep, DiskSame
          DEF Goto, TypeInv
  <2> QED BY <2>1, <2>2
<1>3. CASE ConfirmMoved(p)
  <2>1. Raise(p) \/ (NextMove(p) /\ UNCHANGED <<disk, mem, env>>)
    BY <1>3 DEF ConfirmMoved, Require
  <2> QED BY <1>2, <2>1, RaiseStep
<1>4. CASE StartMove(p)
  <2> DEFINE r == [m EXCEPT !.cur = m.src[k[p]]]
  <2>1. r \in Memories /\ r.route = m.route
    BY <1>0 DEF Memories
  <2>2. Raise(p) \/ (Recall(p, r) /\ Goto(p, "link") /\ UNCHANGED <<disk, k, env>>)
    BY <1>4 DEF StartMove, Require
  <2>3. "link" \in Labels /\ "link" \notin Head
    BY DEF Labels, Head, Final
  <2> HIDE DEF r
  <2> QED BY <1>0, <2>1, <2>2, <2>3, RaiseStep, RememberStep DEF RunPlaced
<1>5. CASE StartRetire(p)
  <2> DEFINE s == entry[SrcDir(p)][k[p]]
             d == entry["archive"][k[p]]
             c == [Meta(d) EXCEPT !.nlink = @ - 1]
             r == [m EXCEPT !.cur = c]
  <2>1. \/ Raise(p)
        \/ /\ Seen(d) = m.dst[k[p]] /\ m.dst[k[p]] # NoMeta
           /\ Recall(p, r) /\ Goto(p, "unlink") /\ UNCHANGED <<disk, k, env>>
    BY <1>5 DEF StartRetire, Require
  <2>2. d # None => Meta(d) \in Metas
    <3>1. d \in Inodes \cup {None}
      BY <1>0 DEF TypeInv, DiskOK, Dirs
    <3> QED BY <3>1, SeenType, TypeInvTypes
  <2>3. Seen(d) # NoMeta => d # None
    BY DEF Seen
  <2> HIDE DEF d
  <2>4. d # None => c \in Metas
    BY <2>2 DEF Metas
  <2> HIDE DEF c
  <2>5. d # None => r \in Memories /\ r.route = m.route
    BY <1>0, <2>4 DEF Memories
  <2>6. "unlink" \in Labels /\ "unlink" \notin Head
    BY DEF Labels, Head, Final
  <2> HIDE DEF r
  <2> QED BY <1>0, <2>1, <2>3, <2>5, <2>6, RaiseStep, RememberStep DEF RunPlaced
<1>6. CASE Link(p)
  <2> DEFINE s == entry[SrcDir(p)][k[p]]
  <2>1. CASE Raise(p)
    BY <2>1, RaiseStep
  <2>2. CASE /\ entry' = [entry EXCEPT !["archive"][k[p]] = s]
             /\ Goto(p, "verify_link")
             /\ UNCHANGED <<exists, temps, ver, text, k, mem, env>>
    <3>1. s \in Inodes \cup {None}
      BY <1>0, <1>c DEF TypeInv, DiskOK
    <3> HIDE DEF s
    <3>2. DiskOK'
      BY <1>0, <2>2, <3>1 DEF TypeInv, DiskOK, Dirs, env
    <3>3. "verify_link" \in Labels /\ "verify_link" \notin Head
      BY DEF Labels, Head, Final
    <3> QED BY <2>2, <3>2, <3>3, LabelStep DEF TypeInv
  <2> QED BY <1>6, <2>1, <2>2 DEF Link, Require
<1>7. CASE VerifyLink(p)
  <2>1. Raise(p) \/ (Goto(p, "unlink") /\ UNCHANGED <<disk, k, mem, env>>)
    BY <1>7 DEF VerifyLink, Require
  <2>2. "unlink" \in Labels /\ "unlink" \notin Head
    BY DEF Labels, Head, Final
  <2> QED BY <2>1, <2>2, RaiseStep, GotoStep
<1>8. CASE Unlink(p)
  <2>1. CASE Raise(p)
    BY <2>1, RaiseStep
  <2>2. CASE /\ entry' = [entry EXCEPT ![SrcDir(p)][k[p]] = None]
             /\ Goto(p, "verify_move")
             /\ UNCHANGED <<exists, temps, ver, text, k, mem, env>>
    <3>1. DiskOK'
      BY <1>0, <1>c, <2>2 DEF TypeInv, DiskOK, env
    <3>2. "verify_move" \in Labels /\ "verify_move" \notin Head
      BY DEF Labels, Head, Final
    <3> QED BY <2>2, <3>1, <3>2, LabelStep DEF TypeInv
  <2> QED BY <1>8, <2>1, <2>2 DEF Unlink, Require
<1>9. CASE VerifyMove(p)
  <2>1. Raise(p) \/ (NextMove(p) /\ UNCHANGED <<disk, mem, env>>)
    BY <1>9 DEF VerifyMove, Require
  <2> QED BY <1>2, <2>1, RaiseStep
<1> QED BY <1>1, <1>3, <1>4, <1>5, <1>6, <1>7, <1>8, <1>9 DEF Move

\* The receipt, and the end of a run.
LEMMA SealTypeInv ==
  ASSUME TypeInv, NEW p \in Procs, Seal(p) PROVE TypeInv'
<1> DEFINE m == mem[p]
<1>0. m \in Memories /\ k[p] \in Names /\ RunPlaced(p)
  BY DEF TypeInv, RunsOK
<1>1. CASE Sync(p)
  <2> DEFINE r == [m EXCEPT !.phase = "check"]
  <2>1. r \in Memories /\ r.route = m.route
    BY <1>0 DEF Memories
  <2>2. Raise(p) \/ (Recall(p, r) /\ Goto(p, "look") /\ UNCHANGED <<disk, k, env>>)
    BY <1>1 DEF Sync, Require
  <2>3. "look" \in Labels /\ "look" \notin Head
    BY DEF Labels, Head, Final
  <2> HIDE DEF r
  <2> QED BY <1>0, <2>1, <2>2, <2>3, RaiseStep, RememberStep DEF RunPlaced
<1>2. CASE MakeTemp(p)
  <2>1. CASE Raise(p)
    BY <2>1, RaiseStep
  <2>2. ASSUME NEW i \in FreeInodes,
               temps' = temps \cup {i},
               text' = [text EXCEPT ![i] = NoText],
               Recall(p, [m EXCEPT !.temp = i]),
               Goto(p, "write"),
               UNCHANGED <<entry, exists, ver, k, env>>
        PROVE  TypeInv'
    <3> DEFINE r == [m EXCEPT !.temp = i]
    <3>1. i \in Inodes
      BY DEF FreeInodes
    <3>2. r \in Memories /\ r.route = m.route
      BY <1>0, <3>1 DEF Memories
    <3>3. NoText \in Receipts
      BY MigrationAssumption DEF NoText, Receipts, Digests, None
    <3>4. DiskOK'
      BY <2>2, <3>1, <3>3 DEF TypeInv, DiskOK, env
    <3>5. "write" \in Labels /\ "write" \notin Head
      BY DEF Labels, Head, Final
    <3>6. k' = [k EXCEPT ![p] = k[p]]
      BY <2>2 DEF TypeInv, RunsOK
    <3>7. mem' = [mem EXCEPT ![p] = r]
      BY <2>2 DEF Recall
    <3> HIDE DEF r
    <3>8. RunsOK' /\ \A q \in Procs : RunPlaced(q)'
      BY <1>0, <2>2, <3>2, <3>5, <3>6, <3>7, RunStep DEF Goto, RunPlaced
    <3> QED BY <3>4, <3>8 DEF TypeInv
  <2> QED BY <1>2, <2>1, <2>2 DEF MakeTemp, Require
<1>3. CASE WriteTemp(p)
  <2>1. m.again \in Receipts
    BY <1>0 DEF Memories
  <2>2. DiskOK'
    BY <1>3, <2>1 DEF WriteTemp, TypeInv, DiskOK, env
  <2>3. "publish" \in Labels /\ "publish" \notin Head
    BY DEF Labels, Head, Final
  <2> QED BY <1>3, <2>2, <2>3, LabelStep DEF WriteTemp, TypeInv
<1>4. CASE Publish(p)
  <2>1. CASE entry["archive"][Receipt] = None
    <3>1. m.temp \in Inodes \cup {None}
      BY <1>0 DEF Memories
    <3>2. /\ entry' = [entry EXCEPT !["archive"][Receipt] = m.temp]
          /\ Goto(p, "drop_temp")
          /\ UNCHANGED <<exists, temps, ver, text, k, mem, env>>
      BY <1>4, <2>1 DEF Publish
    <3>3. DiskOK'
      BY <3>1, <3>2 DEF TypeInv, DiskOK, env
    <3>4. "drop_temp" \in Labels /\ "drop_temp" \notin Head
      BY DEF Labels, Head, Final
    <3> QED BY <3>2, <3>3, <3>4, LabelStep DEF TypeInv
  <2>2. CASE entry["archive"][Receipt] # None
    <3>1. DiskOK'
      BY <1>4, <2>2 DEF Publish, TypeInv, DiskOK, env
    <3>2. Return(p, "error") /\ "error" \in Final
      BY <1>4, <2>2 DEF Publish, Final
    <3> QED BY <3>1, <3>2, ReturnStep DEF TypeInv
  <2> QED BY <2>1, <2>2
<1>5. CASE DropTemp(p)
  <2>1. DiskOK'
    BY <1>5 DEF DropTemp, TypeInv, DiskOK, env
  <2>2. Return(p, "migrated") /\ "migrated" \in Final
    BY <1>5 DEF DropTemp, Final
  <2> QED BY <2>1, <2>2, ReturnStep DEF TypeInv
<1>6. CASE ScanCleanup(p)
  <2>1. Raise(p) \/ (Goto(p, "rmdir") /\ UNCHANGED <<disk, k, mem, env>>)
    BY <1>6 DEF ScanCleanup, Require
  <2>2. "rmdir" \in Labels /\ "rmdir" \notin Head
    BY DEF Labels, Head, Final
  <2> QED BY <2>1, <2>2, RaiseStep, GotoStep
<1>7. CASE Rmdir(p)
  <2>1. CASE Raise(p)
    BY <2>1, RaiseStep
  <2>2. CASE /\ exists' = [exists EXCEPT !["legacy"] = FALSE]
             /\ Return(p, "relocated")
             /\ UNCHANGED <<entry, temps, ver, text, env>>
    <3>1. DiskOK'
      BY <2>2 DEF TypeInv, DiskOK, env
    <3>2. "relocated" \in Final
      BY DEF Final
    <3> QED BY <2>2, <3>1, <3>2, ReturnStep DEF TypeInv
  <2> QED BY <1>7, <2>1, <2>2 DEF Rmdir, Require
<1> QED BY <1>1, <1>2, <1>3, <1>4, <1>5, <1>6, <1>7 DEF Seal

\* No step of a run or of the world around it breaks the types.
LEMMA NextTypeInv == TypeInv /\ [Next]_vars => TypeInv'
<1> SUFFICES ASSUME TypeInv, [Next]_vars PROVE TypeInv'
  OBVIOUS
<1>1. CASE UNCHANGED vars
  BY <1>1 DEF vars, TypeInv, RunsOK, DiskOK, RunPlaced
<1>2. ASSUME NEW p \in Procs, Step(p) PROVE TypeInv'
  BY <1>2, ObserveTypeInv, MoveTypeInv, SealTypeInv DEF Step
<1>3. ASSUME NEW p \in Procs, Rerun(p) PROVE TypeInv'
  <2>1. "start" \in Labels /\ k[p] = 1
    BY <1>3 DEF Labels, Rerun, TypeInv, RunPlaced, Head
  <2> QED BY <1>3, <2>1, GotoStep DEF Rerun
<1>4. ASSUME NEW p \in Procs, IoError(p) \/ Kill(p) PROVE TypeInv'
  <2>1. DiskOK'
    BY <1>4, MigrationAssumption DEF IoError, Kill, TypeInv, DiskOK
  <2>2. \E how \in Final : Return(p, how)
    BY <1>4 DEF IoError, Kill, Final
  <2> QED BY <2>1, <2>2, ReturnStep DEF TypeInv
<1>5. ASSUME NEW i \in Files, Edit(i) PROVE TypeInv'
  <2>1. i \in Inodes
    BY MigrationAssumption DEF Files, Inodes
  <2>2. DiskOK'
    BY <1>5, <2>1, MigrationAssumption DEF Edit, TypeInv, DiskOK
  <2> QED BY <1>5, <2>2 DEF Edit, TypeInv, RunsOK, RunPlaced
<1>6. ASSUME NEW n \in Names, Intrude(n) PROVE TypeInv'
  <2>1. Foreign \in Inodes
    BY MigrationAssumption DEF Foreign, Inodes
  <2>2. entry' \in [Dirs -> [Names -> Inodes \cup {None}]]
    <3>1. entry' = [entry EXCEPT !["archive"][n] = Foreign]
      BY <1>6 DEF Intrude
    <3> HIDE DEF Foreign
    <3> QED BY <2>1, <3>1 DEF TypeInv, DiskOK
  <2>3. edits' \in 0 .. MaxEdits /\ edits <= edits'
    BY <1>6, MigrationAssumption DEF Intrude, TypeInv, DiskOK
  <2>4. DiskOK'
    BY <1>6, <2>2, <2>3, MigrationAssumption DEF Intrude, TypeInv, DiskOK
  <2> QED BY <1>6, <2>4 DEF Intrude, TypeInv, RunsOK, RunPlaced
<1> QED BY <1>1, <1>2, <1>3, <1>4, <1>5, <1>6 DEF Next

LEMMA TypeInvariance == Spec => []TypeInv
BY InitTypeInv, NextTypeInv, PTL DEF Spec

\* Type correctness: every directory, file, label and memory keeps its shape,
\* whatever the number of files and of runs.
THEOREM TypeCorrect == Spec => []TypeOK
BY TypeInvariance, TypeInvTypes, PTL

----------------------------------------------------------------------------
(* What one step does to a run and to the directories.                     *)

\* A run changes its own label, place and memory only.
OwnStep(q) ==
  \A p \in Procs \ {q} : pc'[p] = pc[p] /\ k'[p] = k[p] /\ mem'[p] = mem[p]

LEMMA GotoOthers ==
  ASSUME TypeInv, NEW q \in Procs, NEW label, Goto(q, label),
         \/ k' = k
         \/ \E x : k' = [k EXCEPT ![q] = x],
         \/ mem' = mem
         \/ \E x : Recall(q, x)
  PROVE  OwnStep(q)
<1> SUFFICES ASSUME NEW p \in Procs \ {q}
             PROVE pc'[p] = pc[p] /\ k'[p] = k[p] /\ mem'[p] = mem[p]
  BY DEF OwnStep
<1>1. pc'[p] = pc[p]
  BY DEF Goto, TypeInv, RunsOK
<1>2. k'[p] = k[p]
  BY DEF TypeInv, RunsOK
<1>3. mem'[p] = mem[p]
  BY DEF Recall, TypeInv, RunsOK
<1> QED BY <1>1, <1>2, <1>3

LEMMA ReturnOthers ==
  ASSUME TypeInv, NEW q \in Procs, NEW how, Return(q, how) PROVE OwnStep(q)
BY GotoOthers DEF Return

LEMMA StepOthers ==
  ASSUME TypeInv, NEW q \in Procs, Step(q) PROVE OwnStep(q)
<1>1. CASE Raise(q)
  BY <1>1, ReturnOthers DEF Raise
<1>2. CASE ~Raise(q)
  <2>1. CASE SeeArchive(q) \/ SeeLegacy(q) \/ ScanArchive(q) \/ ScanLegacy(q)
             \/ Choose(q)
    BY <1>2, <2>1, GotoOthers
       DEF SeeArchive, SeeLegacy, ScanArchive, ScanLegacy, Choose, Require
  <2>2. CASE Look(q)
    BY <1>2, <2>2, GotoOthers DEF Look, SurveyLook, CheckLook, Require
  <2>3. CASE Read(q)
    <3>1. (\E i : ReadFile(q, i)) \/ ReadReceipt(q)
      BY <1>2, <2>3 DEF Read, Require
    <3>2. CASE \E i : ReadFile(q, i)
      BY <3>2, GotoOthers DEF ReadFile
    <3>3. CASE ReadReceipt(q)
      BY <3>3, GotoOthers, ReturnOthers DEF ReadReceipt
    <3> QED BY <3>1, <3>2, <3>3
  <2>4. CASE Mkdir(q) \/ StartMove(q) \/ StartRetire(q) \/ Link(q)
             \/ VerifyLink(q) \/ Unlink(q)
    BY <1>2, <2>4, GotoOthers
       DEF Mkdir, StartMove, StartRetire, Link, VerifyLink, Unlink, Require
  <2>5. CASE ConfirmMoved(q) \/ VerifyMove(q)
    <3>1. NextMove(q) /\ mem' = mem
      BY <1>2, <2>5 DEF ConfirmMoved, VerifyMove, Require
    <3> QED BY <3>1, GotoOthers DEF NextMove
  <2>6. CASE Sync(q) \/ MakeTemp(q) \/ WriteTemp(q) \/ ScanCleanup(q)
    BY <1>2, <2>6, GotoOthers
       DEF Sync, MakeTemp, WriteTemp, ScanCleanup, Require
  <2>7. CASE Publish(q) \/ DropTemp(q) \/ Rmdir(q)
    BY <1>2, <2>7, GotoOthers, ReturnOthers
       DEF Publish, DropTemp, Rmdir, Require
  <2> QED BY <2>1, <2>2, <2>3, <2>4, <2>5, <2>6, <2>7
        DEF Step, Observe, Move, Seal
<1> QED BY <1>1, <1>2

\* Every other step leaves the runs alone, starts one again or ends one.
LEMMA NextOthers ==
  ASSUME TypeInv, [Next]_vars
  PROVE  \/ UNCHANGED <<pc, k, mem>>
         \/ \E q \in Procs :
              /\ OwnStep(q)
              /\ Step(q) \/ Rerun(q) \/ \E how \in Final : Return(q, how)
<1>1. CASE UNCHANGED vars
  BY <1>1 DEF vars
<1>2. ASSUME NEW q \in Procs, Step(q) PROVE OwnStep(q)
  BY <1>2, StepOthers
<1>3. ASSUME NEW q \in Procs, Rerun(q) PROVE OwnStep(q)
  BY <1>3, GotoOthers DEF Rerun
<1>4. ASSUME NEW q \in Procs, IoError(q) \/ Kill(q)
      PROVE  OwnStep(q) /\ \E how \in Final : Return(q, how)
  <2>1. PICK how \in Final : Return(q, how)
    BY <1>4 DEF IoError, Kill, Final
  <2> QED BY <2>1, ReturnOthers
<1>5. ASSUME NEW i \in Files, Edit(i) PROVE UNCHANGED <<pc, k, mem>>
  BY <1>5 DEF Edit
<1>6. ASSUME NEW n \in Names, Intrude(n) PROVE UNCHANGED <<pc, k, mem>>
  BY <1>6 DEF Intrude
<1> QED BY <1>1, <1>2, <1>3, <1>4, <1>5, <1>6 DEF Next

\* The directories change in three ways only: a name of the archive that was
\* free is taken (by the link of a move, of the receipt, or by an intruder),
\* or a run takes a name out of its source directory.
Taken == \E n \in Names, i \in Inodes \cup {None} :
           /\ entry["archive"][n] = None
           /\ entry' = [entry EXCEPT !["archive"][n] = i]

Retired == \E p \in Procs :
             /\ pc[p] = "unlink"
             /\ entry' = [entry EXCEPT ![SrcDir(p)][k[p]] = None]

LEMMA EntryStep ==
  ASSUME TypeInv, [Next]_vars PROVE entry' = entry \/ Taken \/ Retired
<1>1. CASE UNCHANGED vars
  BY <1>1 DEF vars
<1>2. ASSUME NEW p \in Procs, Step(p) PROVE entry' = entry \/ Taken \/ Retired
  <2>1. CASE Raise(p)
    BY <2>1 DEF Raise, disk
  <2>2. CASE Link(p) /\ ~Raise(p)
    <3> DEFINE s == entry[SrcDir(p)][k[p]]
    <3>1. s \in Inodes \cup {None} /\ k[p] \in Names
      BY DEF TypeInv, DiskOK, RunsOK, SrcDir, Dirs
    <3>2. /\ entry["archive"][k[p]] = None
          /\ entry' = [entry EXCEPT !["archive"][k[p]] = s]
      BY <2>2 DEF Link, Require
    <3> QED BY <3>1, <3>2 DEF Taken
  <2>3. CASE Unlink(p) /\ ~Raise(p)
    BY <2>3 DEF Unlink, Require, Retired
  <2>4. CASE Publish(p)
    <3>1. mem[p].temp \in Inodes \cup {None}
      <4>1. mem[p] \in Memories
        BY DEF TypeInv, RunsOK
      <4> QED BY <4>1 DEF Memories
    <3>2. Receipt \in Names
      BY MigrationAssumption DEF Receipt, Names
    <3> QED BY <2>4, <3>1, <3>2 DEF Publish, Taken
  <2>5. CASE /\ ~Raise(p) /\ ~Link(p) /\ ~Unlink(p) /\ ~Publish(p)
    <3>1. CASE Observe(p)
      BY <2>5, <3>1 DEF Observe, SeeArchive, SeeLegacy, ScanArchive, ScanLegacy,
         Choose, Look, SurveyLook, CheckLook, Read, Require, disk
    <3>2. CASE Move(p)
      BY <2>5, <3>2 DEF Move, Mkdir, ConfirmMoved, StartMove, StartRetire,
         VerifyLink, VerifyMove, Require, disk
    <3>3. CASE Seal(p)
      BY <2>5, <3>3 DEF Seal, Sync, MakeTemp, WriteTemp, DropTemp, ScanCleanup,
         Rmdir, Require, disk
    <3> QED BY <1>2, <3>1, <3>2, <3>3 DEF Step
  <2> QED BY <2>1, <2>2, <2>3, <2>4, <2>5
<1>3. ASSUME NEW p \in Procs, Rerun(p) \/ IoError(p) \/ Kill(p)
      PROVE  entry' = entry
  BY <1>3 DEF Rerun, IoError, Kill, disk
<1>4. ASSUME NEW i \in Files, Edit(i) PROVE entry' = entry
  BY <1>4 DEF Edit
<1>5. ASSUME NEW n \in Names, Intrude(n) PROVE Taken
  <2>1. Foreign \in Inodes
    BY MigrationAssumption DEF Foreign, Inodes
  <2> QED BY <1>5, <2>1 DEF Intrude, Taken
<1> QED BY <1>1, <1>2, <1>3, <1>4, <1>5 DEF Next

----------------------------------------------------------------------------
(* Nothing in the archive is replaced.                                     *)

LEMMA ArchiveGrows ==
  ASSUME TypeInv, [Next]_vars
  PROVE  \A n \in Names : entry["archive"][n] # None =>
           entry'["archive"][n] = entry["archive"][n]
<1>1. CASE Taken
  BY <1>1 DEF Taken, TypeInv, DiskOK, Dirs
<1>2. CASE Retired
  BY <1>2 DEF Retired, SrcDir, TypeInv, DiskOK, RunsOK, Dirs
<1> QED BY <1>1, <1>2, EntryStep

\* "never replaces an existing file": a name of the archive stays bound to the
\* inode that took it, for any number of runs, kills, edits and intruders.
THEOREM NothingReplaced == Spec => NeverReplaces
<1>1. TypeInv /\ [Next]_vars =>
        [\A n \in Names : entry["archive"][n] # None =>
           entry'["archive"][n] = entry["archive"][n]]_vars
  BY ArchiveGrows
<1> QED BY <1>1, TypeInvariance, PTL DEF Spec, NeverReplaces

----------------------------------------------------------------------------
(* No file is lost.                                                        *)

\* A run is about to unlink a name: the archive has the same inode, or the
\* name is gone already.
UnlinkIsSafe(p) ==
  pc[p] = "unlink" =>
    \/ entry[SrcDir(p)][k[p]] = None
    \/ entry[SrcDir(p)][k[p]] = entry["archive"][k[p]]

SafeInv == \A p \in Procs : UnlinkIsSafe(p)

\* A run comes to the unlink from the checks of a new link, or from those of
\* a file found in both places.
LEMMA ReachUnlink ==
  ASSUME TypeInv, NEW q \in Procs, Step(q), pc'[q] = "unlink"
  PROVE  (VerifyLink(q) \/ StartRetire(q)) /\ ~Raise(q)
<1> USE DEF Goto
<1>0. pc \in [Procs -> Labels]
  BY DEF TypeInv, RunsOK
<1>1. ASSUME NEW how \in Final, Return(q, how) PROVE FALSE
  BY <1>0, <1>1 DEF Return, Final
<1>2. ~Raise(q)
  BY <1>1 DEF Raise, Final
<1>3. CASE Observe(q)
  <2>1. ~SeeArchive(q) /\ ~SeeLegacy(q) /\ ~ScanLegacy(q)
    BY <1>0 DEF SeeArchive, SeeLegacy, ScanLegacy
  <2>2. ~ScanArchive(q) /\ ~Choose(q)
    BY <1>0, <1>2 DEF ScanArchive, Choose, Require
  <2>3. ~Look(q)
    BY <1>0, <1>2 DEF Look, SurveyLook, CheckLook, Require
  <2>4. ~Read(q)
    <3>1. AfterPass(q) # "unlink"
      BY DEF AfterPass
    <3>2. \A i : ~ReadFile(q, i)
      BY <1>0, <3>1 DEF ReadFile
    <3>3. ~ReadReceipt(q)
      BY <1>0, <1>1, <3>1 DEF ReadReceipt, Final
    <3> QED BY <1>2, <3>2, <3>3 DEF Read, Require
  <2> QED BY <1>3, <2>1, <2>2, <2>3, <2>4 DEF Observe
<1>4. CASE Move(q)
  <2>1. ~NextMove(q)
    BY <1>0 DEF NextMove
  <2>2. ~ConfirmMoved(q) /\ ~VerifyMove(q)
    BY <1>2, <2>1 DEF ConfirmMoved, VerifyMove, Require
  <2>3. ~Mkdir(q) /\ ~StartMove(q) /\ ~Link(q) /\ ~Unlink(q)
    BY <1>0, <1>2 DEF Mkdir, StartMove, Link, Unlink, Require
  <2> QED BY <1>2, <1>4, <2>2, <2>3 DEF Move
<1>5. CASE Seal(q)
  <2>1. ~Sync(q) /\ ~MakeTemp(q) /\ ~WriteTemp(q) /\ ~ScanCleanup(q)
    BY <1>0, <1>2 DEF Sync, MakeTemp, WriteTemp, ScanCleanup, Require
  <2>2. ~Publish(q) /\ ~DropTemp(q) /\ ~Rmdir(q)
    BY <1>0, <1>1, <1>2 DEF Publish, DropTemp, Rmdir, Require, Final
  <2> QED BY <1>5, <2>1, <2>2 DEF Seal
<1> QED BY <1>3, <1>4, <1>5 DEF Step

\* Two looks that see the same file see the same inode.
LEMMA SeenSame ==
  ASSUME NEW i \in Inodes \cup {None}, NEW j \in Inodes \cup {None}, NEW c,
         SameFile(Seen(i), c), SameFile(Seen(j), c)
  PROVE  i = j
<1>1. Seen(i).ino = i /\ Seen(j).ino = j
  BY DEF Seen, Meta, NoMeta, None
<1> QED BY <1>1 DEF SameFile

LEMMA NextSafeInv == TypeInv /\ SafeInv /\ [Next]_vars => SafeInv'
<1> SUFFICES ASSUME TypeInv, SafeInv, [Next]_vars, NEW p \in Procs,
                    pc'[p] = "unlink"
             PROVE  UnlinkIsSafe(p)'
  BY DEF SafeInv, UnlinkIsSafe
<1>0. k[p] \in Names /\ SrcDir(p) \in {"raw", "legacy"}
  BY DEF TypeInv, RunsOK, SrcDir
<1>1. CASE pc[p] = "unlink" /\ k'[p] = k[p] /\ mem'[p] = mem[p]
  <2>1. SrcDir(p)' = SrcDir(p)
    BY <1>1 DEF SrcDir
  <2>2. UnlinkIsSafe(p)
    BY DEF SafeInv
  <2>3. CASE Taken
    BY <1>0, <1>1, <2>1, <2>2, <2>3
       DEF Taken, UnlinkIsSafe, TypeInv, DiskOK, Dirs
  <2>4. CASE Retired
    BY <1>0, <1>1, <2>1, <2>2, <2>4
       DEF Retired, UnlinkIsSafe, SrcDir, TypeInv, DiskOK, RunsOK, Dirs
  <2>5. CASE entry' = entry
    BY <1>1, <2>1, <2>2, <2>5 DEF UnlinkIsSafe
  <2> QED BY <2>3, <2>4, <2>5, EntryStep
<1>2. CASE Step(p) /\ pc'[p] = "unlink"
  <2> DEFINE s == entry[SrcDir(p)][k[p]]
             d == entry["archive"][k[p]]
  <2>1. s \in Inodes \cup {None} /\ d \in Inodes \cup {None}
    BY <1>0 DEF TypeInv, DiskOK, Dirs
  <2>2. (VerifyLink(p) \/ StartRetire(p)) /\ ~Raise(p)
    BY <1>2, ReachUnlink
  <2>3. CASE VerifyLink(p)
    <3>1. /\ SameFile(Seen(s), mem[p].cur) /\ SameFile(Seen(d), mem[p].cur)
          /\ entry' = entry /\ k' = k /\ mem' = mem
      BY <2>2, <2>3 DEF VerifyLink, Require, disk
    <3>2. s = d
      BY <2>1, <3>1, SeenSame
    <3> QED BY <3>1, <3>2 DEF UnlinkIsSafe, SrcDir
  <2>4. CASE StartRetire(p)
    <3> DEFINE r == [mem[p] EXCEPT !.cur = [Meta(d) EXCEPT !.nlink = @ - 1]]
    <3>1. /\ SameFile(Seen(s), Seen(d))
          /\ entry' = entry /\ k' = k /\ Recall(p, r)
      BY <2>2, <2>4 DEF StartRetire, Require, disk
    <3>2. s = d
      BY <2>1, <3>1, SeenSame DEF SameFile
    <3>3. mem'[p].route = mem[p].route
      <4>1. r.route = mem[p].route
        BY DEF TypeInv, RunsOK, Memories
      <4> HIDE DEF r
      <4> QED BY <3>1, <4>1 DEF Recall, TypeInv, RunsOK
    <3> QED BY <3>1, <3>2, <3>3 DEF UnlinkIsSafe, SrcDir
  <2> QED BY <2>2, <2>3, <2>4
<1>3. \/ pc[p] = "unlink" /\ k'[p] = k[p] /\ mem'[p] = mem[p]
      \/ Step(p)
  <2>1. ASSUME NEW q \in Procs,
               Rerun(q) \/ \E how \in Final : Return(q, how)
        PROVE  pc'[q] # "unlink"
    BY <2>1 DEF Rerun, Return, Goto, TypeInv, RunsOK, Final
  <2> QED BY <2>1, NextOthers DEF OwnStep
<1> QED BY <1>1, <1>2, <1>3

\* One step keeps a name for every inode that has one.
LEMMA StepKeepsNames ==
  ASSUME TypeInv, SafeInv, [Next]_vars
  PROVE  \A i \in Inodes : Named(i) => Named(i)'
<1> SUFFICES ASSUME NEW i \in Inodes,
                    NEW d \in Dirs, NEW n \in Names, entry[d][n] = i
             PROVE  \E e \in Dirs, m \in Names : entry'[e][m] = i
  BY DEF Named
<1>0. i # None
  BY MigrationAssumption DEF Inodes, None
<1>1. CASE entry' = entry
  BY <1>1
<1>2. CASE Taken
  BY <1>0, <1>2 DEF Taken, TypeInv, DiskOK, Dirs
<1>3. CASE Retired
  <2>1. PICK p \in Procs :
          /\ pc[p] = "unlink"
          /\ entry' = [entry EXCEPT ![SrcDir(p)][k[p]] = None]
    BY <1>3 DEF Retired
  <2>2. UnlinkIsSafe(p) /\ k[p] \in Names /\ SrcDir(p) \in {"raw", "legacy"}
    BY DEF SafeInv, TypeInv, RunsOK, SrcDir
  <2>3. CASE d = SrcDir(p) /\ n = k[p]
    <3>1. entry["archive"][n] = i
      BY <1>0, <2>1, <2>2, <2>3 DEF UnlinkIsSafe
    <3>2. entry'["archive"][n] = i
      BY <2>1, <2>2, <3>1 DEF TypeInv, DiskOK, Dirs
    <3> QED BY <3>2 DEF Dirs
  <2>4. CASE ~(d = SrcDir(p) /\ n = k[p])
    BY <2>1, <2>2, <2>4 DEF TypeInv, DiskOK
  <2> QED BY <2>3, <2>4
<1> QED BY <1>1, <1>2, <1>3, EntryStep

LEMMA SafeInvariance == Spec => []SafeInv
<1>1. Init => SafeInv
  BY DEF Init, SafeInv, UnlinkIsSafe
<1> QED BY <1>1, TypeInvariance, NextSafeInv, PTL DEF Spec

\* No file is lost: an inode that has a name in one of the three directories
\* has one after every step, of any number of runs, kills, edits, intruders.
THEOREM NoFileIsLost == Spec => NoFileLost
<1>1. TypeInv /\ SafeInv /\ [Next]_vars =>
        [\A i \in Inodes : Named(i) => Named(i)']_vars
  BY StepKeepsNames
<1> QED BY <1>1, TypeInvariance, SafeInvariance, PTL DEF Spec, NoFileLost

----------------------------------------------------------------------------
(* Two runs that both saw a fresh state.                                   *)

Early == Final \cup {"start", "see_legacy", "scan_archive", "scan_legacy",
                     "choose"}

\* A run has no route until it chooses one; a fresh run has the fingerprint of
\* each file it has looked at in data/raw, and of none in the archive.
Surveyed(p) ==
  /\ pc[p] \in Early <=> mem[p].route = "none"
  /\ mem[p].route \in {"none", "fresh"} =>
       \A n \in Names : mem[p].dst[n] = NoMeta
  /\ mem[p].route = "fresh" =>
       \A n \in Files :
         \/ n < k[p]
         \/ n = k[p] /\ pc[p] = "digest"
         \/ pc[p] \notin {"look", "digest"}
         \/ mem[p].phase = "check"
         => mem[p].src[n] # NoMeta

\* The run that has linked the first file holds the archive.
HolderInv ==
  /\ \A p \in Procs : Surveyed(p)
  /\ \A p \in Procs : Holding(p) => entry["archive"][1] # None
  /\ OneFreshRunMoves

\* What a step of run p must show: what it has surveyed, and that it comes to
\* hold the archive only by taking the first name of it.
Fits(p) ==
  /\ Surveyed(p)'
  /\ Holding(p)' => \/ Holding(p)
                    \/ /\ entry["archive"][1] = None
                       /\ entry'["archive"][1] # None

Kept(p) ==
  /\ mem'[p].route = mem[p].route /\ mem'[p].phase = mem[p].phase
  /\ mem'[p].src = mem[p].src /\ mem'[p].dst = mem[p].dst

LEMMA ReturnFits ==
  ASSUME TypeInv, NEW p \in Procs, NEW how \in Final, Return(p, how)
  PROVE  Fits(p)
<1>1. mem'[p] = Fresh /\ pc'[p] = how
  BY DEF Return, Goto, Recall, TypeInv, RunsOK
<1>2. Fresh.route = "none" /\ \A n \in Names : Fresh.dst[n] = NoMeta
  BY DEF Fresh
<1> QED BY <1>1, <1>2 DEF Fits, Surveyed, Holding, Early

LEMMA RaiseFits ==
  ASSUME TypeInv, NEW p \in Procs, Raise(p) PROVE Fits(p)
BY ReturnFits DEF Raise, Final

\* A step between two labels of the moves or of the seal.
Later == Labels \ (Early \cup {"look", "digest"})

LEMMA LaterFits ==
  ASSUME TypeInv, NEW p \in Procs, Surveyed(p), Kept(p),
         pc[p] \in Later, pc'[p] \in Later,
         Holding(p)' => Holding(p)
  PROVE  Fits(p)
BY DEF Fits, Surveyed, Kept, Later

LEMMA SameMemory ==
  ASSUME NEW p \in Procs, mem' = mem PROVE Kept(p)
BY DEF Kept

LEMMA ObserveFits ==
  ASSUME TypeInv, NEW p \in Procs, Surveyed(p), Observe(p) PROVE Fits(p)
<1> DEFINE m == mem[p]
<1>0. m \in Memories /\ k[p] \in Names /\ RunPlaced(p) /\ pc[p] \in Labels
  BY DEF TypeInv, RunsOK
<1>1. ASSUME NEW l \in {"see_legacy", "scan_archive", "scan_legacy", "choose"},
             NEW r, Goto(p, l), Recall(p, r), pc[p] \in Early,
             r.route = m.route, r.dst = m.dst
      PROVE  Fits(p)
  <2>1. mem'[p] = r /\ pc'[p] = l
    BY <1>1 DEF Goto, Recall, TypeInv, RunsOK
  <2> QED BY <1>1, <2>1 DEF Fits, Surveyed, Holding, Early
<1>2. CASE SeeArchive(p)
  <2> DEFINE r == [m EXCEPT !.archiveThere = exists["archive"]]
  <2>1. r.route = m.route /\ r.dst = m.dst
    BY <1>0 DEF Memories
  <2>2. Goto(p, "see_legacy") /\ Recall(p, r) /\ pc[p] \in Early
    BY <1>2 DEF SeeArchive, Early
  <2> HIDE DEF r
  <2> QED BY <1>1, <2>1, <2>2
<1>3. CASE SeeLegacy(p)
  <2> DEFINE r == [m EXCEPT !.legacyThere = exists["legacy"]]
  <2>1. r.route = m.route /\ r.dst = m.dst
    BY <1>0 DEF Memories
  <2>2. Goto(p, "scan_archive") /\ Recall(p, r) /\ pc[p] \in Early
    BY <1>3 DEF SeeLegacy, Early
  <2> HIDE DEF r
  <2> QED BY <1>1, <2>1, <2>2
<1>4. CASE ScanArchive(p)
  <2> DEFINE r == [m EXCEPT !.archiveNames = Listing("archive")]
  <2>1. r.route = m.route /\ r.dst = m.dst
    BY <1>0 DEF Memories
  <2>2. pc[p] \in Early /\ (Raise(p) \/ (Goto(p, "scan_legacy") /\ Recall(p, r)))
    BY <1>4 DEF ScanArchive, Require, Early
  <2> HIDE DEF r
  <2> QED BY <1>1, <2>1, <2>2, RaiseFits
<1>5. CASE ScanLegacy(p)
  <2> DEFINE r == [m EXCEPT !.legacyNames = Listing("legacy")]
  <2>1. r.route = m.route /\ r.dst = m.dst
    BY <1>0 DEF Memories
  <2>2. Goto(p, "choose") /\ Recall(p, r) /\ pc[p] \in Early
    BY <1>5 DEF ScanLegacy, Early
  <2> HIDE DEF r
  <2> QED BY <1>1, <2>1, <2>2
<1>6. CASE Choose(p)
  <2> DEFINE route == Route(p, Listing("raw"))
             r == [m EXCEPT !.route = route,
                            !.phase = IF route = "verify" THEN "check"
                                                          ELSE "survey"]
  <2>1. \/ Raise(p)
        \/ /\ route # "none"
           /\ Goto(p, "look") /\ Recall(p, r) /\ k' = k
    BY <1>6 DEF Choose, Require
  <2>2. k[p] = 1 /\ m.route = "none"
    BY <1>0, <1>6 DEF Choose, RunPlaced, Head, Surveyed, Early
  <2> HIDE DEF route
  <2>3. /\ r.route = route /\ r.dst = m.dst
        /\ r.phase = "check" => route = "verify"
    BY <1>0 DEF Memories
  <2> HIDE DEF r
  <2>4. CASE Goto(p, "look") /\ Recall(p, r) /\ k' = k /\ route # "none"
    <3>1. mem'[p] = r /\ pc'[p] = "look" /\ k'[p] = 1
      BY <2>2, <2>4 DEF Goto, Recall, TypeInv, RunsOK
    <3>2. Surveyed(p)'
      BY <2>2, <2>3, <2>4, <3>1 DEF Surveyed, Early, Final, Files
    <3>3. ~Holding(p)'
      BY <2>3, <3>1 DEF Holding
    <3> QED BY <3>2, <3>3 DEF Fits
  <2> QED BY <2>1, <2>4, RaiseFits
<1>7. CASE Look(p)
  <2>1. CASE Raise(p)
    BY <2>1, RaiseFits
  <2>2. CASE SurveyLook(p) /\ m.phase = "survey" /\ ~Raise(p)
    <3> DEFINE s == IF k[p] \in SrcNames(p) THEN entry[SrcDir(p)][k[p]] ELSE None
               d == IF k[p] \in DstNames(p) THEN entry["archive"][k[p]] ELSE None
               r == [m EXCEPT !.src[k[p]] = Seen(s), !.dst[k[p]] = Seen(d),
                              !.cur = IF d = None THEN Seen(s) ELSE Seen(d)]
    <3>1. /\ k[p] \in SrcNames(p) => s # None
          /\ Goto(p, "digest") /\ Recall(p, r) /\ k' = k
      BY <2>2 DEF SurveyLook, Require
    <3>2. /\ m.route = "fresh" => k[p] \in SrcNames(p) /\ k[p] \notin DstNames(p)
          /\ m.route # "none"
      BY <1>0, <1>7 DEF SrcNames, DstNames, RunPlaced, Look, Surveyed, Early,
                        Final
    <3>3. m.route = "fresh" => Seen(d) = NoMeta
      BY <3>2 DEF Seen
    <3>4. m.route = "fresh" => Seen(s) # NoMeta
      <4>1. s # None => Meta(s).ino # None
        BY DEF Meta
      <4>2. NoMeta.ino = None
        BY DEF NoMeta
      <4> QED BY <3>1, <3>2, <4>1, <4>2 DEF Seen
    <3> HIDE DEF s, d
    <3>5. /\ r.route = m.route /\ r.phase = m.phase
          /\ \A n \in Names : n # k[p] => r.src[n] = m.src[n] /\ r.dst[n] = m.dst[n]
          /\ r.src[k[p]] = Seen(s) /\ r.dst[k[p]] = Seen(d)
      BY <1>0 DEF Memories
    <3> HIDE DEF r
    <3>6. mem'[p] = r /\ pc'[p] = "digest" /\ k'[p] = k[p] /\ pc[p] = "look"
      BY <1>7, <3>1 DEF Look, Goto, Recall, TypeInv, RunsOK
    <3>7. \A n \in Files : n \in Names
      BY MigrationAssumption DEF Files, Names
    <3>8. Surveyed(p)'
      BY <1>0, <2>2, <3>2, <3>3, <3>4, <3>5, <3>6, <3>7
         DEF Surveyed, Early, Final, RunPlaced, Files, Names
    <3>9. ~Holding(p)'
      BY <2>2, <3>5, <3>6 DEF Holding
    <3> QED BY <3>8, <3>9 DEF Fits
  <2>3. CASE CheckLook(p) /\ m.phase # "survey" /\ ~Raise(p)
    <3> DEFINE r == [m EXCEPT !.cur = Meta(entry["archive"][k[p]])]
    <3>1. Goto(p, "digest") /\ Recall(p, r) /\ k' = k
      BY <2>3 DEF CheckLook, Require
    <3>2. /\ r.route = m.route /\ r.phase = m.phase
          /\ r.src = m.src /\ r.dst = m.dst
      BY <1>0 DEF Memories
    <3> HIDE DEF r
    <3>3. mem'[p] = r /\ pc'[p] = "digest" /\ k'[p] = k[p] /\ pc[p] = "look"
      BY <1>7, <3>1 DEF Look, Goto, Recall, TypeInv, RunsOK
    <3>4. m.phase = "check"
      BY <1>0, <2>3 DEF Memories
    <3> QED BY <3>2, <3>3, <3>4 DEF Fits, Surveyed, Holding, Early, Final
  <2> QED BY <1>7, <2>1, <2>2, <2>3 DEF Look
<1>8. CASE Read(p)
  <2>1. AfterPass(p) # "verified" => AfterPass(p) \in Later
    BY DEF AfterPass, Later, Labels, Early, Final
  <2>2. pc[p] = "digest"
    BY <1>8 DEF Read
  <2>3. ASSUME NEW i \in Inodes, ReadFile(p, i), k[p] # Receipt PROVE Fits(p)
    <3> DEFINE r == IF m.phase = "survey"
                      THEN [m EXCEPT !.first[k[p]] = Digest(i)]
                      ELSE [m EXCEPT !.again[k[p]] = Digest(i)]
    <3>1. Recall(p, r)
      BY <2>3 DEF ReadFile
    <3>2. /\ r.route = m.route /\ r.phase = m.phase
          /\ r.src = m.src /\ r.dst = m.dst
      BY <1>0 DEF Memories
    <3> HIDE DEF r
    <3>3. mem'[p] = r
      BY <3>1 DEF Recall, TypeInv, RunsOK
    <3>4. k[p] \in Files /\ k[p] \in Int
      BY <1>0, <2>3, MigrationAssumption DEF Names, Files, Receipt
    <3>5. CASE k[p] = LastName(p)
      <4>1. pc'[p] = AfterPass(p) /\ k'[p] = 1
        BY <2>3, <3>5 DEF ReadFile, Goto, TypeInv, RunsOK
      <4>2. \A n \in Files : m.route = "fresh" => n < k[p] \/ n = k[p]
        BY <3>4, <3>5, MigrationAssumption DEF LastName, Files
      <4>2a. AfterPass(p) # "verified"
        BY <2>3, <3>5 DEF AfterPass, LastName
      <4>3. Surveyed(p)'
        BY <2>1, <2>2, <3>2, <3>3, <4>1, <4>2, <4>2a
           DEF Surveyed, Later, Early, Final
      <4>4. Holding(p)' => m.phase = "check" /\ m.route = "fresh"
        BY <3>2, <3>3, <4>1 DEF Holding, AfterPass
      <4> QED BY <4>3, <4>4 DEF Fits, Holding
    <3>6. CASE k[p] # LastName(p)
      <4>1. pc'[p] = "look" /\ k'[p] = k[p] + 1
        BY <2>3, <3>6 DEF ReadFile, Goto, TypeInv, RunsOK
      <4>2. \A n \in Files : n < k[p] + 1 => n < k[p] \/ n = k[p]
        BY <3>4, MigrationAssumption DEF Files
      <4>3. Surveyed(p)'
        BY <2>2, <3>2, <3>3, <4>1, <4>2 DEF Surveyed, Early, Final
      <4>4. Holding(p)' => m.phase = "check" /\ m.route = "fresh"
        BY <3>2, <3>3, <4>1 DEF Holding
      <4> QED BY <4>3, <4>4 DEF Fits, Holding
    <3> QED BY <3>5, <3>6
  <2>4. ASSUME ReadReceipt(p), k[p] = Receipt PROVE Fits(p)
    <3>1. CASE Return(p, "verified")
      BY <3>1, ReturnFits DEF Final
    <3>2. CASE /\ AfterPass(p) # "verified"
               /\ Goto(p, AfterPass(p)) /\ UNCHANGED mem
      <4>1. pc'[p] = AfterPass(p)
        BY <3>2 DEF Goto, TypeInv, RunsOK
      <4>2. m.route # "fresh"
        BY <1>0, <2>4, MigrationAssumption DEF RunPlaced, Files, Receipt
      <4> QED BY <2>1, <2>2, <3>2, <4>1, <4>2
            DEF Fits, Surveyed, Holding, Later, Early, Final
    <3> QED BY <2>4, <3>1, <3>2 DEF ReadReceipt
  <2>5. Digested(p) \in Inodes \cup {None}
    BY <1>0 DEF Digested, SrcDir, TypeInv, DiskOK, Dirs
  <2> QED BY <1>8, <2>3, <2>4, <2>5, RaiseFits DEF Read, Require
<1> QED BY <1>2, <1>3, <1>4, <1>5, <1>6, <1>7, <1>8 DEF Observe

LEMMA MoveFits ==
  ASSUME TypeInv, NEW p \in Procs, Surveyed(p), Move(p) PROVE Fits(p)
<1> DEFINE m == mem[p]
<1>0. m \in Memories /\ k[p] \in Names /\ RunPlaced(p) /\ pc[p] \in Labels
  BY DEF TypeInv, RunsOK
<1>1. CASE Raise(p)
  BY <1>1, RaiseFits
<1>2. m.route = "fresh" /\ pc[p] = "move" =>
        m.src[k[p]] # NoMeta /\ m.dst[k[p]] = NoMeta
  BY <1>0 DEF RunPlaced, Surveyed
<1>3. CASE Mkdir(p)
  <2>1. pc[p] = "mkdir" /\ pc'[p] = "move" /\ k'[p] = 1 /\ Kept(p)
    BY <1>0, <1>3, SameMemory
       DEF Mkdir, Goto, TypeInv, RunsOK, RunPlaced, Head
  <2>2. Holding(p)' => Holding(p)
    BY <2>1 DEF Holding, Kept
  <2> QED BY <2>1, <2>2, LaterFits DEF Later, Labels, Early, Final
<1>4. ASSUME NextMove(p), mem' = mem, pc[p] = "verify_move" PROVE Fits(p)
  <2>1. pc'[p] \in {"sync", "move"}
    BY <1>4 DEF NextMove, Goto, TypeInv, RunsOK
  <2>2. Holding(p)' => Holding(p)
    BY <1>4, <2>1 DEF Holding
  <2> QED BY <1>4, <2>1, <2>2, SameMemory, LaterFits
        DEF Later, Labels, Early, Final
<1>5. CASE ConfirmMoved(p) /\ ~Raise(p)
  <2>1. NextMove(p) /\ mem' = mem /\ pc[p] = "move" /\ m.src[k[p]] = NoMeta
    BY <1>5 DEF ConfirmMoved, Require
  <2>2. pc'[p] \in {"sync", "move"}
    BY <2>1 DEF NextMove, Goto, TypeInv, RunsOK
  <2>3. ~Holding(p)'
    BY <1>2, <2>1 DEF Holding
  <2> QED BY <2>1, <2>2, <2>3, SameMemory, LaterFits
        DEF Later, Labels, Early, Final
<1>6. CASE StartMove(p) /\ ~Raise(p)
  <2> DEFINE r == [m EXCEPT !.cur = m.src[k[p]]]
  <2>1. /\ r.route = m.route /\ r.phase = m.phase
        /\ r.src = m.src /\ r.dst = m.dst
    BY <1>0 DEF Memories
  <2>2. Recall(p, r) /\ Goto(p, "link") /\ k' = k /\ pc[p] = "move"
    BY <1>6 DEF StartMove, Require
  <2> HIDE DEF r
  <2>3. mem'[p] = r /\ pc'[p] = "link"
    BY <2>2 DEF Goto, Recall, TypeInv, RunsOK
  <2>4. Holding(p)' => Holding(p)
    BY <2>1, <2>2, <2>3 DEF Holding
  <2> QED BY <2>1, <2>2, <2>3, <2>4, LaterFits
        DEF Kept, Later, Labels, Early, Final
<1>7. CASE StartRetire(p) /\ ~Raise(p)
  <2> DEFINE r == [m EXCEPT !.cur =
                     [Meta(entry["archive"][k[p]]) EXCEPT !.nlink = @ - 1]]
  <2>1. /\ r.route = m.route /\ r.phase = m.phase
        /\ r.src = m.src /\ r.dst = m.dst
    BY <1>0 DEF Memories
  <2>2. /\ Recall(p, r) /\ Goto(p, "unlink") /\ pc[p] = "move"
        /\ m.dst[k[p]] # NoMeta
    BY <1>7 DEF StartRetire, Require
  <2> HIDE DEF r
  <2>3. mem'[p] = r /\ pc'[p] = "unlink"
    BY <2>2 DEF Goto, Recall, TypeInv, RunsOK
  <2>4. ~Holding(p)'
    BY <1>2, <2>1, <2>2, <2>3 DEF Holding
  <2> QED BY <2>1, <2>2, <2>3, <2>4, LaterFits
        DEF Kept, Later, Labels, Early, Final
<1>8. CASE Link(p) /\ ~Raise(p)
  <2>1. /\ pc[p] = "link" /\ pc'[p] = "verify_link" /\ mem' = mem
        /\ entry["archive"][k[p]] = None
        /\ entry'["archive"][k[p]] # None
    <3> DEFINE s == entry[SrcDir(p)][k[p]]
    <3>1. /\ s # None /\ entry["archive"][k[p]] = None
          /\ entry' = [entry EXCEPT !["archive"][k[p]] = s]
          /\ Goto(p, "verify_link") /\ mem' = mem /\ pc[p] = "link"
      BY <1>8 DEF Link, Require
    <3> HIDE DEF s
    <3> QED BY <1>0, <3>1 DEF Goto, TypeInv, RunsOK, DiskOK, Dirs
  <2>2. Surveyed(p)'
    BY <2>1 DEF Surveyed, Early, Final
  <2>3. m.route = "fresh" /\ ~Holding(p) => k[p] = 1
    BY <1>0, <2>1, MigrationAssumption DEF Holding, RunPlaced, Files
  <2>4. Holding(p)' => m.route = "fresh"
    BY <2>1 DEF Holding
  <2> QED BY <2>1, <2>2, <2>3, <2>4 DEF Fits
<1>9. CASE (VerifyLink(p) \/ Unlink(p)) /\ ~Raise(p)
  <2>1. /\ pc[p] \in {"verify_link", "unlink"}
        /\ pc'[p] \in {"unlink", "verify_move"}
        /\ mem' = mem
    BY <1>9 DEF VerifyLink, Unlink, Require, Goto, TypeInv, RunsOK
  <2>2. Holding(p)' => Holding(p)
    BY <2>1 DEF Holding
  <2> QED BY <2>1, <2>2, SameMemory, LaterFits DEF Later, Labels, Early, Final
<1>10. CASE VerifyMove(p) /\ ~Raise(p)
  BY <1>4, <1>10 DEF VerifyMove, Require
<1> QED BY <1>1, <1>3, <1>5, <1>6, <1>7, <1>8, <1>9, <1>10 DEF Move

LEMMA SealFits ==
  ASSUME TypeInv, NEW p \in Procs, Surveyed(p), Seal(p) PROVE Fits(p)
<1> DEFINE m == mem[p]
<1>0. m \in Memories /\ pc[p] \in Labels
  BY DEF TypeInv, RunsOK
<1>1. CASE Raise(p)
  BY <1>1, RaiseFits
<1>2. CASE Sync(p) /\ ~Raise(p)
  <2> DEFINE r == [m EXCEPT !.phase = "check"]
  <2>1. /\ r.route = m.route /\ r.phase = "check"
        /\ r.src = m.src /\ r.dst = m.dst
    BY <1>0 DEF Memories
  <2>2. Recall(p, r) /\ Goto(p, "look") /\ pc[p] = "sync"
    BY <1>2 DEF Sync, Require
  <2> HIDE DEF r
  <2>3. mem'[p] = r /\ pc'[p] = "look"
    BY <2>2 DEF Goto, Recall, TypeInv, RunsOK
  <2> QED BY <2>1, <2>2, <2>3 DEF Fits, Surveyed, Holding, Early, Final
<1>3. CASE MakeTemp(p) /\ ~Raise(p)
  <2>1. PICK i : Recall(p, [m EXCEPT !.temp = i]) /\ Goto(p, "write")
    BY <1>3 DEF MakeTemp, Require
  <2> DEFINE r == [m EXCEPT !.temp = i]
  <2>2. /\ r.route = m.route /\ r.phase = m.phase
        /\ r.src = m.src /\ r.dst = m.dst
    BY <1>0 DEF Memories
  <2>3. Recall(p, r)
    BY <2>1
  <2> HIDE DEF r
  <2>4. mem'[p] = r /\ pc'[p] = "write" /\ pc[p] = "receipt"
    BY <1>3, <2>1, <2>3 DEF MakeTemp, Goto, Recall, TypeInv, RunsOK
  <2>5. Holding(p)' => Holding(p)
    BY <2>2, <2>4 DEF Holding
  <2> QED BY <2>2, <2>4, <2>5, LaterFits DEF Kept, Later, Labels, Early, Final
<1>4. ASSUME mem' = mem, pc[p] \in {"write", "publish", "scan_cleanup"},
             pc'[p] \in {"publish", "drop_temp", "rmdir"}
      PROVE  Fits(p)
  <2>1. Holding(p)' => Holding(p)
    BY <1>4 DEF Holding
  <2> QED BY <1>4, <2>1, SameMemory, LaterFits DEF Later, Labels, Early, Final
<1>5. CASE WriteTemp(p)
  BY <1>4, <1>5 DEF WriteTemp, Goto, TypeInv, RunsOK
<1>6. CASE Publish(p)
  BY <1>4, <1>6, ReturnFits DEF Publish, Goto, TypeInv, RunsOK, Final
<1>7. CASE ScanCleanup(p) /\ ~Raise(p)
  BY <1>4, <1>7 DEF ScanCleanup, Require, Goto, TypeInv, RunsOK
<1>8. CASE DropTemp(p) \/ Rmdir(p)
  BY <1>1, <1>8, ReturnFits DEF DropTemp, Rmdir, Require, Final
<1> QED BY <1>1, <1>2, <1>3, <1>5, <1>6, <1>7, <1>8 DEF Seal

LEMMA NextHolderInv == TypeInv /\ HolderInv /\ [Next]_vars => HolderInv'
<1> SUFFICES ASSUME TypeInv, HolderInv, [Next]_vars PROVE HolderInv'
  OBVIOUS
<1>0. \A p \in Procs : Holding(p) => entry'["archive"][1] # None
  <2>1. 1 \in Names
    BY MigrationAssumption DEF Names
  <2> QED BY <2>1, ArchiveGrows DEF HolderInv
<1>1. CASE UNCHANGED <<pc, k, mem>>
  <2>1. \A p \in Procs : Surveyed(p)' /\ (Holding(p)' <=> Holding(p))
    BY <1>1 DEF HolderInv, Surveyed, Holding
  <2> QED BY <1>0, <2>1 DEF HolderInv, OneFreshRunMoves
<1>2. ASSUME NEW q \in Procs, OwnStep(q),
             Step(q) \/ Rerun(q) \/ \E how \in Final : Return(q, how)
      PROVE  HolderInv'
  <2>1. \A p \in Procs \ {q} : Surveyed(p)' /\ (Holding(p)' <=> Holding(p))
    BY <1>2 DEF OwnStep, HolderInv, Surveyed, Holding
  <2>2. Fits(q)
    <3>1. CASE Step(q)
      BY <3>1, ObserveFits, MoveFits, SealFits DEF Step, HolderInv
    <3>2. CASE Rerun(q)
      BY <3>2 DEF Rerun, Goto, TypeInv, RunsOK, HolderInv, Fits, Surveyed,
                  Holding, Early
    <3>3. CASE \E how \in Final : Return(q, how)
      BY <3>3, ReturnFits
    <3> QED BY <1>2, <3>1, <3>2, <3>3
  <2>3. \A p \in Procs : Surveyed(p)'
    BY <2>1, <2>2 DEF Fits
  <2>4. \A p \in Procs : Holding(p)' => entry'["archive"][1] # None
    BY <1>0, <2>1, <2>2 DEF Fits
  <2>5. OneFreshRunMoves'
    <3> SUFFICES ASSUME NEW p \in Procs, NEW r \in Procs,
                        Holding(p)', Holding(r)', p # r
                 PROVE  FALSE
      BY DEF OneFreshRunMoves
    <3>1. CASE Holding(q)
      BY <2>1, <3>1 DEF HolderInv, OneFreshRunMoves
    <3>2. CASE ~Holding(q)
      BY <2>1, <2>2, <3>2 DEF Fits, HolderInv, OneFreshRunMoves
    <3> QED BY <3>1, <3>2
  <2> QED BY <2>3, <2>4, <2>5 DEF HolderInv
<1> QED BY <1>1, <1>2, NextOthers

LEMMA HolderInvariance == Spec => []HolderInv
<1>1. Init => HolderInv
  <2>1. Fresh.route = "none" /\ \A n \in Names : Fresh.dst[n] = NoMeta
    BY DEF Fresh
  <2> QED BY <2>1 DEF Init, HolderInv, Surveyed, Holding, OneFreshRunMoves, Early
<1> QED BY <1>1, TypeInvariance, NextHolderInv, PTL DEF Spec

\* There is no lock: of any number of runs that saw a fresh state, one at most
\* gets past the link of the first file.
THEOREM OneRunMoves == Spec => []OneFreshRunMoves
<1>1. HolderInv => OneFreshRunMoves
  BY DEF HolderInv
<1> QED BY <1>1, HolderInvariance, PTL

-----------------------------------------------------------------------------
(***************************************************************************)
(* What the archive of the migration says is true, and the migration does  *)
(* no more than ArchiveMove allows: for every list of files, every set of  *)
(* runs and every bound on faults and edits.                               *)
(***************************************************************************)

\* The receipt of a previous archive tells the two worlds apart: where there is
\* one, the files come from that archive, and otherwise from data/raw.
Old == text[Receipt] = OldReceipt

\* What the directories can hold: a name is bound to its own inode, or in the
\* archive to an intruder's.
WorldInv ==
  /\ \A n \in Names : /\ entry["raw"][n] \in {None, n}
                      /\ entry["legacy"][n] \in {None, n}
  /\ \A n \in Files : entry["archive"][n] \in {None, n, Foreign}
  /\ entry["raw"][Receipt] = None
  /\ text[Foreign] = NoText
  /\ ~exists["legacy"] => \A n \in Names : entry["legacy"][n] = None
  /\ Old => /\ \A n \in Names : entry["raw"][n] = None
            /\ entry["archive"][Receipt] \in {None, Receipt, Foreign}
  /\ ~Old => ~exists["legacy"] /\ entry["archive"][Receipt] # Receipt

Moving  == {"move", "link", "verify_link", "unlink", "verify_move"}
Sealing == {"receipt", "write", "publish", "drop_temp"}
Looking == {"look", "digest"}

\* A run that moves files, one that is still taking its survey, and the names
\* it works through.
Source(p)    == mem[p].route \in {"fresh", "relocate"}
Surveying(p) == /\ Source(p)
                /\ mem[p].phase = "survey" /\ pc[p] \in Looking
InList(p, n) == mem[p].route = "relocate" \/ n \in Files

\* The route a run chose is the one its world allows.
RouteInv(p) ==
  LET m == mem[p] IN
  /\ m.legacyThere => Old
  /\ m.route = "fresh" => ~Old
  /\ m.route = "relocate" => Old /\ m.archiveNames \cup m.legacyNames = Names
  /\ m.route = "verify" => ~exists["legacy"] /\ m.phase = "check"
  /\ pc[p] \in {"scan_archive", "scan_legacy", "choose"} =>
       m.legacyThere \/ ~exists["legacy"]

\* Which label goes with which route and phase.
PlaceInv(p) ==
  /\ mem[p].phase = "check" => Source(p) \/ mem[p].route = "verify"
  /\ pc[p] \in Moving \cup {"mkdir", "sync"} =>
       Source(p) /\ mem[p].phase = "survey"
  /\ pc[p] \in Sealing => mem[p].route = "fresh" /\ mem[p].phase = "check"
  /\ pc[p] \in {"scan_cleanup", "rmdir"} =>
       mem[p].route = "relocate" /\ mem[p].phase = "check"

\* The fingerprints of a name are those of its own inode or of what the archive
\* holds, and its digest is of the one that was read.
LookedAt(p, n) ==
  LET s == mem[p].src[n]
      d == mem[p].dst[n]
  IN /\ s # NoMeta \/ d # NoMeta
     /\ s # NoMeta => s.ino = n
     /\ d # NoMeta => /\ d.ino = entry["archive"][n]
                      /\ d.ino # None
                      /\ s # NoMeta => d.ino = n

ReadSo(p, n) ==
  mem[p].first[n].file =
    IF mem[p].dst[n] = NoMeta THEN n ELSE entry["archive"][n]

\* Once the survey is over the previous receipt has vouched for each file found
\* in the archive: it is no intruder's.
SurveyInv(p) ==
  Source(p) =>
    /\ \A n \in Names :
         /\ InList(p, n)
         /\ n < k[p] \/ (n = k[p] /\ pc[p] = "digest") \/ ~Surveying(p)
         => LookedAt(p, n)
    /\ \A n \in Files : n < k[p] \/ ~Surveying(p) => ReadSo(p, n)
    /\ ~Surveying(p) =>
         \A n \in Names : InList(p, n) /\ mem[p].dst[n] # NoMeta =>
            entry["archive"][n] = n

\* A name is moved when it has left the source and is in the archive.
Moved(p, n) == entry[SrcDir(p)][n] = None /\ entry["archive"][n] = n

MoveInv(p) ==
  /\ Source(p) => \A n \in Names :
       /\ InList(p, n)
       /\ \/ pc[p] \in Moving /\ n < k[p]
          \/ pc[p] = "sync"
          \/ mem[p].phase = "check"
       => Moved(p, n)
  /\ pc[p] \in {"verify_link", "unlink", "verify_move"} =>
        entry["archive"][k[p]] = k[p]
  /\ pc[p] = "verify_move" => entry[SrcDir(p)][k[p]] = None

\* The digests of the check are those of the archive's own files.
CheckInv(p) ==
  mem[p].phase = "check" => \A n \in Files :
    n < k[p] \/ pc[p] \in Sealing =>
       /\ mem[p].again[n].file = entry["archive"][n]
       /\ entry["archive"][n] # None

\* The receipt on its way into the archive.
ReceiptInv(p) ==
  LET m == mem[p] IN
  /\ pc[p] \in {"write", "publish", "drop_temp"} =>
       m.again = m.first /\ m.temp > Foreign
  /\ pc[p] \in {"publish", "drop_temp"} => text[m.temp] = m.again
  /\ pc[p] \in {"write", "publish"} => ~Sealed
  /\ pc[p] = "drop_temp" => entry["archive"][Receipt] = m.temp

RunInv(p) == /\ RouteInv(p) /\ PlaceInv(p) /\ SurveyInv(p)
             /\ MoveInv(p) /\ CheckInv(p) /\ ReceiptInv(p)

\* A sealed archive holds the files themselves.
SealedInv ==
  Sealed => \A n \in Files :
    /\ entry["archive"][n] = n
    /\ text[entry["archive"][Receipt]][n].file = n
    /\ entry["raw"][n] = None /\ entry["legacy"][n] = None

\* The inductive invariant behind the three results.
ArchiveInv ==
  /\ WorldInv
  /\ \A p \in Procs : RunInv(p)
  /\ SealedInv
  /\ SuccessIsComplete

----------------------------------------------------------------------------
(* What one step does to the disk.                                         *)

\* The four ways a directory changes, each with its cause.
Linked(p) ==
  /\ pc[p] = "link" /\ Goto(p, "verify_link") /\ UNCHANGED <<k, mem, text>>
  /\ entry[SrcDir(p)][k[p]] # None /\ entry["archive"][k[p]] = None
  /\ entry' = [entry EXCEPT !["archive"][k[p]] = entry[SrcDir(p)][k[p]]]

Unlinked(p) ==
  /\ pc[p] = "unlink" /\ Goto(p, "verify_move") /\ UNCHANGED <<k, mem, text>>
  /\ entry[SrcDir(p)][k[p]] # None
  /\ entry' = [entry EXCEPT ![SrcDir(p)][k[p]] = None]

Published(p) ==
  /\ pc[p] = "publish" /\ Goto(p, "drop_temp") /\ UNCHANGED <<k, mem, text>>
  /\ entry["archive"][Receipt] = None
  /\ entry' = [entry EXCEPT !["archive"][Receipt] = mem[p].temp]

Intruded(n) ==
  /\ entry["archive"][n] = None
  /\ entry' = [entry EXCEPT !["archive"][n] = Foreign]
  /\ UNCHANGED <<pc, k, mem, text>>

\* The two ways the text of a file changes.
Made(p) ==
  /\ pc[p] = "receipt" /\ Goto(p, "write") /\ k' = k
  /\ mem[p].again = mem[p].first /\ entry["archive"][Receipt] = None
  /\ \E i \in Inodes : /\ i > Foreign
                       /\ text' = [text EXCEPT ![i] = NoText]
                       /\ Recall(p, [mem[p] EXCEPT !.temp = i])
  /\ UNCHANGED entry

Wrote(p) ==
  /\ pc[p] = "write" /\ Goto(p, "publish") /\ UNCHANGED <<k, mem, entry>>
  /\ text' = [text EXCEPT ![mem[p].temp] = mem[p].again]

LEMMA DiskCauses ==
  ASSUME TypeInv, [Next]_vars
  PROVE  \/ UNCHANGED <<entry, text>>
         \/ \E p \in Procs : \/ Linked(p) \/ Unlinked(p) \/ Published(p)
                             \/ Made(p) \/ Wrote(p)
         \/ \E n \in Names : Intruded(n)
<1> DEFINE Goal == \/ UNCHANGED <<entry, text>>
                   \/ \E p \in Procs : \/ Linked(p) \/ Unlinked(p)
                                       \/ Published(p) \/ Made(p) \/ Wrote(p)
                   \/ \E n \in Names : Intruded(n)
<1>1. CASE UNCHANGED vars
  BY <1>1 DEF vars
<1>2. ASSUME NEW p \in Procs, Step(p) PROVE Goal
  <2>1. CASE Raise(p)
    BY <2>1 DEF Raise, disk
  <2>2. CASE Link(p) /\ ~Raise(p)
    <3>1. Linked(p)
      BY <2>2 DEF Link, Require, Linked
    <3> QED BY <3>1
  <2>3. CASE Unlink(p) /\ ~Raise(p)
    <3>1. Unlinked(p)
      BY <2>3 DEF Unlink, Require, Unlinked
    <3> QED BY <3>1
  <2>4. CASE Publish(p)
    <3>1. UNCHANGED <<entry, text>> \/ Published(p)
      BY <2>4 DEF Publish, Published
    <3> QED BY <3>1
  <2>5. CASE MakeTemp(p) /\ ~Raise(p)
    <3>1. Made(p)
      BY <2>5 DEF MakeTemp, Require, Made, FreeInodes
    <3> QED BY <3>1
  <2>6. CASE WriteTemp(p)
    <3>1. Wrote(p)
      BY <2>6 DEF WriteTemp, Wrote
    <3> QED BY <3>1
  <2>7. CASE /\ ~Raise(p) /\ ~Link(p) /\ ~Unlink(p) /\ ~Publish(p)
             /\ ~MakeTemp(p) /\ ~WriteTemp(p)
    <3>1. CASE Observe(p)
      BY <2>7, <3>1 DEF Observe, SeeArchive, SeeLegacy, ScanArchive, ScanLegacy,
         Choose, Look, SurveyLook, CheckLook, Read, Require, disk
    <3>2. CASE Move(p)
      BY <2>7, <3>2 DEF Move, Mkdir, ConfirmMoved, StartMove, StartRetire,
         VerifyLink, VerifyMove, Require, disk
    <3>3. CASE Seal(p)
      BY <2>7, <3>3 DEF Seal, Sync, DropTemp, ScanCleanup, Rmdir, Require, disk
    <3> QED BY <1>2, <3>1, <3>2, <3>3 DEF Step
  <2> QED BY <2>1, <2>2, <2>3, <2>4, <2>5, <2>6, <2>7
<1>3. ASSUME NEW p \in Procs, Rerun(p) \/ IoError(p) \/ Kill(p)
      PROVE  UNCHANGED <<entry, text>>
  BY <1>3 DEF Rerun, IoError, Kill, disk
<1>4. ASSUME NEW i \in Files, Edit(i) PROVE UNCHANGED <<entry, text>>
  BY <1>4 DEF Edit
<1>5. ASSUME NEW n \in Names, Intrude(n) PROVE Intruded(n)
  BY <1>5 DEF Intrude, Intruded
<1> QED BY <1>1, <1>2, <1>3, <1>4, <1>5 DEF Next

\* The receipt of a previous archive is not an empty text.
LEMMA TextKinds ==
  /\ NoText # OldReceipt
  /\ \A n \in Files : OldReceipt[n].file = n /\ NoText[n].file = None
  /\ 1 \in Files
<1>1. 1 \in Files /\ 1 # None
  BY MigrationAssumption DEF Files, None
<1>2. \A n \in Files : OldReceipt[n].file = n
  BY DEF OldReceipt
<1>3. \A n \in Files : NoText[n].file = None
  BY DEF NoText
<1>4. NoText # OldReceipt
  BY <1>1, <1>2, <1>3
<1> QED BY <1>1, <1>2, <1>3, <1>4

\* A name or a directory that is gone does not come back, a name of the archive
\* keeps its inode, and a previous receipt its text.
Grows ==
  /\ \A n \in Names : entry["archive"][n] # None =>
       entry'["archive"][n] = entry["archive"][n]
  /\ \A d \in {"raw", "legacy"}, n \in Names :
       entry[d][n] = None => entry'[d][n] = None
  /\ exists'["legacy"] => exists["legacy"]
  /\ text'[Receipt] = text[Receipt] /\ text'[Foreign] = text[Foreign]

LEMMA NameFacts ==
  ASSUME TypeInv, NEW p \in Procs
  PROVE  /\ k[p] \in Names /\ k[p] \in Int
         /\ SrcDir(p) \in {"raw", "legacy"}
         /\ mem[p] \in Memories /\ pc[p] \in Labels
         /\ RunPlaced(p)
<1>1. Names \subseteq Int
  BY DEF Names
<1> QED BY <1>1 DEF TypeInv, RunsOK, SrcDir

LEMMA NumberFacts ==
  /\ Files \subseteq Names /\ Names \subseteq Int
  /\ Receipt \in Names /\ Receipt \notin Files /\ Receipt # None
  /\ Foreign \notin Names /\ Foreign # None /\ Foreign > Receipt
  /\ None \notin Names
  /\ \A n \in Names : n # Receipt => n \in Files
  /\ \A n \in Files : n < Receipt
BY MigrationAssumption DEF Files, Names, Receipt, Foreign, None

LEMMA ExistsStep ==
  ASSUME TypeInv, [Next]_vars
  PROVE  \/ exists'["legacy"] = exists["legacy"]
         \/ /\ ~exists'["legacy"] /\ exists["legacy"]
            /\ Listing("legacy") = {} /\ entry' = entry
<1> DEFINE Goal == \/ exists'["legacy"] = exists["legacy"]
                   \/ /\ ~exists'["legacy"] /\ exists["legacy"]
                      /\ Listing("legacy") = {} /\ entry' = entry
<1>0. exists \in [Dirs -> BOOLEAN] /\ "legacy" \in Dirs
  BY DEF TypeInv, DiskOK, Dirs
<1>1. CASE UNCHANGED vars
  BY <1>1 DEF vars
<1>2. ASSUME NEW p \in Procs, Step(p) PROVE Goal
  <2>1. CASE Raise(p)
    BY <2>1 DEF Raise, disk
  <2>2. CASE Mkdir(p)
    BY <1>0, <2>2 DEF Mkdir
  <2>3. CASE Rmdir(p) /\ ~Raise(p)
    <3>1. /\ exists["legacy"] /\ Listing("legacy") = {} /\ entry' = entry
          /\ exists' = [exists EXCEPT !["legacy"] = FALSE]
      BY <2>3 DEF Rmdir, Require
    <3> QED BY <1>0, <3>1
  <2>4. CASE ~Raise(p) /\ ~Mkdir(p) /\ ~Rmdir(p)
    <3>1. CASE Observe(p)
      BY <2>4, <3>1 DEF Observe, SeeArchive, SeeLegacy, ScanArchive, ScanLegacy,
         Choose, Look, SurveyLook, CheckLook, Read, Require, disk
    <3>2. CASE Move(p)
      BY <2>4, <3>2 DEF Move, ConfirmMoved, StartMove, StartRetire, Link,
         VerifyLink, Unlink, VerifyMove, Require, disk
    <3>3. CASE Seal(p)
      BY <2>4, <3>3 DEF Seal, Sync, MakeTemp, WriteTemp, Publish, DropTemp,
         ScanCleanup, Require, disk
    <3> QED BY <1>2, <3>1, <3>2, <3>3 DEF Step
  <2> QED BY <2>1, <2>2, <2>3, <2>4
<1>3. ASSUME NEW p \in Procs, Rerun(p) \/ IoError(p) \/ Kill(p) PROVE Goal
  BY <1>3 DEF Rerun, IoError, Kill, disk
<1>4. ASSUME NEW i \in Files, Edit(i) PROVE Goal
  BY <1>4 DEF Edit
<1>5. ASSUME NEW n \in Names, Intrude(n) PROVE Goal
  BY <1>5 DEF Intrude
<1> QED BY <1>1, <1>2, <1>3, <1>4, <1>5 DEF Next

LEMMA GrowsStep == TypeInv /\ ArchiveInv /\ [Next]_vars => Grows
<1> SUFFICES ASSUME TypeInv, ArchiveInv, [Next]_vars PROVE Grows
  OBVIOUS
<1>1. exists'["legacy"] => exists["legacy"]
  BY ExistsStep
<1>2. \A d \in {"raw", "legacy"}, n \in Names :
        entry[d][n] = None => entry'[d][n] = None
  <2>1. CASE Taken
    BY <2>1 DEF Taken, TypeInv, DiskOK, Dirs
  <2>2. CASE Retired
    BY <2>2, NameFacts DEF Retired, TypeInv, DiskOK, Dirs
  <2> QED BY <2>1, <2>2, EntryStep
<1>3. text'[Receipt] = text[Receipt] /\ text'[Foreign] = text[Foreign]
  <2>1. ASSUME NEW p \in Procs, Made(p) PROVE <1>3!1 /\ <1>3!2
    BY <2>1, NumberFacts, MigrationAssumption
       DEF Made, TypeInv, DiskOK, Inodes, Receipt, Foreign
  <2>2. ASSUME NEW p \in Procs, Wrote(p) PROVE <1>3!1 /\ <1>3!2
    <3>1. mem[p].temp > Foreign
      BY <2>2 DEF Wrote, ArchiveInv, RunInv, ReceiptInv
    <3>2. mem[p].temp # Receipt /\ mem[p].temp # Foreign
      BY <3>1, MigrationAssumption DEF Receipt, Foreign
    <3> QED BY <2>2, <3>2 DEF Wrote, TypeInv, DiskOK
  <2> QED BY <2>1, <2>2, DiskCauses DEF Linked, Unlinked, Published, Intruded
<1> QED BY <1>1, <1>2, <1>3, ArchiveGrows DEF Grows

LEMMA NextWorldInv == TypeInv /\ ArchiveInv /\ [Next]_vars => WorldInv'
<1> SUFFICES ASSUME TypeInv, ArchiveInv, [Next]_vars PROVE WorldInv'
  OBVIOUS
<1>0. Grows /\ WorldInv
  BY GrowsStep DEF ArchiveInv
<1>1. Old' <=> Old
  BY <1>0 DEF Grows, Old
<1>2. exists'["legacy"] = exists["legacy"] \/ ~exists'["legacy"]
  BY ExistsStep
<1>3. ASSUME entry' = entry PROVE WorldInv'
  <2>1. ~exists'["legacy"] => \A n \in Names : entry'["legacy"][n] = None
    BY <1>0, <1>3, ExistsStep DEF WorldInv, Listing
  <2> QED BY <1>0, <1>1, <1>3, <2>1 DEF WorldInv, Grows
<1>4. ASSUME exists'["legacy"] = exists["legacy"],
             \A n \in Names : entry'["raw"][n] \in {entry["raw"][n], None},
             \A n \in Names : entry'["legacy"][n] \in {entry["legacy"][n], None},
             \A n \in Files : entry'["archive"][n] \in {entry["archive"][n], n, Foreign},
             Old => entry'["archive"][Receipt] \in
                       {entry["archive"][Receipt], Receipt, Foreign},
             ~Old => entry'["archive"][Receipt] # Receipt
      PROVE  WorldInv'
  BY <1>0, <1>1, <1>4, NumberFacts DEF WorldInv, Grows
<1>5. ASSUME NEW p \in Procs, Linked(p) PROVE WorldInv'
  <2>1. entry[SrcDir(p)][k[p]] = k[p]
    BY <1>0, <1>5, NameFacts DEF Linked, WorldInv
  <2>2. ~Old => k[p] # Receipt
    <3>1. RouteInv(p) /\ Source(p) /\ RunPlaced(p)
      BY <1>5, NameFacts DEF ArchiveInv, RunInv, PlaceInv, Linked, Moving
    <3> QED BY <3>1, NumberFacts DEF RouteInv, Source, RunPlaced
  <2>3. entry' # entry
    BY <1>5, NameFacts DEF Linked, TypeInv, DiskOK, Dirs
  <2>4. exists'["legacy"] = exists["legacy"]
    BY <2>3, ExistsStep
  <2>5. entry' = [entry EXCEPT !["archive"][k[p]] = k[p]]
    BY <1>5, <2>1 DEF Linked
  <2> QED BY <1>0, <1>4, <2>2, <2>4, <2>5, NameFacts, NumberFacts
        DEF TypeInv, DiskOK, Dirs, WorldInv
<1>6. ASSUME NEW p \in Procs, Unlinked(p) PROVE WorldInv'
  <2>1. entry' # entry
    BY <1>6, NameFacts DEF Unlinked, TypeInv, DiskOK, Dirs
  <2>2. exists'["legacy"] = exists["legacy"]
    BY <2>1, ExistsStep
  <2> QED BY <1>0, <1>4, <1>6, <2>2, NameFacts, NumberFacts
        DEF Unlinked, TypeInv, DiskOK, Dirs, WorldInv
<1>7. ASSUME NEW p \in Procs, Published(p) PROVE WorldInv'
  <2>1. ReceiptInv(p) /\ RouteInv(p) /\ PlaceInv(p)
    BY DEF ArchiveInv, RunInv
  <2>2. mem[p].temp > Foreign /\ ~Old
    BY <1>7, <2>1 DEF Published, ReceiptInv, RouteInv, PlaceInv, Sealing
  <2>3. mem[p].temp # Receipt /\ mem[p].temp # None
    BY <2>2, MigrationAssumption DEF Receipt, Foreign, None
  <2>4. entry' # entry
    BY <1>7, <2>3, NumberFacts DEF Published, TypeInv, DiskOK, Dirs
  <2>5. exists'["legacy"] = exists["legacy"]
    BY <2>4, ExistsStep
  <2> QED BY <1>0, <1>4, <1>7, <2>2, <2>3, <2>5, NumberFacts
        DEF Published, TypeInv, DiskOK, Dirs, WorldInv
<1>8. ASSUME NEW n \in Names, Intruded(n) PROVE WorldInv'
  <2>1. entry' # entry
    BY <1>8, NumberFacts DEF Intruded, TypeInv, DiskOK, Dirs
  <2>2. exists'["legacy"] = exists["legacy"]
    BY <2>1, ExistsStep
  <2> QED BY <1>0, <1>4, <1>8, <2>2, NumberFacts
        DEF Intruded, TypeInv, DiskOK, Dirs, WorldInv
<1> QED BY <1>3, <1>5, <1>6, <1>7, <1>8, DiskCauses DEF Made, Wrote

----------------------------------------------------------------------------
(* What one step does to a run.                                            *)

\* A run that is at work on the receipt holds the archive: no other run is.
LEMMA SealingHolds ==
  ASSUME TypeInv, ArchiveInv, HolderInv, NEW p \in Procs, NEW q \in Procs,
         pc[p] \in Sealing, pc[q] \in Sealing
  PROVE  p = q
<1>1. Holding(p) /\ Holding(q)
  BY DEF ArchiveInv, RunInv, PlaceInv, Holding
<1> QED BY <1>1 DEF HolderInv, OneFreshRunMoves

\* The archive is sealed by the link of the previous receipt, in the world that
\* has one, or by the run that publishes a receipt of its own.
LEMMA SealStep ==
  ASSUME TypeInv, ArchiveInv, [Next]_vars, ~Sealed, Sealed'
  PROVE  \E p \in Procs :
           \/ Linked(p) /\ k[p] = Receipt
           \/ Published(p)
<1>1. ASSUME NEW p \in Procs, Linked(p), k[p] # Receipt PROVE FALSE
  BY <1>1, NameFacts, NumberFacts
     DEF Linked, Sealed, TypeInv, DiskOK, Dirs
<1>2. ASSUME NEW p \in Procs, Unlinked(p) PROVE FALSE
  BY <1>2, NameFacts, NumberFacts
     DEF Unlinked, Sealed, TypeInv, DiskOK, Dirs
<1>3. ASSUME NEW n \in Names, Intruded(n) PROVE FALSE
  BY <1>3, NumberFacts DEF Intruded, Sealed, TypeInv, DiskOK, Dirs
<1>4. ASSUME entry' = entry PROVE FALSE
  BY <1>4 DEF Sealed
<1> QED BY <1>1, <1>2, <1>3, <1>4, DiskCauses DEF Made, Wrote

\* A run that does not make the step keeps what it knows.
LEMMA OthersRunInv ==
  ASSUME TypeInv, ArchiveInv, HolderInv, [Next]_vars, NEW p \in Procs,
         pc'[p] = pc[p], k'[p] = k[p], mem'[p] = mem[p]
  PROVE  RunInv(p)'
<1> DEFINE m == mem[p]
<1>0. /\ Grows /\ RunInv(p) /\ m \in Memories
      /\ k[p] \in Names /\ SrcDir(p) \in {"raw", "legacy"}
  BY GrowsStep, NameFacts DEF ArchiveInv
<1>1. Old' <=> Old
  BY <1>0 DEF Grows, Old
<1>2. RouteInv(p)' /\ PlaceInv(p)'
  BY <1>0, <1>1 DEF RunInv, RouteInv, PlaceInv, Source, Grows
<1>3. SurveyInv(p)'
  <2>1. \A n \in Names : LookedAt(p, n) => LookedAt(p, n)'
    BY <1>0 DEF LookedAt, Grows
  <2>2. \A n \in Files :
          LookedAt(p, n) /\ ReadSo(p, n) => ReadSo(p, n)'
    BY <1>0, NumberFacts DEF LookedAt, ReadSo, Grows
  <2>3. (Source(p)' <=> Source(p)) /\ (Surveying(p)' <=> Surveying(p))
    BY DEF Source, Surveying
  <2>4. \A n \in Names : InList(p, n)' <=> InList(p, n)
    BY DEF InList
  <2>5. SurveyInv(p)
    BY <1>0 DEF RunInv
  <2>6. Source(p) => \A n \in Files : InList(p, n) /\ n \in Names
    BY NumberFacts DEF InList
  <2>7. Source(p) => \A n \in Files : n < k[p] \/ ~Surveying(p) =>
                       LookedAt(p, n) /\ ReadSo(p, n)
    BY <2>5, <2>6 DEF SurveyInv
  <2>8. \A n \in Names : entry["archive"][n] = n => entry'["archive"][n] = n
    BY <1>0, NumberFacts DEF Grows
  <2> QED BY <2>1, <2>2, <2>3, <2>4, <2>5, <2>7, <2>8 DEF SurveyInv
<1>4. MoveInv(p)'
  <2>1. \A n \in Names : entry["archive"][n] = n => entry'["archive"][n] = n
    BY <1>0, NumberFacts DEF Grows
  <2>2. SrcDir(p)' = SrcDir(p)
    BY DEF SrcDir
  <2>3. \A n \in Names : Moved(p, n) => Moved(p, n)'
    BY <1>0, <2>1, <2>2 DEF Moved, Grows
  <2> QED BY <1>0, <2>1, <2>2, <2>3
        DEF RunInv, MoveInv, Source, InList, Grows
<1>5. CheckInv(p)'
  BY <1>0, NumberFacts DEF RunInv, CheckInv, Grows
<1>6. ReceiptInv(p)'
  <2>1. ReceiptInv(p)
    BY <1>0 DEF RunInv
  <2>2. pc[p] = "drop_temp" => entry'["archive"][Receipt] = m.temp
    <3>1. pc[p] = "drop_temp" => m.temp # None
      BY <2>1, MigrationAssumption DEF ReceiptInv, Foreign, None
    <3> QED BY <1>0, <2>1, <3>1, NumberFacts DEF ReceiptInv, Grows
  <2>3. ASSUME pc[p] \in {"publish", "drop_temp"} PROVE text'[m.temp] = text[m.temp]
    <3>1. ASSUME NEW q \in Procs, Made(q) \/ Wrote(q) PROVE FALSE
      BY <2>3, <3>1, SealingHolds DEF Made, Wrote, Sealing
    <3> QED BY <3>1, DiskCauses DEF Linked, Unlinked, Published, Intruded
  <2>4. ASSUME pc[p] \in {"write", "publish"} PROVE ~Sealed'
    <3>1. ~Sealed /\ ~Old
      BY <1>0, <2>4 DEF RunInv, ReceiptInv, PlaceInv, RouteInv, Sealing
    <3>2. ASSUME NEW q \in Procs, Published(q) PROVE FALSE
      <4>1. p = q
        BY <2>4, <3>2, SealingHolds DEF Published, Sealing
      <4>2. pc' = [pc EXCEPT ![q] = "drop_temp"] /\ pc \in [Procs -> Labels]
        BY <3>2 DEF Published, Goto, TypeInv, RunsOK
      <4> QED BY <2>4, <4>1, <4>2
    <3>3. ASSUME NEW q \in Procs, Linked(q), k[q] = Receipt PROVE FALSE
      <4>1. RunInv(q) /\ RunPlaced(q)
        BY NameFacts DEF ArchiveInv
      <4> QED BY <3>1, <3>3, <4>1, NumberFacts
            DEF Linked, RunInv, PlaceInv, RouteInv, Source, RunPlaced, Moving
    <3> QED BY <3>1, <3>2, <3>3, SealStep
  <2> QED BY <2>1, <2>2, <2>3, <2>4 DEF ReceiptInv
<1> QED BY <1>2, <1>3, <1>4, <1>5, <1>6 DEF RunInv

\* A run that has no route knows next to nothing.
LEMMA IdleRunInv ==
  ASSUME NEW p \in Procs,
         mem'[p].route = "none", mem'[p].phase # "check",
         mem'[p].legacyThere => Old',
         pc'[p] \in Early,
         pc'[p] \in {"scan_archive", "scan_legacy", "choose"} =>
           mem'[p].legacyThere \/ ~exists'["legacy"]
  PROVE  RunInv(p)'
<1>1. /\ pc'[p] \notin Moving /\ pc'[p] \notin Sealing
      /\ pc'[p] \notin {"mkdir", "sync", "scan_cleanup", "rmdir"}
  BY DEF Early, Final, Moving, Sealing
<1>2. ~Source(p)'
  BY DEF Source
<1> QED BY <1>1, <1>2 DEF RunInv, RouteInv, PlaceInv, SurveyInv, MoveInv,
      CheckInv, ReceiptInv, Moving, Sealing

LEMMA ReturnRunInv ==
  ASSUME TypeInv, NEW p \in Procs, NEW how \in Final, Return(p, how)
  PROVE  RunInv(p)'
<1>1. mem'[p] = Fresh /\ pc'[p] = how
  BY DEF Return, Goto, Recall, TypeInv, RunsOK
<1>2. how \notin {"scan_archive", "scan_legacy", "choose"} /\ how \in Early
  BY DEF Final, Early
<1> QED BY <1>1, <1>2, IdleRunInv DEF Fresh

LEMMA RaiseRunInv ==
  ASSUME TypeInv, NEW p \in Procs, Raise(p) PROVE RunInv(p)'
BY ReturnRunInv DEF Raise, Final

\* The first steps of a run, until it has a route.
LEMMA ChoiceRunInv ==
  ASSUME TypeInv, ArchiveInv, HolderInv, NEW p \in Procs,
         \/ SeeArchive(p) \/ SeeLegacy(p) \/ ScanArchive(p) \/ ScanLegacy(p)
         \/ Choose(p)
  PROVE  RunInv(p)'
<1> DEFINE m == mem[p]
<1>0. /\ m \in Memories /\ RunInv(p) /\ Surveyed(p) /\ RunPlaced(p)
      /\ WorldInv
  BY NameFacts DEF ArchiveInv, HolderInv
<1>1. m.route = "none" /\ m.phase # "check"
  <2>1. pc[p] \in Early
    BY DEF SeeArchive, SeeLegacy, ScanArchive, ScanLegacy, Choose, Early
  <2> QED BY <1>0, <2>1 DEF Surveyed, RunInv, PlaceInv, Source
<1>2. m.legacyThere => Old
  BY <1>0 DEF RunInv, RouteInv
<1>3. CASE Raise(p)
  BY <1>3, RaiseRunInv
<1>4. CASE SeeArchive(p)
  <2> DEFINE r == [m EXCEPT !.archiveThere = exists["archive"]]
  <2>1. /\ r.route = m.route /\ r.phase = m.phase
        /\ r.legacyThere = m.legacyThere
    BY <1>0 DEF Memories
  <2>2. Recall(p, r) /\ Goto(p, "see_legacy") /\ UNCHANGED disk
    BY <1>4 DEF SeeArchive
  <2> HIDE DEF r
  <2>3. mem'[p] = r /\ pc'[p] = "see_legacy" /\ text' = text
    BY <2>2 DEF Goto, Recall, TypeInv, RunsOK, disk
  <2> QED BY <1>1, <1>2, <2>1, <2>3, IdleRunInv DEF Early, Old
<1>5. CASE SeeLegacy(p)
  <2> DEFINE r == [m EXCEPT !.legacyThere = exists["legacy"]]
  <2>1. /\ r.route = m.route /\ r.phase = m.phase
        /\ r.legacyThere = exists["legacy"]
    BY <1>0 DEF Memories
  <2>2. Recall(p, r) /\ Goto(p, "scan_archive") /\ UNCHANGED disk
    BY <1>5 DEF SeeLegacy
  <2> HIDE DEF r
  <2>3. /\ mem'[p] = r /\ pc'[p] = "scan_archive" /\ text' = text
        /\ exists' = exists
    BY <2>2 DEF Goto, Recall, TypeInv, RunsOK, disk
  <2>4. exists["legacy"] => Old
    BY <1>0 DEF WorldInv
  <2> QED BY <1>1, <2>1, <2>3, <2>4, IdleRunInv DEF Early, Old
<1>6. CASE (ScanArchive(p) \/ ScanLegacy(p)) /\ ~Raise(p)
  <2> DEFINE r == IF pc[p] = "scan_archive"
                    THEN [m EXCEPT !.archiveNames = Listing("archive")]
                    ELSE [m EXCEPT !.legacyNames = Listing("legacy")]
  <2>1. /\ r.route = m.route /\ r.phase = m.phase
        /\ r.legacyThere = m.legacyThere
    BY <1>0 DEF Memories
  <2>2. /\ Recall(p, r) /\ UNCHANGED disk
        /\ pc[p] \in {"scan_archive", "scan_legacy"}
        /\ Goto(p, "scan_legacy") \/ Goto(p, "choose")
    BY <1>6 DEF ScanArchive, ScanLegacy, Require
  <2> HIDE DEF r
  <2>3. /\ mem'[p] = r /\ pc'[p] \in {"scan_legacy", "choose"} /\ text' = text
        /\ exists' = exists
    BY <2>2 DEF Goto, Recall, TypeInv, RunsOK, disk
  <2>4. m.legacyThere \/ ~exists["legacy"]
    BY <1>0, <2>2 DEF RunInv, RouteInv
  <2> QED BY <1>1, <1>2, <2>1, <2>3, <2>4, IdleRunInv DEF Early, Old
<1>7. CASE Choose(p) /\ ~Raise(p)
  <2> DEFINE route == Route(p, Listing("raw"))
             phase == IF route = "verify" THEN "check" ELSE "survey"
             r == [m EXCEPT !.route = route, !.phase = phase]
  <2>1. /\ r.route = route /\ r.phase = phase
        /\ r.legacyThere = m.legacyThere /\ r.archiveNames = m.archiveNames
        /\ r.legacyNames = m.legacyNames
    BY <1>0 DEF Memories
  <2>2. Recall(p, r) /\ Goto(p, "look") /\ UNCHANGED <<disk, k>> /\ pc[p] = "choose"
    BY <1>7 DEF Choose, Require
  <2>3. route = "fresh" => ~Old
    <3>1. route = "fresh" => Listing("raw") = Files
      BY DEF Route
    <3> QED BY <1>0, <3>1, TextKinds, NumberFacts DEF Listing, WorldInv
  <2>4. route = "relocate" =>
          m.legacyThere /\ m.archiveNames \cup m.legacyNames = Names
    BY DEF Route
  <2>5. route = "verify" => ~m.legacyThere
    BY DEF Route
  <2>6. m.legacyThere \/ ~exists["legacy"]
    BY <1>0, <2>2 DEF RunInv, RouteInv
  <2>7. phase \in {"check", "survey"} /\ (phase = "check" <=> route = "verify")
    OBVIOUS
  <2>8. k[p] = 1 /\ \A n \in Names : ~(n < 1)
    BY <1>0, <2>2 DEF RunPlaced, Head, Names
  <2> HIDE DEF r, route, phase
  <2>9. /\ mem'[p] = r /\ pc'[p] = "look" /\ k'[p] = 1
        /\ text' = text /\ exists' = exists /\ entry' = entry
    BY <2>2, <2>8 DEF Goto, Recall, TypeInv, RunsOK, disk
  <2>10. RouteInv(p)'
    BY <1>2, <2>1, <2>3, <2>4, <2>5, <2>6, <2>7, <2>9 DEF RouteInv, Old
  <2>11. PlaceInv(p)' /\ ReceiptInv(p)'
    BY <2>1, <2>7, <2>9 DEF PlaceInv, ReceiptInv, Moving, Sealing
  <2>12. Source(p)' => Surveying(p)'
    BY <2>1, <2>7, <2>9 DEF Source, Surveying, Looking
  <2>13. SurveyInv(p)'
    BY <2>8, <2>9, <2>12, NumberFacts DEF SurveyInv
  <2>14. MoveInv(p)' /\ CheckInv(p)'
    BY <2>1, <2>7, <2>8, <2>9, NumberFacts
       DEF MoveInv, CheckInv, Source, Moving, Sealing
  <2> QED BY <2>10, <2>11, <2>13, <2>14 DEF RunInv
<1> QED BY <1>3, <1>4, <1>5, <1>6, <1>7

\* Memories that agree on all but the last fingerprint and the temporary file.
SameSurvey(m, r) ==
  /\ r.route = m.route /\ r.phase = m.phase /\ r.legacyThere = m.legacyThere
  /\ r.archiveNames = m.archiveNames /\ r.legacyNames = m.legacyNames
  /\ r.src = m.src /\ r.dst = m.dst /\ r.first = m.first /\ r.again = m.again

\* A step after the survey that leaves the directories and what it learnt.
LEMMA QuietRunInv ==
  ASSUME NEW p \in Procs, RunInv(p), SameSurvey(mem[p], mem'[p]),
         ~Surveying(p), ~Surveying(p)',
         pc'[p] \notin {"scan_archive", "scan_legacy", "choose"},
         UNCHANGED <<entry, text>>, exists'["legacy"] = exists["legacy"]
  PROVE  RouteInv(p)' /\ SurveyInv(p)'
<1>1. RouteInv(p)'
  BY DEF RunInv, RouteInv, SameSurvey, Old
<1>2. Source(p)' <=> Source(p)
  BY DEF Source, SameSurvey
<1>3. \A n : /\ InList(p, n)' <=> InList(p, n)
             /\ LookedAt(p, n)' <=> LookedAt(p, n)
             /\ ReadSo(p, n)' <=> ReadSo(p, n)
  BY DEF InList, LookedAt, ReadSo, SameSurvey
<1>4. SurveyInv(p)
  BY DEF RunInv
<1>5. SurveyInv(p)'
  BY <1>2, <1>3, <1>4 DEF SurveyInv, SameSurvey
<1> QED BY <1>1, <1>5

\* A look at a name in the survey and in the check.
LEMMA LookRunInv ==
  ASSUME TypeInv, ArchiveInv, HolderInv, NEW p \in Procs, Look(p)
  PROVE  RunInv(p)'
<1> DEFINE m == mem[p]
<1>0. /\ m \in Memories /\ RunInv(p) /\ Surveyed(p) /\ RunPlaced(p)
      /\ WorldInv /\ k[p] \in Names /\ SrcDir(p) \in {"raw", "legacy"}
      /\ pc[p] = "look" /\ k[p] \in Int
  BY NameFacts DEF ArchiveInv, HolderInv, Look
<1>1. CASE Raise(p)
  BY <1>1, RaiseRunInv
<1>2. CASE SurveyLook(p) /\ m.phase = "survey" /\ ~Raise(p)
  <2> DEFINE s == IF k[p] \in SrcNames(p) THEN entry[SrcDir(p)][k[p]] ELSE None
             d == IF k[p] \in DstNames(p) THEN entry["archive"][k[p]] ELSE None
             c == IF d = None THEN Seen(s) ELSE Seen(d)
             r == [m EXCEPT !.src[k[p]] = Seen(s), !.dst[k[p]] = Seen(d),
                            !.cur = c]
  <2>0. Source(p)
    BY <1>0, <1>2 DEF Surveyed, RunInv, RouteInv, Early, Final, Source, Memories
  <2>1. /\ k[p] \in SrcNames(p) => s # None
        /\ k[p] \in DstNames(p) => d # None
        /\ s # None /\ d # None => SameFile(Meta(s), Meta(d))
        /\ Goto(p, "digest") /\ Recall(p, r) /\ UNCHANGED <<disk, k>>
    BY <1>2 DEF SurveyLook, Require
  <2>2. s \in {None, k[p]} /\ d \in {None, entry["archive"][k[p]]}
    BY <1>0 DEF WorldInv
  <2>3. InList(p, k[p]) => s # None \/ d # None
    <3>1. CASE m.route = "fresh"
      BY <2>1, <3>1 DEF InList, SrcNames
    <3>2. CASE m.route = "relocate"
      BY <1>0, <2>1, <3>2 DEF RunInv, RouteInv, SrcNames, DstNames
    <3> QED BY <2>0, <3>1, <3>2 DEF Source
  <2>4. s # None /\ d # None => d = s
    BY <2>1 DEF SameFile, Meta
  <2>5. /\ r.route = m.route /\ r.phase = m.phase /\ r.first = m.first
        /\ r.legacyThere = m.legacyThere /\ r.archiveNames = m.archiveNames
        /\ r.legacyNames = m.legacyNames /\ r.again = m.again
        /\ \A n \in Names : n # k[p] =>
              r.src[n] = m.src[n] /\ r.dst[n] = m.dst[n]
        /\ r.src[k[p]] = Seen(s) /\ r.dst[k[p]] = Seen(d)
    BY <1>0 DEF Memories
  <2>6. \A i : /\ i # None => Seen(i) # NoMeta /\ Seen(i).ino = i
               /\ Seen(None) = NoMeta
    BY DEF Seen, Meta, NoMeta
  <2> HIDE DEF r, s, d, c
  <2>7. /\ mem'[p] = r /\ pc'[p] = "digest" /\ k'[p] = k[p]
        /\ text' = text /\ exists' = exists /\ entry' = entry
    BY <2>1 DEF Goto, Recall, TypeInv, RunsOK, disk
  <2>8. RouteInv(p)' /\ PlaceInv(p)' /\ ReceiptInv(p)' /\ CheckInv(p)'
    BY <1>0, <1>2, <2>0, <2>5, <2>7 DEF RunInv, RouteInv, PlaceInv, ReceiptInv,
       CheckInv, Source, Old, Moving, Sealing
  <2>9. MoveInv(p)'
    BY <1>2, <2>5, <2>7 DEF MoveInv, Moving
  <2>10. Surveying(p) /\ Surveying(p)' /\ Source(p)'
    BY <1>0, <1>2, <2>0, <2>5, <2>7 DEF Surveying, Source, Looking
  <2>11. \A n \in Names : InList(p, n)' <=> InList(p, n)
    BY <2>5, <2>7 DEF InList
  <2>12. InList(p, k[p]) => LookedAt(p, k[p])'
    BY <1>0, <2>2, <2>3, <2>4, <2>5, <2>6, <2>7, NumberFacts DEF LookedAt
  <2>13. \A n \in Names : n < k[p] =>
           /\ LookedAt(p, n)' <=> LookedAt(p, n)
           /\ ReadSo(p, n)' <=> ReadSo(p, n)
    BY <1>0, <2>5, <2>7, NumberFacts DEF LookedAt, ReadSo
  <2>14. SurveyInv(p)
    BY <1>0 DEF RunInv
  <2>15. SurveyInv(p)'
    BY <2>0, <2>7, <2>10, <2>11, <2>12, <2>13, <2>14, NumberFacts DEF SurveyInv
  <2> QED BY <2>8, <2>9, <2>15 DEF RunInv
<1>3. CASE CheckLook(p) /\ m.phase # "survey" /\ ~Raise(p)
  <2> DEFINE r == [m EXCEPT !.cur = Meta(entry["archive"][k[p]])]
  <2>1. Goto(p, "digest") /\ Recall(p, r) /\ UNCHANGED <<disk, k>>
    BY <1>3 DEF CheckLook, Require
  <2>2. SameSurvey(m, r) /\ m.phase = "check"
    BY <1>0, <1>3 DEF Memories, SameSurvey
  <2> HIDE DEF r
  <2>3. /\ mem'[p] = r /\ pc'[p] = "digest" /\ k'[p] = k[p]
        /\ text' = text /\ exists' = exists /\ entry' = entry
    BY <2>1 DEF Goto, Recall, TypeInv, RunsOK, disk
  <2>4. ~Surveying(p) /\ ~Surveying(p)'
    BY <2>2, <2>3 DEF Surveying, SameSurvey
  <2>5. RouteInv(p)' /\ SurveyInv(p)'
    BY <1>0, <2>2, <2>3, <2>4, QuietRunInv
  <2>6. PlaceInv(p)' /\ ReceiptInv(p)' /\ CheckInv(p)'
    BY <1>0, <2>2, <2>3 DEF RunInv, PlaceInv, ReceiptInv, CheckInv, SameSurvey,
       Source, Moving, Sealing
  <2>7. MoveInv(p)'
    <3>1. SrcDir(p)' = SrcDir(p)
      BY <2>2, <2>3 DEF SrcDir, SameSurvey
    <3> QED BY <1>0, <2>2, <2>3, <3>1 DEF RunInv, MoveInv, Moved, InList,
          SameSurvey, Source, Moving
  <2> QED BY <2>5, <2>6, <2>7 DEF RunInv
<1> QED BY <1>1, <1>2, <1>3 DEF Look

\* What a read of the survey comes to: the digest of the name's own inode, or of
\* what the archive holds.
LEMMA ReadFileRunInv ==
  ASSUME TypeInv, ArchiveInv, HolderInv, NEW p \in Procs,
         pc[p] = "digest", k[p] # Receipt,
         Digested(p) # None, ReadFile(p, Digested(p)), UNCHANGED disk
  PROVE  RunInv(p)'
<1> DEFINE m == mem[p]
           i == Digested(p)
<1>0. /\ m \in Memories /\ RunInv(p) /\ Surveyed(p) /\ RunPlaced(p)
      /\ WorldInv /\ k[p] \in Names /\ k[p] \in Int
      /\ SrcDir(p) \in {"raw", "legacy"}
  BY NameFacts DEF ArchiveInv, HolderInv
<1>1. k[p] \in Files /\ N \in Int
  BY <1>0, NumberFacts, MigrationAssumption
<1>2. Digest(i).file = i
  BY DEF Digest
<1>3. /\ text' = text /\ entry' = entry /\ exists' = exists
      /\ SrcDir(p)' = SrcDir(p) \/ mem'[p].route # m.route
  BY DEF disk, SrcDir
<1>4. Source(p) \/ (m.route = "verify" /\ m.phase = "check")
  BY <1>0 DEF Surveyed, RunInv, RouteInv, Early, Final, Source, Memories
<1>5. m.phase \in {"survey", "check"}
  BY <1>0 DEF Memories
<1>6. /\ k[p] = LastName(p) =>
           /\ pc'[p] = AfterPass(p) /\ k'[p] = 1
           /\ m.route = "fresh" /\ k[p] = N
      /\ k[p] # LastName(p) => pc'[p] = "look" /\ k'[p] = k[p] + 1
  BY <1>0 DEF ReadFile, Goto, TypeInv, RunsOK, LastName
<1>7. \A n \in Files : /\ n < k[p] + 1 => n < k[p] \/ n = k[p]
                       /\ k[p] = N => n < k[p] \/ n = k[p]
                       /\ n # k[p] \/ ~(n < k[p])
                       /\ ~(n < 1)
  BY <1>1 DEF Files
<1>8. CASE m.phase = "survey"
  <2> DEFINE r == [m EXCEPT !.first[k[p]] = Digest(i)]
  <2>1. Recall(p, r)
    BY <1>8 DEF ReadFile
  <2>2. /\ r.route = m.route /\ r.phase = m.phase
        /\ r.legacyThere = m.legacyThere /\ r.archiveNames = m.archiveNames
        /\ r.legacyNames = m.legacyNames
        /\ r.src = m.src /\ r.dst = m.dst /\ r.again = m.again
        /\ r.first[k[p]] = Digest(i)
        /\ \A n \in Files : n # k[p] => r.first[n] = m.first[n]
    BY <1>0, <1>1 DEF Memories, Receipts
  <2> HIDE DEF r
  <2>3. mem'[p] = r
    BY <2>1 DEF Recall, TypeInv, RunsOK
  <2>4. pc'[p] \in {"look", "mkdir"}
    BY <1>6, <1>8 DEF AfterPass
  <2>5. Source(p) /\ Source(p)' /\ Surveying(p)
    BY <1>4, <1>8, <2>2, <2>3 DEF Source, Surveying, Looking
  <2>6. RouteInv(p)' /\ PlaceInv(p)' /\ CheckInv(p)' /\ ReceiptInv(p)'
    BY <1>0, <1>3, <1>8, <2>2, <2>3, <2>4, <2>5
       DEF RunInv, RouteInv, PlaceInv, CheckInv, ReceiptInv, Old, Moving, Sealing
  <2>7. MoveInv(p)'
    BY <1>8, <2>2, <2>3, <2>4 DEF MoveInv, Moving
  <2>8. \A n \in Names : /\ InList(p, n)' <=> InList(p, n)
                         /\ LookedAt(p, n)' <=> LookedAt(p, n)
    BY <1>3, <2>2, <2>3 DEF InList, LookedAt
  <2>9. SurveyInv(p)
    BY <1>0 DEF RunInv
  <2>10. LookedAt(p, k[p])
    BY <1>0, <1>1, <2>5, <2>9 DEF SurveyInv, InList
  <2>11. \A n \in Files : n = k[p] => ReadSo(p, n)'
    <3>1. m.dst[k[p]] = NoMeta => i = k[p]
      BY <1>0, <1>8 DEF Digested, WorldInv
    <3>2. m.dst[k[p]] # NoMeta => i = entry["archive"][k[p]]
      BY DEF Digested
    <3> QED BY <1>2, <1>3, <2>2, <2>3, <3>1, <3>2 DEF ReadSo
  <2>12. \A n \in Files : n < k[p] => ReadSo(p, n)'
    BY <1>3, <1>7, <2>2, <2>3, <2>5, <2>9 DEF SurveyInv, ReadSo
  <2>13. CASE k[p] # LastName(p)
    <3>1. Surveying(p)' /\ pc'[p] = "look" /\ k'[p] = k[p] + 1
      BY <1>6, <1>8, <2>2, <2>3, <2>5, <2>13 DEF Surveying, Looking
    <3>2. \A n \in Names : n < k[p] + 1 => n < k[p] \/ n = k[p]
      BY <1>0 DEF Names
    <3>3. \A n \in Names : InList(p, n) /\ n < k[p] + 1 => LookedAt(p, n)
      BY <2>5, <2>9, <2>10, <3>2 DEF SurveyInv
    <3>4. \A n \in Files : n < k[p] + 1 => ReadSo(p, n)'
      BY <1>7, <2>11, <2>12
    <3>5. SurveyInv(p)'
      BY <2>8, <3>1, <3>3, <3>4 DEF SurveyInv
    <3> QED BY <2>6, <2>7, <3>5 DEF RunInv
  <2>14. CASE k[p] = LastName(p)
    <3>1. m.route = "fresh" /\ k[p] = N
      BY <1>6, <2>14
    <3>2. \A n \in Files : LookedAt(p, n) /\ ReadSo(p, n)'
      BY <1>7, <2>5, <2>9, <2>10, <2>11, <2>12, <3>1, NumberFacts
         DEF SurveyInv, InList
    <3>3. \A n \in Names : InList(p, n) => n \in Files
      BY <3>1 DEF InList
    <3>4. \A n \in Names : m.dst[n] = NoMeta
      BY <1>0, <3>1 DEF Surveyed
    <3>5. SurveyInv(p)'
      BY <2>2, <2>3, <2>8, <3>2, <3>3, <3>4 DEF SurveyInv
    <3> QED BY <2>6, <2>7, <3>5 DEF RunInv
  <2> QED BY <2>13, <2>14
<1>9. CASE m.phase = "check"
  <2> DEFINE r == [m EXCEPT !.again[k[p]] = Digest(i)]
  <2>1. Recall(p, r)
    BY <1>9 DEF ReadFile
  <2>2. /\ r.route = m.route /\ r.phase = m.phase
        /\ r.legacyThere = m.legacyThere /\ r.archiveNames = m.archiveNames
        /\ r.legacyNames = m.legacyNames
        /\ r.src = m.src /\ r.dst = m.dst /\ r.first = m.first
        /\ r.again[k[p]] = Digest(i)
        /\ \A n \in Files : n # k[p] => r.again[n] = m.again[n]
    BY <1>0, <1>1 DEF Memories, Receipts
  <2> HIDE DEF r
  <2>3. mem'[p] = r
    BY <2>1 DEF Recall, TypeInv, RunsOK
  <2>4. /\ pc'[p] \in {"look", "receipt"}
        /\ pc'[p] = "receipt" => m.route = "fresh" /\ k[p] = N
        /\ pc'[p] = "look" => k'[p] = k[p] + 1
        /\ k'[p] = 1 \/ k'[p] = k[p] + 1
    BY <1>6, <1>9 DEF AfterPass
  <2>5. i = entry["archive"][k[p]]
    BY <1>9 DEF Digested
  <2>6. CheckInv(p)'
    <3>1. CheckInv(p)
      BY <1>0 DEF RunInv
    <3>2. \A n \in Files : n < k[p] \/ n = k[p] =>
            r.again[n].file = entry["archive"][n] /\ entry["archive"][n] # None
      BY <1>2, <1>7, <1>9, <2>2, <2>5, <3>1 DEF CheckInv
    <3> QED BY <1>3, <1>7, <2>3, <2>4, <3>2 DEF CheckInv, Sealing
  <2>7. ~Surveying(p) /\ ~Surveying(p)'
    BY <1>9, <2>2, <2>3 DEF Surveying
  <2>8. Source(p)' <=> Source(p)
    BY <2>2, <2>3 DEF Source
  <2>9. \A n : /\ InList(p, n)' <=> InList(p, n)
               /\ LookedAt(p, n)' <=> LookedAt(p, n)
               /\ ReadSo(p, n)' <=> ReadSo(p, n)
               /\ Moved(p, n)' <=> Moved(p, n)
    BY <1>3, <2>2, <2>3 DEF InList, LookedAt, ReadSo, Moved
  <2>10. SurveyInv(p)'
    BY <1>0, <1>3, <2>2, <2>3, <2>7, <2>8, <2>9 DEF RunInv, SurveyInv
  <2>11. MoveInv(p)'
    BY <1>0, <1>9, <2>4, <2>8, <2>9 DEF RunInv, MoveInv
  <2>12. RouteInv(p)' /\ PlaceInv(p)' /\ ReceiptInv(p)'
    BY <1>0, <1>3, <1>9, <2>2, <2>3, <2>4, <2>8
       DEF RunInv, RouteInv, PlaceInv, ReceiptInv, Old, Moving, Sealing
  <2> QED BY <2>6, <2>10, <2>11, <2>12 DEF RunInv
<1> QED BY <1>5, <1>8, <1>9

\* A text that lists digests taken of files is not the empty one.
LEMMA ReceiptSaysSo ==
  ASSUME ArchiveInv, NEW i \in {None, Receipt, Foreign}, i # None, Old,
         NEW t, t[1].file # None, text[i] = t
  PROVE  i = Receipt /\ t = OldReceipt
<1>1. text[Foreign] = NoText
  BY DEF ArchiveInv, WorldInv
<1> QED BY <1>1, TextKinds DEF Old

\* The previous receipt ends the survey and the check of a relocation, and the
\* check of an archive.
LEMMA ReadReceiptRunInv ==
  ASSUME TypeInv, ArchiveInv, HolderInv, NEW p \in Procs,
         pc[p] = "digest", k[p] = Receipt,
         Digested(p) # None, ReceiptHolds(p, Digested(p)),
         ReadReceipt(p), UNCHANGED disk
  PROVE  RunInv(p)'
<1> DEFINE m == mem[p]
           i == Digested(p)
<1>0. /\ m \in Memories /\ RunInv(p) /\ Surveyed(p) /\ RunPlaced(p)
      /\ WorldInv
  BY NameFacts DEF ArchiveInv, HolderInv
<1>1. m.route \in {"relocate", "verify"}
  BY <1>0, NumberFacts DEF RunPlaced, Surveyed, Early, Final, Memories
<1>2. CASE Return(p, "verified")
  BY <1>2, ReturnRunInv DEF Final
<1>3. CASE /\ AfterPass(p) # "verified"
           /\ Goto(p, AfterPass(p)) /\ k' = [k EXCEPT ![p] = 1] /\ mem' = mem
  <2>1. m.route = "relocate" /\ Source(p) /\ Old
    BY <1>0, <1>1, <1>3 DEF AfterPass, RunInv, RouteInv, Source
  <2>2. /\ pc'[p] = AfterPass(p) /\ k'[p] = 1 /\ mem'[p] = m
        /\ entry' = entry /\ text' = text /\ exists' = exists
    BY <1>3 DEF Goto, TypeInv, RunsOK, disk
  <2>3. \/ m.phase = "survey" /\ pc'[p] = "mkdir"
        \/ m.phase = "check" /\ pc'[p] = "scan_cleanup"
    BY <1>0, <2>1, <2>2 DEF AfterPass, Memories
  <2>4. RouteInv(p)' /\ PlaceInv(p)' /\ ReceiptInv(p)'
    BY <1>0, <2>1, <2>2, <2>3 DEF RunInv, RouteInv, PlaceInv, ReceiptInv, Old,
       Source, Moving, Sealing
  <2>5. \A n \in Files : ~(n < 1)
    BY DEF Files
  <2>6. CheckInv(p)'
    BY <1>0, <2>2, <2>3, <2>5, NumberFacts DEF RunInv, CheckInv, Sealing
  <2>7. MoveInv(p)'
    <3>1. SrcDir(p)' = SrcDir(p)
      BY <2>2 DEF SrcDir
    <3> QED BY <1>0, <2>2, <2>3, <3>1
          DEF RunInv, MoveInv, Moved, Source, InList, Moving
  <2>8. CASE m.phase = "check"
    <3>1. ~Surveying(p) /\ ~Surveying(p)'
      BY <2>2, <2>8 DEF Surveying
    <3>2. SurveyInv(p)'
      BY <1>0, <2>2, <2>3, <2>8, <3>1, QuietRunInv DEF SameSurvey
    <3> QED BY <2>4, <2>6, <2>7, <3>2 DEF RunInv
  <2>9. CASE m.phase = "survey"
    <3>1. \A n \in Names : LookedAt(p, n)
      BY <1>0, <2>1, NumberFacts DEF RunInv, SurveyInv, InList
    <3>2. \A n \in Files : ReadSo(p, n)
      BY <1>0, <2>1, NumberFacts DEF RunInv, SurveyInv
    <3>3. m.first[1].file # None
      BY <3>1, <3>2, TextKinds, NumberFacts DEF LookedAt, ReadSo
    <3>4. text[i] = m.first
      BY <2>9 DEF ReceiptHolds, Known
    <3>5. i \in {None, Receipt, Foreign}
      BY <1>0, <2>1, NumberFacts DEF Digested, SrcDir, WorldInv
    <3>6. i = Receipt /\ m.first = OldReceipt
      BY <2>1, <3>3, <3>4, <3>5, ReceiptSaysSo
    <3>7. \A n \in Files : m.dst[n] # NoMeta => entry["archive"][n] = n
      BY <3>2, <3>6, TextKinds DEF ReadSo
    <3>8. m.dst[Receipt] # NoMeta => entry["archive"][Receipt] = Receipt
      BY <3>6 DEF Digested
    <3>9. \A n \in Names : m.dst[n] # NoMeta => entry["archive"][n] = n
      BY <3>7, <3>8, NumberFacts
    <3>10. \A n : /\ LookedAt(p, n)' <=> LookedAt(p, n)
                  /\ ReadSo(p, n)' <=> ReadSo(p, n)
      BY <2>2 DEF LookedAt, ReadSo
    <3>11. SurveyInv(p)'
      BY <2>2, <3>1, <3>2, <3>9, <3>10 DEF SurveyInv
    <3> QED BY <2>4, <2>6, <2>7, <3>11 DEF RunInv
  <2> QED BY <2>3, <2>8, <2>9
<1> QED BY <1>2, <1>3 DEF ReadReceipt

LEMMA ObserveRunInv ==
  ASSUME TypeInv, ArchiveInv, HolderInv, NEW p \in Procs, Observe(p)
  PROVE  RunInv(p)'
<1>1. CASE Read(p)
  <2>1. CASE Raise(p)
    BY <2>1, RaiseRunInv
  <2>2. CASE ~Raise(p)
    <3>1. /\ pc[p] = "digest" /\ Digested(p) # None /\ UNCHANGED disk
          /\ IF k[p] = Receipt
               THEN ReceiptHolds(p, Digested(p)) /\ ReadReceipt(p)
               ELSE ReadFile(p, Digested(p))
      BY <1>1, <2>2 DEF Read, Require
    <3> QED BY <3>1, ReadFileRunInv, ReadReceiptRunInv
  <2> QED BY <2>1, <2>2
<1> QED BY <1>1, ChoiceRunInv, LookRunInv DEF Observe

\* The run goes on to the next name once it has moved the one it was at.
LEMMA NextMoveRunInv ==
  ASSUME TypeInv, ArchiveInv, NEW p \in Procs, NextMove(p),
         pc[p] \in Moving, UNCHANGED <<disk, mem>>,
         InList(p, k[p]) => Moved(p, k[p])
  PROVE  RunInv(p)'
<1> DEFINE m == mem[p]
<1>0. /\ m \in Memories /\ RunInv(p) /\ RunPlaced(p)
      /\ k[p] \in Names /\ k[p] \in Int /\ N \in Int
  BY NameFacts, MigrationAssumption DEF ArchiveInv
<1>1. Source(p) /\ m.phase = "survey"
  BY <1>0 DEF RunInv, PlaceInv
<1>2. /\ mem'[p] = m /\ entry' = entry /\ text' = text /\ exists' = exists
      /\ \/ pc'[p] = "sync" /\ k[p] = LastName(p)
         \/ pc'[p] = "move" /\ k'[p] = k[p] + 1
  BY DEF NextMove, Goto, TypeInv, RunsOK, disk
<1>3. ~Surveying(p) /\ ~Surveying(p)'
  BY <1>2 DEF Surveying, Looking, Moving
<1>4. RouteInv(p)' /\ SurveyInv(p)'
  BY <1>0, <1>2, <1>3, QuietRunInv DEF SameSurvey
<1>5. PlaceInv(p)' /\ CheckInv(p)' /\ ReceiptInv(p)'
  BY <1>1, <1>2 DEF PlaceInv, CheckInv, ReceiptInv, Source, Moving, Sealing
<1>6. MoveInv(p)'
  <2>1. SrcDir(p)' = SrcDir(p)
    BY <1>2 DEF SrcDir
  <2>2. \A n \in Names : n < k[p] + 1 => n < k[p] \/ n = k[p]
    BY <1>0 DEF Names
  <2>3. k[p] = LastName(p) =>
          \A n \in Names : InList(p, n) => n < k[p] \/ n = k[p]
    BY <1>0, <1>1, MigrationAssumption
       DEF LastName, InList, Names, Files, Receipt, Source
  <2>4. \A n \in Names : n < k[p] /\ InList(p, n) => Moved(p, n)
    BY <1>0, <1>1 DEF RunInv, MoveInv
  <2> QED BY <1>1, <1>2, <2>1, <2>2, <2>3, <2>4
        DEF MoveInv, Moved, InList, Source, Moving
<1> QED BY <1>4, <1>5, <1>6 DEF RunInv

\* A step of a move that stays with its name and leaves the directories.
LEMMA WithinMoveRunInv ==
  ASSUME TypeInv, ArchiveInv, NEW p \in Procs,
         SameSurvey(mem[p], mem'[p]), k'[p] = k[p],
         UNCHANGED <<entry, text>>, exists'["legacy"] = exists["legacy"],
         pc[p] \in Moving \cup {"mkdir"}, pc[p] = "mkdir" => k[p] = 1,
         pc'[p] \in Moving \ {"verify_move"},
         pc'[p] \in {"verify_link", "unlink"} => entry["archive"][k[p]] = k[p]
  PROVE  RunInv(p)'
<1>0. RunInv(p) /\ k[p] \in Names
  BY NameFacts DEF ArchiveInv
<1>1. Source(p) /\ mem[p].phase = "survey" /\ (Source(p)' <=> Source(p))
  BY <1>0 DEF RunInv, PlaceInv, SameSurvey, Source
<1>2. ~Surveying(p) /\ ~Surveying(p)'
  BY DEF Surveying, Looking, Moving
<1>3. RouteInv(p)' /\ SurveyInv(p)'
  BY <1>0, <1>2, QuietRunInv DEF Moving
<1>4. PlaceInv(p)' /\ CheckInv(p)' /\ ReceiptInv(p)'
  BY <1>1 DEF PlaceInv, CheckInv, ReceiptInv, SameSurvey, Moving, Sealing
<1>5. MoveInv(p)'
  <2>1. SrcDir(p)' = SrcDir(p) /\ \A n : InList(p, n)' <=> InList(p, n)
    BY DEF SrcDir, InList, SameSurvey
  <2>2. \A n \in Names : n < k[p] /\ pc[p] = "mkdir" => FALSE
    BY DEF Names
  <2>3. \A n \in Names : n < k[p] /\ InList(p, n) => Moved(p, n)
    BY <1>0, <1>1, <2>2 DEF RunInv, MoveInv, Moving
  <2> QED BY <1>1, <2>1, <2>3 DEF MoveInv, Moved, SameSurvey, Moving
<1> QED BY <1>3, <1>4, <1>5 DEF RunInv

LEMMA MoveRunInv ==
  ASSUME TypeInv, ArchiveInv, HolderInv, [Next]_vars, NEW p \in Procs, Move(p)
  PROVE  RunInv(p)'
<1> DEFINE m == mem[p]
<1>0. /\ m \in Memories /\ RunInv(p) /\ Surveyed(p) /\ RunPlaced(p)
      /\ WorldInv /\ k[p] \in Names /\ k[p] \in Int
      /\ SrcDir(p) \in {"raw", "legacy"}
  BY NameFacts DEF ArchiveInv, HolderInv
<1>1. CASE Raise(p)
  BY <1>1, RaiseRunInv
<1>2. pc[p] \in Moving => /\ Source(p) /\ ~Surveying(p) /\ m.phase = "survey"
                          /\ SurveyInv(p) /\ MoveInv(p)
  BY <1>0 DEF RunInv, PlaceInv, Surveying, Looking, Moving
<1>3. SameSurvey(m, m)
  BY DEF SameSurvey
<1>4. CASE Mkdir(p)
  <2>1. /\ pc[p] = "mkdir" /\ pc'[p] = "move" /\ k'[p] = k[p] /\ k[p] = 1
        /\ mem'[p] = m /\ UNCHANGED <<entry, text>>
        /\ exists'["legacy"] = exists["legacy"]
    BY <1>0, <1>4 DEF Mkdir, Goto, TypeInv, RunsOK, DiskOK, RunPlaced, Head, Dirs
  <2> QED BY <1>3, <2>1, WithinMoveRunInv DEF Moving
<1>5. CASE ConfirmMoved(p) /\ ~Raise(p)
  <2>1. /\ pc[p] = "move" /\ m.src[k[p]] = NoMeta /\ NextMove(p)
        /\ entry[SrcDir(p)][k[p]] = None /\ UNCHANGED <<disk, mem>>
    BY <1>5 DEF ConfirmMoved, Require
  <2>2. ASSUME InList(p, k[p]) PROVE Moved(p, k[p])
    <3>1. LookedAt(p, k[p])
      BY <1>0, <1>2, <2>1, <2>2 DEF SurveyInv, Moving
    <3>2. entry["archive"][k[p]] = k[p]
      BY <1>0, <1>2, <2>1, <2>2, <3>1 DEF LookedAt, SurveyInv, Moving
    <3> QED BY <2>1, <3>2 DEF Moved
  <2> QED BY <2>1, <2>2, NextMoveRunInv DEF Moving
<1>6. CASE StartMove(p) /\ ~Raise(p)
  <2> DEFINE r == [m EXCEPT !.cur = m.src[k[p]]]
  <2>1. /\ Recall(p, r) /\ Goto(p, "link") /\ pc[p] = "move"
        /\ UNCHANGED <<disk, k>>
    BY <1>6 DEF StartMove, Require
  <2>2. SameSurvey(m, r)
    BY <1>0 DEF Memories, SameSurvey
  <2> HIDE DEF r
  <2>3. /\ mem'[p] = r /\ pc'[p] = "link" /\ k'[p] = k[p]
        /\ UNCHANGED <<entry, text, exists>>
    BY <2>1 DEF Goto, Recall, TypeInv, RunsOK, disk
  <2> QED BY <2>1, <2>2, <2>3, WithinMoveRunInv DEF Moving
<1>7. CASE StartRetire(p) /\ ~Raise(p)
  <2> DEFINE r == [m EXCEPT !.cur =
                     [Meta(entry["archive"][k[p]]) EXCEPT !.nlink = @ - 1]]
  <2>1. /\ Recall(p, r) /\ Goto(p, "unlink") /\ pc[p] = "move"
        /\ UNCHANGED <<disk, k>>
        /\ m.src[k[p]] # NoMeta /\ m.dst[k[p]] # NoMeta
    BY <1>7 DEF StartRetire, Require
  <2>2. SameSurvey(m, r)
    BY <1>0 DEF Memories, SameSurvey
  <2> HIDE DEF r
  <2>3. /\ mem'[p] = r /\ pc'[p] = "unlink" /\ k'[p] = k[p]
        /\ UNCHANGED <<entry, text, exists>>
    BY <2>1 DEF Goto, Recall, TypeInv, RunsOK, disk
  <2>4. InList(p, k[p])
    BY <1>0, <1>2, <2>1 DEF InList, Source, RunPlaced, Moving
  <2>5. entry["archive"][k[p]] = k[p]
    BY <1>0, <1>2, <2>1, <2>4 DEF SurveyInv, Moving
  <2> QED BY <2>1, <2>2, <2>3, <2>5, WithinMoveRunInv DEF Moving
<1>8. CASE VerifyLink(p) /\ ~Raise(p)
  <2>1. /\ pc[p] = "verify_link" /\ pc'[p] = "unlink" /\ k'[p] = k[p]
        /\ mem'[p] = m /\ UNCHANGED <<entry, text, exists>>
    BY <1>8 DEF VerifyLink, Require, Goto, TypeInv, RunsOK, disk
  <2>2. entry["archive"][k[p]] = k[p]
    BY <1>2, <2>1 DEF MoveInv, Moving
  <2> QED BY <1>3, <2>1, <2>2, WithinMoveRunInv DEF Moving
<1>9. CASE VerifyMove(p) /\ ~Raise(p)
  <2>1. pc[p] = "verify_move" /\ NextMove(p) /\ UNCHANGED <<disk, mem>>
    BY <1>9 DEF VerifyMove, Require
  <2>2. Moved(p, k[p])
    BY <1>2, <2>1 DEF MoveInv, Moved, Moving
  <2> QED BY <2>1, <2>2, NextMoveRunInv DEF Moving
<1>10. CASE (Link(p) \/ Unlink(p)) /\ ~Raise(p)
  <2>1. /\ \/ Linked(p)
           \/ Unlinked(p)
        /\ exists' = exists
    BY <1>10 DEF Link, Unlink, Require, Linked, Unlinked
  <2>2. /\ pc[p] \in {"link", "unlink"} /\ mem'[p] = m /\ k'[p] = k[p]
        /\ text' = text
        /\ pc[p] = "link" => pc'[p] = "verify_link"
        /\ pc[p] = "unlink" => pc'[p] = "verify_move"
    BY <2>1 DEF Linked, Unlinked, Goto, TypeInv, RunsOK
  <2>3. \A n \in Names : entry["archive"][n] = n => entry'["archive"][n] = n
    BY <2>1, NameFacts, NumberFacts
       DEF Linked, Unlinked, TypeInv, DiskOK, Dirs
  <2>4. \A n \in Names : entry[SrcDir(p)][n] = None => entry'[SrcDir(p)][n] = None
    BY <1>0, <2>1 DEF Linked, Unlinked, TypeInv, DiskOK, Dirs
  <2>5. /\ pc[p] = "link" => entry'["archive"][k[p]] = k[p]
        /\ pc[p] = "unlink" => /\ entry'["archive"][k[p]] = k[p]
                               /\ entry'[SrcDir(p)][k[p]] = None
    <3>1. pc[p] = "unlink" => entry["archive"][k[p]] = k[p]
      BY <1>2 DEF MoveInv, Moving
    <3>2. CASE Linked(p)
      BY <1>0, <3>2 DEF Linked, TypeInv, DiskOK, Dirs, WorldInv
    <3>3. CASE Unlinked(p)
      BY <1>0, <3>1, <3>3 DEF Unlinked, TypeInv, DiskOK, Dirs
    <3> QED BY <2>1, <3>2, <3>3
  <2>6. /\ SrcDir(p)' = SrcDir(p) /\ (Source(p)' <=> Source(p))
        /\ \A n : InList(p, n)' <=> InList(p, n)
    BY <2>2 DEF SrcDir, Source, InList
  <2>7. MoveInv(p)'
    <3>1. \A n \in Names : n < k[p] /\ InList(p, n) => Moved(p, n)'
      BY <1>2, <2>2, <2>3, <2>4, <2>6 DEF MoveInv, Moved, Moving
    <3> QED BY <1>2, <2>2, <2>5, <2>6, <3>1 DEF MoveInv, Moving
  <2>8. RouteInv(p)' /\ PlaceInv(p)' /\ CheckInv(p)' /\ ReceiptInv(p)'
    BY <1>0, <1>2, <2>1, <2>2, <2>6 DEF RunInv, RouteInv, PlaceInv, CheckInv,
       ReceiptInv, Old, Moving, Sealing
  <2>9. SurveyInv(p)'
    <3>1. Grows
      BY GrowsStep
    <3>2. \A n \in Names : LookedAt(p, n) => LookedAt(p, n)'
      BY <2>2, <3>1 DEF LookedAt, Grows
    <3>3. \A n \in Files : LookedAt(p, n) /\ ReadSo(p, n) => ReadSo(p, n)'
      BY <2>2, <3>1, NumberFacts DEF LookedAt, ReadSo, Grows
    <3>4. /\ \A n \in Names : InList(p, n) => LookedAt(p, n)
          /\ \A n \in Files : ReadSo(p, n)
          /\ \A n \in Files : InList(p, n) /\ n \in Names
          /\ \A n \in Names : InList(p, n) /\ m.dst[n] # NoMeta =>
                entry["archive"][n] = n
      BY <1>2, <2>2, NumberFacts DEF SurveyInv, InList, Moving
    <3> QED BY <2>2, <2>3, <2>6, <3>2, <3>3, <3>4 DEF SurveyInv
  <2> QED BY <2>7, <2>8, <2>9 DEF RunInv
<1> QED BY <1>1, <1>4, <1>5, <1>6, <1>7, <1>8, <1>9, <1>10 DEF Move

LEMMA SealRunInv ==
  ASSUME TypeInv, ArchiveInv, HolderInv, [Next]_vars, NEW p \in Procs, Seal(p)
  PROVE  RunInv(p)'
<1> DEFINE m == mem[p]
<1>0. /\ m \in Memories /\ RunInv(p) /\ RunPlaced(p) /\ WorldInv
      /\ k[p] \in Names
      /\ \A n \in Files : ~(n < 1)
  BY NameFacts DEF ArchiveInv, Surveying, Files
<1>1. CASE Raise(p)
  BY <1>1, RaiseRunInv
<1>2. CASE Sync(p) /\ ~Raise(p)
  <2> DEFINE r == [m EXCEPT !.phase = "check"]
  <2>1. /\ r.route = m.route /\ r.phase = "check"
        /\ r.legacyThere = m.legacyThere /\ r.archiveNames = m.archiveNames
        /\ r.legacyNames = m.legacyNames /\ r.src = m.src /\ r.dst = m.dst
        /\ r.first = m.first
    BY <1>0 DEF Memories
  <2>2. Recall(p, r) /\ Goto(p, "look") /\ pc[p] = "sync" /\ UNCHANGED <<disk, k>>
    BY <1>2 DEF Sync, Require
  <2> HIDE DEF r
  <2>3. /\ mem'[p] = r /\ pc'[p] = "look" /\ k'[p] = 1
        /\ UNCHANGED <<entry, text, exists>>
    BY <1>0, <2>2 DEF Goto, Recall, TypeInv, RunsOK, disk, RunPlaced, Head
  <2>4. Source(p) /\ Source(p)' /\ ~Surveying(p) /\ ~Surveying(p)'
    BY <1>0, <2>1, <2>2, <2>3 DEF RunInv, PlaceInv, Source, Surveying, Looking
  <2>5. \A n : /\ InList(p, n)' <=> InList(p, n)
               /\ LookedAt(p, n)' <=> LookedAt(p, n)
               /\ ReadSo(p, n)' <=> ReadSo(p, n)
               /\ Moved(p, n)' <=> Moved(p, n)
    BY <2>1, <2>3 DEF InList, LookedAt, ReadSo, Moved, SrcDir
  <2>6. SurveyInv(p)' /\ MoveInv(p)'
    BY <1>0, <2>1, <2>2, <2>3, <2>4, <2>5 DEF RunInv, SurveyInv, MoveInv
  <2>7. /\ RouteInv(p)' /\ PlaceInv(p)' /\ CheckInv(p)' /\ ReceiptInv(p)'
    BY <1>0, <2>1, <2>3, <2>4 DEF RunInv, RouteInv, PlaceInv, CheckInv,
       ReceiptInv, Old, Moving, Sealing, Source
  <2> QED BY <2>6, <2>7 DEF RunInv
<1>3. ASSUME SameSurvey(m, mem'[p]), k'[p] = k[p], m.phase = "check",
             Grows, exists'["legacy"] = exists["legacy"],
             pc'[p] \in {"write", "publish", "drop_temp", "rmdir"},
             pc'[p] = "rmdir" => pc[p] = "scan_cleanup",
             pc'[p] # "rmdir" => pc[p] \in Sealing,
             ReceiptInv(p)'
      PROVE  RunInv(p)'
  <2>1. /\ ~Surveying(p) /\ ~Surveying(p)' /\ (Source(p)' <=> Source(p))
        /\ (Old' <=> Old) /\ SrcDir(p)' = SrcDir(p)
        /\ \A n : InList(p, n)' <=> InList(p, n)
    BY <1>3 DEF Surveying, Source, SameSurvey, Old, Grows, SrcDir, InList
  <2>2. RouteInv(p)' /\ PlaceInv(p)'
    BY <1>0, <1>3, <2>1 DEF RunInv, RouteInv, PlaceInv, SameSurvey, Moving, Sealing
  <2>3. CheckInv(p)'
    BY <1>0, <1>3, NumberFacts DEF RunInv, CheckInv, SameSurvey, Grows, Sealing
  <2>4. MoveInv(p)'
    BY <1>0, <1>3, <2>1, NameFacts, NumberFacts
       DEF RunInv, MoveInv, Moved, SameSurvey, Grows
  <2>5. SurveyInv(p)'
    <3>1. \A n \in Names : LookedAt(p, n) => LookedAt(p, n)'
      BY <1>3 DEF LookedAt, Grows, SameSurvey
    <3>2. \A n \in Files : LookedAt(p, n) /\ ReadSo(p, n) => ReadSo(p, n)'
      BY <1>3, NumberFacts DEF LookedAt, ReadSo, Grows, SameSurvey
    <3>3. Source(p) =>
          /\ \A n \in Names : InList(p, n) => LookedAt(p, n)
          /\ \A n \in Files : ReadSo(p, n)
          /\ \A n \in Files : InList(p, n) /\ n \in Names
          /\ \A n \in Names : InList(p, n) /\ m.dst[n] # NoMeta =>
                entry["archive"][n] = n
      BY <1>0, <2>1, NumberFacts DEF RunInv, SurveyInv, InList
    <3>4. \A n \in Names : entry["archive"][n] = n => entry'["archive"][n] = n
      BY <1>3, NumberFacts DEF Grows
    <3>5. mem'[p].dst = m.dst
      BY <1>3 DEF SameSurvey
    <3> QED BY <2>1, <3>1, <3>2, <3>3, <3>4, <3>5 DEF SurveyInv
  <2> QED BY <1>3, <2>2, <2>3, <2>4, <2>5 DEF RunInv
<1>4. SameSurvey(m, m) /\ Grows
  BY GrowsStep DEF SameSurvey
<1>5. CASE MakeTemp(p) /\ ~Raise(p)
  <2>1. /\ pc[p] = "receipt" /\ m.again = m.first /\ Goto(p, "write")
        /\ UNCHANGED <<entry, exists, k>> /\ entry["archive"][Receipt] = None
        /\ \E i \in FreeInodes : Recall(p, [m EXCEPT !.temp = i])
    BY <1>5 DEF MakeTemp, Require
  <2>2. PICK i : i > Foreign /\ Recall(p, [m EXCEPT !.temp = i])
    BY <2>1 DEF FreeInodes
  <2> DEFINE r == [m EXCEPT !.temp = i]
  <2>3. SameSurvey(m, r) /\ r.temp = i /\ Recall(p, r)
    BY <1>0, <2>2 DEF Memories, SameSurvey
  <2> HIDE DEF r
  <2>4. mem'[p] = r /\ pc'[p] = "write" /\ k'[p] = k[p]
    BY <2>1, <2>3 DEF Goto, Recall, TypeInv, RunsOK
  <2>5. ReceiptInv(p)'
    BY <2>1, <2>2, <2>3, <2>4 DEF ReceiptInv, SameSurvey, Sealed
  <2>6. m.phase = "check"
    BY <1>0, <2>1 DEF RunInv, PlaceInv, Sealing
  <2> QED BY <1>3, <1>4, <2>1, <2>3, <2>4, <2>5, <2>6 DEF Sealing
<1>6. CASE WriteTemp(p)
  <2>1. /\ pc[p] = "write" /\ pc'[p] = "publish" /\ k'[p] = k[p] /\ mem'[p] = m
        /\ UNCHANGED <<entry, exists>>
        /\ text' = [text EXCEPT ![m.temp] = m.again]
    BY <1>6 DEF WriteTemp, Goto, TypeInv, RunsOK
  <2>2. ReceiptInv(p) /\ m.phase = "check"
    BY <1>0, <2>1 DEF RunInv, PlaceInv, Sealing
  <2>3. m.temp \in Inodes
    BY <1>0, <2>1, <2>2, MigrationAssumption DEF Memories, ReceiptInv, Foreign, None
  <2>4. text'[m.temp] = m.again
    BY <2>1, <2>3 DEF TypeInv, DiskOK
  <2>5. ReceiptInv(p)'
    BY <2>1, <2>2, <2>4 DEF ReceiptInv, Sealed
  <2> QED BY <1>3, <1>4, <2>1, <2>2, <2>5 DEF Sealing
<1>7. CASE Publish(p)
  <2>1. CASE entry["archive"][Receipt] # None
    BY <1>7, <2>1, ReturnRunInv DEF Publish, Final
  <2>2. CASE entry["archive"][Receipt] = None
    <3>1. /\ pc[p] = "publish" /\ pc'[p] = "drop_temp" /\ k'[p] = k[p]
          /\ mem'[p] = m /\ UNCHANGED <<exists, text>>
          /\ entry' = [entry EXCEPT !["archive"][Receipt] = m.temp]
      BY <1>7, <2>2 DEF Publish, Goto, TypeInv, RunsOK
    <3>2. ReceiptInv(p) /\ m.phase = "check"
      BY <1>0, <3>1 DEF RunInv, PlaceInv, Sealing
    <3>3. entry'["archive"][Receipt] = m.temp
      BY <3>1, NumberFacts DEF TypeInv, DiskOK, Dirs
    <3>4. ReceiptInv(p)'
      BY <3>1, <3>2, <3>3 DEF ReceiptInv
    <3> QED BY <1>3, <1>4, <3>1, <3>2, <3>4 DEF Sealing
  <2> QED BY <2>1, <2>2
<1>8. CASE ScanCleanup(p) /\ ~Raise(p)
  <2>1. /\ pc[p] = "scan_cleanup" /\ pc'[p] = "rmdir" /\ k'[p] = k[p]
        /\ mem'[p] = m /\ UNCHANGED <<entry, text, exists>>
    BY <1>8 DEF ScanCleanup, Require, Goto, TypeInv, RunsOK, disk
  <2>2. ReceiptInv(p)' /\ m.phase = "check"
    BY <1>0, <2>1 DEF RunInv, PlaceInv, ReceiptInv
  <2> QED BY <1>3, <1>4, <2>1, <2>2
<1>9. CASE DropTemp(p) \/ (Rmdir(p) /\ ~Raise(p))
  BY <1>9, ReturnRunInv DEF DropTemp, Rmdir, Require, Final
<1> QED BY <1>1, <1>2, <1>5, <1>6, <1>7, <1>8, <1>9 DEF Seal

LEMMA NextRunInv ==
  TypeInv /\ ArchiveInv /\ HolderInv /\ [Next]_vars => \A p \in Procs : RunInv(p)'
<1> SUFFICES ASSUME TypeInv, ArchiveInv, HolderInv, [Next]_vars, NEW p \in Procs
             PROVE  RunInv(p)'
  OBVIOUS
<1>1. CASE pc'[p] = pc[p] /\ k'[p] = k[p] /\ mem'[p] = mem[p]
  BY <1>1, OthersRunInv
<1>2. CASE Step(p)
  BY <1>2, ObserveRunInv, MoveRunInv, SealRunInv DEF Step
<1>3. CASE \E how \in Final : Return(p, how)
  BY <1>3, ReturnRunInv
<1>4. CASE Rerun(p)
  <2>1. /\ pc[p] \in Final /\ pc'[p] = "start" /\ mem' = mem
        /\ UNCHANGED <<text, exists>>
    BY <1>4 DEF Rerun, Goto, TypeInv, RunsOK, disk
  <2>2. RunInv(p) /\ Surveyed(p)
    BY DEF ArchiveInv, HolderInv
  <2>3. mem[p].route = "none" /\ mem[p].phase # "check"
    BY <2>1, <2>2 DEF Surveyed, Early, RunInv, PlaceInv, Source
  <2> QED BY <2>1, <2>2, <2>3, IdleRunInv DEF RunInv, RouteInv, Old, Early
<1> QED BY <1>1, <1>2, <1>3, <1>4, NextOthers DEF OwnStep

----------------------------------------------------------------------------
(* The seal is true, and a run that succeeds leaves nothing behind.        *)

\* Once the archive is sealed its receipt is never written again.
LEMMA SealStays ==
  ASSUME TypeInv, ArchiveInv, [Next]_vars, Sealed
  PROVE  /\ entry'["archive"][Receipt] = entry["archive"][Receipt]
         /\ Sealed' /\ text' = text
<1>1. entry'["archive"][Receipt] = entry["archive"][Receipt]
  BY GrowsStep, NumberFacts DEF Grows, Sealed
<1>2. ASSUME NEW p \in Procs, Made(p) \/ Wrote(p) PROVE FALSE
  BY <1>2 DEF Made, Wrote, Sealed, ArchiveInv, RunInv, ReceiptInv
<1>3. text' = text
  BY <1>2, DiskCauses DEF Linked, Unlinked, Published, Intruded
<1> QED BY <1>1, <1>3 DEF Sealed

\* The step that seals the archive finds every file moved.
LEMMA SealedStep ==
  ASSUME TypeInv, ArchiveInv, [Next]_vars, ~Sealed, Sealed'
  PROVE  \A n \in Files :
           /\ entry["archive"][n] = n /\ entry'["archive"][n] = n
           /\ text'[entry'["archive"][Receipt]][n].file = n
           /\ entry["raw"][n] = None /\ entry["legacy"][n] = None
<1>0. WorldInv
  BY DEF ArchiveInv
<1>1. ASSUME NEW p \in Procs, Linked(p), k[p] = Receipt,
             NEW n \in Files
      PROVE  /\ entry["archive"][n] = n
             /\ text'[entry'["archive"][Receipt]][n].file = n
             /\ entry["raw"][n] = None /\ entry["legacy"][n] = None
  <2>1. RunInv(p) /\ RunPlaced(p) /\ n \in Names /\ n < k[p]
    BY <1>1, NameFacts, NumberFacts DEF ArchiveInv
  <2>2. Source(p) /\ mem[p].route = "relocate" /\ Old
    BY <1>1, <2>1, NumberFacts
       DEF RunInv, PlaceInv, RouteInv, RunPlaced, Source, Linked, Moving
  <2>3. Moved(p, n)
    BY <1>1, <2>1, <2>2 DEF RunInv, MoveInv, InList, Linked, Moving
  <2>4. entry'["archive"][Receipt] = Receipt
    BY <1>0, <1>1, <2>2, NumberFacts
       DEF Linked, WorldInv, SrcDir, TypeInv, DiskOK, Dirs
  <2>5. text' = text
    BY <1>1 DEF Linked
  <2> QED BY <1>0, <2>1, <2>2, <2>3, <2>4, <2>5, TextKinds
        DEF Moved, SrcDir, WorldInv, Old
<1>2. ASSUME NEW p \in Procs, Published(p), NEW n \in Files
      PROVE  /\ entry["archive"][n] = n
             /\ text'[entry'["archive"][Receipt]][n].file = n
             /\ entry["raw"][n] = None /\ entry["legacy"][n] = None
  <2>1. RunInv(p) /\ n \in Names
    BY NumberFacts DEF ArchiveInv
  <2>2. mem[p].route = "fresh" /\ mem[p].phase = "check" /\ ~Old
    BY <1>2, <2>1 DEF RunInv, PlaceInv, RouteInv, Published, Sealing
  <2>3. Moved(p, n)
    BY <2>1, <2>2 DEF RunInv, MoveInv, InList, Source
  <2>4. mem[p].again[n].file = entry["archive"][n]
    BY <1>2, <2>1, <2>2 DEF RunInv, CheckInv, Published, Sealing
  <2>5. entry'["archive"][Receipt] = mem[p].temp /\ text' = text
    BY <1>2, NumberFacts DEF Published, TypeInv, DiskOK, Dirs
  <2>6. text[mem[p].temp] = mem[p].again
    BY <1>2, <2>1 DEF RunInv, ReceiptInv, Published
  <2> QED BY <1>0, <2>1, <2>2, <2>3, <2>4, <2>5, <2>6
        DEF Moved, SrcDir, WorldInv
<1>3. \A n \in Files : entry["archive"][n] = n => entry'["archive"][n] = n
  BY GrowsStep, NumberFacts DEF Grows
<1> QED BY <1>1, <1>2, <1>3, SealStep

LEMMA NextSealedInv == TypeInv /\ ArchiveInv /\ [Next]_vars => SealedInv'
<1> SUFFICES ASSUME TypeInv, ArchiveInv, [Next]_vars, Sealed', NEW n \in Files
             PROVE  /\ entry'["archive"][n] = n
                    /\ text'[entry'["archive"][Receipt]][n].file = n
                    /\ entry'["raw"][n] = None /\ entry'["legacy"][n] = None
  BY DEF SealedInv
<1>0. Grows /\ n \in Names /\ n # None
  BY GrowsStep, NumberFacts
<1>1. CASE Sealed
  BY <1>0, <1>1, SealStays DEF ArchiveInv, SealedInv, Grows
<1>2. CASE ~Sealed
  BY <1>0, <1>2, SealedStep DEF Grows
<1> QED BY <1>1, <1>2

Success == {"migrated", "relocated", "verified"}

Complete == /\ Sealed
            /\ Listing("archive") = Names
            /\ Listing("raw") = {} /\ Listing("legacy") = {}
            /\ ~exists["legacy"]

LEMMA CompleteStays ==
  ASSUME TypeInv, ArchiveInv, [Next]_vars, Complete PROVE Complete'
<1>1. Grows /\ Sealed'
  BY GrowsStep, SealStays DEF Complete
<1>2. \A n \in Names : /\ entry["archive"][n] # None
                       /\ entry["raw"][n] = None /\ entry["legacy"][n] = None
  BY DEF Complete, Listing
<1>3. \A n \in Names : /\ entry'["archive"][n] # None
                       /\ entry'["raw"][n] = None /\ entry'["legacy"][n] = None
  BY <1>1, <1>2 DEF Grows
<1> QED BY <1>1, <1>3 DEF Complete, Listing, Grows

\* A run succeeds by the three last calls of its three routes.
LEMMA ReachSuccess ==
  ASSUME TypeInv, NEW q \in Procs, Step(q), pc'[q] \in Success
  PROVE  \/ DropTemp(q)
         \/ Rmdir(q) /\ ~Raise(q)
         \/ /\ pc[q] = "digest" /\ k[q] = Receipt /\ UNCHANGED disk
            /\ AfterPass(q) = "verified"
            /\ Digested(q) # None /\ ReceiptHolds(q, Digested(q))
<1> USE DEF Goto, Success
<1>0. pc \in [Procs -> Labels]
  BY DEF TypeInv, RunsOK
<1>1. ~Return(q, "error")
  BY <1>0 DEF Return
<1>2. ~Raise(q)
  BY <1>1 DEF Raise
<1>3. CASE Observe(q)
  <2>1. ~SeeArchive(q) /\ ~SeeLegacy(q) /\ ~ScanLegacy(q)
    BY <1>0 DEF SeeArchive, SeeLegacy, ScanLegacy
  <2>2. ~ScanArchive(q) /\ ~Choose(q)
    BY <1>0, <1>2 DEF ScanArchive, Choose, Require
  <2>3. ~Look(q)
    BY <1>0, <1>2 DEF Look, SurveyLook, CheckLook, Require
  <2>4. CASE Read(q)
    <3>1. CASE k[q] = Receipt
      <4>1. /\ pc[q] = "digest" /\ UNCHANGED disk /\ ReadReceipt(q)
            /\ Digested(q) # None /\ ReceiptHolds(q, Digested(q))
        BY <1>2, <2>4, <3>1 DEF Read, Require
      <4>2. AfterPass(q) = "verified"
        <5>1. ~Goto(q, AfterPass(q)) \/ AfterPass(q) \in Success
          BY <1>0
        <5>2. AfterPass(q) \in Success => AfterPass(q) = "verified"
          BY DEF AfterPass
        <5> QED BY <4>1, <5>1, <5>2 DEF ReadReceipt
      <4> QED BY <3>1, <4>1, <4>2
    <3>2. CASE k[q] # Receipt
      <4>1. ReadFile(q, Digested(q))
        BY <1>2, <2>4, <3>2 DEF Read, Require
      <4>2. k[q] = LastName(q) => AfterPass(q) \notin Success
        BY <3>2 DEF LastName, AfterPass
      <4> QED BY <1>0, <4>1, <4>2 DEF ReadFile
    <3> QED BY <3>1, <3>2
  <2> QED BY <1>3, <2>1, <2>2, <2>3, <2>4 DEF Observe
<1>4. CASE Move(q)
  <2>1. ~NextMove(q)
    BY <1>0 DEF NextMove
  <2>2. ~ConfirmMoved(q) /\ ~VerifyMove(q)
    BY <1>2, <2>1 DEF ConfirmMoved, VerifyMove, Require
  <2>3. ~Mkdir(q) /\ ~StartMove(q) /\ ~StartRetire(q)
    BY <1>0, <1>2 DEF Mkdir, StartMove, StartRetire, Require
  <2>4. ~Link(q) /\ ~VerifyLink(q) /\ ~Unlink(q)
    BY <1>0, <1>2 DEF Link, VerifyLink, Unlink, Require
  <2> QED BY <1>4, <2>2, <2>3, <2>4 DEF Move
<1>5. CASE Seal(q)
  <2>1. ~Sync(q) /\ ~MakeTemp(q) /\ ~WriteTemp(q) /\ ~ScanCleanup(q)
    BY <1>0, <1>2 DEF Sync, MakeTemp, WriteTemp, ScanCleanup, Require
  <2>2. ~Publish(q)
    BY <1>0, <1>1 DEF Publish
  <2> QED BY <1>2, <1>5, <2>1, <2>2 DEF Seal
<1> QED BY <1>3, <1>4, <1>5 DEF Step

LEMMA SuccessStep ==
  ASSUME TypeInv, ArchiveInv, HolderInv, [Next]_vars, NEW q \in Procs,
         Step(q), pc'[q] \in Success
  PROVE  Complete'
<1> DEFINE m == mem[q]
<1>0. RunInv(q) /\ WorldInv /\ SealedInv /\ Surveyed(q) /\ m \in Memories
  BY NameFacts DEF ArchiveInv, HolderInv
<1>1. ASSUME Sealed, \A n \in Names : entry["legacy"][n] = None,
             entry' = entry, ~exists'["legacy"]
      PROVE  Complete'
  <2>1. \A n \in Names : entry["archive"][n] # None /\ entry["raw"][n] = None
    BY <1>0, <1>1, NumberFacts DEF SealedInv, Sealed, WorldInv
  <2> QED BY <1>1, <2>1 DEF Complete, Listing, Sealed
<1>2. CASE DropTemp(q)
  <2>1. /\ pc[q] = "drop_temp" /\ entry' = entry /\ exists' = exists
    BY <1>2 DEF DropTemp
  <2>2. m.temp > Foreign /\ entry["archive"][Receipt] = m.temp /\ ~Old
    BY <1>0, <2>1 DEF RunInv, ReceiptInv, RouteInv, PlaceInv, Sealing
  <2>3. Sealed
    BY <2>2, MigrationAssumption DEF Sealed, Foreign, None
  <2> QED BY <1>0, <1>1, <2>1, <2>2, <2>3 DEF WorldInv
<1>3. CASE Rmdir(q) /\ ~Raise(q)
  <2>1. /\ pc[q] = "rmdir" /\ Listing("legacy") = {} /\ entry' = entry
        /\ exists' = [exists EXCEPT !["legacy"] = FALSE]
    BY <1>3 DEF Rmdir, Require
  <2>2. Moved(q, Receipt)
    BY <1>0, <2>1, NumberFacts DEF RunInv, PlaceInv, MoveInv, Source, InList
  <2>3. Sealed
    BY <2>2, NumberFacts DEF Moved, Sealed
  <2>4. \A n \in Names : entry["legacy"][n] = None
    BY <2>1 DEF Listing
  <2>5. ~exists'["legacy"]
    BY <2>1 DEF TypeInv, DiskOK, Dirs
  <2> QED BY <1>1, <2>1, <2>3, <2>4, <2>5
<1>4. CASE /\ pc[q] = "digest" /\ k[q] = Receipt /\ UNCHANGED disk
           /\ AfterPass(q) = "verified"
           /\ Digested(q) # None /\ ReceiptHolds(q, Digested(q))
  <2> DEFINE i == Digested(q)
  <2>1. m.route = "verify" /\ m.phase = "check" /\ ~exists["legacy"]
    <3>1. m.phase # "survey" /\ m.route \notin {"fresh", "relocate"}
      BY <1>4 DEF AfterPass
    <3> QED BY <1>0, <1>4, <3>1 DEF RunInv, RouteInv, Surveyed, Early, Final, Memories
  <2>2. i = entry["archive"][Receipt] /\ text[i] = m.again
    BY <1>4, <2>1 DEF Digested, ReceiptHolds, Known
  <2>3. m.again[1].file # None
    BY <1>0, <1>4, <2>1, TextKinds, NumberFacts DEF RunInv, CheckInv
  <2>4. i # Foreign
    BY <1>0, <2>2, <2>3, TextKinds DEF WorldInv
  <2>5. Sealed
    BY <1>4, <2>2, <2>4 DEF Sealed
  <2> QED BY <1>0, <1>1, <1>4, <2>1, <2>5 DEF WorldInv, disk
<1> QED BY <1>2, <1>3, <1>4, ReachSuccess

LEMMA NextSuccess ==
  TypeInv /\ ArchiveInv /\ HolderInv /\ [Next]_vars => SuccessIsComplete'
<1> SUFFICES ASSUME TypeInv, ArchiveInv, HolderInv, [Next]_vars,
                    NEW p \in Procs, pc'[p] \in Success
             PROVE  Complete'
  BY DEF SuccessIsComplete, Success, Complete, Listing, Sealed
<1>1. CASE pc[p] \in Success
  <2>1. Complete
    BY <1>1 DEF ArchiveInv, SuccessIsComplete, Success, Complete
  <2> QED BY <2>1, CompleteStays
<1>2. CASE pc[p] \notin Success
  <2>1. pc'[p] # pc[p]
    BY <1>2
  <2>2. ASSUME NEW how, Return(p, how) PROVE pc'[p] = how
    BY <2>2 DEF Return, Goto, TypeInv, RunsOK
  <2>3. ~Rerun(p)
    BY DEF Rerun, Goto, TypeInv, RunsOK, Success
  <2>4. Step(p)
    <3>1. CASE UNCHANGED vars
      BY <2>1, <3>1 DEF vars
    <3>2. ASSUME NEW q \in Procs, Step(q) \/ Rerun(q) \/ IoError(q) \/ Kill(q),
                 q # p
          PROVE  FALSE
      <4>1. OwnStep(q)
        BY <3>2, StepOthers, ReturnOthers, GotoOthers DEF Rerun, IoError, Kill
      <4> QED BY <2>1, <3>2, <4>1 DEF OwnStep
    <3>3. ~IoError(p) /\ ~Kill(p)
      BY <2>2 DEF IoError, Kill, Success
    <3>4. ASSUME NEW i \in Files, Edit(i) PROVE FALSE
      BY <2>1, <3>4 DEF Edit
    <3>5. ASSUME NEW n \in Names, Intrude(n) PROVE FALSE
      BY <2>1, <3>5 DEF Intrude
    <3> QED BY <2>3, <3>1, <3>2, <3>3, <3>4, <3>5 DEF Next
  <2> QED BY <2>4, SuccessStep
<1> QED BY <1>1, <1>2

LEMMA InitArchiveInv == Init => ArchiveInv
<1> SUFFICES ASSUME Init PROVE ArchiveInv
  OBVIOUS
<1>1. PICK kind \in Kinds :
        /\ entry = Layout(kind)
        /\ exists = [d \in Dirs |-> \/ d = "raw"
                                    \/ (d = "legacy" /\ kind # "fresh")
                                    \/ (d = "archive" /\ kind = "split")]
        /\ text = [i \in Inodes |-> IF i = Receipt /\ kind # "fresh"
                                      THEN OldReceipt ELSE NoText]
  BY DEF Init
<1>2. Receipt \in Inodes /\ Foreign \in Inodes /\ Foreign # Receipt
  BY MigrationAssumption DEF Receipt, Foreign, Inodes
<1>3. kind \in {"fresh", "legacy", "split"}
  BY MigrationAssumption
<1>4. Old <=> kind # "fresh"
  BY <1>1, <1>2, TextKinds DEF Old
<1>5. \A d \in Dirs, n \in Names :
        entry[d][n] = IF \/ d = "raw" /\ kind = "fresh" /\ n \in Files
                         \/ d = "legacy" /\ (kind = "legacy" \/ (kind = "split" /\ n > 1))
                         \/ d = "archive" /\ kind = "split" /\ n = 1
                        THEN n ELSE None
  BY <1>1 DEF Layout
<1>6. entry["archive"][Receipt] = None
  BY <1>5, NumberFacts, MigrationAssumption DEF Dirs, Receipt
<1>7. WorldInv
  <2>1. exists["legacy"] <=> kind # "fresh"
    BY <1>1 DEF Dirs
  <2>2. text[Foreign] = NoText
    BY <1>1, <1>2
  <2>3. \A n \in Names :
          /\ entry["raw"][n] = IF kind = "fresh" /\ n \in Files THEN n ELSE None
          /\ entry["legacy"][n] \in {None, n}
          /\ kind = "fresh" => entry["legacy"][n] = None
          /\ entry["archive"][n] \in {None, n}
    BY <1>5 DEF Dirs
  <2> QED BY <1>3, <1>4, <1>6, <2>1, <2>2, <2>3, NumberFacts DEF WorldInv
<1>8. ~Sealed
  BY <1>6 DEF Sealed
<1>9. \A p \in Procs : mem[p] = Fresh /\ pc[p] = "start"
  BY DEF Init
<1>10. \A p \in Procs : RunInv(p)
  <2>1. Fresh.route = "none" /\ Fresh.phase = "survey" /\ ~Fresh.legacyThere
    BY DEF Fresh
  <2> QED BY <1>9, <2>1 DEF RunInv, RouteInv, PlaceInv, SurveyInv, MoveInv,
        CheckInv, ReceiptInv, Source, Moving, Sealing
<1>11. SuccessIsComplete
  BY <1>9 DEF SuccessIsComplete
<1> QED BY <1>7, <1>8, <1>10, <1>11 DEF ArchiveInv, SealedInv

LEMMA ArchiveInvariance == Spec => []ArchiveInv
<1>1. TypeInv /\ HolderInv /\ ArchiveInv /\ [Next]_vars => ArchiveInv'
  BY NextWorldInv, NextRunInv, NextSealedInv, NextSuccess DEF ArchiveInv
<1> QED BY <1>1, InitArchiveInv, TypeInvariance, HolderInvariance, PTL DEF Spec

\* The receipt is true: when it is in the archive, so is every file it lists,
\* the very inode it describes, and no source directory holds one; and a run
\* publishes the digests it took before the first move.
THEOREM SealTellsTheTruth == Spec => []SealIsTrue
<1>1. ArchiveInv => SealIsTrue
  <2> SUFFICES ASSUME ArchiveInv PROVE SealIsTrue
    OBVIOUS
  <2>1. Sealed => \A n \in Files :
          /\ entry["archive"][n] # None
          /\ text[entry["archive"][Receipt]][n].file = entry["archive"][n]
          /\ entry["raw"][n] = None /\ entry["legacy"][n] = None
    BY NumberFacts DEF ArchiveInv, SealedInv
  <2>2. ASSUME NEW p \in Procs, pc[p] = "drop_temp"
        PROVE  text[entry["archive"][Receipt]] = mem[p].first
    BY <2>2 DEF ArchiveInv, RunInv, ReceiptInv
  <2> QED BY <2>1, <2>2 DEF SealIsTrue
<1> QED BY <1>1, ArchiveInvariance, PTL

\* A run that reports success leaves every file in a sealed archive, nothing in
\* the source directories and no previous archive, whichever of its three
\* routes it took and whatever other runs were doing.
THEOREM SuccessLeavesNothing == Spec => []SuccessIsComplete
<1>1. ArchiveInv => SuccessIsComplete
  BY DEF ArchiveInv
<1> QED BY <1>1, ArchiveInvariance, PTL

----------------------------------------------------------------------------
(* The migration implements ArchiveMove.                                   *)

LEMMA InitPlace == Init => Abstract!Init
<1> SUFFICES ASSUME Init PROVE Abstract!Init
  OBVIOUS
<1>1. entry["archive"][Receipt] = None
  <2>1. \A kind : Layout(kind)["archive"][Receipt] = None
    BY NumberFacts, MigrationAssumption DEF Layout, Dirs, Receipt
  <2> QED BY <2>1 DEF Init
<1>2. ~Sealed /\ Sealed \in BOOLEAN
  BY <1>1 DEF Sealed
<1>3. Place \in [Files -> {"source", "both", "archive"}]
  BY DEF Place
<1> QED BY <1>2, <1>3 DEF Abstract!Init

\* Where a file is depends on its own names only.
LEMMA PlaceSame ==
  ASSUME \A n \in Files :
           /\ entry'["archive"][n] = n <=> entry["archive"][n] = n
           /\ InSource(n)' <=> InSource(n)
  PROVE  Place' = Place
BY DEF Place

LEMMA LinkedCopies ==
  ASSUME TypeInv, ArchiveInv, NEW p \in Procs, Linked(p), k[p] \in Files
  PROVE  Abstract!Copy(k[p])
<1> DEFINE f == k[p]
<1>0. f \in Names /\ SrcDir(p) \in {"raw", "legacy"} /\ f # Receipt /\ f # None
  BY NameFacts, NumberFacts
<1>1. entry[SrcDir(p)][f] = f /\ entry["archive"][f] = None
  BY <1>0 DEF Linked, ArchiveInv, WorldInv
<1>2. /\ entry'["archive"][f] = f /\ entry'["archive"][Receipt] = entry["archive"][Receipt]
      /\ \A n \in Names \ {f} : entry'["archive"][n] = entry["archive"][n]
      /\ entry'["raw"] = entry["raw"] /\ entry'["legacy"] = entry["legacy"]
  BY <1>0, <1>1, NumberFacts DEF Linked, TypeInv, DiskOK, Dirs
<1>3. InSource(f)'
  <2>1. entry'["raw"][f] = f \/ entry'["legacy"][f] = f
    BY <1>0, <1>1, <1>2
  <2>2. k' = k
    BY DEF Linked
  <2> QED BY <2>1, <2>2 DEF InSource
<1>4. Place[f] = "source"
  BY <1>0, <1>1 DEF Place
<1>5. Place' = [Place EXCEPT ![f] = "both"]
  <2>1. \A n \in Files \ {f} : InSource(n)' <=> InSource(n)
    BY <1>2 DEF InSource
  <2>2. k' = k
    BY DEF Linked
  <2>3. \A n \in Files : Place'[n] = [Place EXCEPT ![f] = "both"][n]
    BY <1>2, <1>3, <2>1, <2>2, NumberFacts DEF Place
  <2> QED BY <2>3 DEF Place
<1>6. Sealed' <=> Sealed
  BY <1>2 DEF Sealed
<1> QED BY <1>4, <1>5, <1>6 DEF Abstract!Copy

LEMMA UnlinkedRetires ==
  ASSUME TypeInv, ArchiveInv, NEW p \in Procs, Unlinked(p)
  PROVE  IF k[p] \in Files THEN Abstract!Retire(k[p])
         ELSE UNCHANGED <<Place, Sealed>>
<1> DEFINE f == k[p]
<1>0. /\ f \in Names /\ SrcDir(p) \in {"raw", "legacy"} /\ f # None
      /\ RunInv(p) /\ WorldInv /\ pc[p] = "unlink" /\ k' = k
  BY NameFacts, NumberFacts DEF ArchiveInv, Unlinked
<1>1. entry["archive"][f] = f /\ entry[SrcDir(p)][f] = f
  BY <1>0 DEF RunInv, MoveInv, Unlinked, WorldInv
<1>2. /\ entry'["archive"] = entry["archive"]
      /\ entry'[SrcDir(p)][f] = None
      /\ \A d \in {"raw", "legacy"}, n \in Names \ {f} : entry'[d][n] = entry[d][n]
      /\ \A d \in {"raw", "legacy"} \ {SrcDir(p)} : entry'[d] = entry[d]
  BY <1>0 DEF Unlinked, TypeInv, DiskOK, Dirs
<1>3. \A d \in {"raw", "legacy"} \ {SrcDir(p)} : entry[d][f] = None
  BY <1>0, NumberFacts DEF RunInv, PlaceInv, RouteInv, WorldInv, Source, SrcDir, Moving
<1>4. Sealed' <=> Sealed
  BY <1>2 DEF Sealed
<1>5. \A n \in Files \ {f} : InSource(n)' <=> InSource(n)
  BY <1>2, NumberFacts DEF InSource
<1>6. CASE f \notin Files
  <2>1. Place' = Place
    BY <1>2, <1>5, <1>6, PlaceSame
  <2> QED BY <1>4, <1>6, <2>1
<1>7. CASE f \in Files
  <2>1. InSource(f)
    BY <1>0, <1>1 DEF InSource
  <2>2. ~InSource(f)'
    <3>1. entry'["raw"][f] = None /\ entry'["legacy"][f] = None
      BY <1>0, <1>2, <1>3
    <3> QED BY <1>0, <3>1 DEF InSource
  <2>3. Place[f] = "both"
    BY <1>1, <1>7, <2>1 DEF Place
  <2>4. \A n \in Files : Place'[n] = [Place EXCEPT ![f] = "archive"][n]
    BY <1>0, <1>1, <1>2, <1>5, <2>2 DEF Place
  <2>5. Place' = [Place EXCEPT ![f] = "archive"]
    BY <2>4 DEF Place
  <2> QED BY <1>4, <1>7, <2>3, <2>5 DEF Abstract!Retire
<1> QED BY <1>6, <1>7

LEMMA SealsOnce ==
  ASSUME TypeInv, ArchiveInv, [Next]_vars, NEW p \in Procs,
         Published(p) \/ (Linked(p) /\ k[p] = Receipt)
  PROVE  Abstract!SealArchive
<1>1. /\ entry["archive"][Receipt] = None
      /\ \E i : i # None /\ i # Foreign
               /\ entry' = [entry EXCEPT !["archive"][Receipt] = i]
  <2>1. CASE Published(p)
    <3>1. mem[p].temp > Foreign
      BY <2>1 DEF Published, ArchiveInv, RunInv, ReceiptInv
    <3>2. mem[p].temp # None /\ mem[p].temp # Foreign
      BY <3>1, MigrationAssumption DEF Foreign, None
    <3> QED BY <2>1, <3>2 DEF Published
  <2>2. CASE Linked(p) /\ k[p] = Receipt
    <3>1. entry[SrcDir(p)][Receipt] = Receipt
      BY <2>2, NameFacts DEF Linked, ArchiveInv, WorldInv
    <3> QED BY <2>2, <3>1, NumberFacts DEF Linked
  <2> QED BY <2>1, <2>2
<1>2. /\ ~Sealed /\ Sealed' /\ \A n \in Files : entry'["archive"][n] = entry["archive"][n]
      /\ entry'["raw"] = entry["raw"] /\ entry'["legacy"] = entry["legacy"]
  BY <1>1, NumberFacts DEF Sealed, TypeInv, DiskOK, Dirs
<1>3. \A n \in Files : Place[n] = "archive"
  <2>1. \A n \in Files : ~InSource(n) /\ entry["archive"][n] = n
    BY <1>2, SealedStep, NumberFacts DEF InSource
  <2> QED BY <2>1 DEF Place
<1>4. Place' = Place
  BY <1>2, PlaceSame DEF InSource
<1> QED BY <1>2, <1>3, <1>4 DEF Abstract!SealArchive

LEMMA StepPlace ==
  TypeInv /\ ArchiveInv /\ [Next]_vars => [Abstract!Next]_<<Place, Sealed>>
<1> SUFFICES ASSUME TypeInv, ArchiveInv, [Next]_vars
             PROVE  Abstract!Next \/ UNCHANGED <<Place, Sealed>>
  OBVIOUS
<1>1. ASSUME entry' = entry PROVE UNCHANGED <<Place, Sealed>>
  BY <1>1, PlaceSame DEF InSource, Sealed
<1>2. ASSUME NEW p \in Procs, Linked(p) PROVE Abstract!Next
  <2>1. CASE k[p] \in Files
    BY <1>2, <2>1, LinkedCopies DEF Abstract!Next
  <2>2. CASE k[p] = Receipt
    BY <1>2, <2>2, SealsOnce DEF Abstract!Next
  <2> QED BY <2>1, <2>2, NameFacts, NumberFacts
<1>3. ASSUME NEW p \in Procs, Unlinked(p)
      PROVE  Abstract!Next \/ UNCHANGED <<Place, Sealed>>
  BY <1>3, UnlinkedRetires DEF Abstract!Next
<1>4. ASSUME NEW p \in Procs, Published(p) PROVE Abstract!Next
  BY <1>4, SealsOnce DEF Abstract!Next
<1>5. ASSUME NEW n \in Names, Intruded(n) PROVE UNCHANGED <<Place, Sealed>>
  <2>1. /\ entry'["raw"] = entry["raw"] /\ entry'["legacy"] = entry["legacy"]
        /\ entry["archive"][n] = None /\ entry'["archive"][n] = Foreign
        /\ \A f \in Names \ {n} : entry'["archive"][f] = entry["archive"][f]
    BY <1>5 DEF Intruded, TypeInv, DiskOK, Dirs
  <2>2. Place' = Place
    BY <2>1, PlaceSame, NumberFacts DEF InSource
  <2>3. Sealed' <=> Sealed
    BY <2>1, NumberFacts DEF Sealed
  <2> QED BY <2>2, <2>3
<1> QED BY <1>1, <1>2, <1>3, <1>4, <1>5, DiskCauses DEF Made, Wrote

\* Any number of runs, kills, edits and intruders do no more than link each file
\* into the archive, retire it from where it was, and seal the archive once all
\* of them are in it.
THEOREM MigrationImplementsArchiveMove == Spec => ImplementsArchive
<1>1. Spec => []TypeInv /\ []ArchiveInv
  BY TypeInvariance, ArchiveInvariance
<1> QED BY <1>1, InitPlace, StepPlace, PTL
     DEF Spec, ImplementsArchive, Abstract!Spec

----------------------------------------------------------------------------
(* Partial states fail closed.                                             *)

\* The places of a run that looks at the directories, one call at a time.
Glancing == {"see_legacy", "scan_archive", "scan_legacy", "choose"}

\* What it has seen there is still so.
GlanceInv(p) ==
  LET m == mem[p] IN
  /\ pc[p] \in Glancing => (exists["archive"] => m.archiveThere)
  /\ pc[p] \in Glancing \ {"see_legacy"} => (m.legacyThere => exists["legacy"])
  /\ pc[p] \in {"scan_legacy", "choose"} =>
       \A n \in m.archiveNames : entry["archive"][n] # None
  /\ pc[p] = "choose" => \A n \in m.legacyNames : entry["legacy"][n] # None

Lonely == \A p, q \in Procs : Running(p) /\ Running(q) => p = q

LonelyInv == ~overlapped => Lonely /\ \A p \in Procs : GlanceInv(p)

\* While a run that is alone looks, nothing moves but what an intruder adds.
LEMMA NothingMoves ==
  ASSUME TypeInv, Lonely, [Next]_vars, NEW p \in Procs, pc[p] \in Glancing
  PROVE  exists' = exists /\ (entry' = entry \/ \E n \in Names : Intruded(n))
<1> DEFINE Moves == {"mkdir", "link", "unlink", "publish", "rmdir"}
<1>1. \A q \in Procs : pc[q] \notin Moves
  BY DEF Lonely, Running, Glancing, Final
<1>2. entry' = entry \/ \E n \in Names : Intruded(n)
  BY <1>1, DiskCauses DEF Linked, Unlinked, Published, Made, Wrote
<1>3. ASSUME NEW q \in Procs, Step(q) PROVE exists' = exists
  <2>1. CASE Raise(q)
    BY <2>1 DEF Raise, disk
  <2>2. ~Mkdir(q) /\ ~Rmdir(q)
    BY <1>1 DEF Mkdir, Rmdir
  <2>3. CASE ~Raise(q) /\ Observe(q)
    BY <2>3 DEF Observe, SeeArchive, SeeLegacy, ScanArchive, ScanLegacy,
       Choose, Look, SurveyLook, CheckLook, Read, Require, disk
  <2>4. CASE ~Raise(q) /\ Move(q)
    BY <2>2, <2>4 DEF Move, ConfirmMoved, StartMove, StartRetire, Link,
       VerifyLink, Unlink, VerifyMove, Require, disk
  <2>5. CASE ~Raise(q) /\ Seal(q)
    BY <2>2, <2>5 DEF Seal, Sync, MakeTemp, WriteTemp, Publish, DropTemp,
       ScanCleanup, Require, disk
  <2> QED BY <1>3, <2>1, <2>3, <2>4, <2>5 DEF Step
<1>4. CASE UNCHANGED vars
  BY <1>2, <1>4 DEF vars
<1>5. ASSUME NEW q \in Procs, Rerun(q) \/ IoError(q) \/ Kill(q)
      PROVE  exists' = exists
  BY <1>5 DEF Rerun, IoError, Kill, disk
<1>6. ASSUME NEW i \in Files, Edit(i) PROVE exists' = exists
  BY <1>6 DEF Edit
<1>7. ASSUME NEW n \in Names, Intrude(n) PROVE exists' = exists
  BY <1>7 DEF Intrude
<1> QED BY <1>2, <1>3, <1>4, <1>5, <1>6, <1>7 DEF Next

\* A run comes to each look from the one before it.
LEMMA ReachGlance ==
  ASSUME TypeInv, NEW q \in Procs, Step(q), pc'[q] \in Glancing
  PROVE  /\ ~Raise(q)
         /\ SeeArchive(q) \/ SeeLegacy(q) \/ ScanArchive(q) \/ ScanLegacy(q)
<1> USE DEF Goto, Glancing
<1>0. pc \in [Procs -> Labels]
  BY DEF TypeInv, RunsOK
<1>1. ASSUME NEW how \in Final, Return(q, how) PROVE FALSE
  BY <1>0, <1>1 DEF Return, Final
<1>2. ~Raise(q)
  BY <1>1 DEF Raise, Final
<1>3. CASE Observe(q)
  <2>1. ~Choose(q)
    BY <1>0, <1>2 DEF Choose, Require
  <2>2. ~Look(q)
    BY <1>0, <1>2 DEF Look, SurveyLook, CheckLook, Require
  <2>3. ~Read(q)
    <3>1. AfterPass(q) \notin Glancing
      BY DEF AfterPass
    <3>2. \A i : ~ReadFile(q, i)
      BY <1>0, <3>1 DEF ReadFile
    <3>3. ~ReadReceipt(q)
      BY <1>0, <1>1, <3>1 DEF ReadReceipt, Final
    <3> QED BY <1>2, <3>2, <3>3 DEF Read, Require
  <2> QED BY <1>2, <1>3, <2>1, <2>2, <2>3 DEF Observe
<1>4. CASE Move(q)
  <2>1. ~NextMove(q)
    BY <1>0 DEF NextMove
  <2>2. ~ConfirmMoved(q) /\ ~VerifyMove(q)
    BY <1>2, <2>1 DEF ConfirmMoved, VerifyMove, Require
  <2>3. ~Mkdir(q) /\ ~StartMove(q) /\ ~StartRetire(q)
    BY <1>0, <1>2 DEF Mkdir, StartMove, StartRetire, Require
  <2>4. ~Link(q) /\ ~VerifyLink(q) /\ ~Unlink(q)
    BY <1>0, <1>2 DEF Link, VerifyLink, Unlink, Require
  <2> QED BY <1>4, <2>2, <2>3, <2>4 DEF Move
<1>5. CASE Seal(q)
  <2>1. ~Sync(q) /\ ~MakeTemp(q) /\ ~WriteTemp(q) /\ ~ScanCleanup(q)
    BY <1>0, <1>2 DEF Sync, MakeTemp, WriteTemp, ScanCleanup, Require
  <2>2. ~Publish(q) /\ ~DropTemp(q) /\ ~Rmdir(q)
    BY <1>0, <1>1, <1>2 DEF Publish, DropTemp, Rmdir, Require, Final
  <2> QED BY <1>5, <2>1, <2>2 DEF Seal
<1> QED BY <1>3, <1>4, <1>5 DEF Step

\* One look more.
LEMMA OwnGlance ==
  ASSUME TypeInv, NEW p \in Procs, GlanceInv(p), ~Raise(p),
         SeeArchive(p) \/ SeeLegacy(p) \/ ScanArchive(p) \/ ScanLegacy(p)
  PROVE  GlanceInv(p)'
<1> DEFINE m == mem[p]
<1> USE DEF Goto, Recall, Glancing, GlanceInv
<1>0. /\ pc \in [Procs -> Labels] /\ mem \in [Procs -> Memories] /\ m \in Memories
      /\ exists \in [Dirs -> BOOLEAN] /\ Dirs = {"raw", "legacy", "archive"}
  BY DEF TypeInv, RunsOK, DiskOK, Dirs
<1>1. CASE SeeArchive(p)
  <2>1. /\ pc'[p] = "see_legacy" /\ exists' = exists
        /\ mem'[p] = [m EXCEPT !.archiveThere = exists["archive"]]
    BY <1>0, <1>1 DEF SeeArchive, disk
  <2>2. mem'[p].archiveThere = exists["archive"]
    BY <1>0, <2>1 DEF Memories
  <2> QED BY <2>1, <2>2
<1>2. CASE SeeLegacy(p)
  <2>1. /\ pc[p] = "see_legacy" /\ pc'[p] = "scan_archive" /\ exists' = exists
        /\ mem'[p] = [m EXCEPT !.legacyThere = exists["legacy"]]
    BY <1>0, <1>2 DEF SeeLegacy, disk
  <2>2. mem'[p].legacyThere = exists["legacy"] /\ mem'[p].archiveThere = m.archiveThere
    BY <1>0, <2>1 DEF Memories
  <2> QED BY <2>1, <2>2
<1>3. CASE ScanArchive(p)
  <2>1. /\ pc[p] = "scan_archive" /\ pc'[p] = "scan_legacy"
        /\ exists' = exists /\ entry' = entry
        /\ mem'[p] = [m EXCEPT !.archiveNames = Listing("archive")]
    BY <1>0, <1>3 DEF ScanArchive, Require, disk
  <2>2. /\ mem'[p].archiveNames = Listing("archive")
        /\ mem'[p].legacyThere = m.legacyThere /\ mem'[p].archiveThere = m.archiveThere
    BY <1>0, <2>1 DEF Memories
  <2>3. \A n \in Listing("archive") : entry["archive"][n] # None
    BY DEF Listing
  <2> QED BY <2>1, <2>2, <2>3
<1>4. CASE ScanLegacy(p)
  <2>1. /\ pc[p] = "scan_legacy" /\ pc'[p] = "choose"
        /\ exists' = exists /\ entry' = entry
        /\ mem'[p] = [m EXCEPT !.legacyNames = Listing("legacy")]
    BY <1>0, <1>4 DEF ScanLegacy, disk
  <2>2. /\ mem'[p].legacyNames = Listing("legacy") /\ mem'[p].archiveNames = m.archiveNames
        /\ mem'[p].legacyThere = m.legacyThere /\ mem'[p].archiveThere = m.archiveThere
    BY <1>0, <2>1 DEF Memories
  <2>3. \A n \in Listing("legacy") : entry["legacy"][n] # None
    BY DEF Listing
  <2> QED BY <2>1, <2>2, <2>3
<1> QED BY <1>1, <1>2, <1>3, <1>4

LEMMA LonelyStep ==
  TypeInv /\ LonelyInv /\ [MCNext]_<<vars, overlapped>> => LonelyInv'
<1> SUFFICES ASSUME TypeInv, LonelyInv, [MCNext]_<<vars, overlapped>>, ~overlapped'
             PROVE  Lonely' /\ \A p \in Procs : GlanceInv(p)'
  BY DEF LonelyInv
<1>1. [Next]_vars /\ ~overlapped
  <2>1. CASE MCNext
    <3>1. Next /\ (overlapped => overlapped')
      BY <2>1, Zenon DEF MCNext
    <3> QED BY <3>1
  <2>2. CASE UNCHANGED <<vars, overlapped>>
    BY <2>2
  <2> QED BY <2>1, <2>2
<1>2. Lonely /\ \A p \in Procs : GlanceInv(p)
  BY <1>1 DEF LonelyInv
<1>3. Lonely'
  <2>1. CASE MCNext
    BY <2>1 DEF MCNext, Lonely
  <2>2. CASE UNCHANGED <<vars, overlapped>>
    BY <1>2, <2>2 DEF Lonely, Running, vars
  <2> QED BY <2>1, <2>2
<1>4. ASSUME NEW p \in Procs, pc'[p] \in Glancing PROVE GlanceInv(p)'
  <2>1. CASE pc'[p] = pc[p] /\ mem'[p] = mem[p]
    <3>1. exists' = exists /\ (entry' = entry \/ \E n \in Names : Intruded(n))
      BY <1>1, <1>2, <1>4, <2>1, NothingMoves
    <3>2. mem[p].archiveNames \subseteq Names /\ mem[p].legacyNames \subseteq Names
      BY NameFacts DEF Memories
    <3>3. \A n \in Names :
            /\ entry["archive"][n] # None => entry'["archive"][n] # None
            /\ entry["legacy"][n] # None => entry'["legacy"][n] # None
      BY <3>1, NumberFacts DEF Intruded, TypeInv, DiskOK, Dirs
    <3> QED BY <1>2, <2>1, <3>1, <3>2, <3>3 DEF GlanceInv
  <2>2. CASE Step(p)
    BY <1>2, <1>4, <2>2, ReachGlance, OwnGlance
  <2>3. CASE Rerun(p) \/ \E how \in Final : Return(p, how)
    BY <1>4, <2>3 DEF Rerun, Return, Goto, Glancing, Final, TypeInv, RunsOK
  <2> QED BY <1>1, <2>1, <2>2, <2>3, NextOthers DEF OwnStep
<1>5. ASSUME NEW p \in Procs, pc'[p] \notin Glancing PROVE GlanceInv(p)'
  BY <1>5 DEF GlanceInv, Glancing
<1> QED BY <1>3, <1>4, <1>5

LEMMA MCIsSpec == MCSpec => Spec /\ []LonelyInv
<1>1. MCSpec => MCInit /\ [][MCNext]_<<vars, overlapped>>
  BY DEF MCSpec
<1>2. MCInit => Init /\ LonelyInv
  BY DEF MCInit, Init, LonelyInv, Lonely, Running, GlanceInv, Glancing
<1>3. [MCNext]_<<vars, overlapped>> => [Next]_vars
  BY DEF MCNext
<1>4. MCSpec => Spec
  BY <1>1, <1>2, <1>3, PTL DEF Spec
<1>5. MCSpec => []TypeInv
  BY <1>4, TypeInvariance, PTL
<1> QED BY <1>1, <1>2, <1>4, <1>5, LonelyStep, PTL

\* A run that chooses its route alone does so from one of the three states.
LEMMA ChoiceIsOfState ==
  ASSUME TypeInv, ArchiveInv, LonelyInv, [Next]_vars, NEW p \in Procs,
         pc[p] = "choose", pc'[p] = "look"
  PROVE  overlapped \/ FreshState \/ ArchivedState \/ SplitState
<1> DEFINE m == mem[p]
           sources == Listing("raw")
<1> SUFFICES ASSUME ~overlapped PROVE FreshState \/ ArchivedState \/ SplitState
  OBVIOUS
<1>1. /\ exists["archive"] => m.archiveThere
      /\ m.legacyThere => exists["legacy"]
      /\ \A n \in m.archiveNames : entry["archive"][n] # None
      /\ \A n \in m.legacyNames : entry["legacy"][n] # None
  BY DEF LonelyInv, GlanceInv, Glancing
<1>2. m.legacyThere \/ ~exists["legacy"]
  BY DEF ArchiveInv, RunInv, RouteInv
<1>3. m.archiveNames \subseteq Listing("archive") /\ m.legacyNames \subseteq Listing("legacy")
  <2>1. m.archiveNames \subseteq Names /\ m.legacyNames \subseteq Names
    BY NameFacts DEF Memories
  <2> QED BY <1>1, <2>1 DEF Listing
<1>4. Listing("archive") \subseteq Names /\ Listing("legacy") \subseteq Names
  BY DEF Listing
<1>5. Route(p, sources) # "none"
  <2>1. Step(p)
    BY NextOthers DEF OwnStep, Rerun, Return, Goto, Final, TypeInv, RunsOK
  <2>2. ~Raise(p)
    BY DEF Raise, Return, Goto, TypeInv, RunsOK
  <2>3. ~Move(p) /\ ~Seal(p)
    BY DEF Move, Mkdir, ConfirmMoved, StartMove, StartRetire, Link, VerifyLink,
       Unlink, VerifyMove, Seal, Sync, MakeTemp, WriteTemp, Publish, DropTemp,
       ScanCleanup, Rmdir
  <2>4. Choose(p)
    BY <2>1, <2>3 DEF Step, Observe, SeeArchive, SeeLegacy, ScanArchive,
       ScanLegacy, Look, Read
  <2> QED BY <2>2, <2>4 DEF Choose, Require
<1>6. CASE sources = {} /\ m.archiveNames = Names /\ ~m.legacyThere
  BY <1>2, <1>3, <1>4, <1>6 DEF ArchivedState
<1>7. CASE sources = {} /\ m.legacyThere /\ m.archiveNames \cup m.legacyNames = Names
  BY <1>1, <1>3, <1>4, <1>7 DEF SplitState
<1>8. CASE sources = Files /\ ~m.archiveThere /\ ~m.legacyThere
  BY <1>1, <1>2, <1>8 DEF FreshState
<1> QED BY <1>5, <1>6, <1>7, <1>8 DEF Route

\* "Partial and conflicting states fail without changes": a run that no other
\* has overlapped reads and moves files only from one of the three states of the
\* docstring of migrate(), although it looks at the directories one by one and
\* intruders come in between.
THEOREM PartialStatesAreRefused == MCSpec => PartialStatesFailClosed
<1>1. TypeInv /\ ArchiveInv /\ LonelyInv /\ [Next]_vars =>
        [\A p \in Procs : pc[p] = "choose" /\ pc'[p] = "look" =>
           overlapped \/ FreshState \/ ArchivedState \/ SplitState]_vars
  BY ChoiceIsOfState
<1> QED BY <1>1, MCIsSpec, TypeInvariance, ArchiveInvariance, PTL
        DEF Spec, PartialStatesFailClosed
=============================================================================
