-------------------------- MODULE DataFilesProofs --------------------------
(***************************************************************************)
(* Proofs about the files that the evaluations rest on: of the dataset     *)
(* fetchers (DatasetFetch) that their receipts are genuine, that success   *)
(* is on disk and that a rerun is refused only where it is known to be;    *)
(* of the caches that MCDataFiles composes with them (LockedTest) that a   *)
(* report is of one generation of the bundles and that the locked test is  *)
(* scored once; and of the adapters (SourceProjection) that a projection   *)
(* is of its source files as they stood at one moment of the call.         *)
(*                                                                         *)
(* The invariant of the fetchers has five parts: the types (TypeInv,       *)
(* KindInv); what the pin and the publisher settle whatever else runs      *)
(* (PinInv); what an invocation that is alone at work knows (AloneInv);    *)
(* what it leaves on disk (CleanInv); and, for the refusals, that an       *)
(* artifact without its receipt has a kill or a step to show for it        *)
(* (RefInv).  Those of the caches and of the adapters are CacheInv and     *)
(* SourceInv.                                                              *)
(***************************************************************************)
EXTENDS MCDataFiles, TLAPS, SequenceTheorems, FiniteSetTheorems, WellFoundedInduction

USE DatasetFetchAssumption

-----------------------------------------------------------------------------
(* Contents.                                                               *)

Chunks   == Nat \X Nat
Contents == Seq(Chunks)

\* What a download of the pinned version has, as far as it goes.
Prefix(c) == Len(c) <= Size /\ \A i \in 1 .. Len(c) : c[i] = <<Pin, i>>

LEMMA FullIs ==
  ASSUME NEW v \in Nat
  PROVE  /\ Full(v) \in Contents /\ Len(Full(v)) = Size
         /\ Prefix(Full(Pin))
<1>1. \A i \in 1 .. Size : <<v, i>> \in Chunks /\ <<Pin, i>> \in Chunks
  BY DEF Chunks, Pin
<1>2. Full(v) \in [1 .. Size -> Chunks] /\ Full(Pin) \in [1 .. Size -> Chunks]
  BY <1>1 DEF Full
<1>3. Full(v) \in Contents /\ Full(Pin) \in Contents
  BY <1>2 DEF Contents
<1>4. Len(Full(v)) = Size /\ Len(Full(Pin)) = Size
  BY <1>2, <1>3 DEF Contents
<1>5. \A i \in 1 .. Size : Full(Pin)[i] = <<Pin, i>>
  BY DEF Full
<1> QED BY <1>3, <1>4, <1>5 DEF Prefix

LEMMA PrefixIs ==
  ASSUME NEW c \in Contents, Prefix(c)
  PROVE  /\ Len(c) = Size => c = Full(Pin)
         /\ Len(c) < Size => Prefix(Append(c, <<Pin, Len(c) + 1>>))
<1>1. Full(Pin) \in Contents /\ Len(Full(Pin)) = Size /\ Pin \in Nat
  BY FullIs DEF Pin
<1>2. ASSUME Len(c) = Size PROVE c = Full(Pin)
  <2>1. \A i \in 1 .. Len(c) : c[i] = Full(Pin)[i]
    BY <1>2 DEF Prefix, Full
  <2> QED BY <1>1, <1>2, <2>1, SeqEqual DEF Contents
<1>3. ASSUME Len(c) < Size PROVE Prefix(Append(c, <<Pin, Len(c) + 1>>))
  <2> DEFINE e == <<Pin, Len(c) + 1>>
             d == Append(c, e)
  <2>1. /\ Len(d) = Len(c) + 1 /\ Len(c) \in Nat
        /\ \A i \in 1 .. Len(c) : d[i] = c[i]
        /\ d[Len(c) + 1] = e
    BY DEF Contents
  <2> HIDE DEF d
  <2>2. \A i \in 1 .. Len(d) : d[i] = <<Pin, i>>
    BY <2>1 DEF Prefix
  <2> QED BY <1>3, <2>1, <2>2 DEF Prefix, d
<1> QED BY <1>2, <1>3

LEMMA EmptyIs == <<>> \in Contents /\ Len(<<>>) = 0 /\ Prefix(<<>>)
BY DEF Contents, Prefix

\* What is written at the end of a file is appended to it, in either mode.
LEMMA WrittenIs ==
  ASSUME NEW c \in Contents, NEW how, NEW at \in Nat \ {0}, NEW e \in Chunks
  PROVE  /\ Written(c, how, at, e) \in Contents
         /\ at = Len(c) + 1 => Written(c, how, at, e) = Append(c, e)
<1>1. <<e>> \in Contents /\ Hole \in Chunks /\ Len(c) \in Nat
  BY DEF Contents, Chunks, Hole
<1>2. CASE how = "append"
  <2>1. Written(c, how, at, e) = c \o <<>> \o <<e>>
    BY <1>2 DEF Written
  <2>2. c \o <<>> = c
    BY ConcatEmptySeq DEF Contents
  <2>3. c \o <<e>> = Append(c, e)
    BY AppendIsConcat DEF Contents
  <2>4. Append(c, e) \in Contents
    BY AppendProperties DEF Contents
  <2> QED BY <2>1, <2>2, <2>3, <2>4
<1>3. CASE how # "append" /\ at > Len(c)
  <2> DEFINE gap == [i \in 1 .. (at - 1 - Len(c)) |-> Hole]
  <2>1. Written(c, how, at, e) = c \o gap \o <<e>>
    BY <1>3 DEF Written
  <2>2. gap \in Contents
    BY <1>1, <1>3 DEF Contents
  <2>3. c \o gap \in Contents
    BY <2>2, ConcatProperties DEF Contents
  <2>4. (c \o gap) \o <<e>> \in Contents
    BY <1>1, <2>3, ConcatProperties DEF Contents
  <2>5. ASSUME at = Len(c) + 1 PROVE c \o gap \o <<e>> = Append(c, e)
    <3>1. at - 1 - Len(c) = 0
      BY <1>1, <2>5
    <3>2. gap = <<>>
      BY <3>1
    <3>3. c \o gap = c
      BY <3>2, ConcatEmptySeq DEF Contents
    <3>4. c \o <<e>> = Append(c, e)
      BY AppendIsConcat DEF Contents
    <3> HIDE DEF gap
    <3> QED BY <3>3, <3>4
  <2> HIDE DEF gap
  <2> QED BY <2>1, <2>4, <2>5
<1>4. CASE how # "append" /\ ~ (at > Len(c))
  <2>1. Written(c, how, at, e) = [c EXCEPT ![at] = e]
    BY <1>4 DEF Written
  <2>2. at \in 1 .. Len(c)
    BY <1>1, <1>4
  <2>3. [c EXCEPT ![at] = e] \in Contents
    BY <2>2, ExceptSeq DEF Contents
  <2> QED BY <1>1, <1>4, <2>1, <2>3
<1> QED BY <1>2, <1>3, <1>4

-----------------------------------------------------------------------------
(* Type correctness.                                                       *)

Loading == {"resume", "request", "open", "receive", "check", "promote", "unlink",
            "receipt"}
Staging == {"stage", "rename", "seal", "rollback"}
PCs     == Idle \cup {"look", "orphan", "verify", "accept"} \cup Loading \cup Staging
Modes   == {"append", "truncate", "create"}

IsReceipt(r) == \E v \in Nat, c \in Contents : r = Receipt(v, c)

TypeInv ==
  /\ kind \in Kinds /\ served \in Nat \ {0}
  /\ legacy \in BOOLEAN /\ overlapped \in BOOLEAN
  /\ disk \in Seq(Contents)
  /\ partial \in 0 .. Len(disk) /\ target \in 0 .. Len(disk)
  /\ receipt = <<>> \/ \E r : IsReceipt(r) /\ receipt = <<r>>
  /\ pc \in [Procs -> PCs] /\ expect \in [Procs -> Nat]
  /\ sum \in [Procs -> Contents] /\ mode \in [Procs -> Modes]
  /\ fd \in [Procs -> Nat] /\ conn \in [Procs -> Nat]
  /\ \A p \in Procs : pc[p] = "receive" => fd[p] \in 1 .. Len(disk)
  /\ starts \in Nat /\ kills \in Nat /\ damages \in Nat

\* Which kind of fetcher takes which steps.
KindInv ==
  /\ \A p \in Procs : /\ pc[p] \in Staging => kind = "smorffi"
                      /\ pc[p] \in Loading => kind # "smorffi"
                      /\ pc[p] = "unlink" => kind \in {"jamming", "osu"}
  /\ legacy => kind \in {"xrf55", "public"}
  /\ kind = "smorffi" => partial = 0

LEMMA InitTypes == Init => TypeInv /\ KindInv
<1> SUFFICES ASSUME Init PROVE TypeInv /\ KindInv
  OBVIOUS
<1>1. Full(Pin) \in Contents /\ <<>> \in Contents
  BY FullIs, EmptyIs DEF Pin
<1>2. /\ disk \in Seq(Contents) /\ partial \in 0 .. Len(disk)
      /\ target \in 0 .. Len(disk)
  <2>1. CASE legacy
    <3>1. disk = <<Full(Pin)>> /\ target = 1 /\ partial = 0
      BY <2>1 DEF Init
    <3> HIDE DEF Full
    <3> QED BY <1>1, <3>1
  <2>2. CASE ~ legacy
    BY <2>2 DEF Init
  <2> QED BY <2>1, <2>2
<1>3. legacy \in BOOLEAN /\ (legacy => kind \in {"xrf55", "public"})
  BY DEF Init
<1>4. /\ pc \in [Procs -> PCs] /\ expect \in [Procs -> Nat]
      /\ sum \in [Procs -> Contents] /\ mode \in [Procs -> Modes]
      /\ fd \in [Procs -> Nat] /\ conn \in [Procs -> Nat]
  BY <1>1 DEF Init, PCs, Idle, Modes, Pin
<1>5. \A p \in Procs : pc[p] = "idle"
  BY DEF Init
<1>6. /\ kind \in Kinds /\ served \in Nat \ {0} /\ overlapped \in BOOLEAN
      /\ receipt = <<>> /\ starts \in Nat /\ kills \in Nat /\ damages \in Nat
  <2>1. overlapped = FALSE
    BY Zenon DEF Init
  <2>2. overlapped \in BOOLEAN
    BY <2>1, Zenon
  <2>3. kind \in Kinds /\ served = Pin /\ starts = 0 /\ kills = 0 /\ damages = 0
    BY DEF Init
  <2> QED BY <2>2, <2>3 DEF Init, Pin
<1>7. \A p \in Procs : pc[p] # "receive"
  BY <1>5
<1>8. TypeInv
  BY <1>2, <1>3, <1>4, <1>6, <1>7 DEF TypeInv
<1>9. KindInv
  BY <1>3, <1>5 DEF Init, KindInv, Loading, Staging
<1> QED BY <1>8, <1>9

\* What a step makes of the files, and of the variables of invocation p.
StoreStep ==
  /\ disk' \in Seq(Contents) /\ Len(disk) <= Len(disk')
  /\ partial' \in 0 .. Len(disk') /\ target' \in 0 .. Len(disk')
  /\ kind = "smorffi" => partial' = 0
  /\ receipt' = <<>> \/ \E r : IsReceipt(r) /\ receipt' = <<r>>

LocalStep(p) ==
  /\ expect' = expect /\ sum' \in [Procs -> Contents] /\ mode' \in [Procs -> Modes]
  /\ fd' \in [Procs -> Nat] /\ \A q \in Procs \ {p} : fd'[q] = fd[q]
  /\ conn' \in [Procs -> Nat]

\* Where p may come, by its kind.
MayGo(x) ==
  /\ x \in PCs
  /\ x \in Staging => kind = "smorffi"
  /\ x \in Loading => kind # "smorffi"
  /\ x = "unlink" => kind \in {"jamming", "osu"}

LEMMA StoreStays ==
  ASSUME TypeInv, KindInv, UNCHANGED store PROVE StoreStep
BY DEF TypeInv, KindInv, StoreStep, store

LEMMA LocalStays ==
  ASSUME TypeInv, NEW p, UNCHANGED <<expect, mode, fd, conn>>, sum' \in [Procs -> Contents]
  PROVE  LocalStep(p)
BY DEF TypeInv, LocalStep

LEMMA Moves ==
  ASSUME TypeInv, KindInv, NEW p \in Procs, NEW x, MayGo(x),
         pc' = [pc EXCEPT ![p] = x], UNCHANGED world, StoreStep, LocalStep(p),
         x = "receive" => fd'[p] \in 1 .. Len(disk')
  PROVE  TypeInv' /\ KindInv'
<1>1. pc' \in [Procs -> PCs] /\ pc'[p] = x /\ \A q \in Procs \ {p} : pc'[q] = pc[q]
  BY DEF TypeInv, MayGo
<1>2. \A q \in Procs : pc'[q] = "receive" => fd'[q] \in 1 .. Len(disk')
  <2> SUFFICES ASSUME NEW q \in Procs, pc'[q] = "receive"
               PROVE  fd'[q] \in 1 .. Len(disk')
    OBVIOUS
  <2>1. CASE q = p
    BY <1>1, <2>1
  <2>2. CASE q # p
    <3>1. fd'[q] = fd[q] /\ fd[q] \in 1 .. Len(disk)
      BY <1>1, <2>2 DEF TypeInv, LocalStep
    <3>2. disk \in Seq(Contents) /\ disk' \in Seq(Contents) /\ Len(disk) <= Len(disk')
      BY DEF TypeInv, StoreStep
    <3>3. Len(disk) \in Nat /\ Len(disk') \in Nat
      BY <3>2
    <3> QED BY <3>1, <3>2, <3>3
  <2> QED BY <2>1, <2>2
<1>3. TypeInv'
  BY <1>1, <1>2 DEF TypeInv, IsReceipt, world, StoreStep, LocalStep
<1>4. KindInv'
  BY <1>1 DEF KindInv, world, MayGo, StoreStep
<1> QED BY <1>3, <1>4

\* The steps that change nothing but where the invocation is.
LEMMA PlainMoves ==
  ASSUME TypeInv, KindInv, NEW p \in Procs, NEW x \in PCs,
         pc' = [pc EXCEPT ![p] = x], UNCHANGED <<store, world, expect, mode, fd, conn>>,
         sum' \in [Procs -> Contents], x # "receive",
         x \in Staging => kind = "smorffi", x \in Loading => kind # "smorffi",
         x = "unlink" => kind \in {"jamming", "osu"}
  PROVE  TypeInv' /\ KindInv'
<1>1. UNCHANGED store /\ UNCHANGED world /\ UNCHANGED <<expect, mode, fd, conn>>
  OBVIOUS
<1>2. StoreStep /\ LocalStep(p) /\ MayGo(x)
  BY <1>1, StoreStays, LocalStays DEF MayGo
<1> QED BY <1>1, <1>2, Moves

\* What an artifact that is there leads to, for all fetchers.
LEMMA Acceptance ==
  ASSUME NEW p \in Procs, Accept(p), kind \in Kinds
  PROVE  \E x \in {"refused", "done", "receipt"} :
           /\ pc' = [pc EXCEPT ![p] = x]
           /\ x = "done" => \E v : receipt = <<Receipt(v, sum[p])>>
           /\ x = "receipt" => /\ receipt = <<>> /\ sum[p] = Full(Pin) /\ kind \in Pinned
                               /\ kind = "xrf55" => legacy
           /\ x = "refused" =>
                \/ kind \in Pinned /\ sum[p] # Full(Pin)
                \/ kind # "osu" /\ receipt # <<>> /\ receipt # <<Receipt(Pin, sum[p])>>
                \/ kind = "osu" /\ receipt # <<>> /\ receipt # <<Receipt(expect[p], sum[p])>>
                \/ kind \in {"osu", "smorffi"} /\ receipt = <<>>
                \/ kind = "xrf55" /\ receipt = <<>> /\ ~ legacy
<1> DEFINE mine == <<Receipt(Pin, sum[p])>>
<1>1. CASE kind \in {"jamming", "public"}
  <2>1. pc' = [pc EXCEPT ![p] = AcceptJamming(p)]
    BY <1>1 DEF Accept, AcceptPublic, Goto
  <2>2. CASE sum[p] # Full(Pin)
    BY <1>1, <2>1, <2>2 DEF AcceptJamming, Pinned
  <2>3. CASE sum[p] = Full(Pin) /\ receipt = <<>>
    BY <1>1, <2>1, <2>3 DEF AcceptJamming, Pinned
  <2>4. CASE sum[p] = Full(Pin) /\ receipt # <<>> /\ receipt = mine
    BY <1>1, <2>1, <2>4 DEF AcceptJamming
  <2>5. CASE sum[p] = Full(Pin) /\ receipt # <<>> /\ receipt # mine
    BY <1>1, <2>1, <2>5 DEF AcceptJamming
  <2> QED BY <2>2, <2>3, <2>4, <2>5
<1>2. CASE kind = "osu"
  BY <1>2 DEF Accept, AcceptOsu, Goto
<1>3. CASE kind = "xrf55"
  <2>1. pc' = [pc EXCEPT ![p] = AcceptXrf55(p)]
    BY <1>3 DEF Accept, Goto
  <2>2. mine # <<>>
    OBVIOUS
  <2>3. CASE receipt = mine
    BY <1>3, <2>1, <2>2, <2>3 DEF AcceptXrf55
  <2>4. CASE receipt # mine /\ receipt = <<>> /\ legacy /\ sum[p] = Full(Pin)
    BY <1>3, <2>1, <2>4 DEF AcceptXrf55, Pinned
  <2>5. CASE receipt # mine /\ ~ (receipt = <<>> /\ legacy /\ sum[p] = Full(Pin))
    BY <1>3, <2>1, <2>5 DEF AcceptXrf55, Pinned
  <2> QED BY <2>3, <2>4, <2>5
<1>4. CASE kind = "smorffi"
  BY <1>4 DEF Accept, AcceptSmorffi, Goto
<1> QED BY <1>1, <1>2, <1>3, <1>4

LEMMA LookTypes ==
  ASSUME TypeInv, KindInv, NEW p \in Procs,
         Look(p) \/ LookForOrphan(p) \/ Digest(p) \/ Accept(p) \/ Check(p) \/ Stage(p)
  PROVE  TypeInv' /\ KindInv'
<1> USE DEF Goto, PCs, Loading, Staging, Idle
<1>1. sum \in [Procs -> Contents] /\ kind \in Kinds
  BY DEF TypeInv
<1>2. CASE Look(p)
  <2>1. PICK x \in {"failed", "verify", "orphan"} : pc' = [pc EXCEPT ![p] = x]
    BY <1>2 DEF Look
  <2> QED BY <1>1, <1>2, <2>1, PlainMoves DEF Look
<1>3. CASE LookForOrphan(p)
  <2>1. PICK x \in {"refused", "stage", "resume"} :
          /\ pc' = [pc EXCEPT ![p] = x]
          /\ x = "stage" => kind = "smorffi"
          /\ x = "resume" => kind # "smorffi"
    BY <1>3 DEF LookForOrphan
  <2> QED BY <1>1, <1>3, <2>1, PlainMoves DEF LookForOrphan
<1>4. CASE Digest(p)
  <2>1. PICK x \in {"refused", "accept"} : pc' = [pc EXCEPT ![p] = x]
    BY <1>4 DEF Digest
  <2>2. sum' \in [Procs -> Contents]
    <3>1. CASE target = 0
      BY <1>1, <1>4, <3>1 DEF Digest
    <3>2. CASE target # 0
      <4>1. disk[target] \in Contents
        BY <3>2 DEF TypeInv
      <4> QED BY <1>1, <1>4, <3>2, <4>1 DEF Digest
    <3> QED BY <3>1, <3>2
  <2> QED BY <1>4, <2>1, <2>2, PlainMoves DEF Digest
<1>5. CASE Accept(p)
  <2>1. PICK x \in {"refused", "done", "receipt"} :
          pc' = [pc EXCEPT ![p] = x] /\ (x = "receipt" => kind # "smorffi")
    BY <1>1, <1>5, Acceptance DEF Pinned
  <2> QED BY <1>1, <1>5, <2>1, PlainMoves DEF Accept
<1>6. CASE Check(p)
  <2>1. PICK x \in {"refused", "promote"} : pc' = [pc EXCEPT ![p] = x]
    BY <1>6 DEF Check
  <2>2. kind # "smorffi"
    BY <1>6 DEF Check, KindInv
  <2> QED BY <1>1, <1>6, <2>1, <2>2, PlainMoves DEF Check
<1>7. CASE Stage(p)
  <2>1. PICK x \in {"failed", "rename"} : pc' = [pc EXCEPT ![p] = x]
    BY <1>7 DEF Stage
  <2>2. Full(served) \in Contents
    BY FullIs DEF TypeInv
  <2>3. kind = "smorffi" /\ sum' \in [Procs -> Contents]
    BY <1>1, <1>7, <2>2 DEF Stage, KindInv
  <2> QED BY <1>1, <1>7, <2>1, <2>3, PlainMoves DEF Stage
<1> QED BY <1>2, <1>3, <1>4, <1>5, <1>6, <1>7

\* What the partial file holds, if there is one.
Found == IF partial = 0 THEN <<>> ELSE disk[partial]

LEMMA ResumeIs ==
  ASSUME TypeInv, NEW p \in Procs, Resume(p)
  PROVE  /\ Found \in Contents /\ Len(Found) \in Nat
         /\ sum' = [sum EXCEPT ![p] = IF kind = "public" THEN <<>> ELSE Found]
         /\ mode' = [mode EXCEPT ![p] = OpenMode(Len(Found))]
         /\ \/ kind # "public" /\ Len(Found) > Size /\ pc' = [pc EXCEPT ![p] = "refused"]
            \/ kind # "public" /\ Len(Found) = Size /\ pc' = [pc EXCEPT ![p] = "check"]
            \/ /\ kind # "public" => Len(Found) < Size
               /\ pc' = [pc EXCEPT ![p] = "request"]
<1> USE DEF Goto
<1>1. Found \in Contents /\ Len(Found) \in Nat
  <2>1. Found \in Contents
    BY EmptyIs DEF TypeInv, Found
  <2> QED BY <2>1 DEF Contents
<1>2. PICK f : f = Found
  OBVIOUS
<1>3. /\ sum' = [sum EXCEPT ![p] = IF kind = "public" THEN <<>> ELSE f]
      /\ mode' = [mode EXCEPT ![p] = OpenMode(Len(f))]
      /\ pc' = [pc EXCEPT ![p] =
                  CASE kind # "public" /\ Len(f) > Size -> "refused"
                    [] kind # "public" /\ Len(f) = Size -> "check"
                    [] OTHER                             -> "request"]
  BY <1>2 DEF Resume, Found
<1>4. CASE kind # "public" /\ Len(f) > Size
  <2>1. ~ (Len(f) = Size)
    BY <1>1, <1>2, <1>4 DEF DatasetFetchAssumption
  <2>2. pc' = [pc EXCEPT ![p] = "refused"]
    BY <1>3, <1>4, <2>1
  <2> QED BY <1>1, <1>2, <1>3, <1>4, <2>2
<1>5. CASE kind # "public" /\ Len(f) = Size
  <2>1. ~ (Len(f) > Size)
    BY <1>5
  <2>2. pc' = [pc EXCEPT ![p] = "check"]
    BY <1>3, <1>5, <2>1
  <2> QED BY <1>1, <1>2, <1>3, <1>5, <2>2
<1>6. CASE ~ (kind # "public" /\ Len(f) > Size) /\ ~ (kind # "public" /\ Len(f) = Size)
  <2>1. pc' = [pc EXCEPT ![p] = "request"]
    BY <1>3, <1>6
  <2>2. kind # "public" => Len(f) < Size
    BY <1>1, <1>2, <1>6
  <2> QED BY <1>1, <1>2, <1>3, <2>1, <2>2
<1> QED BY <1>4, <1>5, <1>6

LEMMA ResumeTypes ==
  ASSUME TypeInv, KindInv, NEW p \in Procs, Resume(p) \/ Request(p)
  PROVE  TypeInv' /\ KindInv'
<1>1. /\ kind # "smorffi" /\ UNCHANGED store /\ UNCHANGED world
      /\ expect' = expect /\ fd' = fd
  BY DEF Resume, Request, KindInv, Loading
<1>2. StoreStep
  BY <1>1, StoreStays
<1>3. /\ sum \in [Procs -> Contents] /\ mode \in [Procs -> Modes]
      /\ conn \in [Procs -> Nat] /\ fd \in [Procs -> Nat] /\ served \in Nat
  BY DEF TypeInv
<1>4. CASE Resume(p)
  <2>1. PICK x \in {"refused", "check", "request"} : pc' = [pc EXCEPT ![p] = x]
    BY <1>4, ResumeIs
  <2>2. sum' \in [Procs -> Contents]
    BY <1>3, <1>4, ResumeIs, EmptyIs
  <2>3. mode' \in [Procs -> Modes] /\ conn' = conn
    BY <1>3, <1>4 DEF Resume, OpenMode, Modes
  <2>4. LocalStep(p)
    BY <1>1, <1>3, <2>2, <2>3 DEF LocalStep
  <2>5. MayGo(x) /\ x # "receive"
    BY <1>1, <2>1 DEF MayGo, PCs, Loading, Staging, Idle
  <2> QED BY <1>1, <1>2, <2>1, <2>4, <2>5, Moves
<1>5. CASE Request(p)
  <2>1. PICK x \in {"failed", "open"} : pc' = [pc EXCEPT ![p] = x]
    BY <1>5 DEF Request, Goto
  <2>2. sum' = sum /\ mode' = mode /\ conn' \in [Procs -> Nat]
    BY <1>3, <1>5 DEF Request
  <2>4. LocalStep(p)
    BY <1>1, <1>3, <2>2 DEF LocalStep
  <2>5. MayGo(x) /\ x # "receive"
    BY <1>1, <2>1 DEF MayGo, PCs, Loading, Staging, Idle
  <2> QED BY <1>1, <1>2, <2>1, <2>4, <2>5, Moves
<1> QED BY <1>4, <1>5

LEMMA EditIs ==
  ASSUME NEW d \in Seq(Contents), NEW i \in 1 .. Len(d), NEW c \in Contents
  PROVE  /\ [d EXCEPT ![i] = c] \in Seq(Contents)
         /\ Len([d EXCEPT ![i] = c]) = Len(d)
         /\ [d EXCEPT ![i] = c][i] = c
         /\ \A j \in 1 .. Len(d) : j # i => [d EXCEPT ![i] = c][j] = d[j]
BY ExceptSeq

LEMMA AddIs ==
  ASSUME NEW d \in Seq(Contents), NEW c \in Contents
  PROVE  /\ Append(d, c) \in Seq(Contents) /\ Len(Append(d, c)) = Len(d) + 1
         /\ Len(d) \in Nat /\ Append(d, c)[Len(d) + 1] = c
         /\ \A j \in 1 .. Len(d) : Append(d, c)[j] = d[j]
BY AppendProperties

\* What Open does, apart from whether it goes on.
LEMMA OpenIs ==
  ASSUME TypeInv, NEW p \in Procs, Open(p)
  PROVE  \/ /\ \/ mode[p] = "create" /\ partial # 0 /\ pc' = [pc EXCEPT ![p] = "refused"]
               \/ mode[p] = "append" /\ partial = 0 /\ pc' = [pc EXCEPT ![p] = "failed"]
            /\ UNCHANGED <<disk, partial, fd>>
         \/ /\ partial # 0 /\ partial' = partial /\ mode[p] # "create"
            /\ \E c \in Contents :
                 /\ c = IF mode[p] = "truncate" THEN <<>> ELSE disk[partial]
                 /\ disk' = [disk EXCEPT ![partial] = c]
                 /\ pc' = [pc EXCEPT ![p] = IF Len(c) = Len(sum[p]) THEN "receive" ELSE "failed"]
            /\ fd' = [fd EXCEPT ![p] = partial]
         \/ /\ partial = 0 /\ partial' = Len(disk) + 1 /\ disk' = Append(disk, <<>>)
            /\ pc' = [pc EXCEPT ![p] = IF 0 = Len(sum[p]) THEN "receive" ELSE "failed"]
            /\ fd' = [fd EXCEPT ![p] = Len(disk) + 1]
<1> USE DEF Goto
<1>1. CASE mode[p] = "create" /\ partial # 0
  BY <1>1 DEF Open
<1>2. CASE mode[p] = "append" /\ kind = "jamming" /\ partial = 0
  BY <1>2 DEF Open
<1>3. CASE /\ ~ (mode[p] = "create" /\ partial # 0)
           /\ ~ (mode[p] = "append" /\ kind = "jamming" /\ partial = 0)
  <2>1. CASE partial = 0
    BY <1>3, <2>1, EmptyIs DEF Open
  <2>2. CASE partial # 0
    <3>1. PICK c : c = IF mode[p] = "truncate" THEN <<>> ELSE disk[partial]
      OBVIOUS
    <3>2. c \in Contents
      BY <2>2, <3>1, EmptyIs DEF TypeInv
    <3>3. /\ disk' = [disk EXCEPT ![partial] = c] /\ partial' = partial
          /\ fd' = [fd EXCEPT ![p] = partial]
          /\ pc' = [pc EXCEPT ![p] = IF Len(c) = Len(sum[p]) THEN "receive" ELSE "failed"]
      BY <1>3, <2>2, <3>1 DEF Open
    <3> QED BY <1>3, <2>2, <3>1, <3>2, <3>3
  <2> QED BY <2>1, <2>2
<1> QED BY <1>1, <1>2, <1>3

\* A chunk that is received, or the end of the connection.
LEMMA ReceiveIs ==
  ASSUME TypeInv, NEW p \in Procs, Receive(p)
  PROVE  /\ fd[p] \in 1 .. Len(disk) /\ pc[p] = "receive"
         /\ \/ /\ Len(sum[p]) < Size /\ pc' = [pc EXCEPT ![p] = "receive"]
               /\ \E e \in Chunks, c \in Contents :
                    /\ e = <<conn[p], Len(sum[p]) + 1>>
                    /\ Len(disk[fd[p]]) = Len(sum[p]) => c = Append(disk[fd[p]], e)
                    /\ disk' = [disk EXCEPT ![fd[p]] = c]
                    /\ sum' = [sum EXCEPT ![p] = Append(sum[p], e)]
            \/ /\ UNCHANGED <<disk, sum>>
               /\ pc' = [pc EXCEPT ![p] = IF Len(sum[p]) = Size THEN "check" ELSE "failed"]
<1> USE DEF Goto
<1>1. /\ fd[p] \in 1 .. Len(disk) /\ pc[p] = "receive" /\ sum[p] \in Contents
      /\ disk[fd[p]] \in Contents /\ Len(sum[p]) \in Nat /\ conn[p] \in Nat
      /\ pc \in [Procs -> PCs]
  <2>1. pc[p] = "receive"
    BY DEF Receive
  <2>2. /\ disk \in Seq(Contents) /\ fd[p] \in 1 .. Len(disk) /\ sum[p] \in Contents
        /\ conn[p] \in Nat /\ pc \in [Procs -> PCs]
    BY <2>1 DEF TypeInv
  <2>3. disk[fd[p]] \in Contents
    BY <2>2
  <2>4. Len(sum[p]) \in Nat
    BY <2>2 DEF Contents
  <2> QED BY <2>1, <2>2, <2>3, <2>4
<1>2. CASE UNCHANGED <<disk, sum>> /\ pc' = [pc EXCEPT ![p] = IF Len(sum[p]) = Size THEN "check" ELSE "failed"]
  BY <1>1, <1>2
<1>3. CASE /\ Len(sum[p]) < Size /\ UNCHANGED pc
           /\ LET at == Len(sum[p]) + 1
                  chunk == <<conn[p], at>>
              IN  /\ disk' = [disk EXCEPT ![fd[p]] = Written(disk[fd[p]], mode[p], at, chunk)]
                  /\ sum' = [sum EXCEPT ![p] = Append(sum[p], chunk)]
  <2>1. PICK e : e = <<conn[p], Len(sum[p]) + 1>>
    OBVIOUS
  <2>2. PICK c : c = Written(disk[fd[p]], mode[p], Len(sum[p]) + 1, e)
    OBVIOUS
  <2>3. e \in Chunks
    BY <1>1, <2>1 DEF Chunks
  <2>4. Len(sum[p]) + 1 \in Nat \ {0}
    BY <1>1
  <2>5. c \in Contents /\ (Len(disk[fd[p]]) = Len(sum[p]) => c = Append(disk[fd[p]], e))
    BY <1>1, <2>2, <2>3, <2>4, WrittenIs
  <2>6. pc' = [pc EXCEPT ![p] = "receive"]
    BY <1>1, <1>3
  <2>7. disk' = [disk EXCEPT ![fd[p]] = c] /\ sum' = [sum EXCEPT ![p] = Append(sum[p], e)]
    BY <1>3, <2>1, <2>2
  <2> QED BY <1>1, <1>3, <2>1, <2>3, <2>5, <2>6, <2>7
<1> QED BY <1>2, <1>3 DEF Receive

LEMMA OpenTypes ==
  ASSUME TypeInv, KindInv, NEW p \in Procs, Open(p) PROVE TypeInv' /\ KindInv'
<1>1. /\ kind # "smorffi" /\ target' = target /\ receipt' = receipt /\ UNCHANGED world
      /\ expect' = expect /\ sum' = sum /\ mode' = mode /\ conn' = conn
  BY DEF Open, KindInv, Loading
<1>2. /\ sum \in [Procs -> Contents] /\ mode \in [Procs -> Modes]
      /\ conn \in [Procs -> Nat] /\ fd \in [Procs -> Nat]
      /\ disk \in Seq(Contents) /\ Len(disk) \in Nat
      /\ partial \in 0 .. Len(disk) /\ target \in 0 .. Len(disk)
      /\ receipt = <<>> \/ \E r : IsReceipt(r) /\ receipt = <<r>>
  BY DEF TypeInv
<1>3. \A x \in {"refused", "failed", "receive"} : MayGo(x)
  BY <1>1 DEF MayGo, PCs, Loading, Staging, Idle
<1>4. CASE UNCHANGED <<disk, partial, fd>>
           /\ (pc' = [pc EXCEPT ![p] = "refused"] \/ pc' = [pc EXCEPT ![p] = "failed"])
  <2>1. PICK x \in {"refused", "failed"} : pc' = [pc EXCEPT ![p] = x]
    BY <1>4
  <2>2. StoreStep /\ LocalStep(p)
    BY <1>1, <1>2, <1>4, StoreStays, LocalStays DEF store
  <2> QED BY <1>1, <1>3, <2>1, <2>2, Moves
<1>5. CASE /\ partial # 0 /\ partial' = partial
           /\ \E c \in Contents :
                /\ disk' = [disk EXCEPT ![partial] = c]
                /\ pc' = [pc EXCEPT ![p] = IF Len(c) = Len(sum[p]) THEN "receive" ELSE "failed"]
           /\ fd' = [fd EXCEPT ![p] = partial]
  <2>1. PICK c \in Contents : disk' = [disk EXCEPT ![partial] = c]
    BY <1>5
  <2>2. PICK x \in {"receive", "failed"} : pc' = [pc EXCEPT ![p] = x]
    BY <1>5
  <2>3. disk' \in Seq(Contents) /\ Len(disk') = Len(disk) /\ partial \in 1 .. Len(disk)
    BY <1>2, <1>5, <2>1, EditIs
  <2>4. /\ fd' \in [Procs -> Nat] /\ fd'[p] \in 1 .. Len(disk')
        /\ \A q \in Procs \ {p} : fd'[q] = fd[q]
    BY <1>2, <1>5, <2>3
  <2>5. StoreStep
    BY <1>1, <1>2, <1>5, <2>3 DEF StoreStep
  <2>6. LocalStep(p)
    BY <1>1, <1>2, <2>4 DEF LocalStep
  <2> QED BY <1>1, <1>3, <2>2, <2>4, <2>5, <2>6, Moves
<1>6. CASE /\ partial' = Len(disk) + 1 /\ disk' = Append(disk, <<>>)
           /\ pc' = [pc EXCEPT ![p] = IF 0 = Len(sum[p]) THEN "receive" ELSE "failed"]
           /\ fd' = [fd EXCEPT ![p] = Len(disk) + 1]
  <2>1. PICK x \in {"receive", "failed"} : pc' = [pc EXCEPT ![p] = x]
    BY <1>6
  <2>2. disk' \in Seq(Contents) /\ Len(disk') = Len(disk) + 1
    BY <1>2, <1>6, EmptyIs, AddIs
  <2>3. /\ fd' \in [Procs -> Nat] /\ fd'[p] \in 1 .. Len(disk')
        /\ \A q \in Procs \ {p} : fd'[q] = fd[q]
    BY <1>2, <1>6, <2>2
  <2>4. partial' \in 0 .. Len(disk') /\ target' \in 0 .. Len(disk') /\ Len(disk) <= Len(disk')
    BY <1>1, <1>2, <1>6, <2>2
  <2>5. StoreStep
    BY <1>1, <1>2, <2>2, <2>4 DEF StoreStep
  <2>6. LocalStep(p)
    BY <1>1, <1>2, <2>3 DEF LocalStep
  <2> QED BY <1>1, <1>3, <2>1, <2>3, <2>5, <2>6, Moves
<1> QED BY <1>4, <1>5, <1>6, OpenIs

LEMMA ReceiveTypes ==
  ASSUME TypeInv, KindInv, NEW p \in Procs, Receive(p) PROVE TypeInv' /\ KindInv'
<1>1. /\ kind # "smorffi" /\ UNCHANGED <<partial, target, receipt>> /\ UNCHANGED world
      /\ expect' = expect /\ fd' = fd /\ mode' = mode /\ conn' = conn
  BY DEF Receive, KindInv, Loading
<1>2. /\ sum \in [Procs -> Contents] /\ disk \in Seq(Contents) /\ Len(disk) \in Nat
      /\ partial \in 0 .. Len(disk) /\ target \in 0 .. Len(disk)
      /\ receipt = <<>> \/ \E r : IsReceipt(r) /\ receipt = <<r>>
  BY DEF TypeInv
<1>3. \A x \in {"check", "failed", "receive"} : MayGo(x)
  BY <1>1 DEF MayGo, PCs, Loading, Staging, Idle
<1>4. CASE UNCHANGED <<disk, sum>>
           /\ pc' = [pc EXCEPT ![p] = IF Len(sum[p]) = Size THEN "check" ELSE "failed"]
  <2>1. PICK x \in {"check", "failed"} : pc' = [pc EXCEPT ![p] = x]
    BY <1>4
  <2>2. StoreStep /\ LocalStep(p)
    BY <1>1, <1>2, <1>4, StoreStays, LocalStays DEF store
  <2> QED BY <1>1, <1>3, <2>1, <2>2, Moves
<1>5. ASSUME NEW e \in Chunks, NEW c \in Contents,
             disk' = [disk EXCEPT ![fd[p]] = c],
             sum' = [sum EXCEPT ![p] = Append(sum[p], e)],
             pc' = [pc EXCEPT ![p] = "receive"], fd[p] \in 1 .. Len(disk)
      PROVE  TypeInv' /\ KindInv'
  <2>1. disk' \in Seq(Contents) /\ Len(disk') = Len(disk)
    BY <1>2, <1>5, EditIs
  <2>2. Append(sum[p], e) \in Contents
    BY <1>2 DEF Contents
  <2>3. sum' \in [Procs -> Contents]
    BY <1>2, <1>5, <2>2
  <2>4. StoreStep
    BY <1>1, <1>2, <2>1 DEF StoreStep
  <2>5. LocalStep(p)
    BY <1>1, <2>3, LocalStays
  <2>6. fd'[p] \in 1 .. Len(disk')
    BY <1>1, <1>5, <2>1
  <2> QED BY <1>1, <1>3, <1>5, <2>4, <2>5, <2>6, Moves
<1> QED BY <1>4, <1>5, ReceiveIs

LEMMA NameTypes ==
  ASSUME TypeInv, KindInv, NEW p \in Procs,
         Promote(p) \/ Unlink(p) \/ WriteReceipt(p) \/ Rename(p) \/ Seal(p) \/ Rollback(p)
  PROVE  TypeInv' /\ KindInv'
<1>1. UNCHANGED world /\ UNCHANGED <<expect, mode, fd, conn>> /\ sum' = sum
  BY DEF Promote, Unlink, WriteReceipt, Rename, Seal, Rollback
<1>2. /\ sum \in [Procs -> Contents] /\ expect \in [Procs -> Nat]
      /\ disk \in Seq(Contents) /\ Len(disk) \in Nat
      /\ partial \in 0 .. Len(disk) /\ target \in 0 .. Len(disk)
      /\ receipt = <<>> \/ \E r : IsReceipt(r) /\ receipt = <<r>>
  BY DEF TypeInv
<1>3. IsReceipt(Receipt(expect[p], sum[p])) /\ IsReceipt(Receipt(Pin, sum[p]))
  BY <1>2 DEF IsReceipt, Pin
<1>4. LocalStep(p)
  BY <1>1, <1>2, LocalStays
<1>5. \A x \in Idle : MayGo(x) /\ x # "receive"
  BY DEF MayGo, PCs, Loading, Staging, Idle
<1>6. CASE Promote(p)
  <2>1. kind # "smorffi" /\ UNCHANGED <<disk, receipt>>
    BY <1>6 DEF Promote, KindInv, Loading
  <2>2. PICK x \in {"refused", "unlink", "receipt"} :
          pc' = [pc EXCEPT ![p] = x] /\ (x = "unlink" => kind \in {"jamming", "osu"})
    BY <1>6 DEF Promote, Goto
  <2>3. MayGo(x) /\ x # "receive"
    BY <2>1, <2>2 DEF MayGo, PCs, Loading, Staging, Idle
  <2>4. partial' \in 0 .. Len(disk') /\ target' \in 0 .. Len(disk')
    BY <1>2, <1>6 DEF Promote
  <2>5. StoreStep
    BY <1>2, <2>1, <2>4 DEF StoreStep
  <2> QED BY <1>1, <1>4, <2>2, <2>3, <2>5, Moves
<1>7. CASE Unlink(p)
  <2>1. kind # "smorffi" /\ UNCHANGED <<disk, target, receipt>> /\ partial' = 0
    BY <1>7 DEF Unlink, KindInv, Loading
  <2>2. PICK x \in {"refused", "receipt"} : pc' = [pc EXCEPT ![p] = x]
    BY <1>7 DEF Unlink, Goto
  <2>3. MayGo(x) /\ x # "receive"
    BY <2>1, <2>2 DEF MayGo, PCs, Loading, Staging, Idle
  <2>4. StoreStep
    BY <1>2, <2>1 DEF StoreStep
  <2> QED BY <1>1, <1>4, <2>2, <2>3, <2>4, Moves
<1>8. CASE WriteReceipt(p)
  <2>1. UNCHANGED <<disk, partial, target>>
        /\ (receipt' = receipt \/ receipt' = <<Receipt(expect[p], sum[p])>>)
    BY <1>8 DEF WriteReceipt
  <2>2. PICK x \in {"refused", "done"} : pc' = [pc EXCEPT ![p] = x]
    BY <1>8 DEF WriteReceipt, Goto
  <2>3. MayGo(x) /\ x # "receive"
    BY <1>5, <2>2 DEF Idle
  <2>4. receipt' = <<>> \/ \E r : IsReceipt(r) /\ receipt' = <<r>>
    BY <1>2, <1>3, <2>1
  <2>5. StoreStep
    BY <1>2, <2>1, <2>4 DEF StoreStep, KindInv
  <2> QED BY <1>1, <1>4, <2>2, <2>3, <2>5, Moves
<1>9. CASE Rename(p)
  <2>1. kind = "smorffi" /\ UNCHANGED <<partial, receipt>> /\ partial = 0
    BY <1>9 DEF Rename, KindInv, Staging
  <2>2. PICK x \in {"refused", "seal"} : pc' = [pc EXCEPT ![p] = x]
    BY <1>9 DEF Rename, Goto
  <2>3. MayGo(x) /\ x # "receive"
    BY <2>1, <2>2 DEF MayGo, PCs, Loading, Staging, Idle
  <2>4. disk' \in Seq(Contents) /\ Len(disk) <= Len(disk') /\ target' \in 0 .. Len(disk')
    <3>1. CASE target # 0
      BY <1>2, <1>9, <3>1 DEF Rename
    <3>2. CASE target = 0
      <4>1. disk' = Append(disk, sum[p]) /\ target' = Len(disk) + 1
        BY <1>9, <3>2 DEF Rename
      <4>2. disk' \in Seq(Contents) /\ Len(disk') = Len(disk) + 1
        BY <1>2, <4>1, AddIs
      <4> QED BY <1>2, <4>1, <4>2
    <3> QED BY <3>1, <3>2
  <2>5. StoreStep
    BY <1>2, <2>1, <2>4 DEF StoreStep
  <2> QED BY <1>1, <1>4, <2>2, <2>3, <2>5, Moves
<1>10. CASE Seal(p)
  <2>1. /\ kind = "smorffi" /\ UNCHANGED <<disk, partial, target>> /\ partial = 0
        /\ receipt' = receipt \/ receipt' = <<Receipt(Pin, sum[p])>>
    BY <1>10 DEF Seal, KindInv, Staging
  <2>2. PICK x \in {"done", "rollback"} : pc' = [pc EXCEPT ![p] = x]
    BY <1>10 DEF Seal, Goto
  <2>3. MayGo(x) /\ x # "receive"
    BY <2>1, <2>2 DEF MayGo, PCs, Loading, Staging, Idle
  <2>4. receipt' = <<>> \/ \E r : IsReceipt(r) /\ receipt' = <<r>>
    BY <1>2, <1>3, <2>1
  <2>5. StoreStep
    BY <1>2, <2>1, <2>4 DEF StoreStep
  <2> QED BY <1>1, <1>4, <2>2, <2>3, <2>5, Moves
<1>11. CASE Rollback(p)
  <2>1. pc' = [pc EXCEPT ![p] = "failed"] /\ UNCHANGED <<disk, partial, receipt>> /\ target' = 0
    BY <1>11 DEF Rollback, Goto
  <2>2. MayGo("failed")
    BY <1>5 DEF Idle
  <2>3. StoreStep
    BY <1>2, <2>1 DEF StoreStep, KindInv
  <2> QED BY <1>1, <1>4, <2>1, <2>2, <2>3, Moves
<1> QED BY <1>6, <1>7, <1>8, <1>9, <1>10, <1>11

\* The world around the invocations.
LEMMA WorldTypes ==
  ASSUME TypeInv, KindInv,
         Drift \/ Damage \/ \E p \in Procs : Start(p) \/ Kill(p)
  PROVE  TypeInv' /\ KindInv'
<1>1. CASE Drift
  BY <1>1 DEF Drift, TypeInv, IsReceipt, KindInv, store, local
<1>2. CASE Damage
  <2>1. /\ UNCHANGED <<local, partial, kind, legacy, served, starts, kills, overlapped>>
        /\ damages' \in Nat
    BY <1>2 DEF Damage, TypeInv
  <2>2. disk' \in Seq(Contents) /\ Len(disk') = Len(disk)
    <3>1. CASE disk' = disk
      BY <3>1 DEF TypeInv
    <3>2. CASE disk' # disk
      <4>0. target # 0 /\ disk' = [disk EXCEPT ![target] = [@ EXCEPT ![1] = Hole]]
        BY <1>2, <3>2 DEF Damage
      <4>1. target \in 1 .. Len(disk)
        BY <4>0 DEF TypeInv
      <4>2. PICK c : c = disk[target]
        OBVIOUS
      <4>3. disk \in Seq(Contents) /\ c \in Contents /\ Len(c) \in Nat
        BY <4>1, <4>2 DEF TypeInv, Contents
      <4>4. [c EXCEPT ![1] = Hole] \in Contents
        <5>1. c \in [1 .. Len(c) -> Chunks] /\ Hole \in Chunks
          BY <4>3 DEF Contents, Chunks, Hole
        <5>2. [c EXCEPT ![1] = Hole] \in [1 .. Len(c) -> Chunks]
          BY <5>1
        <5> QED BY <4>3, <5>2 DEF Contents
      <4>5. PICK e : e = [c EXCEPT ![1] = Hole]
        OBVIOUS
      <4>6. disk' = [disk EXCEPT ![target] = e] /\ e \in Contents
        BY <4>0, <4>2, <4>4, <4>5
      <4>7. [disk EXCEPT ![target] = e] \in Seq(Contents)
            /\ Len([disk EXCEPT ![target] = e]) = Len(disk)
        BY <4>1, <4>3, <4>6, EditIs
      <4> QED BY <4>6, <4>7
    <3> QED BY <3>1, <3>2
  <2>3. target' \in 0 .. Len(disk') /\ (receipt' = receipt \/ receipt' = <<>>)
    BY <1>2, <2>2 DEF Damage, TypeInv
  <2> QED BY <2>1, <2>2, <2>3 DEF TypeInv, IsReceipt, KindInv, local
<1>3. ASSUME NEW p \in Procs, Start(p) PROVE TypeInv' /\ KindInv'
  <2>1. /\ pc' = [pc EXCEPT ![p] = "look"] /\ sum' = [sum EXCEPT ![p] = <<>>]
        /\ UNCHANGED <<store, kind, legacy, served, kills, damages, mode, fd, conn>>
    BY <1>3 DEF Start, Goto
  <2>2. starts' \in Nat /\ expect' \in [Procs -> Nat] /\ sum' \in [Procs -> Contents]
    BY <1>3, <2>1, EmptyIs DEF Start, TypeInv, Pin
  <2>3. overlapped' \in BOOLEAN
    BY <1>3, Zenon DEF Start
  <2>4. pc' \in [Procs -> PCs] /\ \A q \in Procs : pc'[q] = pc[q] \/ pc'[q] = "look"
    BY <2>1 DEF TypeInv, PCs
  <2> QED BY <2>1, <2>2, <2>3, <2>4 DEF TypeInv, IsReceipt, KindInv, store, Loading, Staging
<1>4. ASSUME NEW p \in Procs, Kill(p) PROVE TypeInv' /\ KindInv'
  <2>1. /\ pc' = [pc EXCEPT ![p] = "idle"] /\ kills' \in Nat
        /\ UNCHANGED <<store, kind, legacy, served, starts, damages, overlapped,
                       expect, sum, mode, fd, conn>>
    BY <1>4 DEF Kill, Goto, TypeInv
  <2>2. pc' \in [Procs -> PCs] /\ \A q \in Procs : pc'[q] = pc[q] \/ pc'[q] = "idle"
    BY <2>1 DEF TypeInv, PCs, Idle
  <2> QED BY <2>1, <2>2 DEF TypeInv, IsReceipt, KindInv, store, Loading, Staging
<1> QED BY <1>1, <1>2, <1>3, <1>4

LEMMA TypeSteps == TypeInv /\ KindInv /\ [Next]_vars => TypeInv' /\ KindInv'
<1> SUFFICES ASSUME TypeInv, KindInv, [Next]_vars PROVE TypeInv' /\ KindInv'
  OBVIOUS
<1>1. CASE UNCHANGED vars
  BY <1>1 DEF vars, local, store, world, TypeInv, IsReceipt, KindInv
<1>2. ASSUME NEW p \in Procs, Step(p) PROVE TypeInv' /\ KindInv'
  BY <1>2, LookTypes, ResumeTypes, OpenTypes, ReceiveTypes, NameTypes DEF Step
<1> QED BY <1>1, <1>2, WorldTypes DEF Next

-----------------------------------------------------------------------------
(* What the pin and the publisher settle, whatever else runs.              *)

PinAt(x, s, c) ==
  /\ kind \in Pinned /\ x \in {"promote", "unlink", "receipt"} => s = Full(Pin)
  /\ served = Pin /\ x \in {"rename", "seal"} => s = Full(Pin)
  /\ served = Pin /\ x \in {"open", "receive"} => c = Pin

PinInv ==
  \A p \in Procs : /\ kind # "osu" \/ served = Pin => expect[p] = Pin
                   /\ PinAt(pc[p], sum[p], conn[p])

LEMMA PinMoves ==
  ASSUME TypeInv, PinInv, NEW p \in Procs, NEW x, pc' = [pc EXCEPT ![p] = x],
         kind' = kind, served' = served, expect' = expect,
         \A q \in Procs \ {p} : sum'[q] = sum[q] /\ conn'[q] = conn[q],
         PinAt(x, sum'[p], conn'[p])
  PROVE  PinInv'
<1>1. \A q \in Procs : pc'[q] = IF q = p THEN x ELSE pc[q]
  BY DEF TypeInv
<1> QED BY <1>1 DEF PinInv, PinAt

\* A step that leaves the digest and the connection of its invocation alone.
LEMMA PinStays ==
  ASSUME TypeInv, PinInv, NEW p \in Procs, NEW x, pc' = [pc EXCEPT ![p] = x],
         kind' = kind, served' = served, expect' = expect, sum' = sum, conn' = conn,
         x \in {"promote", "unlink", "receipt"} =>
           kind \notin Pinned \/ sum[p] = Full(Pin) \/ pc[p] \in {"promote", "unlink", "receipt"},
         x = "seal" => pc[p] = "rename",
         x # "rename", x # "open",
         x = "receive" => pc[p] = "open"
  PROVE  PinInv'
<1>1. PinAt(x, sum'[p], conn'[p])
  BY DEF PinInv, PinAt
<1> QED BY <1>1, PinMoves

LEMMA PinInit == Init => PinInv
BY DEF Init, PinInv, PinAt

LEMMA PinSteps == TypeInv /\ KindInv /\ PinInv /\ [Next]_vars => PinInv'
<1> SUFFICES ASSUME TypeInv, KindInv, PinInv, [Next]_vars PROVE PinInv'
  OBVIOUS
<1> USE DEF Goto
<1>1. CASE UNCHANGED vars
  BY <1>1 DEF vars, local, store, world, PinInv, PinAt
<1>2. /\ pc \in [Procs -> PCs] /\ sum \in [Procs -> Contents] /\ conn \in [Procs -> Nat]
      /\ expect \in [Procs -> Nat] /\ kind \in Kinds
  BY DEF TypeInv
<1>3. ASSUME NEW p \in Procs, Step(p) PROVE PinInv'
  <2>1. kind' = kind /\ served' = served /\ expect' = expect
    BY <1>3 DEF Step, Look, LookForOrphan, Digest, Accept, Resume, Request, Open, Receive,
                Check, Promote, Unlink, WriteReceipt, Stage, Rename, Seal, Rollback, world
  <2>2. CASE Look(p)
    <3>1. PICK x \in {"failed", "verify", "orphan"} : pc' = [pc EXCEPT ![p] = x]
      BY <2>2 DEF Look
    <3> QED BY <2>1, <2>2, <3>1, PinStays DEF Look
  <2>3. CASE LookForOrphan(p)
    <3>1. PICK x \in {"refused", "stage", "resume"} : pc' = [pc EXCEPT ![p] = x]
      BY <2>3 DEF LookForOrphan
    <3> QED BY <2>1, <2>3, <3>1, PinStays DEF LookForOrphan
  <2>4. CASE Digest(p)
    <3>1. PICK x \in {"refused", "accept"} : pc' = [pc EXCEPT ![p] = x]
      BY <2>4 DEF Digest
    <3>2. /\ conn' = conn /\ \A q \in Procs \ {p} : sum'[q] = sum[q]
          /\ PinAt(x, sum'[p], conn'[p])
      BY <1>2, <2>4, <3>1 DEF Digest, PinAt
    <3> QED BY <2>1, <3>1, <3>2, PinMoves
  <2>5. CASE Accept(p)
    <3>1. PICK x \in {"refused", "done", "receipt"} :
            pc' = [pc EXCEPT ![p] = x] /\ (x = "receipt" => sum[p] = Full(Pin))
      BY <1>2, <2>5, Acceptance
    <3> QED BY <2>1, <2>5, <3>1, PinStays DEF Accept
  <2>6. CASE Resume(p)
    <3>1. PICK x \in {"refused", "check", "request"} : pc' = [pc EXCEPT ![p] = x]
      BY <2>6, ResumeIs
    <3>2. /\ conn' = conn /\ \A q \in Procs \ {p} : sum'[q] = sum[q]
          /\ PinAt(x, sum'[p], conn'[p])
      BY <1>2, <2>6, <3>1 DEF Resume, PinAt
    <3> QED BY <2>1, <3>1, <3>2, PinMoves
  <2>7. CASE Request(p)
    <3>1. CASE pc' = [pc EXCEPT ![p] = "failed"] /\ UNCHANGED conn
      BY <2>1, <2>7, <3>1, PinStays DEF Request
    <3>2. CASE pc' = [pc EXCEPT ![p] = "open"] /\ conn' = [conn EXCEPT ![p] = served]
      <4>1. sum' = sum /\ PinAt("open", sum'[p], conn'[p])
        BY <1>2, <2>7, <3>2 DEF Request, PinAt
      <4>2. \A q \in Procs \ {p} : sum'[q] = sum[q] /\ conn'[q] = conn[q]
        BY <1>2, <3>2, <4>1
      <4> QED BY <2>1, <3>2, <4>1, <4>2, PinMoves
    <3> QED BY <2>7, <3>1, <3>2 DEF Request
  <2>8. CASE Open(p)
    <3>1. PICK x \in {"refused", "failed", "receive"} : pc' = [pc EXCEPT ![p] = x]
      BY <2>8, OpenIs
    <3> QED BY <2>1, <2>8, <3>1, PinStays DEF Open
  <2>9. CASE Receive(p)
    <3>1. PICK x \in {"receive", "check", "failed"} : pc' = [pc EXCEPT ![p] = x]
      BY <2>9, ReceiveIs
    <3>2. conn' = conn /\ \A q \in Procs \ {p} : sum'[q] = sum[q]
      <4>1. conn' = conn
        BY <2>9 DEF Receive
      <4>2. sum' = sum \/ \E e : sum' = [sum EXCEPT ![p] = Append(sum[p], e)]
        BY <2>9, ReceiveIs
      <4> QED BY <1>2, <4>1, <4>2
    <3>3. served = Pin => conn[p] = Pin
      BY <2>9 DEF Receive, PinInv, PinAt
    <3>4. PinAt(x, sum'[p], conn'[p])
      BY <3>1, <3>2, <3>3 DEF PinAt
    <3> QED BY <2>1, <3>1, <3>2, <3>4, PinMoves
  <2>10. CASE Check(p)
    <3>1. PICK x \in {"promote", "refused"} :
            pc' = [pc EXCEPT ![p] = x] /\ (x = "promote" => kind \notin Pinned \/ sum[p] = Full(Pin))
      BY <2>10 DEF Check
    <3> QED BY <2>1, <2>10, <3>1, PinStays DEF Check
  <2>11. CASE Promote(p)
    <3>1. PICK x \in {"refused", "unlink", "receipt"} : pc' = [pc EXCEPT ![p] = x]
      BY <2>11 DEF Promote
    <3> QED BY <2>1, <2>11, <3>1, PinStays DEF Promote
  <2>12. CASE Unlink(p)
    <3>1. PICK x \in {"refused", "receipt"} : pc' = [pc EXCEPT ![p] = x]
      BY <2>12 DEF Unlink
    <3> QED BY <2>1, <2>12, <3>1, PinStays DEF Unlink
  <2>13. CASE WriteReceipt(p)
    <3>1. PICK x \in {"refused", "done"} : pc' = [pc EXCEPT ![p] = x]
      BY <2>13 DEF WriteReceipt
    <3> QED BY <2>1, <2>13, <3>1, PinStays DEF WriteReceipt
  <2>14. CASE Stage(p)
    <3>1. CASE pc' = [pc EXCEPT ![p] = "failed"] /\ UNCHANGED sum
      BY <2>1, <2>14, <3>1, PinStays DEF Stage
    <3>2. CASE pc' = [pc EXCEPT ![p] = "rename"] /\ sum' = [sum EXCEPT ![p] = Full(served)]
      <4>1. conn' = conn /\ PinAt("rename", sum'[p], conn'[p])
        BY <1>2, <2>14, <3>2 DEF Stage, PinAt
      <4>2. \A q \in Procs \ {p} : sum'[q] = sum[q] /\ conn'[q] = conn[q]
        BY <1>2, <3>2, <4>1
      <4> QED BY <2>1, <3>2, <4>1, <4>2, PinMoves
    <3> QED BY <2>14, <3>1, <3>2 DEF Stage
  <2>15. CASE Rename(p)
    <3>1. PICK x \in {"refused", "seal"} : pc' = [pc EXCEPT ![p] = x]
      BY <2>15 DEF Rename
    <3> QED BY <2>1, <2>15, <3>1, PinStays DEF Rename
  <2>16. CASE Seal(p)
    <3>1. PICK x \in {"done", "rollback"} : pc' = [pc EXCEPT ![p] = x]
      BY <2>16 DEF Seal
    <3> QED BY <2>1, <2>16, <3>1, PinStays DEF Seal
  <2>17. CASE Rollback(p)
    BY <2>1, <2>17, PinStays DEF Rollback
  <2> QED BY <1>3, <2>2, <2>3, <2>4, <2>5, <2>6, <2>7, <2>8, <2>9, <2>10, <2>11, <2>12,
             <2>13, <2>14, <2>15, <2>16, <2>17 DEF Step
<1>4. ASSUME NEW p \in Procs, Start(p) PROVE PinInv'
  <2>1. /\ pc' = [pc EXCEPT ![p] = "look"] /\ sum' = [sum EXCEPT ![p] = <<>>]
        /\ expect' = [expect EXCEPT ![p] = IF kind = "osu" THEN served ELSE Pin]
        /\ UNCHANGED <<kind, served, conn>>
    BY <1>4 DEF Start
  <2>2. \A q \in Procs : /\ pc'[q] = IF q = p THEN "look" ELSE pc[q]
                         /\ q # p => sum'[q] = sum[q] /\ expect'[q] = expect[q]
                         /\ expect'[p] = IF kind = "osu" THEN served ELSE Pin
    BY <1>2, <2>1
  <2> QED BY <2>1, <2>2 DEF PinInv, PinAt
<1>5. ASSUME NEW p \in Procs, Kill(p) PROVE PinInv'
  BY <1>5, PinStays DEF Kill
<1>6. CASE Drift
  <2>1. /\ served' # Pin /\ UNCHANGED <<kind, pc, sum, conn, expect>>
        /\ kind # "osu" => \A q \in Procs : expect[q] = Pin
    BY <1>6 DEF Drift, TypeInv, Pin, local, PinInv
  <2> QED BY <2>1 DEF PinInv, PinAt
<1>7. CASE Damage
  BY <1>7 DEF Damage, local, PinInv, PinAt
<1> QED BY <1>1, <1>3, <1>4, <1>5, <1>6, <1>7 DEF Next

-----------------------------------------------------------------------------
(* An invocation that is alone at work knows what it found.                *)

Active(p) == pc[p] \notin Idle

Work(p) ==
  /\ pc[p] = "verify" => target # 0
  /\ pc[p] = "accept" => target # 0 /\ sum[p] = disk[target]
  /\ pc[p] = "orphan" => target = 0
  /\ pc[p] \in {"resume", "request", "open", "receive", "check", "promote", "stage", "rename"} =>
       target = 0 /\ receipt = <<>> /\ ~legacy
  /\ pc[p] \in {"resume", "request", "open"} /\ kind = "public" => partial = 0
  /\ pc[p] \in {"request", "open"} => sum[p] = Found /\ mode[p] = OpenMode(Len(sum[p]))
  /\ pc[p] = "receive" => fd[p] = partial
  /\ pc[p] \in {"receive", "check", "promote"} => partial # 0 /\ sum[p] = disk[partial]
  /\ pc[p] \in {"check", "promote"} => Len(sum[p]) = Size
  /\ pc[p] = "unlink" => partial # 0
  /\ pc[p] \in {"unlink", "receipt", "seal"} =>
       target # 0 /\ sum[p] = disk[target] /\ receipt = <<>>
  /\ pc[p] = "rollback" => receipt = <<>>

AloneInv ==
  ~overlapped => \A p \in Procs : Work(p) /\ (Active(p) => \A q \in Procs : q # p => ~Active(q))

\* An invocation at work has only its own step to answer for.
LEMMA AloneMoves ==
  ASSUME TypeInv, AloneInv, NEW p \in Procs, NEW x, pc' = [pc EXCEPT ![p] = x],
         overlapped' = overlapped, Active(p), ~overlapped => Work(p)'
  PROVE  AloneInv'
<1> SUFFICES ASSUME ~overlapped, NEW q \in Procs
             PROVE  Work(q)' /\ (Active(q)' => \A r \in Procs : r # q => ~Active(r)')
  BY DEF AloneInv
<1>1. \A r \in Procs : pc'[r] = IF r = p THEN x ELSE pc[r]
  BY DEF TypeInv
<1>2. \A r \in Procs \ {p} : pc'[r] \in Idle
  BY <1>1 DEF AloneInv, Active
<1>3. \A r \in Procs \ {p} : ~Active(r)'
  BY <1>2 DEF Active
<1>4. ASSUME q # p PROVE Work(q)'
  BY <1>2, <1>4 DEF Work, Idle
<1>5. Work(q)'
  BY <1>4
<1>6. Active(q)' => q = p
  BY <1>3
<1> QED BY <1>3, <1>5, <1>6

LEMMA AloneInit == Init => AloneInv
BY DEF Init, AloneInv, Work, Active, Idle

\* Looking at what is there.
LEMMA AloneLooks ==
  ASSUME TypeInv, KindInv, AloneInv, NEW p \in Procs,
         Look(p) \/ LookForOrphan(p) \/ Digest(p) \/ Accept(p) \/ Stage(p) \/ Check(p)
  PROVE  AloneInv'
<1>1. /\ UNCHANGED store /\ UNCHANGED world /\ fd' = fd /\ mode' = mode
      /\ UNCHANGED <<partial, target, receipt, disk, kind, legacy, overlapped>>
  BY DEF Look, LookForOrphan, Digest, Accept, Stage, Check, store, world
<1>2. Active(p)
  BY DEF Active, Idle, Look, LookForOrphan, Digest, Accept, Stage, Check
<1>3. /\ pc \in [Procs -> PCs] /\ sum \in [Procs -> Contents] /\ kind \in Kinds
      /\ ~overlapped => Work(p)
  BY DEF TypeInv, AloneInv
<1> USE DEF Goto
<1>4. CASE Look(p)
  <2>1. PICK x \in {"failed", "verify", "orphan"} :
          /\ pc' = [pc EXCEPT ![p] = x] /\ (x = "verify" => target # 0)
          /\ x = "orphan" => target = 0
    BY <1>4 DEF Look
  <2>2. pc'[p] = x
    BY <1>3, <2>1
  <2>3. Work(p)'
    BY <1>1, <2>1, <2>2 DEF Work
  <2> QED BY <1>1, <1>2, <2>1, <2>3, AloneMoves
<1>5. CASE LookForOrphan(p)
  <2>1. PICK x \in {"refused", "stage", "resume"} :
          /\ pc' = [pc EXCEPT ![p] = x]
          /\ x # "refused" => receipt = <<>> /\ ~legacy /\ (kind = "public" => partial = 0)
    BY <1>5 DEF LookForOrphan
  <2>2. pc'[p] = x /\ pc[p] = "orphan"
    BY <1>3, <1>5, <2>1 DEF LookForOrphan
  <2>3. ASSUME ~overlapped PROVE Work(p)'
    BY <1>1, <1>3, <2>1, <2>2, <2>3 DEF Work
  <2> QED BY <1>1, <1>2, <2>1, <2>3, AloneMoves
<1>6. CASE Digest(p)
  <2>1. PICK x \in {"refused", "accept"} :
          /\ pc' = [pc EXCEPT ![p] = x]
          /\ x = "accept" => target # 0 /\ sum' = [sum EXCEPT ![p] = disk[target]]
    BY <1>6 DEF Digest
  <2>2. pc'[p] = x /\ (x = "accept" => sum'[p] = disk[target])
    BY <1>3, <2>1
  <2>3. Work(p)'
    BY <1>1, <2>1, <2>2 DEF Work
  <2> QED BY <1>1, <1>2, <2>1, <2>3, AloneMoves
<1>7. CASE Accept(p)
  <2>1. PICK x \in {"refused", "done", "receipt"} :
          pc' = [pc EXCEPT ![p] = x] /\ (x = "receipt" => receipt = <<>>)
    BY <1>3, <1>7, Acceptance
  <2>2. pc'[p] = x /\ pc[p] = "accept" /\ sum' = sum
    BY <1>3, <1>7, <2>1 DEF Accept
  <2>3. ASSUME ~overlapped PROVE Work(p)'
    BY <1>1, <1>3, <2>1, <2>2, <2>3 DEF Work
  <2> QED BY <1>1, <1>2, <2>1, <2>3, AloneMoves
<1>8. CASE Stage(p)
  <2>1. PICK x \in {"failed", "rename"} : pc' = [pc EXCEPT ![p] = x]
    BY <1>8 DEF Stage
  <2>2. pc'[p] = x /\ pc[p] = "stage"
    BY <1>3, <1>8, <2>1 DEF Stage
  <2>3. ASSUME ~overlapped PROVE Work(p)'
    BY <1>1, <1>3, <2>1, <2>2, <2>3 DEF Work
  <2> QED BY <1>1, <1>2, <2>1, <2>3, AloneMoves
<1>9. CASE Check(p)
  <2>1. PICK x \in {"promote", "refused"} : pc' = [pc EXCEPT ![p] = x]
    BY <1>9 DEF Check
  <2>2. pc'[p] = x /\ pc[p] = "check" /\ sum' = sum
    BY <1>3, <1>9, <2>1 DEF Check
  <2>3. ASSUME ~overlapped PROVE Work(p)'
    BY <1>1, <1>3, <2>1, <2>2, <2>3 DEF Work
  <2> QED BY <1>1, <1>2, <2>1, <2>3, AloneMoves
<1> QED BY <1>4, <1>5, <1>6, <1>7, <1>8, <1>9

\* A download.
LEMMA AloneLoads ==
  ASSUME TypeInv, KindInv, AloneInv, NEW p \in Procs,
         Resume(p) \/ Request(p) \/ Open(p) \/ Receive(p)
  PROVE  AloneInv'
<1>1. /\ UNCHANGED world /\ kind' = kind /\ legacy' = legacy /\ overlapped' = overlapped
      /\ target' = target /\ receipt' = receipt
  BY DEF Resume, Request, Open, Receive, store, world
<1>2. Active(p) /\ kind # "smorffi"
  BY DEF Active, Idle, Resume, Request, Open, Receive, KindInv, Loading
<1>3. /\ pc \in [Procs -> PCs] /\ sum \in [Procs -> Contents] /\ kind \in Kinds
      /\ mode \in [Procs -> Modes] /\ fd \in [Procs -> Nat]
      /\ disk \in Seq(Contents) /\ partial \in 0 .. Len(disk)
      /\ ~overlapped => Work(p)
  BY DEF TypeInv, AloneInv
<1> USE DEF Goto
<1>4. CASE Resume(p)
  <2>1. PICK s \in Contents : s = IF kind = "public" THEN <<>> ELSE Found
    BY <1>4, EmptyIs, ResumeIs
  <2>2. PICK x \in {"refused", "check", "request"} :
          pc' = [pc EXCEPT ![p] = x] /\ (x = "check" => kind # "public" /\ Len(Found) = Size)
    BY <1>4, ResumeIs
  <2>3. /\ pc'[p] = x /\ pc[p] = "resume" /\ UNCHANGED <<disk, partial>>
        /\ sum'[p] = s /\ mode'[p] = OpenMode(Len(Found))
    BY <1>3, <1>4, <2>1, <2>2, ResumeIs DEF Resume, store
  <2>4. ASSUME ~overlapped PROVE Work(p)'
    <3>1. /\ target = 0 /\ receipt = <<>> /\ ~legacy /\ (kind = "public" => partial = 0)
      BY <1>3, <2>3, <2>4 DEF Work
    <3>2. s = Found
      BY <2>1, <3>1 DEF Found
    <3>3. Found' = Found /\ \A o : OpenMode(o)' = OpenMode(o)
      BY <1>1, <2>3 DEF Found, OpenMode
    <3>4. x = "check" => partial # 0 /\ s = disk[partial] /\ Len(s) = Size
      BY <2>2, <3>2, EmptyIs DEF Found, DatasetFetchAssumption
    <3> QED BY <1>1, <2>2, <2>3, <3>1, <3>2, <3>3, <3>4 DEF Work
  <2> QED BY <1>1, <1>2, <2>2, <2>4, AloneMoves
<1>5. CASE Request(p)
  <2>1. PICK x \in {"failed", "open"} : pc' = [pc EXCEPT ![p] = x]
    BY <1>5 DEF Request
  <2>2. pc'[p] = x /\ pc[p] = "request" /\ UNCHANGED <<disk, partial, sum, mode>>
    BY <1>3, <1>5, <2>1 DEF Request, store
  <2>3. Found' = Found /\ \A o : OpenMode(o)' = OpenMode(o)
    BY <1>1, <2>2 DEF Found, OpenMode
  <2>4. ASSUME ~overlapped PROVE Work(p)'
    BY <1>1, <1>3, <2>1, <2>2, <2>3, <2>4 DEF Work
  <2> QED BY <1>1, <1>2, <2>1, <2>4, AloneMoves
<1>6. CASE Open(p)
  <2>1. PICK x \in {"refused", "failed", "receive"} : pc' = [pc EXCEPT ![p] = x]
    BY <1>6, OpenIs
  <2>2. pc'[p] = x /\ pc[p] = "open" /\ sum' = sum
    BY <1>3, <1>6, <2>1 DEF Open
  <2>3. ASSUME ~overlapped PROVE Work(p)'
    <3>1. /\ target = 0 /\ receipt = <<>> /\ ~legacy
          /\ sum[p] = Found /\ mode[p] = OpenMode(Len(sum[p]))
      BY <1>3, <2>2, <2>3 DEF Work
    <3>2. ASSUME x = "receive"
          PROVE  fd'[p] = partial' /\ partial' # 0 /\ disk'[partial'] = sum[p]
      <4>1. CASE partial # 0
        <5>1. PICK c \in Contents :
                /\ c = IF mode[p] = "truncate" THEN <<>> ELSE disk[partial]
                /\ disk' = [disk EXCEPT ![partial] = c] /\ partial' = partial
                /\ pc' = [pc EXCEPT ![p] = IF Len(c) = Len(sum[p]) THEN "receive" ELSE "failed"]
                /\ fd' = [fd EXCEPT ![p] = partial]
          BY <1>3, <1>6, <2>2, <3>2, <4>1, OpenIs
        <5>2. Len(c) = Len(sum[p])
          BY <1>3, <2>2, <3>2, <5>1
        <5>3. disk'[partial] = c /\ fd'[p] = partial
          BY <1>3, <4>1, <5>1, EditIs
        <5>4. c = sum[p]
          <6>1. CASE mode[p] = "truncate"
            <7>1. c = <<>> /\ Len(sum[p]) = 0
              BY <5>1, <5>2, <6>1, EmptyIs
            <7>2. sum[p] = <<>>
              BY <1>3, <7>1, EmptySeq DEF Contents
            <7> QED BY <7>1, <7>2
          <6>2. CASE mode[p] # "truncate"
            BY <3>1, <4>1, <5>1, <6>2 DEF Found
          <6> QED BY <6>1, <6>2
        <5> QED BY <4>1, <5>1, <5>3, <5>4
      <4>2. CASE partial = 0
        <5>1. /\ partial' = Len(disk) + 1 /\ disk' = Append(disk, <<>>)
              /\ fd' = [fd EXCEPT ![p] = Len(disk) + 1]
          BY <1>3, <1>6, <2>2, <3>2, <4>2, OpenIs
        <5>2. disk'[Len(disk) + 1] = <<>> /\ Len(disk) \in Nat
          BY <1>3, <5>1, EmptyIs, AddIs
        <5> QED BY <1>3, <3>1, <4>2, <5>1, <5>2 DEF Found
      <4> QED BY <4>1, <4>2
    <3> QED BY <1>1, <2>1, <2>2, <3>1, <3>2 DEF Work
  <2> QED BY <1>1, <1>2, <2>1, <2>3, AloneMoves
<1>7. CASE Receive(p)
  <2>1. UNCHANGED partial /\ UNCHANGED fd /\ pc[p] = "receive" /\ sum[p] \in Contents
    BY <1>3, <1>7 DEF Receive
  <2>2. CASE UNCHANGED <<disk, sum>> /\ pc' = [pc EXCEPT ![p] = IF Len(sum[p]) = Size THEN "check" ELSE "failed"]
    <3>1. PICK x \in {"check", "failed"} :
            pc' = [pc EXCEPT ![p] = x] /\ (x = "check" => Len(sum[p]) = Size)
      BY <2>2
    <3>2. pc'[p] = x
      BY <1>3, <3>1
    <3>3. ASSUME ~overlapped PROVE Work(p)'
      BY <1>1, <1>3, <2>1, <2>2, <3>1, <3>2, <3>3 DEF Work
    <3> QED BY <1>1, <1>2, <3>1, <3>3, AloneMoves
  <2>3. ASSUME NEW e \in Chunks, NEW c \in Contents,
               Len(disk[fd[p]]) = Len(sum[p]) => c = Append(disk[fd[p]], e),
               disk' = [disk EXCEPT ![fd[p]] = c],
               sum' = [sum EXCEPT ![p] = Append(sum[p], e)],
               pc' = [pc EXCEPT ![p] = "receive"], fd[p] \in 1 .. Len(disk)
        PROVE  AloneInv'
    <3>1. pc'[p] = "receive" /\ sum'[p] = Append(sum[p], e) /\ disk'[fd[p]] = c
      BY <1>3, <2>3, EditIs
    <3>2. ASSUME ~overlapped PROVE Work(p)'
      <4>1. /\ target = 0 /\ receipt = <<>> /\ ~legacy /\ fd[p] = partial
            /\ partial # 0 /\ sum[p] = disk[partial]
        BY <1>3, <2>1, <3>2 DEF Work
      <4>2. disk'[partial] = sum'[p]
        BY <2>3, <3>1, <4>1
      <4> QED BY <1>1, <2>1, <3>1, <4>1, <4>2 DEF Work
    <3> QED BY <1>1, <1>2, <2>3, <3>2, AloneMoves
  <2> QED BY <1>7, <2>2, <2>3, ReceiveIs
<1> QED BY <1>4, <1>5, <1>6, <1>7

\* Naming and recording what was downloaded.
LEMMA AloneNames ==
  ASSUME TypeInv, KindInv, AloneInv, NEW p \in Procs,
         Promote(p) \/ Unlink(p) \/ WriteReceipt(p) \/ Rename(p) \/ Seal(p) \/ Rollback(p)
  PROVE  AloneInv'
<1>1. /\ UNCHANGED world /\ kind' = kind /\ legacy' = legacy /\ overlapped' = overlapped
      /\ sum' = sum /\ fd' = fd /\ mode' = mode
  BY DEF Promote, Unlink, WriteReceipt, Rename, Seal, Rollback, world
<1>2. Active(p)
  BY DEF Active, Idle, Promote, Unlink, WriteReceipt, Rename, Seal, Rollback
<1>3. /\ pc \in [Procs -> PCs] /\ sum \in [Procs -> Contents] /\ disk \in Seq(Contents)
      /\ partial \in 0 .. Len(disk) /\ target \in 0 .. Len(disk) /\ Len(disk) \in Nat
      /\ ~overlapped => Work(p)
  BY DEF TypeInv, AloneInv
<1> USE DEF Goto
<1>4. CASE Promote(p)
  <2>1. PICK x \in {"refused", "unlink", "receipt"} :
          /\ pc' = [pc EXCEPT ![p] = x]
          /\ x # "refused" => target' = partial /\ partial # 0
          /\ x = "unlink" => partial' = partial
    BY <1>4 DEF Promote
  <2>2. pc'[p] = x /\ pc[p] = "promote" /\ UNCHANGED <<disk, receipt>>
    BY <1>3, <1>4, <2>1 DEF Promote
  <2>3. ASSUME ~overlapped PROVE Work(p)'
    BY <1>1, <1>3, <2>1, <2>2, <2>3 DEF Work
  <2> QED BY <1>1, <1>2, <2>1, <2>3, AloneMoves
<1>5. CASE Unlink(p)
  <2>1. PICK x \in {"refused", "receipt"} : pc' = [pc EXCEPT ![p] = x]
    BY <1>5 DEF Unlink
  <2>2. pc'[p] = x /\ pc[p] = "unlink" /\ UNCHANGED <<disk, target, receipt>>
    BY <1>3, <1>5, <2>1 DEF Unlink
  <2>3. ASSUME ~overlapped PROVE Work(p)'
    BY <1>1, <1>3, <2>1, <2>2, <2>3 DEF Work
  <2> QED BY <1>1, <1>2, <2>1, <2>3, AloneMoves
<1>6. CASE WriteReceipt(p)
  <2>1. PICK x \in {"refused", "done"} : pc' = [pc EXCEPT ![p] = x]
    BY <1>6 DEF WriteReceipt
  <2>2. pc'[p] = x
    BY <1>3, <2>1
  <2>3. Work(p)'
    BY <2>1, <2>2 DEF Work
  <2> QED BY <1>1, <1>2, <2>1, <2>3, AloneMoves
<1>7. CASE Rename(p)
  <2>1. CASE target # 0
    <3>1. pc' = [pc EXCEPT ![p] = "refused"] /\ pc'[p] = "refused"
      BY <1>3, <1>7, <2>1 DEF Rename
    <3>2. Work(p)'
      BY <3>1 DEF Work
    <3> QED BY <1>1, <1>2, <3>1, <3>2, AloneMoves
  <2>2. CASE target = 0
    <3>1. /\ pc' = [pc EXCEPT ![p] = "seal"] /\ pc'[p] = "seal" /\ pc[p] = "rename"
          /\ disk' = Append(disk, sum[p]) /\ target' = Len(disk) + 1
          /\ UNCHANGED <<partial, receipt>>
      BY <1>3, <1>7, <2>2 DEF Rename
    <3>2. disk'[target'] = sum[p] /\ target' # 0
      BY <1>3, <3>1, AddIs
    <3>3. ASSUME ~overlapped PROVE Work(p)'
      BY <1>1, <1>3, <3>1, <3>2, <3>3 DEF Work
    <3> QED BY <1>1, <1>2, <3>1, <3>3, AloneMoves
  <2> QED BY <2>1, <2>2
<1>8. CASE Seal(p)
  <2>1. PICK x \in {"done", "rollback"} :
          pc' = [pc EXCEPT ![p] = x] /\ (x = "rollback" => receipt' = receipt)
    BY <1>8 DEF Seal
  <2>2. pc'[p] = x /\ pc[p] = "seal"
    BY <1>3, <1>8, <2>1 DEF Seal
  <2>3. ASSUME ~overlapped PROVE Work(p)'
    BY <1>1, <1>3, <2>1, <2>2, <2>3 DEF Work
  <2> QED BY <1>1, <1>2, <2>1, <2>3, AloneMoves
<1>9. CASE Rollback(p)
  <2>1. pc' = [pc EXCEPT ![p] = "failed"] /\ pc'[p] = "failed"
    BY <1>3, <1>9 DEF Rollback
  <2>2. Work(p)'
    BY <2>1 DEF Work
  <2> QED BY <1>1, <1>2, <2>1, <2>2, AloneMoves
<1> QED BY <1>4, <1>5, <1>6, <1>7, <1>8, <1>9

LEMMA AloneWorld ==
  ASSUME TypeInv, KindInv, AloneInv,
         Drift \/ Damage \/ \E p \in Procs : Start(p) \/ Kill(p)
  PROVE  AloneInv'
<1> USE DEF Goto
<1>1. pc \in [Procs -> PCs]
  BY DEF TypeInv
<1>2. CASE Drift
  <2>1. UNCHANGED <<disk, partial, target, receipt, pc, expect, sum, mode, fd, conn, kind,
                    legacy, overlapped>>
    BY <1>2 DEF Drift, store, local
  <2>2. \A p \in Procs : (Work(p)' <=> Work(p)) /\ (Active(p)' <=> Active(p))
    BY <2>1 DEF Work, Found, OpenMode, Active
  <2> QED BY <2>1, <2>2 DEF AloneInv
<1>3. CASE Damage
  <2>1. \A p \in Procs : pc'[p] \in Idle
    BY <1>3 DEF Damage, local
  <2>2. \A p \in Procs : Work(p)' /\ ~Active(p)'
    BY <2>1 DEF Work, Idle, Active
  <2> QED BY <2>2 DEF AloneInv
<1>4. ASSUME NEW p \in Procs, Start(p) PROVE AloneInv'
  <2>1. \A q \in Procs : pc'[q] = IF q = p THEN "look" ELSE pc[q]
    BY <1>1, <1>4 DEF Start
  <2>2. ~overlapped' => ~overlapped /\ \A q \in Procs \ {p} : pc[q] \in Idle
    BY <1>4, Zenon DEF Start
  <2>3. ASSUME ~overlapped', NEW q \in Procs
        PROVE  Work(q)' /\ (q # p => ~Active(q)')
    <3>1. pc'[q] \in Idle \cup {"look"} /\ (q # p => pc'[q] \in Idle)
      BY <2>1, <2>2, <2>3
    <3> QED BY <3>1 DEF Work, Idle, Active
  <2> QED BY <2>3 DEF AloneInv
<1>5. ASSUME NEW p \in Procs, Kill(p) PROVE AloneInv'
  <2>1. pc' = [pc EXCEPT ![p] = "idle"] /\ pc'[p] = "idle" /\ overlapped' = overlapped /\ Active(p)
    BY <1>1, <1>5 DEF Kill, Active
  <2>2. Work(p)'
    BY <2>1 DEF Work
  <2> QED BY <2>1, <2>2, AloneMoves
<1> QED BY <1>2, <1>3, <1>4, <1>5

LEMMA AloneSteps == TypeInv /\ KindInv /\ AloneInv /\ [Next]_vars => AloneInv'
<1> SUFFICES ASSUME TypeInv, KindInv, AloneInv, [Next]_vars PROVE AloneInv'
  OBVIOUS
<1>1. CASE UNCHANGED vars
  <2>1. UNCHANGED <<disk, partial, target, receipt, pc, expect, sum, mode, fd, conn, kind,
                    legacy, overlapped>>
    BY <1>1 DEF vars, store, local, world
  <2>2. \A p \in Procs : (Work(p)' <=> Work(p)) /\ (Active(p)' <=> Active(p))
    BY <2>1 DEF Work, Found, OpenMode, Active
  <2> QED BY <2>1, <2>2 DEF AloneInv
<1>2. ASSUME NEW p \in Procs, Step(p) PROVE AloneInv'
  BY <1>2, AloneLooks, AloneLoads, AloneNames DEF Step
<1> QED BY <1>1, <1>2, AloneWorld DEF Next

-----------------------------------------------------------------------------
(* What a quiet publisher and single invocations leave on disk: a partial  *)
(* file is the beginning of the pinned version, unless an edited artifact  *)
(* is still linked to it.                                                  *)

Calm == ~overlapped /\ served = Pin /\ damages <= 1

CleanFiles ==
  /\ partial # 0 /\ partial # target => Prefix(disk[partial])
  /\ damages = 0 /\ partial # 0 => Prefix(disk[partial])
  /\ damages = 0 /\ target # 0 => disk[target] = Full(Pin)

CleanInv ==
  Calm => /\ CleanFiles
          /\ \A p \in Procs : pc[p] \in {"unlink", "receipt"} => sum[p] = Full(Pin)

LEMMA CleanInit == Init => CleanInv
<1> SUFFICES ASSUME Init PROVE CleanInv
  OBVIOUS
<1>1. partial = 0 /\ (target # 0 => disk[target] = Full(Pin))
  <2>1. CASE legacy
    <3>1. PICK f : f = Full(Pin)
      OBVIOUS
    <3>2. disk = <<f>> /\ target = 1 /\ partial = 0
      BY <2>1, <3>1 DEF Init
    <3> QED BY <3>1, <3>2
  <2>2. CASE ~ legacy
    BY <2>2 DEF Init
  <2> QED BY <2>1, <2>2
<1>2. \A p \in Procs : pc[p] = "idle"
  BY DEF Init
<1> QED BY <1>1, <1>2 DEF CleanInv, CleanFiles

LEMMA CleanMoves ==
  ASSUME TypeInv, AloneInv, CleanInv, NEW p \in Procs, NEW x, pc' = [pc EXCEPT ![p] = x],
         overlapped' = overlapped, served' = served, damages' = damages, Active(p),
         Calm /\ CleanFiles /\ Work(p) =>
           CleanFiles' /\ (x \in {"unlink", "receipt"} => sum'[p] = Full(Pin))
  PROVE  CleanInv'
<1>1. \A q \in Procs : pc'[q] = IF q = p THEN x ELSE pc[q]
  BY DEF TypeInv
<1>2. ASSUME Calm PROVE \A q \in Procs : q # p => pc[q] \in Idle
  BY <1>2 DEF AloneInv, Active, Calm
<1>3. ASSUME Calm PROVE CleanFiles /\ Work(p)
  BY <1>3 DEF CleanInv, AloneInv, Calm
<1>4. Calm' <=> Calm
  BY DEF Calm
<1> QED BY <1>1, <1>2, <1>3, <1>4 DEF CleanInv, Idle

\* The steps that leave the files alone.
LEMMA CleanStays ==
  ASSUME TypeInv, AloneInv, CleanInv, NEW p \in Procs, NEW x, pc' = [pc EXCEPT ![p] = x],
         overlapped' = overlapped, served' = served, damages' = damages, Active(p),
         UNCHANGED <<disk, partial, target>>,
         x # "unlink", x = "receipt" => sum'[p] = Full(Pin)
  PROVE  CleanInv'
<1>1. CleanFiles' <=> CleanFiles
  BY DEF CleanFiles
<1> QED BY <1>1, CleanMoves

LEMMA CleanLooks ==
  ASSUME TypeInv, KindInv, AloneInv, CleanInv, NEW p \in Procs,
         Look(p) \/ LookForOrphan(p) \/ Digest(p) \/ Accept(p) \/ Stage(p) \/ Check(p)
         \/ Resume(p) \/ Request(p) \/ WriteReceipt(p) \/ Seal(p)
  PROVE  CleanInv'
<1> USE DEF Goto
<1>1. /\ UNCHANGED world /\ UNCHANGED <<disk, partial, target>>
      /\ overlapped' = overlapped /\ served' = served /\ damages' = damages
  BY DEF Look, LookForOrphan, Digest, Accept, Stage, Check, Resume, Request, WriteReceipt,
         Seal, store, world
<1>2. Active(p) /\ kind \in Kinds
  BY DEF Active, Idle, Look, LookForOrphan, Digest, Accept, Stage, Check, Resume, Request,
         WriteReceipt, Seal, TypeInv
<1>3. CASE Accept(p)
  <2>1. PICK x \in {"refused", "done", "receipt"} :
          pc' = [pc EXCEPT ![p] = x] /\ (x = "receipt" => sum[p] = Full(Pin))
    BY <1>2, <1>3, Acceptance
  <2> QED BY <1>1, <1>2, <1>3, <2>1, CleanStays DEF Accept
<1>4. ASSUME NEW x \in {"failed", "verify", "orphan", "refused", "stage", "resume", "accept",
                        "rename", "promote", "check", "request", "open", "done", "rollback"},
             pc' = [pc EXCEPT ![p] = x]
      PROVE  CleanInv'
  BY <1>1, <1>2, <1>4, CleanStays
<1>5. CASE Look(p) \/ LookForOrphan(p) \/ Digest(p)
  BY <1>4, <1>5 DEF Look, LookForOrphan, Digest
<1>6. CASE Resume(p)
  BY <1>4, <1>6, ResumeIs
<1>7. CASE Request(p) \/ Check(p) \/ Stage(p)
  BY <1>4, <1>7 DEF Request, Check, Stage
<1>8. CASE WriteReceipt(p) \/ Seal(p)
  BY <1>4, <1>8 DEF WriteReceipt, Seal
<1> QED BY <1>3, <1>5, <1>6, <1>7, <1>8

\* An opened partial file is empty or goes on as it is; what is received is appended.
LEMMA CleanLoads ==
  ASSUME TypeInv, KindInv, PinInv, AloneInv, CleanInv, NEW p \in Procs, Open(p) \/ Receive(p)
  PROVE  CleanInv'
<1>1. /\ target' = target /\ overlapped' = overlapped /\ served' = served /\ damages' = damages
  BY DEF Open, Receive, world
<1>2. /\ pc \in [Procs -> PCs] /\ sum \in [Procs -> Contents] /\ Active(p)
      /\ disk \in Seq(Contents) /\ partial \in 0 .. Len(disk) /\ Len(disk) \in Nat
  <2>1. pc[p] \in {"open", "receive"}
    BY DEF Open, Receive
  <2>2. Active(p)
    BY <2>1 DEF Active, Idle
  <2>3. Len(disk) \in Nat
    BY DEF TypeInv
  <2> QED BY <2>2, <2>3 DEF TypeInv
<1>3. CASE Open(p)
  <2>1. PICK x \in {"refused", "failed", "receive"} : pc' = [pc EXCEPT ![p] = x]
    BY <1>3, OpenIs
  <2>2. ASSUME Calm, CleanFiles, Work(p) PROVE CleanFiles'
    <3>1. target = 0 /\ (partial # 0 => Prefix(disk[partial]))
      BY <1>3, <2>2 DEF Open, Work, CleanFiles
    <3>2. partial' = 0 \/ Prefix(disk'[partial'])
      <4>1. CASE UNCHANGED <<disk, partial, fd>>
        BY <3>1, <4>1
      <4>2. ASSUME NEW c \in Contents, partial # 0, partial' = partial,
                   c = IF mode[p] = "truncate" THEN <<>> ELSE disk[partial],
                   disk' = [disk EXCEPT ![partial] = c]
            PROVE  Prefix(disk'[partial'])
        <5>1. Prefix(c)
          BY <3>1, <4>2, EmptyIs
        <5>2. disk'[partial'] = c
          BY <1>2, <4>2, EditIs
        <5> QED BY <5>1, <5>2
      <4>3. CASE partial' = Len(disk) + 1 /\ disk' = Append(disk, <<>>)
        <5>1. disk'[partial'] = <<>>
          BY <1>2, <4>3, EmptyIs, AddIs
        <5> QED BY <5>1, EmptyIs
      <4> QED BY <1>3, <4>1, <4>2, <4>3, OpenIs
    <3> QED BY <1>1, <3>1, <3>2 DEF CleanFiles
  <2> QED BY <1>1, <1>2, <2>1, <2>2, CleanMoves
<1>4. CASE Receive(p)
  <2>1. partial' = partial /\ pc[p] = "receive"
    BY <1>4 DEF Receive
  <2>2. CASE UNCHANGED <<disk, sum>> /\ pc' = [pc EXCEPT ![p] = IF Len(sum[p]) = Size THEN "check" ELSE "failed"]
    <3>1. PICK x \in {"check", "failed"} : pc' = [pc EXCEPT ![p] = x]
      BY <2>2
    <3> QED BY <1>1, <1>2, <2>1, <2>2, <3>1, CleanStays
  <2>3. ASSUME NEW e \in Chunks, NEW c \in Contents, Len(sum[p]) < Size,
               e = <<conn[p], Len(sum[p]) + 1>>,
               Len(disk[fd[p]]) = Len(sum[p]) => c = Append(disk[fd[p]], e),
               disk' = [disk EXCEPT ![fd[p]] = c],
               pc' = [pc EXCEPT ![p] = "receive"], fd[p] \in 1 .. Len(disk)
        PROVE  CleanInv'
    <3>1. ASSUME Calm, CleanFiles, Work(p) PROVE CleanFiles'
      <4>1. target = 0 /\ fd[p] = partial /\ partial # 0 /\ sum[p] = disk[partial]
            /\ Prefix(sum[p]) /\ conn[p] = Pin
        BY <2>1, <3>1 DEF Work, CleanFiles, PinInv, PinAt, Calm
      <4>2. PICK s : s = sum[p]
        OBVIOUS
      <4>3. s \in Contents /\ Prefix(s) /\ Len(s) < Size /\ c = Append(s, <<Pin, Len(s) + 1>>)
        BY <1>2, <2>3, <4>1, <4>2
      <4>4. Prefix(c)
        BY <4>3, PrefixIs
      <4>5. disk'[partial'] = c
        BY <1>2, <2>1, <2>3, <4>1, EditIs
      <4> QED BY <1>1, <4>1, <4>4, <4>5 DEF CleanFiles
    <3> QED BY <1>1, <1>2, <2>3, <3>1, CleanMoves
  <2> QED BY <1>4, <2>2, <2>3, ReceiveIs
<1> QED BY <1>3, <1>4

\* What is given its name is complete.
LEMMA CleanNames ==
  ASSUME TypeInv, KindInv, PinInv, AloneInv, CleanInv, NEW p \in Procs,
         Promote(p) \/ Unlink(p) \/ Rename(p) \/ Rollback(p)
  PROVE  CleanInv'
<1> USE DEF Goto
<1>1. /\ overlapped' = overlapped /\ served' = served /\ damages' = damages /\ sum' = sum
  BY DEF Promote, Unlink, Rename, Rollback, world
<1>2. /\ pc \in [Procs -> PCs] /\ sum \in [Procs -> Contents] /\ Active(p)
      /\ disk \in Seq(Contents) /\ partial \in 0 .. Len(disk) /\ Len(disk) \in Nat
      /\ target \in 0 .. Len(disk)
  BY DEF TypeInv, Active, Idle, Promote, Unlink, Rename, Rollback
<1>3. CASE Promote(p)
  <2>1. PICK x \in {"refused", "unlink", "receipt"} :
          /\ pc' = [pc EXCEPT ![p] = x]
          /\ x = "refused" => UNCHANGED <<partial, target>>
          /\ x # "refused" => target' = partial /\ (partial' = 0 \/ partial' = partial)
    BY <1>3 DEF Promote
  <2>2. pc[p] = "promote" /\ disk' = disk
    BY <1>3 DEF Promote
  <2>3. ASSUME Calm, CleanFiles, Work(p)
        PROVE  CleanFiles' /\ (x \in {"unlink", "receipt"} => sum'[p] = Full(Pin))
    <3>1. target = 0 /\ partial # 0 /\ sum[p] = disk[partial] /\ Len(sum[p]) = Size
      BY <2>2, <2>3 DEF Work
    <3>2. Prefix(sum[p])
      BY <2>3, <3>1 DEF CleanFiles
    <3>3. sum[p] = Full(Pin)
      BY <1>2, <3>1, <3>2, PrefixIs
    <3> QED BY <1>1, <2>1, <2>2, <3>1, <3>2, <3>3 DEF CleanFiles
  <2> QED BY <1>1, <1>2, <2>1, <2>3, CleanMoves
<1>4. CASE Unlink(p)
  <2>1. PICK x \in {"refused", "receipt"} : pc' = [pc EXCEPT ![p] = x]
    BY <1>4 DEF Unlink
  <2>2. UNCHANGED <<disk, target>> /\ partial' = 0 /\ pc[p] = "unlink"
    BY <1>4 DEF Unlink
  <2>3. Calm => sum'[p] = Full(Pin)
    BY <1>1, <2>2 DEF CleanInv
  <2>4. CleanFiles => CleanFiles'
    BY <1>1, <2>2 DEF CleanFiles
  <2> QED BY <1>1, <1>2, <2>1, <2>3, <2>4, CleanMoves
<1>5. CASE Rename(p)
  <2>1. kind = "smorffi" /\ partial' = 0 /\ partial = 0
    BY <1>5 DEF Rename, KindInv, Staging
  <2>2. CASE target # 0
    <3>1. pc' = [pc EXCEPT ![p] = "refused"] /\ UNCHANGED <<disk, partial, target>>
      BY <1>5, <2>2 DEF Rename
    <3> QED BY <1>1, <1>2, <3>1, CleanStays
  <2>3. CASE target = 0
    <3>1. /\ pc' = [pc EXCEPT ![p] = "seal"] /\ pc[p] = "rename"
          /\ disk' = Append(disk, sum[p]) /\ target' = Len(disk) + 1
      BY <1>5, <2>3 DEF Rename
    <3>2. disk'[target'] = sum[p] /\ (served = Pin => sum[p] = Full(Pin))
      BY <1>2, <3>1, AddIs DEF PinInv, PinAt
    <3>3. Calm => CleanFiles'
      BY <2>1, <3>2 DEF CleanFiles, Calm
    <3> QED BY <1>1, <1>2, <3>1, <3>3, CleanMoves
  <2> QED BY <2>2, <2>3
<1>6. CASE Rollback(p)
  <2>1. /\ pc' = [pc EXCEPT ![p] = "failed"] /\ partial' = 0 /\ target' = 0
    BY <1>6 DEF Rollback, KindInv, Staging
  <2>2. CleanFiles'
    BY <2>1 DEF CleanFiles
  <2> QED BY <1>1, <1>2, <2>1, <2>2, CleanMoves
<1> QED BY <1>3, <1>4, <1>5, <1>6

LEMMA CleanWorld ==
  ASSUME TypeInv, KindInv, AloneInv, CleanInv,
         Drift \/ Damage \/ \E p \in Procs : Start(p) \/ Kill(p)
  PROVE  CleanInv'
<1> USE DEF Goto
<1>1. /\ pc \in [Procs -> PCs] /\ disk \in Seq(Contents) /\ damages \in Nat
      /\ partial \in 0 .. Len(disk) /\ target \in 0 .. Len(disk) /\ Len(disk) \in Nat
  BY DEF TypeInv
<1>2. CASE Drift
  <2>1. served' # Pin
    BY <1>2 DEF Drift, TypeInv, Pin
  <2> QED BY <2>1 DEF CleanInv, Calm
<1>3. CASE Damage
  <2>1. \A p \in Procs : pc'[p] \in Idle
    BY <1>3 DEF Damage, local
  <2>2. damages' = damages + 1 /\ UNCHANGED <<partial, served, overlapped>>
    BY <1>3 DEF Damage
  <2>3. ASSUME Calm' PROVE CleanFiles'
    <3>1. damages = 0 /\ CleanFiles
      BY <1>1, <2>2, <2>3 DEF Calm, CleanInv
    <3>2. ASSUME partial # 0, partial # target' PROVE Prefix(disk'[partial])
      <4>1. Prefix(disk[partial])
        BY <3>1, <3>2 DEF CleanFiles
      <4>2. CASE disk' = disk
        BY <4>1, <4>2
      <4>3. CASE disk' # disk
        <5>1. /\ target' = target /\ target # 0
              /\ disk' = [disk EXCEPT ![target] = [@ EXCEPT ![1] = Hole]]
          BY <1>3, <4>3 DEF Damage
        <5>2. PICK c : disk' = [disk EXCEPT ![target] = c]
          BY <5>1
        <5>3. disk'[partial] = disk[partial]
          BY <1>1, <3>2, <5>1, <5>2
        <5> QED BY <4>1, <5>3
      <4> QED BY <4>2, <4>3
    <3> QED BY <1>1, <2>2, <3>1, <3>2 DEF CleanFiles
  <2> QED BY <2>1, <2>3 DEF CleanInv, Idle
<1>4. ASSUME NEW p \in Procs, Start(p) PROVE CleanInv'
  <2>1. /\ UNCHANGED <<disk, partial, target, served, damages>> /\ (overlapped => overlapped')
        /\ \A q \in Procs : pc'[q] = IF q = p THEN "look" ELSE pc[q]
        /\ \A q \in Procs \ {p} : sum'[q] = sum[q]
    BY <1>1, <1>4 DEF Start, store, TypeInv
  <2>2. (Calm' => Calm) /\ (CleanFiles' <=> CleanFiles)
    BY <2>1 DEF Calm, CleanFiles
  <2> QED BY <2>1, <2>2 DEF CleanInv
<1>5. ASSUME NEW p \in Procs, Kill(p) PROVE CleanInv'
  BY <1>5, CleanStays DEF Kill, Active, store
<1> QED BY <1>2, <1>3, <1>4, <1>5

LEMMA CleanSteps ==
  TypeInv /\ KindInv /\ PinInv /\ AloneInv /\ CleanInv /\ [Next]_vars => CleanInv'
<1> SUFFICES ASSUME TypeInv, KindInv, PinInv, AloneInv, CleanInv, [Next]_vars PROVE CleanInv'
  OBVIOUS
<1>1. CASE UNCHANGED vars
  BY <1>1 DEF vars, store, local, world, CleanInv, Calm, CleanFiles
<1>2. ASSUME NEW p \in Procs, Step(p) PROVE CleanInv'
  BY <1>2, CleanLooks, CleanLoads, CleanNames DEF Step
<1> QED BY <1>1, <1>2, CleanWorld DEF Next

-----------------------------------------------------------------------------
(* The receipts.                                                           *)

\* What never comes back.
LEMMA WorldMoves ==
  ASSUME TypeInv, [Next]_vars
  PROVE  /\ kind' = kind /\ legacy' = legacy /\ (served # Pin => served' # Pin)
         /\ (overlapped => overlapped') /\ damages <= damages'
<1>1. CASE UNCHANGED vars
  BY <1>1 DEF vars, world, TypeInv
<1>2. ASSUME NEW p \in Procs, Step(p)
      PROVE  UNCHANGED world
  BY <1>2 DEF Step, Look, LookForOrphan, Digest, Accept, Resume, Request, Open, Receive,
              Check, Promote, Unlink, WriteReceipt, Stage, Rename, Seal, Rollback
<1>3. ASSUME NEW p \in Procs, Step(p)
      PROVE  kind' = kind /\ legacy' = legacy /\ served' = served /\ overlapped' = overlapped
             /\ damages' = damages
  BY <1>2, <1>3 DEF world
<1>4. ASSUME NEW p \in Procs, Start(p)
      PROVE  kind' = kind /\ legacy' = legacy /\ served' = served /\ (overlapped => overlapped')
             /\ damages' = damages
  BY <1>4 DEF Start
<1>5. ASSUME NEW p \in Procs, Kill(p)
      PROVE  kind' = kind /\ legacy' = legacy /\ served' = served /\ overlapped' = overlapped
             /\ damages' = damages
  BY <1>5 DEF Kill
<1>6. CASE Drift
  <2>1. served' = served + 1 /\ served \in Nat \ {0}
    BY <1>6 DEF Drift, TypeInv
  <2>2. served' # Pin
    BY <2>1 DEF Pin
  <2> QED BY <1>6, <2>2 DEF Drift, TypeInv
<1>7. CASE Damage
  BY <1>7 DEF Damage, TypeInv
<1> QED BY <1>1, <1>3, <1>4, <1>5, <1>6, <1>7 DEF Next, TypeInv

\* Which steps change the receipt.
LEMMA ReceiptMoves ==
  ASSUME [Next]_vars
  PROVE  \/ receipt' = receipt
         \/ receipt' = <<>> /\ Damage
         \/ \E p \in Procs : WriteReceipt(p) /\ receipt' = <<Receipt(expect[p], sum[p])>>
         \/ \E p \in Procs : Seal(p) /\ receipt' = <<Receipt(Pin, sum[p])>>
<1>1. CASE UNCHANGED vars
  BY <1>1 DEF vars, store
<1>2. ASSUME NEW p \in Procs, Step(p), ~WriteReceipt(p), ~Seal(p)
      PROVE  receipt' = receipt
  BY <1>2 DEF Step, Look, LookForOrphan, Digest, Accept, Resume, Request, Open, Receive,
              Check, Promote, Unlink, Stage, Rename, Rollback, store
<1>3. ASSUME NEW p \in Procs, WriteReceipt(p)
      PROVE  receipt' = receipt \/ receipt' = <<Receipt(expect[p], sum[p])>>
  BY <1>3 DEF WriteReceipt
<1>4. ASSUME NEW p \in Procs, Seal(p)
      PROVE  receipt' = receipt \/ receipt' = <<Receipt(Pin, sum[p])>>
  BY <1>4 DEF Seal
<1>5. ASSUME NEW p \in Procs, Start(p) \/ Kill(p) PROVE receipt' = receipt
  BY <1>5 DEF Start, Kill, store
<1>6. CASE Drift
  BY <1>6 DEF Drift, store
<1>7. CASE Damage
  BY <1>7 DEF Damage
<1> QED BY <1>1, <1>2, <1>3, <1>4, <1>5, <1>6, <1>7 DEF Next

LEMMA GenuineSteps ==
  ASSUME TypeInv, KindInv, PinInv, AloneInv, CleanInv, ReceiptsAreGenuine, [Next]_vars
  PROVE  ReceiptsAreGenuine'
<1>1. /\ kind' = kind /\ (served # Pin => served' # Pin) /\ (overlapped => overlapped')
      /\ damages \in Nat /\ damages' \in Nat /\ damages <= damages'
  BY WorldMoves, TypeSteps DEF TypeInv
<1>2. CASE receipt' = receipt
  BY <1>1, <1>2 DEF ReceiptsAreGenuine
<1>3. CASE receipt' = <<>>
  BY <1>3 DEF ReceiptsAreGenuine
<1>4. ASSUME NEW p \in Procs, WriteReceipt(p), receipt' = <<Receipt(expect[p], sum[p])>>
      PROVE  ReceiptsAreGenuine'
  <2>1. kind \in {"jamming", "osu", "xrf55", "public"} /\ pc[p] = "receipt"
    BY <1>4 DEF WriteReceipt, KindInv, Loading, TypeInv, DatasetFetchAssumption
  <2>2. receipt'[1] = Receipt(expect[p], sum[p])
    BY <1>4
  <2>3. CASE kind \in Pinned
    <3>1. expect[p] = Pin /\ sum[p] = Full(Pin)
      BY <2>1, <2>3 DEF PinInv, PinAt, Pinned
    <3> QED BY <2>2, <3>1 DEF ReceiptsAreGenuine
  <2>4. CASE kind = "osu" /\ Calm
    <3>1. expect[p] = Pin /\ sum[p] = Full(Pin)
      BY <2>1, <2>4 DEF PinInv, CleanInv, Calm
    <3> QED BY <2>2, <3>1 DEF ReceiptsAreGenuine
  <2>5. CASE kind = "osu" /\ ~Calm
    BY <1>1, <2>5 DEF ReceiptsAreGenuine, Calm
  <2> QED BY <2>1, <2>3, <2>4, <2>5 DEF Pinned
<1>5. ASSUME NEW p \in Procs, Seal(p), receipt' = <<Receipt(Pin, sum[p])>>
      PROVE  ReceiptsAreGenuine'
  <2>1. kind = "smorffi" /\ (served = Pin => sum[p] = Full(Pin))
    BY <1>5 DEF Seal, KindInv, Staging, PinInv, PinAt
  <2>2. receipt'[1] = Receipt(Pin, sum[p])
    BY <1>5
  <2> QED BY <1>1, <2>1, <2>2 DEF ReceiptsAreGenuine
<1> QED BY <1>2, <1>3, <1>4, <1>5, ReceiptMoves

FetchInv == TypeInv /\ KindInv /\ PinInv /\ AloneInv /\ CleanInv /\ ReceiptsAreGenuine

LEMMA FetchInit == Init => FetchInv
<1> SUFFICES ASSUME Init PROVE FetchInv
  OBVIOUS
<1>1. ReceiptsAreGenuine
  BY DEF Init, ReceiptsAreGenuine
<1> QED BY <1>1, InitTypes, PinInit, AloneInit, CleanInit DEF FetchInv

LEMMA FetchSteps == FetchInv /\ [Next]_vars => FetchInv'
BY TypeSteps, PinSteps, AloneSteps, CleanSteps, GenuineSteps DEF FetchInv

LEMMA FetchHolds == Spec => []FetchInv
BY FetchInit, FetchSteps, PTL DEF Spec

\* A receipt states the digest of what the publisher served, in every history of
\* invocations, kills and damages: write_receipt and its likes never record bytes
\* that were not checked against what they are called.
THEOREM ReceiptsTellTheTruth == Spec => []ReceiptsAreGenuine
<1>1. FetchInv => ReceiptsAreGenuine
  BY DEF FetchInv
<1> QED BY <1>1, FetchHolds, PTL

-----------------------------------------------------------------------------
(* Success.                                                                *)

\* A step that ends in success leaves the artifact and a receipt of its bytes.
LEMMA DoneIsOnDisk ==
  ASSUME FetchInv, [Next]_vars, NEW p \in Procs, pc[p] # "done", pc'[p] = "done", ~overlapped
  PROVE  target' # 0 /\ receipt' # <<>> /\ disk'[target'] = receipt'[1].content
<1> USE DEF Goto
<1>1. /\ pc \in [Procs -> PCs] /\ kind \in Kinds /\ Work(p)
  BY DEF FetchInv, TypeInv, AloneInv
<1>2. Accept(p) \/ WriteReceipt(p) \/ Seal(p)
  <2>1. ~UNCHANGED vars
    BY DEF vars, local
  <2>2. ~Drift /\ ~Damage
    BY DEF Drift, Damage, local
  <2>3. ASSUME NEW q \in Procs, Start(q) \/ Kill(q) \/ Step(q)
        PROVE  Step(p)
    <3>1. \E x \in PCs : pc' = [pc EXCEPT ![q] = x]
      <4>1. ASSUME NEW x \in {"failed", "verify", "orphan", "refused", "stage", "resume",
                              "accept", "rename", "promote", "check", "request", "open",
                              "done", "rollback", "seal", "unlink", "receipt", "receive",
                              "look", "idle"},
                   pc' = [pc EXCEPT ![q] = x]
            PROVE  \E y \in PCs : pc' = [pc EXCEPT ![q] = y]
        BY <4>1 DEF PCs, Idle, Loading, Staging
      <4>2. CASE Start(q) \/ Kill(q)
        BY <4>1, <4>2 DEF Start, Kill
      <4>3. CASE Look(q) \/ LookForOrphan(q) \/ Digest(q)
        BY <4>1, <4>3 DEF Look, LookForOrphan, Digest
      <4>4. CASE Accept(q)
        BY <1>1, <4>1, <4>4, Acceptance
      <4>5. CASE Resume(q) \/ Open(q) \/ Receive(q)
        BY <4>1, <4>5, ResumeIs, OpenIs, ReceiveIs DEF FetchInv
      <4>6. CASE Request(q) \/ Check(q) \/ Stage(q) \/ Promote(q) \/ Unlink(q)
        BY <4>1, <4>6 DEF Request, Check, Stage, Promote, Unlink
      <4>7. CASE WriteReceipt(q) \/ Rename(q) \/ Seal(q) \/ Rollback(q)
        BY <4>1, <4>7 DEF WriteReceipt, Rename, Seal, Rollback
      <4> QED BY <2>3, <4>2, <4>3, <4>4, <4>5, <4>6, <4>7 DEF Step
    <3>2. q = p
      BY <1>1, <3>1
    <3>3. ~Start(q) /\ ~Kill(q)
      BY <1>1, <3>2 DEF Start, Kill
    <3>4. Step(q)
      BY <2>3, <3>3
    <3> QED BY <3>2, <3>4, Zenon
  <2>4. Step(p)
    <3>1. PICK q \in Procs : Start(q) \/ Kill(q) \/ Step(q)
      BY <2>1, <2>2 DEF Next
    <3> QED BY <2>3, <3>1
  <2>5. ~Look(p) /\ ~LookForOrphan(p) /\ ~Digest(p)
    BY <1>1 DEF Look, LookForOrphan, Digest
  <2>6. ~Resume(p) /\ ~Open(p) /\ ~Receive(p)
    BY <1>1, ResumeIs, OpenIs, ReceiveIs DEF FetchInv
  <2>7. ~Request(p) /\ ~Check(p) /\ ~Stage(p) /\ ~Promote(p) /\ ~Unlink(p)
    BY <1>1 DEF Request, Check, Stage, Promote, Unlink
  <2>8. ~Rename(p) /\ ~Rollback(p)
    BY <1>1 DEF Rename, Rollback
  <2> QED BY <2>4, <2>5, <2>6, <2>7, <2>8 DEF Step
<1>3. CASE Accept(p)
  <2>1. PICK x \in {"refused", "done", "receipt"} :
          /\ pc' = [pc EXCEPT ![p] = x]
          /\ x = "done" => \E v : receipt = <<Receipt(v, sum[p])>>
    BY <1>1, <1>3, Acceptance
  <2>2. PICK v : receipt = <<Receipt(v, sum[p])>>
    BY <1>1, <2>1
  <2>3. target # 0 /\ sum[p] = disk[target] /\ UNCHANGED <<disk, target, receipt>>
    BY <1>1, <1>3 DEF Accept, Work, store
  <2>4. receipt # <<>> /\ receipt[1].content = sum[p]
    BY <2>2 DEF Receipt
  <2> QED BY <2>3, <2>4
<1>4. ASSUME WriteReceipt(p) \/ Seal(p) PROVE target' # 0 /\ receipt' # <<>> /\ disk'[target'] = receipt'[1].content
  <2>1. target # 0 /\ sum[p] = disk[target] /\ receipt = <<>> /\ UNCHANGED <<disk, target>>
    BY <1>1, <1>4 DEF WriteReceipt, Seal, Work
  <2>2. PICK v : receipt' = <<Receipt(v, sum[p])>>
    BY <1>1, <1>4, <2>1 DEF WriteReceipt, Seal
  <2>3. receipt' # <<>> /\ receipt'[1].content = sum[p]
    BY <2>2 DEF Receipt
  <2> QED BY <2>1, <2>3
<1> QED BY <1>2, <1>3, <1>4

\* An invocation that reports success, alone at work, leaves the artifact and a receipt
\* that states its digest: the end of download and _acquire.
THEOREM SuccessIsKept == Spec => SuccessIsOnDisk
<1>1. FetchInv /\ [Next]_vars =>
        [\A p \in Procs : pc[p] # "done" /\ pc'[p] = "done" /\ ~overlapped =>
           target' # 0 /\ receipt' # <<>> /\ disk'[target'] = receipt'[1].content]_vars
  BY DoneIsOnDisk
<1> QED BY <1>1, FetchHolds, PTL DEF Spec, SuccessIsOnDisk

-----------------------------------------------------------------------------
(* The refusals.                                                           *)

Quiet   == ~overlapped /\ served = Pin /\ damages = 0
Looking == {"look", "orphan", "verify", "accept"}
Naming  == {"unlink", "receipt", "seal", "rollback"}

\* An artifact that has its name and not yet its receipt.
Unreceipted ==
  kind \in {"osu", "xrf55", "smorffi"} /\ target # 0 /\ receipt = <<>> /\ ~legacy

\* The leftovers that every rerun refuses.
Stuck == (Unreceipted /\ kills > 0) \/ (kind = "public" /\ partial # 0 /\ target = 0)

RefInv ==
  Quiet =>
    /\ legacy \/ receipt # <<>> => target # 0
    /\ Unreceipted => kills > 0 \/ \E p \in Procs : pc[p] \in Naming
    /\ \A p \in Procs : pc[p] = "refused" =>
         Stuck /\ \A q \in Procs : pc[q] \in Idle \cup Looking

LEMMA RefInit == Init => RefInv
<1> SUFFICES ASSUME Init PROVE RefInv
  OBVIOUS
<1>1. \A p \in Procs : pc[p] = "idle"
  BY DEF Init
<1>2. receipt = <<>> /\ (legacy => target # 0) /\ (target # 0 => legacy)
  <2>1. CASE legacy
    BY <2>1 DEF Init
  <2>2. CASE ~ legacy
    BY <2>2 DEF Init
  <2> QED BY <2>1, <2>2
<1> QED BY <1>1, <1>2 DEF RefInv, Unreceipted

\* What an invocation at work answers for: the name it gives, and where it goes.
LEMMA RefMoves ==
  ASSUME FetchInv, RefInv, NEW p \in Procs, NEW x, pc' = [pc EXCEPT ![p] = x],
         overlapped' = overlapped, served' = served, damages' = damages,
         kind' = kind, legacy' = legacy, kills' = kills, Active(p),
         Quiet /\ Work(p) /\ (legacy \/ receipt # <<>> => target # 0) =>
           /\ receipt' # <<>> => target' # 0
           /\ legacy => target' # 0
           /\ Unreceipted' => x \in Naming \/ (Unreceipted /\ pc[p] \notin Naming)
           /\ x = "refused" => Stuck' \/ (Unreceipted' /\ Unreceipted /\ pc[p] \notin Naming)
           /\ Stuck /\ pc[p] \in Looking => Stuck' /\ x \in Idle \cup Looking
  PROVE  RefInv'
<1>1. \A q \in Procs : pc'[q] = IF q = p THEN x ELSE pc[q]
  BY DEF FetchInv, TypeInv
<1> SUFFICES ASSUME Quiet
             PROVE  /\ legacy \/ receipt' # <<>> => target' # 0
                    /\ Unreceipted' => kills > 0 \/ \E q \in Procs : pc'[q] \in Naming
                    /\ \A q \in Procs : pc'[q] = "refused" =>
                         Stuck' /\ \A r \in Procs : pc'[r] \in Idle \cup Looking
  BY DEF RefInv, Quiet
<1>2. Work(p) /\ (legacy \/ receipt # <<>> => target # 0)
  BY DEF FetchInv, AloneInv, Quiet, RefInv
<1>3. \A q \in Procs \ {p} : pc[q] \in Idle
  BY DEF FetchInv, AloneInv, Quiet, Active
<1>4. Unreceipted /\ pc[p] \notin Naming => kills > 0
  BY <1>3 DEF RefInv, Naming, Idle
<1>5. Unreceipted' /\ kills > 0 => Stuck'
  BY DEF Stuck
<1>6. Unreceipted' => kills > 0 \/ \E q \in Procs : pc'[q] \in Naming
  BY <1>1, <1>2, <1>4
<1>7. ASSUME NEW q \in Procs, pc'[q] = "refused"
      PROVE  Stuck' /\ \A r \in Procs : pc'[r] \in Idle \cup Looking
  <2>1. Stuck' /\ x \in Idle \cup Looking
    <3>1. CASE q = p
      BY <1>1, <1>2, <1>4, <1>5, <1>7, <3>1 DEF Idle
    <3>2. CASE q # p
      <4>1. Stuck /\ pc[p] \in Looking
        BY <1>1, <1>7, <3>2 DEF RefInv, Active
      <4> QED BY <1>2, <4>1
    <3> QED BY <3>1, <3>2
  <2> QED BY <1>1, <1>3, <2>1
<1> QED BY <1>2, <1>6, <1>7

\* The steps that neither name nor record the artifact.
LEMMA RefStays ==
  ASSUME FetchInv, RefInv, NEW p \in Procs, NEW x, pc' = [pc EXCEPT ![p] = x],
         UNCHANGED world, UNCHANGED <<target, receipt>>, Active(p), pc[p] \notin Naming,
         Quiet /\ Work(p) /\ (legacy \/ receipt # <<>> => target # 0) =>
           /\ x = "refused" => Stuck' \/ Unreceipted
           /\ Stuck /\ pc[p] \in Looking => Stuck' /\ x \in Idle \cup Looking
  PROVE  RefInv'
<1>1. /\ overlapped' = overlapped /\ served' = served /\ damages' = damages
      /\ kind' = kind /\ legacy' = legacy /\ kills' = kills
  BY DEF world
<1>2. Unreceipted' <=> Unreceipted
  BY <1>1 DEF Unreceipted
<1> QED BY <1>1, <1>2, RefMoves

LEMMA RefLooks ==
  ASSUME FetchInv, RefInv, NEW p \in Procs,
         Look(p) \/ LookForOrphan(p) \/ Digest(p) \/ Accept(p)
  PROVE  RefInv'
<1> USE DEF Goto
<1>1. /\ UNCHANGED world /\ UNCHANGED <<target, receipt>> /\ Active(p) /\ pc[p] \in Looking
      /\ pc[p] \notin Naming
  BY DEF Look, LookForOrphan, Digest, Accept, store, Active, Idle, Looking, Naming
<1>2. UNCHANGED <<kind, partial, target, receipt, legacy, kills>>
  BY DEF Look, LookForOrphan, Digest, Accept, store, world
<1>3. Stuck' <=> Stuck
  BY <1>2 DEF Stuck, Unreceipted
<1>4. kind \in Kinds
  BY DEF FetchInv, TypeInv
<1>5. CASE Look(p)
  <2>1. PICK x \in {"failed", "verify", "orphan"} : pc' = [pc EXCEPT ![p] = x]
    BY <1>5 DEF Look
  <2>2. x # "refused" /\ x \in Idle \cup Looking
    BY <2>1 DEF Idle, Looking
  <2> QED BY <1>1, <1>3, <2>1, <2>2, RefStays
<1>6. CASE LookForOrphan(p)
  <2>1. PICK x \in {"refused", "stage", "resume"} :
          /\ pc' = [pc EXCEPT ![p] = x]
          /\ x = "refused" <=> receipt # <<>> \/ legacy \/ (kind = "public" /\ partial # 0)
    BY <1>6 DEF LookForOrphan
  <2>2. ASSUME Work(p), legacy \/ receipt # <<>> => target # 0
        PROVE  /\ x = "refused" => Stuck
               /\ Stuck => x = "refused"
    <3>1. target = 0
      BY <1>6, <2>2 DEF LookForOrphan, Work
    <3> QED BY <2>1, <2>2, <3>1 DEF Stuck, Unreceipted
  <2>3. "refused" \in Idle
    BY DEF Idle
  <2> QED BY <1>1, <1>3, <2>1, <2>2, <2>3, RefStays
<1>7. CASE Digest(p)
  <2>1. PICK x \in {"refused", "accept"} :
          pc' = [pc EXCEPT ![p] = x] /\ (x = "refused" => target = 0)
    BY <1>7 DEF Digest
  <2>2. Work(p) => x = "accept"
    BY <1>7, <2>1 DEF Digest, Work
  <2>3. x = "accept" => x # "refused" /\ x \in Looking
    BY DEF Looking
  <2> QED BY <1>1, <1>3, <2>1, <2>2, <2>3, RefStays
<1>8. CASE Accept(p)
  <2>1. PICK x \in {"refused", "done", "receipt"} :
          /\ pc' = [pc EXCEPT ![p] = x]
          /\ x = "receipt" => receipt = <<>> /\ kind \in Pinned /\ (kind = "xrf55" => legacy)
          /\ x = "refused" =>
                \/ kind \in Pinned /\ sum[p] # Full(Pin)
                \/ kind # "osu" /\ receipt # <<>> /\ receipt # <<Receipt(Pin, sum[p])>>
                \/ kind = "osu" /\ receipt # <<>> /\ receipt # <<Receipt(expect[p], sum[p])>>
                \/ kind \in {"osu", "smorffi"} /\ receipt = <<>>
                \/ kind = "xrf55" /\ receipt = <<>> /\ ~ legacy
    BY <1>4, <1>8, Acceptance
  <2>2. ASSUME Quiet, Work(p)
        PROVE  /\ x = "refused" => Unreceipted
               /\ Stuck => x \in Idle
    <3>1. target # 0 /\ sum[p] = disk[target]
      BY <1>8, <2>2 DEF Accept, Work
    <3>2. sum[p] = Full(Pin) /\ expect[p] = Pin
      BY <2>2, <3>1 DEF FetchInv, CleanInv, CleanFiles, Calm, Quiet, PinInv
    <3>3. receipt # <<>> => receipt = <<Receipt(Pin, sum[p])>>
      <4>1. ASSUME receipt # <<>> PROVE receipt[1] = Receipt(Pin, Full(Pin))
        BY <2>2, <4>1 DEF FetchInv, ReceiptsAreGenuine, Quiet
      <4>2. ASSUME receipt # <<>> PROVE \E r : receipt = <<r>>
        BY <4>2 DEF FetchInv, TypeInv
      <4> QED BY <3>2, <4>1, <4>2
    <3>4. ASSUME x = "refused" PROVE Unreceipted
      <4>1. legacy => kind \in {"xrf55", "public"}
        BY DEF FetchInv, KindInv
      <4>2. receipt = <<>> /\ kind \in {"osu", "smorffi", "xrf55"} /\ ~legacy
        BY <2>1, <3>2, <3>3, <3>4, <4>1
      <4> QED BY <3>1, <4>2 DEF Unreceipted
    <3>5. ASSUME Stuck PROVE x \in Idle
      <4>1. Unreceipted
        BY <3>1, <3>5 DEF Stuck
      <4>2. x # "receipt"
        BY <2>1, <4>1 DEF Unreceipted, Pinned
      <4> QED BY <2>1, <4>2 DEF Idle
    <3> QED BY <3>4, <3>5
  <2> QED BY <1>1, <1>3, <2>1, <2>2, RefStays
<1> QED BY <1>5, <1>6, <1>7, <1>8

\* No download is refused on the way.
LEMMA RefLoads ==
  ASSUME FetchInv, RefInv, NEW p \in Procs,
         Resume(p) \/ Request(p) \/ Open(p) \/ Receive(p) \/ Check(p) \/ Stage(p)
  PROVE  RefInv'
<1> USE DEF Goto
<1>1. /\ UNCHANGED world /\ UNCHANGED <<target, receipt>> /\ Active(p)
      /\ pc[p] \notin Looking /\ pc[p] \notin Naming
  BY DEF Resume, Request, Open, Receive, Check, Stage, store, Active, Idle, Looking, Naming
<1>2. /\ kind \in Kinds /\ sum \in [Procs -> Contents] /\ disk \in Seq(Contents)
      /\ partial \in 0 .. Len(disk) /\ TypeInv /\ KindInv
  BY DEF FetchInv, TypeInv
<1>3. ASSUME NEW x, pc' = [pc EXCEPT ![p] = x], Quiet /\ Work(p) => x # "refused"
      PROVE  RefInv'
  BY <1>1, <1>3, RefStays
<1>4. Quiet => CleanFiles
  BY DEF Quiet, Calm, FetchInv, CleanInv
<1>5. CASE Resume(p)
  <2>1. PICK x \in {"refused", "check", "request"} :
          pc' = [pc EXCEPT ![p] = x] /\ (x = "refused" => Len(Found) > Size)
    BY <1>2, <1>5, ResumeIs
  <2>2. ASSUME Quiet PROVE x # "refused"
    <3>1. Prefix(Found)
      BY <1>4, <2>2, EmptyIs DEF Found, CleanFiles, Quiet
    <3>2. Found \in Contents /\ Len(Found) \in Nat /\ Len(Found) <= Size
      BY <1>2, <1>5, <3>1, ResumeIs DEF Prefix
    <3> QED BY <2>1, <3>2 DEF DatasetFetchAssumption
  <2> QED BY <1>3, <2>1, <2>2
<1>6. CASE Open(p)
  <2>1. PICK x \in {"refused", "failed", "receive"} :
          /\ pc' = [pc EXCEPT ![p] = x]
          /\ x = "refused" => mode[p] = "create" /\ partial # 0
    <3>1. CASE mode[p] = "create" /\ partial # 0
      BY <1>2, <1>6, <3>1, OpenIs
    <3>2. CASE ~(mode[p] = "create" /\ partial # 0)
      <4>1. PICK x \in {"failed", "receive"} : pc' = [pc EXCEPT ![p] = x]
        BY <1>2, <1>6, <3>2, OpenIs
      <4> QED BY <4>1
    <3> QED BY <3>1, <3>2
  <2>2. ASSUME Work(p), x = "refused" PROVE FALSE
    <3>1. mode[p] = OpenMode(Len(sum[p])) /\ (kind = "public" => partial = 0) /\ kind # "smorffi"
      BY <1>2, <1>6, <2>2 DEF Open, Work, KindInv, Loading
    <3>2. kind \in {"jamming", "osu", "xrf55"} /\ partial # 0 /\ Len(sum[p]) \in Nat
      <4>1. partial # 0
        BY <2>1, <2>2
      <4>2. kind \in {"jamming", "osu", "xrf55"}
        BY <1>2, <3>1, <4>1 DEF DatasetFetchAssumption
      <4>3. Len(sum[p]) \in Nat
        BY <1>2 DEF Contents
      <4> QED BY <4>1, <4>2, <4>3
    <3>3. mode[p] # "create"
      <4>1. CASE kind = "jamming"
        BY <3>1, <3>2, <4>1 DEF OpenMode
      <4>2. CASE kind \in {"osu", "xrf55"} /\ Len(sum[p]) > 0
        BY <3>1, <3>2, <4>2 DEF OpenMode
      <4>3. CASE kind \in {"osu", "xrf55"} /\ Len(sum[p]) = 0
        BY <3>1, <3>2, <4>3 DEF OpenMode
      <4> QED BY <3>2, <4>1, <4>2, <4>3
    <3> QED BY <2>1, <2>2, <3>3
  <2> QED BY <1>3, <2>1, <2>2
<1>7. CASE Check(p)
  <2>1. PICK x \in {"promote", "refused"} :
          pc' = [pc EXCEPT ![p] = x] /\ (x = "refused" => sum[p] # Full(Pin))
    BY <1>7 DEF Check
  <2>2. ASSUME Quiet, Work(p) PROVE x # "refused"
    <3>1. partial # 0 /\ sum[p] = disk[partial] /\ Len(sum[p]) = Size
      BY <1>7, <2>2 DEF Check, Work
    <3>2. Prefix(sum[p])
      BY <1>4, <2>2, <3>1 DEF CleanFiles, Quiet
    <3>3. sum[p] = Full(Pin)
      BY <1>2, <3>1, <3>2, PrefixIs
    <3> QED BY <2>1, <3>3
  <2> QED BY <1>3, <2>1, <2>2
<1>8. CASE Receive(p)
  <2>1. PICK x \in {"receive", "check", "failed"} : pc' = [pc EXCEPT ![p] = x]
    BY <1>2, <1>8, ReceiveIs
  <2> QED BY <1>3, <2>1
<1>9. CASE Request(p) \/ Stage(p)
  <2>1. PICK x \in {"open", "failed", "rename"} : pc' = [pc EXCEPT ![p] = x]
    BY <1>9 DEF Request, Stage
  <2> QED BY <1>3, <2>1
<1> QED BY <1>5, <1>6, <1>7, <1>8, <1>9

\* An artifact that gets its name gets its receipt next, or goes again.
LEMMA RefNames ==
  ASSUME FetchInv, RefInv, NEW p \in Procs,
         Promote(p) \/ Unlink(p) \/ WriteReceipt(p) \/ Rename(p) \/ Seal(p) \/ Rollback(p)
  PROVE  RefInv'
<1> USE DEF Goto
<1>1. /\ overlapped' = overlapped /\ served' = served /\ damages' = damages
      /\ kind' = kind /\ legacy' = legacy /\ kills' = kills
      /\ Active(p) /\ pc[p] \notin Looking
  BY DEF Promote, Unlink, WriteReceipt, Rename, Seal, Rollback, world, Active, Idle, Looking
<1>2. ASSUME NEW x, pc' = [pc EXCEPT ![p] = x],
             Quiet /\ Work(p) /\ (legacy \/ receipt # <<>> => target # 0) =>
               /\ receipt' # <<>> \/ legacy => target' # 0
               /\ target' # 0 /\ receipt' = <<>> => x \in Naming
               /\ x # "refused"
      PROVE  RefInv'
  <2>1. Unreceipted' => target' # 0 /\ receipt' = <<>>
    BY DEF Unreceipted
  <2> QED BY <1>1, <1>2, <2>1, RefMoves
<1>3. CASE Promote(p)
  <2>1. PICK x \in {"refused", "unlink", "receipt"} :
          /\ pc' = [pc EXCEPT ![p] = x] /\ pc[p] = "promote" /\ receipt' = receipt
          /\ x = "refused" => partial = 0 \/ target # 0
          /\ x # "refused" => target' = partial /\ partial # 0
    BY <1>3 DEF Promote
  <2>2. Work(p) => x \in Naming /\ x # "refused" /\ target' # 0
    BY <2>1 DEF Work, Naming
  <2> QED BY <1>2, <2>1, <2>2
<1>4. CASE Unlink(p)
  <2>1. PICK x \in {"refused", "receipt"} :
          /\ pc' = [pc EXCEPT ![p] = x] /\ pc[p] = "unlink" /\ UNCHANGED <<target, receipt>>
          /\ x = "refused" => partial = 0
    BY <1>4 DEF Unlink
  <2>2. Work(p) => x = "receipt" /\ x \in Naming
    BY <2>1 DEF Work, Naming
  <2> QED BY <1>2, <2>1, <2>2
<1>5. CASE WriteReceipt(p)
  <2>1. PICK x \in {"refused", "done"} :
          /\ pc' = [pc EXCEPT ![p] = x] /\ pc[p] = "receipt" /\ target' = target
          /\ receipt = <<>> => receipt' # <<>> /\ x = "done"
    BY <1>5 DEF WriteReceipt
  <2>2. Work(p) => receipt = <<>> /\ target # 0
    BY <2>1 DEF Work
  <2> QED BY <1>2, <2>1, <2>2
<1>6. CASE Rename(p)
  <2>1. PICK x \in {"refused", "seal"} :
          /\ pc' = [pc EXCEPT ![p] = x] /\ pc[p] = "rename" /\ receipt' = receipt
          /\ target = 0 => x = "seal" /\ target' = Len(disk) + 1
    BY <1>6 DEF Rename
  <2>2. Len(disk) + 1 # 0
    BY DEF FetchInv, TypeInv
  <2>3. Work(p) => x = "seal" /\ x \in Naming /\ target' # 0
    BY <2>1, <2>2 DEF Work, Naming
  <2> QED BY <1>2, <2>1, <2>3
<1>7. CASE Seal(p)
  <2>1. PICK x \in {"done", "rollback"} :
          /\ pc' = [pc EXCEPT ![p] = x] /\ pc[p] = "seal" /\ target' = target
          /\ receipt' = <<>> => x = "rollback"
    <3>1. CASE receipt' = <<Receipt(Pin, sum[p])>> /\ pc' = [pc EXCEPT ![p] = "done"]
      <4>1. receipt' # <<>>
        BY <3>1
      <4> QED BY <1>7, <3>1, <4>1 DEF Seal
    <3>2. CASE pc' = [pc EXCEPT ![p] = "rollback"]
      BY <1>7, <3>2 DEF Seal
    <3> QED BY <1>7, <3>1, <3>2 DEF Seal
  <2>2. Work(p) => target # 0
    BY <2>1 DEF Work
  <2>3. x # "refused" /\ (x = "rollback" => x \in Naming)
    BY <2>1 DEF Naming
  <2> QED BY <1>2, <2>1, <2>2, <2>3
<1>8. CASE Rollback(p)
  <2>1. /\ pc' = [pc EXCEPT ![p] = "failed"] /\ pc[p] = "rollback" /\ target' = 0
        /\ receipt' = receipt /\ ~legacy
    BY <1>8 DEF Rollback, FetchInv, KindInv, Staging
  <2>2. Work(p) => receipt = <<>>
    BY <2>1 DEF Work
  <2> QED BY <1>2, <2>1, <2>2
<1> QED BY <1>3, <1>4, <1>5, <1>6, <1>7, <1>8

LEMMA RefSteps == FetchInv /\ RefInv /\ [Next]_vars => RefInv'
<1> SUFFICES ASSUME FetchInv, RefInv, [Next]_vars PROVE RefInv'
  OBVIOUS
<1> USE DEF Goto
<1>0. pc \in [Procs -> PCs] /\ kills \in Nat
  BY DEF FetchInv, TypeInv
<1>1. CASE UNCHANGED vars
  BY <1>1 DEF vars, store, local, world, RefInv, Quiet, Unreceipted, Stuck
<1>2. ASSUME NEW p \in Procs, Step(p) PROVE RefInv'
  BY <1>2, RefLooks, RefLoads, RefNames DEF Step
<1>3. CASE Drift
  <2>1. served' # Pin
    BY <1>3 DEF Drift, FetchInv, TypeInv, Pin
  <2> QED BY <2>1 DEF RefInv, Quiet
<1>4. CASE Damage
  <2>1. damages' # 0
    BY <1>4 DEF Damage, FetchInv, TypeInv
  <2> QED BY <2>1 DEF RefInv, Quiet
<1>5. ASSUME NEW p \in Procs, Start(p) PROVE RefInv'
  <2>1. /\ UNCHANGED <<target, partial, receipt, served, damages, kind, legacy, kills>>
        /\ (overlapped => overlapped') /\ pc[p] \in Idle
        /\ \A q \in Procs : pc'[q] = IF q = p THEN "look" ELSE pc[q]
    BY <1>0, <1>5 DEF Start, store
  <2>2. (Quiet' => Quiet) /\ (Stuck' <=> Stuck) /\ (Unreceipted' <=> Unreceipted)
    BY <2>1 DEF Quiet, Stuck, Unreceipted
  <2>3. \A q \in Procs : pc[q] \in Naming => pc'[q] \in Naming
    BY <2>1 DEF Naming, Idle
  <2> QED BY <2>1, <2>2, <2>3 DEF RefInv, Looking
<1>6. ASSUME NEW p \in Procs, Kill(p) PROVE RefInv'
  <2>1. /\ UNCHANGED <<target, partial, receipt, served, damages, kind, legacy, overlapped>>
        /\ kills' > 0
        /\ \A q \in Procs : pc'[q] = IF q = p THEN "idle" ELSE pc[q]
    BY <1>0, <1>6 DEF Kill, store
  <2>2. (Quiet' <=> Quiet) /\ (Stuck => Stuck') /\ (Unreceipted' <=> Unreceipted)
    BY <2>1 DEF Quiet, Stuck, Unreceipted
  <2> QED BY <2>1, <2>2 DEF RefInv, Idle
<1> QED BY <1>1, <1>2, <1>3, <1>4, <1>5, <1>6 DEF Next

\* Alone at work and with a publisher that does not change, jamming is never refused by
\* its own leftovers; the others are by an artifact without a receipt after a kill,
\* public by a partial file.
THEOREM RefusalsExplained == Spec => []RefusalsAreKnown
<1>1. Init => FetchInv /\ RefInv
  BY FetchInit, RefInit
<1>2. (FetchInv /\ RefInv) /\ [Next]_vars => (FetchInv /\ RefInv)'
  BY FetchSteps, RefSteps
<1>3. RefInv => RefusalsAreKnown
  BY DEF RefInv, Quiet, Stuck, Unreceipted, RefusalsAreKnown
<1> QED BY <1>1, <1>2, <1>3, PTL DEF Spec

-----------------------------------------------------------------------------
(* The same of the behaviours that MCDataFiles composes.                   *)

LEMMA DownloadsFollow == MCSpec => Spec
<1>1. MCInit => Init
  BY DEF MCInit
<1>2. MCNext => Next \/ UNCHANGED vars
  BY DEF MCNext, Download, Evaluation, Projection, Next, Step
<1>3. [MCNext]_<<vars, caches, call, subject>> => [Next]_vars
  BY <1>2
<1> QED BY <1>1, <1>3, PTL DEF MCSpec, Spec

HIDE DatasetFetchAssumption

-----------------------------------------------------------------------------
(* Sequences of whatever a file may hold.                                  *)

IsTuple(s) == s \in Seq(Cache!Range(s))

LEMMA AppendAny ==
  ASSUME NEW s, IsTuple(s), NEW e
  PROVE  /\ IsTuple(Append(s, e)) /\ Len(s) \in Nat
         /\ Len(Append(s, e)) = Len(s) + 1
         /\ \A i \in 1 .. Len(s) : Append(s, e)[i] = s[i]
         /\ Append(s, e)[Len(s) + 1] = e
<1> DEFINE t == Append(s, e)
<1>1. s \in Seq(Cache!Range(s) \cup {e})
  BY DEF IsTuple
<1>2. /\ t \in Seq(Cache!Range(s) \cup {e}) /\ Len(s) \in Nat
      /\ Len(t) = Len(s) + 1
      /\ \A i \in 1 .. Len(s) : t[i] = s[i]
      /\ t[Len(s) + 1] = e
  BY <1>1
<1>3. t \in Seq(Cache!Range(t))
  <2> HIDE DEF t
  <2>1. DOMAIN t = 1 .. Len(t) /\ Len(t) \in Nat
    BY <1>2
  <2>2. \A i \in 1 .. Len(t) : t[i] \in Cache!Range(t)
    BY <2>1 DEF Cache!Range
  <2> QED BY <1>2, <2>1, <2>2
<1> QED BY <1>2, <1>3 DEF IsTuple

LEMMA DivInside ==
  ASSUME NEW k \in Nat \ {0}, NEW t \in Nat, NEW n \in Nat, n < k * t
  PROVE  n \div k \in 0 .. (t - 1)
<1> DEFINE q == n \div k
<1>1. q \in Nat /\ k * q <= n
  OBVIOUS
<1>2. ASSUME q >= t PROVE FALSE
  <2>1. k * q >= k * t
    BY <1>1, <1>2
  <2> QED BY <1>1, <2>1
<1> QED BY <1>1, <1>2

LEMMA SameCount == \A S : Cache!Cardinality(S) = Cardinality(S)
BY DEF Cache!Cardinality, Cardinality

LEMMA SameCardinality ==
  ASSUME NEW s, NEW t, IsTuple(s), IsTuple(t), s # <<>>, t # <<>>,
         ~ (Cache!Cardinality(Cache!Range(s \o t)) > 1)
  PROVE  Cache!Range(s) = Cache!Range(t)
<1> DEFINE S == Cache!Range(s) \cup Cache!Range(t)
           u == s \o t
<1>0. ~ (Cardinality(Cache!Range(u)) > 1)
  BY SameCount
<1>1. s \in Seq(S) /\ t \in Seq(S)
  BY DEF IsTuple
<1>2. /\ u \in Seq(S) /\ Len(u) = Len(s) + Len(t)
      /\ DOMAIN u = 1 .. (Len(s) + Len(t))
      /\ \A i \in 1 .. Len(s) : u[i] = s[i]
      /\ \A i \in 1 .. Len(t) : u[Len(s) + i] = t[i]
  BY <1>1
<1>3. Len(s) \in Nat \ {0} /\ Len(t) \in Nat \ {0}
      /\ DOMAIN s = 1 .. Len(s) /\ DOMAIN t = 1 .. Len(t)
  BY <1>1
<1> HIDE DEF u
<1>4. Cache!Range(s) \subseteq Cache!Range(u)
  BY <1>2, <1>3 DEF Cache!Range
<1>5. Cache!Range(t) \subseteq Cache!Range(u)
  <2>1. \A i \in 1 .. Len(t) : Len(s) + i \in DOMAIN u
    BY <1>2, <1>3
  <2> QED BY <1>2, <1>3, <2>1 DEF Cache!Range
<1>6. IsFiniteSet(Cache!Range(u)) /\ Cardinality(Cache!Range(u)) \in Nat
  <2>1. IsFiniteSet(DOMAIN u)
    BY <1>2, <1>3, FS_Interval
  <2>2. u \in [DOMAIN u -> Cache!Range(u)]
    BY <1>2 DEF Cache!Range
  <2>3. u \in Surjection(DOMAIN u, Cache!Range(u))
    BY <2>2 DEF Surjection, Cache!Range
  <2>4. IsFiniteSet(Cache!Range(u))
    BY <2>1, <2>3, FS_Surjection
  <2> QED BY <2>4, FS_CardinalityType
<1>7. \A x, y \in Cache!Range(u) : x = y
  <2> SUFFICES ASSUME NEW x \in Cache!Range(u), NEW y \in Cache!Range(u), x # y PROVE FALSE
    OBVIOUS
  <2>1. {x, y} \subseteq Cache!Range(u) /\ IsFiniteSet({x, y}) /\ Cardinality({x, y}) = 2
    <3>1. IsFiniteSet({x}) /\ Cardinality({x}) = 1
      BY FS_Singleton
    <3>2. {x, y} = {x} \cup {y} /\ y \notin {x}
      OBVIOUS
    <3> QED BY <3>1, <3>2, FS_AddElement
  <2>2. Cardinality({x, y}) <= Cardinality(Cache!Range(u))
    BY <1>6, <2>1, FS_Subset
  <2> QED BY <1>0, <1>6, <2>1, <2>2
<1>8. s[1] \in Cache!Range(s) /\ t[1] \in Cache!Range(t)
  BY <1>3 DEF Cache!Range
<1>9. \A x \in Cache!Range(s) : x = t[1]
  BY <1>4, <1>5, <1>7, <1>8
<1>10. \A x \in Cache!Range(t) : x = s[1]
  BY <1>4, <1>5, <1>7, <1>8
<1> QED BY <1>8, <1>9, <1>10

-----------------------------------------------------------------------------
(* The invariant: what is true of a document, of a program that loads      *)
(* bundles, and of the locked test.                                        *)

\* The choice of this behaviour, which no step changes.
Same == family' = family /\ passing' = passing /\ disjoint' = disjoint

\* A receipt of the pre-gate roles: whole, and its gate is what its data give.
DocOK(d) ==
  /\ IsTuple(d.bound) /\ Len(d.bound) = Len(PreGate)
  /\ Cache!Whole(d.bound, d.data)
  /\ d.passed = Cache!Passes(d.data)

ReaderSteps == {"adapters", "hash", "map", "write", "replay", "claim", "score"}
OtherSteps  == {"idle", "publish", "reuse", "compare", "receipt"}

Reads(c) == c.at \in ReaderSteps

IsReader(c) ==
  c = [at |-> c.at, todo |-> c.todo, purpose |-> c.purpose, bound |-> c.bound,
       data |-> c.data, fit |-> c.fit, left |-> c.left, hashed |-> c.hashed,
       receipt |-> c.receipt]

\* What was loaded so far agrees with the adapters that were read before.
LoadOK(c) ==
  /\ IsTuple(c.todo) /\ IsTuple(c.bound) /\ IsTuple(c.data)
  /\ IF c.at = "adapters" THEN c.data = <<>> /\ Len(c.bound) < Len(c.todo)
                          ELSE Len(c.bound) = Len(c.todo)
  /\ c.at = "map" => c.hashed.of = Cache!Expected(c)
  /\ family # "grid" => Cache!Whole(c.bound, c.data)

\* Where a purpose takes a program, and over which bundles.
PurposeOK(c) ==
  /\ \/ c.at \in {"adapters", "hash", "map"} /\ c.purpose \in {"write", "replay", "score"}
     \/ c.at \in {"write", "replay", "score"} /\ c.at = c.purpose
     \/ c.at = "claim" /\ c.purpose = "replay"
     \/ c.at = "write" /\ c.purpose = "score"
  /\ family = "roles" /\ c.purpose # "score" => c.todo = PreGate

\* A program that replays a validation has its receipt, which passed.
ReplayOK(c) ==
  /\ c.purpose = "replay" =>
       family = "roles" /\ c.receipt # Cache!None /\ DocOK(c.receipt) /\ c.receipt.passed
  /\ c.at = "claim" => c.bound = c.receipt.bound

\* A program that scores has claimed the marker, and was fit to what it binds.
ScorerOK(c) ==
  c.purpose = "score" =>
    /\ family = "roles" /\ marker # Cache!None /\ c.todo = <<Cache!Locked>>
    /\ c.receipt = marker /\ c.fit = marker.bound
    /\ c.at # "adapters" => disjoint \/ Cache!Range(c.bound) = Cache!Range(c.fit)

ReaderOK(c) == /\ IsReader(c) /\ LoadOK(c) /\ PurposeOK(c)
               /\ ReplayOK(c) /\ ScorerOK(c)

ProcOK(c) == /\ "at" \in DOMAIN c /\ c.at \in ReaderSteps \cup OtherSteps
             /\ Reads(c) => ReaderOK(c)

ProcsOK == /\ proc = [p \in Procs |-> proc[p]]
           /\ \A p \in Procs : ProcOK(proc[p])

DocsOK == /\ validation # Cache!None => family = "roles" /\ DocOK(validation)
          /\ marker # Cache!None => DocOK(marker) /\ marker.passed

Scores(c) == Reads(c) /\ c.purpose = "score"

\* The marker lets one program through, and that one scores once.
OnceOK ==
  /\ \A p, q \in Procs : Scores(proc[p]) /\ Scores(proc[q]) => p = q
  /\ \A p \in Procs : Scores(proc[p]) =>
       IF proc[p].at = "write" THEN Cache!Contains(scored, proc[p]) ELSE scored = <<>>

ScoreOK(s) == /\ s.receipt = marker /\ marker # Cache!None
              /\ disjoint \/ Cache!Range(s.bound) = Cache!Range(marker.bound)
              /\ Cache!Whole(s.bound, s.data)

ScoredOK == scored = <<>> \/ \E s : scored = <<s>> /\ ScoreOK(s)

ReportOK == report # Cache!None =>
              IF family = "roles" THEN Cache!Contains(scored, report)
              ELSE family # "grid" => Cache!Whole(report.bound, report.data)

CacheInv == ProcsOK /\ DocsOK /\ OnceOK /\ ScoredOK /\ ReportOK

LEMMA LoadSame ==
  ASSUME NEW c, LoadOK(c), family' = family PROVE LoadOK(c)'
BY DEF LoadOK, Cache!Expected, Cache!Whole, Cache!Parts

LEMMA DocSame ==
  ASSUME NEW d, DocOK(d), Same PROVE DocOK(d)'
BY DEF Same, DocOK, Cache!Whole, Cache!Passes, Cache!Parts

LEMMA ReaderSame ==
  ASSUME NEW c, ReaderOK(c), Same,
         c.purpose = "score" => marker' = marker
  PROVE  ReaderOK(c)'
<1>1. LoadOK(c)'
  BY LoadSame DEF ReaderOK, Same
<1>2. PurposeOK(c)'
  BY DEF ReaderOK, PurposeOK, Same
<1>3. ReplayOK(c)'
  BY DocSame DEF ReaderOK, ReplayOK, Same
<1>4. ScorerOK(c)'
  BY DEF ReaderOK, ScorerOK, Same
<1> QED BY <1>1, <1>2, <1>3, <1>4 DEF ReaderOK, IsReader

\* A turn of one program: what it is about next; the others stay as they were.
LEMMA Turn ==
  ASSUME NEW p \in Procs, NEW r, Cache!Become(p, r), ProcsOK, ProcOK(r)', Same,
         \A q \in Procs \ {p} :
           Scores(proc[q]) => marker' = marker
  PROVE  /\ ProcsOK' /\ proc'[p] = r
         /\ \A q \in Procs \ {p} : proc'[q] = proc[q]
<1>1. /\ proc' = [q \in Procs |-> proc'[q]] /\ proc'[p] = r
      /\ \A q \in Procs \ {p} : proc'[q] = proc[q]
  BY DEF Cache!Become, ProcsOK
<1>2. ASSUME NEW q \in Procs \ {p} PROVE \A c : c = proc[q] => ProcOK(c)'
  <2> SUFFICES ASSUME NEW c, c = proc[q] PROVE ProcOK(c)'
    OBVIOUS
  <2>1. ProcOK(c)
    BY DEF ProcsOK
  <2>2. Reads(c) => ReaderOK(c)'
    BY <2>1, ReaderSame DEF ProcOK, Scores
  <2> QED BY <2>1, <2>2 DEF ProcOK, Reads
<1>3. \A q \in Procs : ProcOK(proc[q])'
  <2> SUFFICES ASSUME NEW q \in Procs PROVE ProcOK(proc[q])'
    OBVIOUS
  <2>1. PICK c : c = proc'[q]
    OBVIOUS
  <2>2. ProcOK(c)'
    BY <1>1, <1>2, <2>1
  <2> QED BY <2>1, <2>2 DEF ProcOK, Reads, ReaderOK, IsReader, LoadOK, PurposeOK,
                     ReplayOK, ScorerOK
<1> QED BY <1>1, <1>3 DEF ProcsOK

LEMMA DocsSame ==
  ASSUME DocsOK, Same, validation' = validation, marker' = marker PROVE DocsOK'
<1>1. DocOK(validation) => DocOK(validation)'
  BY DEF DocOK, Cache!Whole, Cache!Passes, Cache!Parts, Same
<1>2. DocOK(marker) => DocOK(marker)'
  BY DEF DocOK, Cache!Whole, Cache!Passes, Cache!Parts, Same
<1> QED BY <1>1, <1>2 DEF DocsOK, Same

LEMMA ReportSame ==
  ASSUME ReportOK, ScoredOK, Same, UNCHANGED <<report, scored, marker>>
  PROVE  ReportOK' /\ ScoredOK'
BY DEF ReportOK, ScoredOK, ScoreOK, Cache!Whole, Cache!Parts, Same

\* A program stops, or does something else than reading.
LEMMA StopsReading ==
  ASSUME CacheInv, NEW p \in Procs, NEW r, Cache!Become(p, r), Same,
         "at" \in DOMAIN r, r.at \in OtherSteps,
         UNCHANGED <<validation, marker, report, scored>>
  PROVE  CacheInv'
<1>1. ProcOK(r)' /\ ~ Reads(r)
  BY DEF ProcOK, Reads, OtherSteps, ReaderSteps
<1>2. /\ ProcsOK' /\ proc'[p] = r
      /\ \A q \in Procs \ {p} : proc'[q] = proc[q]
  BY <1>1, Turn DEF CacheInv
<1>3. \A q \in Procs : Scores(proc'[q]) => q # p /\ Scores(proc[q])
  BY <1>1, <1>2 DEF Scores
<1>4. OnceOK'
  BY <1>2, <1>3 DEF CacheInv, OnceOK, Scores, Reads
<1>5. DocsOK' /\ ReportOK' /\ ScoredOK'
  BY DocsSame, ReportSame DEF CacheInv
<1> QED BY <1>2, <1>4, <1>5 DEF CacheInv

\* A program starts to read, or goes on.
LEMMA GoesOnReading ==
  ASSUME CacheInv, NEW p \in Procs, NEW r, Cache!Become(p, r), Same,
         Reads(r), ReaderOK(r)',
         r.purpose = "score" => /\ Scores(proc[p]) /\ proc[p].at # "write"
                                /\ r.at # "write",
         UNCHANGED <<validation, marker, report, scored>>
  PROVE  CacheInv'
<1>1. ProcOK(r)'
  <2>1. "at" \in DOMAIN r
    BY DEF ReaderOK, IsReader
  <2> QED BY <2>1 DEF ProcOK, Reads
<1>2. /\ ProcsOK' /\ proc'[p] = r
      /\ \A q \in Procs \ {p} : proc'[q] = proc[q]
  BY <1>1, Turn DEF CacheInv
<1>3. \A q \in Procs : Scores(proc'[q]) => Scores(proc[q])
  BY <1>2 DEF Scores
<1>4. OnceOK'
  BY <1>2, <1>3 DEF CacheInv, OnceOK, Scores, Reads
<1>5. DocsOK' /\ ReportOK' /\ ScoredOK'
  BY DocsSame, ReportSame DEF CacheInv
<1> QED BY <1>2, <1>4, <1>5 DEF CacheInv

-----------------------------------------------------------------------------
(* The steps that keep a program from reading, or keep it reading.         *)

LEMMA InitCacheInv == ASSUME Cache!Init PROVE CacheInv
<1>1. ProcsOK
  BY DEF Cache!Init, ProcsOK, ProcOK, Reads, Cache!Idle, ReaderSteps, OtherSteps
<1>2. OnceOK /\ ScoredOK /\ ReportOK
  BY DEF Cache!Init, OnceOK, Scores, Reads, Cache!Idle, ReaderSteps, ScoredOK, ReportOK
<1>3. validation # Cache!None => family = "roles" /\ DocOK(validation)
  <2> SUFFICES ASSUME validation # Cache!None PROVE family = "roles" /\ DocOK(validation)
    OBVIOUS
  <2>1. PICK r : family = "roles" /\ validation = Cache!ValidationOf(r)
    BY DEF Cache!Init
  <2> DEFINE n == Len(PreGate)
             k == Len(Cache!Parts)
             b == [i \in 1 .. n |-> r]
             d == [i \in 1 .. (n * k) |-> r]
  <2>2. n \in Nat \ {0} /\ k \in Nat \ {0}
    BY <2>1, CachesAssumption DEF Cache!CacheAssumption, Cache!Parts
  <2>3. n * k \in Nat /\ n * k = k * n
    BY <2>2
  <2>4. validation = [bound |-> b, data |-> d, passed |-> Cache!Passes(d)]
    BY <2>1 DEF Cache!ValidationOf, Cache!Findings
  <2>5. validation.bound = b /\ validation.data = d /\ validation.passed = Cache!Passes(d)
    BY <2>4
  <2>6. IsTuple(b) /\ Len(b) = n
    <3>1. b \in Seq({r}) /\ Len(b) = n
      BY <2>2
    <3>2. 1 \in DOMAIN b /\ Cache!Range(b) = {r}
      BY <2>2 DEF Cache!Range
    <3> QED BY <3>1, <3>2 DEF IsTuple
  <2>7. Cache!Whole(b, d)
    <3> SUFFICES ASSUME NEW i \in 1 .. (n * k) PROVE d[i] = b[(i - 1) \div k + 1]
      BY DEF Cache!Whole
    <3> HIDE DEF n, k
    <3>1. i - 1 \in Nat /\ i - 1 < k * n
      BY <2>3
    <3>2. (i - 1) \div k \in 0 .. (n - 1)
      BY <2>2, <3>1, DivInside
    <3>3. (i - 1) \div k + 1 \in 1 .. n
      BY <2>2, <3>2
    <3> QED BY <3>3
  <2> QED BY <2>1, <2>5, <2>6, <2>7 DEF DocOK
<1>4. DocsOK
  BY <1>3 DEF Cache!Init, DocsOK
<1> QED BY <1>1, <1>2, <1>4 DEF CacheInv

LEMMA StopStep ==
  ASSUME CacheInv, NEW p \in Procs, Cache!Leave(p), Same,
         UNCHANGED <<validation, marker, report, scored>>
  PROVE  CacheInv'
BY StopsReading DEF Cache!Leave, Cache!Idle, OtherSteps

LEMMA CompileStep ==
  ASSUME CacheInv, NEW p \in Procs,
         \/ Cache!CompileRoles(p) \/ Cache!CompileLegacy(p) \/ Cache!CompileGrid(p) \/ Cache!CompileRows(p)
         \/ Cache!Test(p)
  PROVE  CacheInv'
<1>1. Same /\ UNCHANGED <<validation, marker, report, scored>>
  BY DEF Cache!CompileRoles, Cache!CompileLegacy, Cache!CompileGrid, Cache!CompileRows, Cache!Test, Cache!Compiling,
     Cache!Begin, Cache!choice, Cache!files, Same
<1>2. CASE Cache!Test(p)
  <2>1. Cache!Become(p, [at |-> "receipt"])
    BY <1>2 DEF Cache!Test, Cache!Begin
  <2> QED BY <1>1, <2>1, StopsReading DEF OtherSteps
<1>3. ASSUME NEW todo, NEW at, at \in {"publish", "reuse"}, Cache!Compiling(p, todo, at)
      PROVE  CacheInv'
  <2>1. PICK r, x : /\ Cache!Become(p, x)
                    /\ x = [at |-> at, todo |-> todo, of |-> r, by |-> runs + 1,
                            names |-> Append(Cache!Parts, "adapter"), seen |-> <<>>]
    BY <1>3 DEF Cache!Compiling, Cache!Begin
  <2>2. "at" \in DOMAIN x /\ x.at \in OtherSteps
    BY <1>3, <2>1 DEF OtherSteps
  <2> QED BY <1>1, <2>1, <2>2, StopsReading
<1>4. CASE Cache!CompileRoles(p)
  BY <1>3, <1>4 DEF Cache!CompileRoles
<1>5. CASE Cache!CompileLegacy(p)
  BY <1>3, <1>5 DEF Cache!CompileLegacy
<1>6. CASE Cache!CompileGrid(p)
  BY <1>3, <1>6 DEF Cache!CompileGrid
<1>7. CASE Cache!CompileRows(p)
  BY <1>3, <1>7 DEF Cache!CompileRows
<1> QED BY <1>2, <1>4, <1>5, <1>6, <1>7

LEMMA PublishStep ==
  ASSUME CacheInv, NEW p \in Procs, Cache!LookForReuse(p) \/ Cache!Reuse(p) \/ Cache!Publish(p)
  PROVE  CacheInv'
<1>1. Same /\ UNCHANGED <<validation, marker, report, scored>>
  BY DEF Cache!LookForReuse, Cache!Reuse, Cache!Publish, Cache!choice, Cache!files, Same
<1> DEFINE c == proc[p]
<1>2. "at" \in DOMAIN c
  BY DEF CacheInv, ProcsOK, ProcOK
<1>3. \/ Cache!Leave(p)
      \/ Cache!Become(p, [c EXCEPT !.at = "publish"])
      \/ Cache!Become(p, [c EXCEPT !.at = "compare", !.seen = bundles["ruff"]])
      \/ /\ c.at = "publish"
         /\ \/ Cache!Become(p, [c EXCEPT !.names = Tail(@)])
            \/ Cache!Become(p, [c EXCEPT !.todo = Tail(@), !.names = Append(Cache!Parts, "adapter")])
  BY DEF Cache!LookForReuse, Cache!Reuse, Cache!Publish, Cache!Advance
<1> HIDE DEF c
<1>4. CASE Cache!Leave(p)
  BY <1>1, <1>4, StopStep
<1>5. ASSUME NEW r, Cache!Become(p, r), "at" \in DOMAIN r, r.at \in OtherSteps
      PROVE  CacheInv'
  BY <1>1, <1>5, StopsReading
<1>6. CASE ~ Cache!Leave(p)
  <2>1. PICK r :
          /\ Cache!Become(p, r)
          /\ \/ r = [c EXCEPT !.at = "publish"]
             \/ r = [c EXCEPT !.at = "compare", !.seen = bundles["ruff"]]
             \/ r = [c EXCEPT !.names = Tail(@)] /\ c.at = "publish"
             \/ /\ r = [c EXCEPT !.todo = Tail(@), !.names = Append(Cache!Parts, "adapter")]
                /\ c.at = "publish"
    BY <1>3, <1>6
  <2>2. "at" \in DOMAIN r /\ r.at \in OtherSteps
    BY <1>2, <2>1 DEF OtherSteps
  <2> QED BY <1>5, <2>1, <2>2
<1> QED BY <1>4, <1>6

LEMMA KillStep ==
  ASSUME CacheInv, NEW p \in Procs, Cache!Kill(p) PROVE CacheInv'
BY StopStep DEF Cache!Kill, Cache!choice, Cache!files, Same

\* A reader that begins has seen nothing.
LEMMA Begins ==
  ASSUME NEW todo, IsTuple(todo), todo # <<>>, NEW c, IsReader(c),
         c.at = "adapters", c.todo = todo, c.bound = <<>>, c.data = <<>>
  PROVE  LoadOK(c)
<1>1. Len(todo) \in Nat \ {0}
  BY DEF IsTuple
<1>2. IsTuple(<<>>) /\ Len(<<>>) = 0 /\ DOMAIN <<>> = {}
  BY DEF IsTuple
<1> QED BY <1>1, <1>2 DEF LoadOK, Cache!Whole

LEMMA PreGateSeq ==
  IsTuple(PreGate) /\ PreGate # <<>> /\ Len(PreGate) \in Nat \ {0}
<1>1. PreGate \in Seq(Cache!Range(PreGate)) /\ PreGate # <<>> /\ Len(PreGate) \in Nat \ {0}
  BY CachesAssumption DEF Cache!CacheAssumption
<1>2. \A i \in 1 .. Len(PreGate) : PreGate[i] \in Cache!Range(PreGate)
  BY <1>1 DEF Cache!Range
<1> QED BY <1>1, <1>2 DEF IsTuple

LEMMA EvaluateStep ==
  ASSUME CacheInv, NEW p \in Procs, Cache!Evaluate(p) \/ Cache!Validate(p)
  PROVE  CacheInv'
<1>1. Same /\ UNCHANGED <<validation, marker, report, scored>>
  BY DEF Cache!Evaluate, Cache!Validate, Cache!Begin, Cache!choice, Cache!files, Same
<1>2. PICK todo : /\ IF family = "roles" THEN todo = PreGate ELSE todo = <<family>>
                  /\ Cache!Become(p, Cache!Reading(todo, "write"))
  BY DEF Cache!Evaluate, Cache!Validate, Cache!Begin
<1>3. PICK r : r = Cache!Reading(todo, "write")
  OBVIOUS
<1>4. /\ IsReader(r) /\ r.at = "adapters" /\ r.todo = todo /\ r.purpose = "write"
      /\ r.bound = <<>> /\ r.data = <<>>
  BY <1>3 DEF Cache!Reading, IsReader
<1>5. IsTuple(todo) /\ todo # <<>>
  <2>1. IsTuple(<<family>>) /\ <<family>> # <<>>
    BY DEF IsTuple, Cache!Range
  <2> QED BY <1>2, <2>1, PreGateSeq
<1>6. ReaderOK(r)
  BY <1>2, <1>4, <1>5, Begins DEF ReaderOK, PurposeOK, ReplayOK, ScorerOK
<1>7. ReaderOK(r)'
  BY <1>1, <1>4, <1>6, ReaderSame
<1> QED BY <1>1, <1>2, <1>3, <1>4, <1>7, GoesOnReading DEF Reads, ReaderSteps

-----------------------------------------------------------------------------
(* The steps of a program that reads.                                      *)

\* The program that takes a turn, if it reads.
LEMMA AReader ==
  ASSUME CacheInv, NEW p \in Procs, NEW c, c = proc[p], Reads(c)
  PROVE  ReaderOK(c) /\ (c.purpose = "score" /\ c.at # "write" => scored = <<>>)
BY DEF CacheInv, ProcsOK, ProcOK, OnceOK, Scores

\* Reader c goes on as r, at a step: the same purpose and bundles.
GoesOn(c, r, at) ==
  /\ IsReader(r) /\ r.at = at /\ r.todo = c.todo /\ r.purpose = c.purpose
  /\ r.fit = c.fit /\ r.receipt = c.receipt

LEMMA AdapterStep ==
  ASSUME CacheInv, NEW p \in Procs, Cache!ReadAdapter(p)
  PROVE  CacheInv'
<1>1. Same /\ UNCHANGED <<validation, marker, report, scored>>
  BY DEF Cache!ReadAdapter, Cache!choice, Cache!files, Same
<1>2. PICK c : c = proc[p]
  OBVIOUS
<1>3. c.at = "adapters" /\ Reads(c) /\ ReaderOK(c)
  <2>1. c.at = "adapters"
    <3>1. proc[p].at = "adapters"
      BY Zenon DEF Cache!ReadAdapter
    <3> QED BY <1>2, <3>1
  <2>2. Reads(c)
    BY <2>1, Zenon DEF Reads, ReaderSteps
  <2> QED BY <1>2, <2>1, <2>2, AReader
<1>4. PICK b : \E x : b = Append(c.bound, x)
                 /\ \/ Cache!Leave(p)
                    \/ Len(b) < Len(c.todo) /\ Cache!Become(p, [c EXCEPT !.bound = b])
                    \/ /\ ~ (Len(b) < Len(c.todo))
                       /\ disjoint \/ ~ (Cache!Cardinality(Cache!Range(b \o c.fit)) > 1)
                       /\ Cache!Become(p, [c EXCEPT !.at = "hash", !.bound = b])
  BY <1>2 DEF Cache!ReadAdapter
<1>5. /\ IsTuple(b) /\ Len(b) = Len(c.bound) + 1 /\ Len(b) <= Len(c.todo) /\ Len(b) # 0
      /\ Len(c.todo) \in Nat
  <2>1. IsTuple(c.todo) /\ IsTuple(c.bound) /\ Len(c.bound) < Len(c.todo)
    BY <1>3 DEF ReaderOK, LoadOK
  <2>2. IsTuple(b) /\ Len(b) = Len(c.bound) + 1 /\ Len(c.bound) \in Nat
    BY <1>4, <2>1, AppendAny
  <2>3. Len(c.todo) \in Nat
    BY <2>1 DEF IsTuple
  <2> QED BY <2>1, <2>2, <2>3
<1>6. CASE Cache!Leave(p)
  BY <1>1, <1>6, StopStep
<1>7. ASSUME NEW r, NEW at,
             /\ at = "adapters" /\ Len(b) < Len(c.todo)
             \/ /\ at = "hash" /\ Len(b) = Len(c.todo)
                /\ disjoint \/ ~ (Cache!Cardinality(Cache!Range(b \o c.fit)) > 1),
             Cache!Become(p, r), GoesOn(c, r, at), r.bound = b, r.data = c.data
      PROVE  CacheInv'
  <2>1. /\ IsReader(r) /\ r.at = at /\ r.todo = c.todo /\ r.purpose = c.purpose
        /\ r.bound = b /\ r.data = c.data /\ r.fit = c.fit /\ r.receipt = c.receipt
    BY <1>7 DEF GoesOn
  <2>2. LoadOK(r)
    BY <1>3, <1>5, <1>7, <2>1 DEF ReaderOK, LoadOK, Cache!Whole
  <2>3. PurposeOK(r) /\ ReplayOK(r)
    BY <1>3, <1>7, <2>1 DEF ReaderOK, PurposeOK, ReplayOK
  <2>4. ScorerOK(r)
    <3>1. CASE at = "hash" /\ ~ disjoint /\ c.purpose = "score"
      <4>1. ~ (Cache!Cardinality(Cache!Range(b \o c.fit)) > 1)
        BY <1>7, <3>1
      <4>2. c.fit = marker.bound /\ marker # Cache!None
        BY <1>3, <3>1 DEF ReaderOK, ScorerOK
      <4>3. IsTuple(c.fit) /\ Len(c.fit) = Len(PreGate)
        BY <4>2 DEF CacheInv, DocsOK, DocOK
      <4>4. b # <<>> /\ c.fit # <<>>
        BY <1>5, <4>3, PreGateSeq
      <4>5. Cache!Range(b) = Cache!Range(c.fit)
        BY <1>5, <4>1, <4>3, <4>4, SameCardinality
      <4> QED BY <1>3, <2>1, <4>5 DEF ReaderOK, ScorerOK
    <3>2. CASE at = "adapters" \/ disjoint \/ c.purpose # "score"
      BY <1>3, <2>1, <3>2 DEF ReaderOK, ScorerOK
    <3> QED BY <1>7, <3>1, <3>2
  <2>5. ReaderOK(r)
    BY <2>1, <2>2, <2>3, <2>4 DEF ReaderOK
  <2>6. ReaderOK(r)'
    BY <1>1, <2>5, ReaderSame
  <2> QED BY <1>1, <1>2, <1>3, <1>7, <2>1, <2>6, GoesOnReading
          DEF Reads, ReaderSteps, Scores
<1>8. CASE ~ Cache!Leave(p)
  <2>1. IsReader(c)
    BY <1>3 DEF ReaderOK
  <2>2. CASE Len(b) < Len(c.todo) /\ Cache!Become(p, [c EXCEPT !.bound = b])
    <3>1. PICK r : r = [c EXCEPT !.bound = b]
      OBVIOUS
    <3>2. GoesOn(c, r, "adapters") /\ r.bound = b /\ r.data = c.data
      BY <1>3, <2>1, <3>1 DEF GoesOn, IsReader
    <3> QED BY <1>7, <2>2, <3>1, <3>2
  <2>3. CASE /\ ~ (Len(b) < Len(c.todo))
             /\ disjoint \/ ~ (Cache!Cardinality(Cache!Range(b \o c.fit)) > 1)
             /\ Cache!Become(p, [c EXCEPT !.at = "hash", !.bound = b])
    <3>1. PICK r : r = [c EXCEPT !.at = "hash", !.bound = b]
      OBVIOUS
    <3>2. GoesOn(c, r, "hash") /\ r.bound = b /\ r.data = c.data
      BY <2>1, <3>1 DEF GoesOn, IsReader
    <3>3. Len(b) = Len(c.todo)
      BY <1>5, <2>3
    <3> QED BY <1>7, <2>3, <3>1, <3>2, <3>3
  <2> QED BY <1>4, <1>8, <2>2, <2>3
<1> QED BY <1>6, <1>8

\* What depends on the purpose, for a reader that has its bundles and goes on.
LEMMA KeepsPurpose ==
  ASSUME NEW c, ReaderOK(c), NEW r, NEW at, GoesOn(c, r, at),
         at \in {"hash", "map"} \/ at = c.purpose, c.at \in {"hash", "map"},
         r.bound = c.bound
  PROVE  PurposeOK(r) /\ ReplayOK(r) /\ ScorerOK(r)
<1>1. PurposeOK(c) /\ ReplayOK(c) /\ ScorerOK(c)
  BY DEF ReaderOK
<1>2. c.purpose \in {"write", "replay", "score"}
  BY <1>1 DEF PurposeOK
<1> QED BY <1>1, <1>2 DEF GoesOn, PurposeOK, ReplayOK, ScorerOK

LEMMA HashStep ==
  ASSUME CacheInv, NEW p \in Procs, Cache!HashMatrix(p) PROVE CacheInv'
<1>1. Same /\ UNCHANGED <<validation, marker, report, scored>>
  BY DEF Cache!HashMatrix, Cache!choice, Cache!files, Same
<1>2. PICK c : c = proc[p]
  OBVIOUS
<1>3. c.at = "hash" /\ Reads(c) /\ ReaderOK(c)
  BY <1>2, AReader DEF Cache!HashMatrix, Reads, ReaderSteps
<1>4. CASE Cache!Leave(p)
  BY <1>1, <1>4, StopStep
<1>5. CASE ~ Cache!Leave(p)
  <2>1. PICK m, r : /\ m.of = Cache!Expected(c) /\ Cache!Become(p, r)
                    /\ r = [c EXCEPT !.at = "map", !.hashed = m]
    BY <1>2, <1>5 DEF Cache!HashMatrix
  <2>2. /\ GoesOn(c, r, "map") /\ r.bound = c.bound /\ r.data = c.data
        /\ r.hashed = m
    BY <1>3, <2>1 DEF GoesOn, IsReader, ReaderOK
  <2>3. LoadOK(r)
    BY <1>3, <2>1, <2>2 DEF ReaderOK, LoadOK, GoesOn, Cache!Expected, Cache!Whole
  <2>4. ReaderOK(r)'
    BY <1>1, <1>3, <2>2, <2>3, KeepsPurpose, ReaderSame DEF ReaderOK, GoesOn
  <2> QED BY <1>1, <1>2, <1>3, <2>1, <2>2, <2>4, GoesOnReading
          DEF GoesOn, Reads, ReaderSteps, Scores
<1> QED BY <1>4, <1>5

LEMMA MapStep ==
  ASSUME CacheInv, NEW p \in Procs, Cache!MapMatrix(p) PROVE CacheInv'
<1>1. Same /\ UNCHANGED <<validation, marker, report, scored>>
  BY DEF Cache!MapMatrix, Cache!choice, Cache!files, Same
<1>2. PICK c : c = proc[p]
  OBVIOUS
<1>3. c.at = "map" /\ Reads(c) /\ ReaderOK(c)
  BY <1>2, AReader DEF Cache!MapMatrix, Reads, ReaderSteps
<1>4. CASE Cache!Leave(p)
  BY <1>1, <1>4, StopStep
<1>5. CASE ~ Cache!Leave(p)
  <2> DEFINE M == bundles[Cache!Current(c)][Head(c.left)]
             D == Append(c.data, M.of)
             L == IF Len(c.left) > 1 THEN Tail(c.left) ELSE Cache!Parts
             A == IF Len(D) = Len(Cache!Parts) * Len(c.todo) THEN c.purpose ELSE "hash"
  <2>1. Cache!Accepted(c, M) /\ Cache!Become(p, [c EXCEPT !.data = D, !.left = L, !.at = A])
    BY <1>2, <1>5 DEF Cache!MapMatrix
  <2>2. PICK m, d, l, at : m = M /\ d = D /\ l = L /\ at = A
    OBVIOUS
  <2>3. PICK r : r = [c EXCEPT !.data = d, !.left = l, !.at = at]
    OBVIOUS
  <2>4. /\ Cache!Accepted(c, m) /\ d = Append(c.data, m.of) /\ Cache!Become(p, r)
        /\ at = "hash" \/ at = c.purpose
        /\ r = [c EXCEPT !.data = d, !.left = l, !.at = at]
    BY <2>1, <2>2, <2>3
  <2>5. GoesOn(c, r, at) /\ r.bound = c.bound /\ r.data = d
    BY <1>3, <2>4 DEF GoesOn, IsReader, ReaderOK
  <2>6. /\ IsTuple(c.data) /\ IsTuple(d) /\ Len(c.data) \in Nat
        /\ Len(d) = Len(c.data) + 1
        /\ \A i \in 1 .. Len(c.data) : d[i] = c.data[i]
        /\ d[Len(c.data) + 1] = m.of
    BY <1>3, <2>4, AppendAny DEF ReaderOK, LoadOK
  <2>7. DOMAIN d = 1 .. (Len(c.data) + 1) /\ DOMAIN c.data = 1 .. Len(c.data)
    BY <2>6 DEF IsTuple
  <2>8. ASSUME family # "grid" PROVE Cache!Whole(c.bound, d)
    <3>1. m.of = c.bound[Len(c.data) \div Len(Cache!Parts) + 1]
      BY <1>3, <2>4, <2>8 DEF Cache!Accepted, Cache!LoadMatrix, Cache!LoadLegacyMatrix, Cache!LoadWaveforms,
         ReaderOK, LoadOK, Cache!Expected
    <3>2. Cache!Whole(c.bound, c.data)
      BY <1>3, <2>8 DEF ReaderOK, LoadOK
    <3> SUFFICES ASSUME NEW i \in 1 .. (Len(c.data) + 1)
                 PROVE  d[i] = c.bound[(i - 1) \div Len(Cache!Parts) + 1]
      BY <2>7 DEF Cache!Whole
    <3>3. CASE i = Len(c.data) + 1
      <4>1. i - 1 = Len(c.data)
        BY <2>6, <3>3
      <4> QED BY <2>6, <3>1, <3>3, <4>1
    <3>4. CASE i # Len(c.data) + 1
      <4>1. i \in 1 .. Len(c.data)
        BY <2>6, <3>4
      <4> QED BY <2>6, <2>7, <3>2, <4>1 DEF Cache!Whole
    <3> QED BY <3>3, <3>4
  <2>9. at \in {"hash", "write", "replay", "score"}
    BY <1>3, <2>4 DEF ReaderOK, PurposeOK
  <2>10. LoadOK(r)
    BY <1>3, <2>5, <2>6, <2>8, <2>9 DEF ReaderOK, LoadOK, GoesOn
  <2>11. ReaderOK(r)'
    BY <1>1, <1>3, <2>4, <2>5, <2>10, KeepsPurpose, ReaderSame DEF ReaderOK, GoesOn
  <2>12. r.purpose = "score" => r.at # "write"
    BY <2>4, <2>5 DEF GoesOn
  <2> QED BY <1>1, <1>2, <1>3, <2>4, <2>5, <2>9, <2>11, <2>12, GoesOnReading
          DEF GoesOn, Reads, ReaderSteps, Scores
<1> QED BY <1>4, <1>5

-----------------------------------------------------------------------------
(* The commands of the trimodal evaluator.                                 *)

LEMMA ReceiptStep ==
  ASSUME CacheInv, NEW p \in Procs, Cache!LoadReceipt(p)
  PROVE  CacheInv'
<1>1. Same /\ UNCHANGED <<validation, marker, report, scored>>
  BY DEF Cache!LoadReceipt, Cache!choice, Cache!files, Same
<1>2. CASE Cache!Leave(p)
  BY <1>1, <1>2, StopStep
<1>3. CASE ~ Cache!Leave(p)
  <2>1. PICK d : d = validation
    OBVIOUS
  <2>2. PICK r : r = [Cache!Reading(PreGate, "replay") EXCEPT !.receipt = d]
    OBVIOUS
  <2>3. d # Cache!None /\ d.passed /\ Cache!Become(p, r)
    BY <1>3, <2>1, <2>2 DEF Cache!LoadReceipt
  <2>4. /\ IsReader(r) /\ r.at = "adapters" /\ r.todo = PreGate
        /\ r.purpose = "replay" /\ r.bound = <<>> /\ r.data = <<>> /\ r.receipt = d
    BY <2>2 DEF Cache!Reading, IsReader
  <2>5. family = "roles" /\ DocOK(d)
    BY <2>1, <2>3 DEF CacheInv, DocsOK
  <2>6. LoadOK(r)
    BY <2>4, PreGateSeq, Begins
  <2>7. ReaderOK(r)
    BY <2>3, <2>4, <2>5, <2>6 DEF ReaderOK, PurposeOK, ReplayOK, ScorerOK
  <2>8. ReaderOK(r)'
    BY <1>1, <2>7, ReaderSame
  <2> QED BY <1>1, <2>3, <2>4, <2>8, GoesOnReading DEF Reads, ReaderSteps
<1> QED BY <1>2, <1>3

LEMMA ReplayStep ==
  ASSUME CacheInv, NEW p \in Procs, Cache!Replay(p) PROVE CacheInv'
<1>1. Same /\ UNCHANGED <<validation, marker, report, scored>>
  BY DEF Cache!Replay, Cache!choice, Cache!files, Same
<1>2. PICK c : c = proc[p]
  OBVIOUS
<1>3. c.at = "replay" /\ Reads(c) /\ ReaderOK(c)
  BY <1>2, AReader DEF Cache!Replay, Reads, ReaderSteps
<1>4. CASE Cache!Leave(p)
  BY <1>1, <1>4, StopStep
<1>5. CASE ~ Cache!Leave(p)
  <2>1. PICK r : r = [c EXCEPT !.at = "claim"]
    OBVIOUS
  <2>2. Cache!Findings(c) = c.receipt /\ Cache!Become(p, r)
    BY <1>2, <1>5, <2>1 DEF Cache!Replay, Cache!Advance
  <2>3. c.bound = c.receipt.bound
    BY <2>2 DEF Cache!Findings
  <2>4. GoesOn(c, r, "claim") /\ r.bound = c.bound /\ r.data = c.data
    BY <1>3, <2>1 DEF GoesOn, IsReader, ReaderOK
  <2>5. c.purpose = "replay"
    BY <1>3 DEF ReaderOK, PurposeOK
  <2>6. LoadOK(r)
    BY <1>3, <2>4 DEF ReaderOK, LoadOK, GoesOn
  <2>7. ReaderOK(r)
    BY <1>3, <2>3, <2>4, <2>5, <2>6 DEF GoesOn, ReaderOK, PurposeOK, ReplayOK,
       ScorerOK
  <2>8. ReaderOK(r)'
    BY <1>1, <2>4, <2>5, <2>7, ReaderSame DEF GoesOn
  <2> QED BY <1>1, <2>2, <2>4, <2>5, <2>8, GoesOnReading
          DEF GoesOn, Reads, ReaderSteps
<1> QED BY <1>4, <1>5

LEMMA ClaimStep ==
  ASSUME CacheInv, NEW p \in Procs, Cache!Claim(p) PROVE CacheInv'
<1>1. Same /\ UNCHANGED <<validation, report, scored>>
  BY DEF Cache!Claim, Cache!choice, Same
<1>2. PICK c : c = proc[p]
  OBVIOUS
<1>3. c.at = "claim" /\ Reads(c) /\ ReaderOK(c)
  BY <1>2, AReader DEF Cache!Claim, Reads, ReaderSteps
<1>4. CASE marker # Cache!None
  BY <1>1, <1>4, StopStep DEF Cache!Claim
<1>5. CASE marker = Cache!None
  <2>1. PICK d, f : d = c.receipt /\ f = c.bound
    OBVIOUS
  <2>2. PICK r : r = [Cache!Reading(<<Cache!Locked>>, "score") EXCEPT !.receipt = d, !.fit = f]
    OBVIOUS
  <2>3. marker' = d /\ Cache!Become(p, r)
    BY <1>2, <1>5, <2>1, <2>2 DEF Cache!Claim
  <2>4. /\ IsReader(r) /\ r.at = "adapters" /\ r.todo = <<Cache!Locked>>
        /\ r.purpose = "score" /\ r.bound = <<>> /\ r.data = <<>>
        /\ r.receipt = d /\ r.fit = f
    BY <2>2 DEF Cache!Reading, IsReader
  <2>5. c.purpose = "replay"
    BY <1>3 DEF ReaderOK, PurposeOK
  <2>6. family = "roles" /\ d # Cache!None /\ DocOK(d) /\ d.passed /\ f = d.bound
    BY <1>3, <2>1, <2>5 DEF ReaderOK, ReplayOK
  <2>7. LoadOK(r)'
    <3>1. IsTuple(<<Cache!Locked>>) /\ <<Cache!Locked>> # <<>>
      BY DEF IsTuple, Cache!Range
    <3>2. LoadOK(r)
      BY <2>4, <3>1, Begins
    <3> QED BY <1>1, <3>2, LoadSame DEF Same
  <2>8. ReaderOK(r)'
    BY <1>1, <2>3, <2>4, <2>6, <2>7 DEF ReaderOK, IsReader, PurposeOK, ReplayOK,
       ScorerOK, Same
  <2>9. \A q \in Procs : ~ Scores(proc[q])
    BY <1>5 DEF CacheInv, ProcsOK, ProcOK, ReaderOK, ScorerOK, Scores
  <2>10. scored = <<>>
    BY <1>5 DEF CacheInv, ScoredOK, ScoreOK
  <2>11. ProcOK(r)'
    <3>1. "at" \in DOMAIN r /\ r.at \in ReaderSteps
      BY <2>4 DEF IsReader, ReaderSteps
    <3> QED BY <2>8, <3>1 DEF ProcOK, Reads
  <2>12. /\ ProcsOK' /\ proc'[p] = r
         /\ \A q \in Procs \ {p} : proc'[q] = proc[q]
    BY <1>1, <2>3, <2>9, <2>11, Turn DEF CacheInv
  <2>13. OnceOK'
    <3>1. \A q \in Procs : Scores(proc'[q]) => q = p
      BY <2>9, <2>12 DEF Scores
    <3>2. \A q \in Procs : Scores(proc'[q]) =>
            proc'[q].at # "write" /\ scored' = <<>>
      BY <1>1, <2>4, <2>10, <2>12, <3>1
    <3> QED BY <3>1, <3>2 DEF OnceOK, Scores, Reads
  <2>14. DocsOK'
    <3>1. PICK b : b = validation
      OBVIOUS
    <3>2. DocOK(d)' /\ (b # Cache!None => DocOK(b)')
      BY <1>1, <2>6, <3>1, DocSame DEF CacheInv, DocsOK
    <3>3. DocOK(marker)'
      BY <2>3, <3>2 DEF DocOK
    <3>4. validation # Cache!None => DocOK(validation)'
      BY <1>1, <3>1, <3>2 DEF DocOK
    <3> QED BY <1>1, <2>3, <2>6, <3>3, <3>4 DEF CacheInv, DocsOK, Same
  <2>15. ScoredOK'
    BY <1>1, <2>10 DEF ScoredOK
  <2>16. ReportOK'
    BY <1>1 DEF CacheInv, ReportOK, Cache!Whole, Cache!Parts, Same
  <2> QED BY <2>12, <2>13, <2>14, <2>15, <2>16 DEF CacheInv
<1> QED BY <1>4, <1>5

LEMMA ScoreStep ==
  ASSUME CacheInv, NEW p \in Procs, Cache!Score(p) PROVE CacheInv'
<1>1. Same /\ UNCHANGED <<validation, marker, report>>
  BY DEF Cache!Score, Cache!choice, Cache!files, Same
<1>2. PICK c : c = proc[p]
  OBVIOUS
<1>3. c.at = "score" /\ Reads(c) /\ ReaderOK(c)
  BY <1>2, AReader DEF Cache!Score, Reads, ReaderSteps
<1>4. c.purpose = "score" /\ family = "roles"
  BY <1>3 DEF ReaderOK, PurposeOK, ScorerOK
<1>5. scored = <<>>
  BY <1>2, <1>3, <1>4, AReader
<1>6. PICK r : r = [c EXCEPT !.at = "write"]
  OBVIOUS
<1>7. Cache!Become(p, r) /\ scored' = <<r>>
  BY <1>2, <1>5, <1>6 DEF Cache!Score, Cache!Advance
<1>8. GoesOn(c, r, "write") /\ r.bound = c.bound /\ r.data = c.data
  BY <1>3, <1>6 DEF GoesOn, IsReader, ReaderOK
<1>9. ReaderOK(r)
  <2>1. LoadOK(r)
    BY <1>3, <1>8 DEF ReaderOK, LoadOK, GoesOn
  <2> QED BY <1>3, <1>4, <1>8, <2>1 DEF ReaderOK, GoesOn, PurposeOK, ReplayOK,
             ScorerOK
<1>10. ReaderOK(r)'
  BY <1>1, <1>9, ReaderSame
<1>11. ProcOK(r)'
  <2>1. "at" \in DOMAIN r /\ r.at \in ReaderSteps
    BY <1>8 DEF GoesOn, IsReader, ReaderSteps
  <2> QED BY <1>10, <2>1 DEF ProcOK, Reads
<1>12. /\ ProcsOK' /\ proc'[p] = r
       /\ \A q \in Procs \ {p} : proc'[q] = proc[q]
  BY <1>1, <1>7, <1>11, Turn DEF CacheInv
<1>13. Cache!Contains(<<r>>, r)
  BY DEF Cache!Contains
<1>14. OnceOK'
  <2>1. \A q \in Procs : Scores(proc'[q]) => q = p
    BY <1>2, <1>3, <1>4, <1>12 DEF CacheInv, OnceOK, Scores
  <2>2. Cache!Contains(scored', proc'[p]) /\ proc'[p].at = "write"
    BY <1>7, <1>8, <1>12, <1>13 DEF GoesOn
  <2> QED BY <2>1, <2>2 DEF OnceOK, Scores, Reads
<1>15. ScoreOK(r)
  BY <1>4, <1>8, <1>9 DEF ReaderOK, ScorerOK, LoadOK, GoesOn, ScoreOK
<1>16. ScoredOK'
  BY <1>1, <1>7, <1>15 DEF ScoredOK, ScoreOK, Cache!Whole, Cache!Parts, Same
<1>17. report = Cache!None
  BY <1>4, <1>5 DEF CacheInv, ReportOK, Cache!Contains
<1>18. DocsOK' /\ ReportOK'
  BY <1>1, <1>17, DocsSame DEF CacheInv, ReportOK
<1> QED BY <1>12, <1>14, <1>16, <1>18 DEF CacheInv

LEMMA WriteStep ==
  ASSUME CacheInv, NEW p \in Procs, Cache!Write(p) PROVE CacheInv'
<1>1. Same /\ UNCHANGED <<marker, scored>> /\ Cache!Leave(p)
  BY DEF Cache!Write, Cache!choice, Cache!files, Same
<1>2. PICK c : c = proc[p]
  OBVIOUS
<1>3. c.at = "write" /\ Reads(c) /\ ReaderOK(c)
  BY <1>2, AReader DEF Cache!Write, Reads, ReaderSteps
<1>4. ProcOK(Cache!Idle)' /\ ~ Reads(Cache!Idle) /\ Cache!Become(p, Cache!Idle)
  BY <1>1 DEF ProcOK, Reads, ReaderSteps, OtherSteps, Cache!Idle, Cache!Leave
<1>5. /\ ProcsOK' /\ proc'[p] = Cache!Idle
      /\ \A q \in Procs \ {p} : proc'[q] = proc[q]
  BY <1>1, <1>4, Turn DEF CacheInv
<1>6. OnceOK'
  <2>1. \A q \in Procs : Scores(proc'[q]) => q # p /\ Scores(proc[q])
    BY <1>4, <1>5 DEF Scores
  <2> QED BY <1>1, <1>5, <2>1 DEF CacheInv, OnceOK, Scores, Reads
<1>7. ScoredOK'
  BY <1>1 DEF CacheInv, ScoredOK, ScoreOK, Cache!Whole, Cache!Parts, Same
<1>8. family # "grid" => Cache!Whole(c.bound, c.data)
  BY <1>3 DEF ReaderOK, LoadOK
<1>9. CASE c.purpose = "write" /\ family = "roles"
  <2>1. PICK d : d = Cache!Findings(c)
    OBVIOUS
  <2>2. validation' = d /\ report' = report
    BY <1>2, <1>9, <2>1 DEF Cache!Write
  <2>3. d.bound = c.bound /\ d.data = c.data /\ d.passed = Cache!Passes(c.data)
    BY <2>1 DEF Cache!Findings
  <2>4. IsTuple(c.bound) /\ Len(c.bound) = Len(PreGate)
    BY <1>3, <1>9 DEF ReaderOK, LoadOK, PurposeOK
  <2>5. DocOK(d)
    BY <1>8, <1>9, <2>3, <2>4 DEF DocOK
  <2>6. DocsOK'
    <3>1. PICK b : b = marker
      OBVIOUS
    <3>2. DocOK(d)' /\ (b # Cache!None => DocOK(b)')
      BY <1>1, <2>5, <3>1, DocSame DEF CacheInv, DocsOK
    <3>3. DocOK(validation)'
      BY <2>2, <3>2 DEF DocOK
    <3>4. marker # Cache!None => DocOK(marker)'
      BY <1>1, <3>1, <3>2 DEF DocOK
    <3> QED BY <1>1, <1>9, <3>3, <3>4 DEF CacheInv, DocsOK, Same
  <2>7. ReportOK'
    BY <1>1, <2>2 DEF CacheInv, ReportOK, Cache!Whole, Cache!Parts, Same
  <2> QED BY <1>5, <1>6, <1>7, <2>6, <2>7 DEF CacheInv
<1>10. CASE ~ (c.purpose = "write" /\ family = "roles")
  <2>1. report' = c /\ validation' = validation
    BY <1>2, <1>10 DEF Cache!Write
  <2>2. family = "roles" => Cache!Contains(scored, c)
    <3>1. family = "roles" => c.purpose = "score"
      BY <1>3, <1>10 DEF ReaderOK, PurposeOK
    <3> QED BY <1>2, <1>3, <3>1 DEF CacheInv, OnceOK, Scores
  <2>3. ReportOK'
    BY <1>1, <1>8, <2>1, <2>2 DEF ReportOK, Cache!Whole, Cache!Parts, Same
  <2>4. DocsOK'
    BY <1>1, <2>1, DocsSame DEF CacheInv
  <2> QED BY <1>5, <1>6, <1>7, <2>3, <2>4 DEF CacheInv
<1> QED BY <1>9, <1>10

-----------------------------------------------------------------------------

LEMMA NextCacheInv == ASSUME CacheInv, [Cache!Next]_(Cache!vars) PROVE CacheInv'
<1>1. CASE UNCHANGED Cache!vars
  <2>1. Same /\ UNCHANGED <<validation, marker, report, scored, proc>>
    BY <1>1 DEF Cache!vars, Cache!choice, Cache!files, Same
  <2>2. DocsOK' /\ ReportOK' /\ ScoredOK'
    BY <2>1, DocsSame, ReportSame DEF CacheInv
  <2>3. OnceOK'
    BY <2>1 DEF CacheInv, OnceOK, Scores, Reads
  <2>4. ProcsOK'
    <3>1. ASSUME NEW q \in Procs, NEW c, c = proc[q] PROVE ProcOK(c)'
      BY <2>1, <3>1, ReaderSame DEF CacheInv, ProcsOK, ProcOK, Reads
    <3>2. \A q \in Procs : ProcOK(proc[q])'
      <4> SUFFICES ASSUME NEW q \in Procs PROVE ProcOK(proc[q])'
        OBVIOUS
      <4>1. PICK c : c = proc[q]
        OBVIOUS
      <4>2. ProcOK(c)'
        BY <3>1, <4>1
      <4> QED BY <2>1, <4>1, <4>2 DEF ProcOK, Reads, ReaderOK, IsReader, LoadOK,
                 PurposeOK, ReplayOK, ScorerOK
    <3> QED BY <2>1, <3>2 DEF CacheInv, ProcsOK
  <2> QED BY <2>2, <2>3, <2>4 DEF CacheInv
<1>2. ASSUME NEW p \in Procs,
             \/ Cache!CompileRoles(p) \/ Cache!CompileLegacy(p) \/ Cache!CompileGrid(p)
             \/ Cache!CompileRows(p) \/ Cache!Test(p) \/ Cache!LookForReuse(p) \/ Cache!Reuse(p)
             \/ Cache!Publish(p) \/ Cache!Evaluate(p) \/ Cache!Validate(p) \/ Cache!Kill(p)
      PROVE  CacheInv'
  BY <1>2, CompileStep, PublishStep, EvaluateStep, KillStep
<1>3. ASSUME NEW p \in Procs,
             \/ Cache!ReadAdapter(p) \/ Cache!HashMatrix(p) \/ Cache!MapMatrix(p) \/ Cache!LoadReceipt(p)
             \/ Cache!Replay(p) \/ Cache!Claim(p) \/ Cache!Score(p) \/ Cache!Write(p)
      PROVE  CacheInv'
  BY <1>3, AdapterStep, HashStep, MapStep, ReceiptStep, ReplayStep, ClaimStep,
     ScoreStep, WriteStep
<1> QED BY <1>1, <1>2, <1>3 DEF Cache!Next

LEMMA CacheInvariance == Cache!Spec => []CacheInv
<1>1. Cache!Init => CacheInv
  BY InitCacheInv
<1>2. CacheInv /\ [Cache!Next]_(Cache!vars) => CacheInv'
  BY NextCacheInv
<1> QED BY <1>1, <1>2, PTL DEF Cache!Spec

(* A report is of bundles as they were compiled, each matrix with the      *)
(* adapter that was made for it, for any number of compilers that replace  *)
(* them name by name and of evaluators that read meanwhile.                *)
THEOREM ReportsAreOfBundles ==
  Cache!Spec => []Cache!NothingIsMixed
<1>1. CacheInv => Cache!NothingIsMixed
  BY DEF CacheInv, DocsOK, DocOK, ReportOK, ScoredOK, ScoreOK, Cache!NothingIsMixed,
     Cache!Contains
<1>2. Cache!Spec => []CacheInv
  BY CacheInvariance
<1> QED BY <1>1, <1>2, PTL

(* Of a cache directory the locked test is scored at most once, with the   *)
(* profile that the marker describes, which passed the gate.               *)
THEOREM TheTestIsLocked ==
  Cache!Spec => []Cache!LockedTestIsScoredOnce
<1>1. CacheInv => Cache!LockedTestIsScoredOnce
  <2> SUFFICES ASSUME CacheInv PROVE Cache!LockedTestIsScoredOnce
    OBVIOUS
  <2>1. family = "roles" /\ report # Cache!None => Cache!Contains(scored, report)
    BY DEF CacheInv, ReportOK
  <2>2. CASE scored = <<>>
    BY <2>1, <2>2 DEF Cache!LockedTestIsScoredOnce
  <2>3. CASE scored # <<>>
    <3>1. PICK s : scored = <<s>> /\ ScoreOK(s)
      BY <2>3 DEF CacheInv, ScoredOK
    <3>2. Len(scored) = 1 /\ DOMAIN scored = {1} /\ scored[1] = s
      BY <3>1
    <3>3. s.receipt = marker /\ marker.passed /\ Cache!Passes(marker.data)
      BY <3>1 DEF ScoreOK, CacheInv, DocsOK, DocOK
    <3> QED BY <2>1, <3>1, <3>2, <3>3 DEF ScoreOK, Cache!LockedTestIsScoredOnce
  <2> QED BY <2>2, <2>3
<1>2. Cache!Spec => []CacheInv
  BY CacheInvariance
<1> QED BY <1>1, <1>2, PTL

-----------------------------------------------------------------------------
(* The same of the behaviours that MCDataFiles composes.                   *)

LEMMA CachesFollow == MCSpec => Cache!Spec
<1>1. MCInit => Cache!Init
  BY DEF MCInit
<1>2. MCNext => Cache!Next \/ UNCHANGED caches
  BY DEF MCNext, Download, Evaluation, Projection, Cache!Next
<1>3. UNCHANGED caches => UNCHANGED Cache!vars
  BY DEF caches, Cache!vars, Cache!files, Cache!choice
<1>4. [MCNext]_<<vars, caches, call, subject>> => [Cache!Next]_(Cache!vars)
  BY <1>2, <1>3 DEF caches
<1> QED BY <1>1, <1>4, PTL DEF MCSpec, Cache!Spec

(* Reports of the caches that MCDataFiles looks at are of one generation,  *)
(* whatever their roles, modalities, gates and revisions.                  *)
THEOREM CachedReportsAreOfBundles == MCSpec => []NothingIsMixed
<1>1. Cache!NothingIsMixed => NothingIsMixed
  BY DEF NothingIsMixed
<1>2. Cache!Spec => []Cache!NothingIsMixed
  BY ReportsAreOfBundles
<1> QED BY <1>1, <1>2, CachesFollow, PTL

(* Its locked test is scored once.                                         *)
THEOREM CachedTestIsLocked == MCSpec => []LockedTestIsScoredOnce
<1>1. Cache!LockedTestIsScoredOnce => LockedTestIsScoredOnce
  BY DEF LockedTestIsScoredOnce
<1>2. Cache!Spec => []Cache!LockedTestIsScoredOnce
  BY TheTestIsLocked
<1> QED BY <1>1, <1>2, CachesFollow, PTL

-----------------------------------------------------------------------------
(* Of an instance, Cardinality is a definition of its own.                 *)
LEMMA SourceCount == \A S : Source!Cardinality(S) = Cardinality(S)
BY DEF Source!Cardinality, Cardinality

LEMMA InOrderIs ==
  ASSUME NEW S
  PROVE  Source!InOrder(S) =
           [k \in 1 .. Cardinality(S) |-> CHOOSE i \in S : Cardinality({j \in S : j < i}) = k - 1]
BY DEF Source!InOrder, Source!Cardinality, Cardinality

LEMMA InOrderHas ==
  ASSUME NEW S
  PROVE  Source!InOrder(S) = [k \in 1 .. Cardinality(S) |-> Source!InOrder(S)[k]]
<1> DEFINE at(k) == CHOOSE i \in S : Cardinality({j \in S : j < i}) = k - 1
<1>1. Source!InOrder(S) = [k \in 1 .. Cardinality(S) |-> at(k)]
  BY InOrderIs
<1> HIDE DEF at
<1> QED BY <1>1

LEMMA PickIs ==
  ASSUME NEW t, NEW S
  PROVE  Source!Picked(t, S) = [k \in 1 .. Cardinality(S) |-> t[Source!InOrder(S)[k]]]
BY SourceCount DEF Source!Picked

LEMMA ChosenIs ==
  ASSUME NEW S, \E f \in [1 .. Cardinality(S) -> S] : IsInjective(f)
  PROVE  Source!SetToSeq(S) \in [1 .. Cardinality(S) -> S] /\ IsInjective(Source!SetToSeq(S))
BY SourceCount DEF Source!SetToSeq, Source!IsInjective, IsInjective

(* Numbers and tuples.                                                     *)

LEMMA LeastNatural ==
  ASSUME NEW T, T \subseteq Nat, T # {}
  PROVE  \E n \in T : \A m \in T : n <= m
<1>1. IsWellFoundedOn(OpToRel(<, Nat), Nat)
  BY NatLessThanWellFounded, Zenon
<1>2. PICK x \in T : \A y \in T : ~ (<<y, x>> \in OpToRel(<, Nat))
  BY <1>1, WFMin, Zenon
<1>3. \A y \in T : ~ (y < x)
  BY <1>2 DEF OpToRel
<1> QED BY <1>3

LEMMA GreatestNatural ==
  ASSUME NEW n \in Nat, NEW T, T \subseteq 1 .. n, T # {}
  PROVE  \E i \in T : \A j \in T : j <= i
<1> DEFINE U == {n - i : i \in T}
<1>1. U \subseteq Nat /\ U # {}
  <2>1. ASSUME NEW i \in T PROVE n - i \in Nat
    <3>1. i \in 1 .. n
      OBVIOUS
    <3> QED BY <3>1
  <2>2. PICK i : i \in T
    OBVIOUS
  <2>3. n - i \in U
    BY <2>2
  <2> QED BY <2>1, <2>3
<1> HIDE DEF U
<1>2. PICK u \in U : \A v \in U : u <= v
  BY <1>1, LeastNatural
<1>3. PICK i \in T : u = n - i
  BY DEF U
<1>4. ASSUME NEW j \in T PROVE j <= i
  <2>1. n - j \in U
    BY DEF U
  <2>2. u <= n - j /\ j \in Int /\ i \in Int
    BY <1>2, <2>1
  <2> QED BY <1>3, <2>2
<1> QED BY <1>4

CellsOf(s) == {s[i] : i \in 1 .. Len(s)}

LEMMA TupleIs ==
  ASSUME NEW s, Source!IsTuple(s)
  PROVE  /\ Len(s) \in Nat /\ DOMAIN s = 1 .. Len(s) /\ s \in Seq(CellsOf(s))
         /\ s # <<>> <=> Len(s) >= 1
<1>1. Len(s) \in Nat /\ s = [i \in 1 .. Len(s) |-> s[i]]
  BY DEF Source!IsTuple
<1>2. \A i \in 1 .. Len(s) : s[i] \in CellsOf(s)
  BY DEF CellsOf
<1>3. s \in [1 .. Len(s) -> CellsOf(s)]
  BY <1>1, <1>2, Zenon
<1>4. s \in Seq(CellsOf(s))
  BY <1>1, <1>3, SeqDef
<1>5. Len(<<>>) = 0
  OBVIOUS
<1>6. Len(s) = 0 => s = <<>>
  BY <1>4
<1> QED BY <1>1, <1>4, <1>5, <1>6

LEMMA SeqIsTuple ==
  ASSUME NEW S, NEW s \in Seq(S)
  PROVE  Source!IsTuple(s)
BY DEF Source!IsTuple

LEMMA FunctionIsTuple ==
  ASSUME NEW n \in Nat, NEW s, s = [i \in 1 .. n |-> s[i]]
  PROVE  Source!IsTuple(s) /\ Len(s) = n
<1> DEFINE C == {s[i] : i \in 1 .. n}
<1>1. \A i \in 1 .. n : s[i] \in C
  OBVIOUS
<1>2. s \in [1 .. n -> C]
  BY <1>1, Zenon
<1>3. s \in Seq(C)
  BY <1>2, SeqDef
<1> HIDE DEF C
<1>4. Len(s) = n
  BY <1>2, <1>3
<1> QED BY <1>4 DEF Source!IsTuple

LEMMA TupleEqual ==
  ASSUME NEW s, NEW t, Source!IsTuple(s), Source!IsTuple(t), Len(s) = Len(t),
         \A i \in 1 .. Len(s) : s[i] = t[i]
  PROVE  s = t
<1>1. s = [i \in 1 .. Len(s) |-> s[i]] /\ t = [i \in 1 .. Len(s) |-> t[i]]
  BY DEF Source!IsTuple
<1> QED BY <1>1, Zenon

LEMMA TailIs ==
  ASSUME NEW s, Source!IsTuple(s), s # <<>>
  PROVE  /\ Source!IsTuple(Tail(s)) /\ Len(Tail(s)) = Len(s) - 1 /\ Len(s) >= 1
         /\ \A i \in 1 .. Len(s) - 1 : Tail(s)[i] = s[i + 1]
<1>1. s \in Seq(CellsOf(s)) /\ Len(s) \in Nat /\ Len(s) >= 1
  BY TupleIs
<1>2. Tail(s) \in Seq(CellsOf(s)) /\ Len(Tail(s)) = Len(s) - 1
  BY <1>1, HeadTailProperties
<1>3. \A i \in 1 .. Len(Tail(s)) : Tail(s)[i] = s[i + 1]
  BY <1>1, HeadTailProperties
<1>4. Source!IsTuple(Tail(s))
  BY <1>2, SeqIsTuple
<1> QED BY <1>1, <1>2, <1>3, <1>4

LEMMA AppendIs ==
  ASSUME NEW s, NEW e, Source!IsTuple(s)
  PROVE  /\ Source!IsTuple(Append(s, e)) /\ Len(Append(s, e)) = Len(s) + 1
         /\ \A i \in 1 .. Len(s) : Append(s, e)[i] = s[i]
         /\ Append(s, e)[Len(s) + 1] = e
<1> DEFINE S == CellsOf(s) \cup {e}
<1>1. s \in Seq(CellsOf(s)) /\ e \in S /\ CellsOf(s) \subseteq S
  BY TupleIs
<1> HIDE DEF S
<1>2. s \in Seq(S)
  BY <1>1, SeqMonotonic
<1>3. Append(s, e) \in Seq(S)
  BY <1>1, <1>2
<1>4. Source!IsTuple(Append(s, e))
  BY <1>3, SeqIsTuple
<1>5. /\ Len(Append(s, e)) = Len(s) + 1 /\ Append(s, e)[Len(s) + 1] = e
      /\ \A i \in 1 .. Len(s) : Append(s, e)[i] = s[i]
  BY <1>1, <1>2, AppendProperties
<1> QED BY <1>4, <1>5

LEMMA SubSeqIs ==
  ASSUME NEW s, Source!IsTuple(s), NEW m \in Nat \ {0}, NEW n \in Nat, n <= Len(s)
  PROVE  /\ Source!IsTuple(SubSeq(s, m, n))
         /\ Len(SubSeq(s, m, n)) = IF m <= n THEN n - m + 1 ELSE 0
         /\ \A i \in 1 .. n - m + 1 : SubSeq(s, m, n)[i] = s[m + i - 1]
<1>1. Len(s) \in Nat /\ \A i \in m .. n : s[i] \in CellsOf(s)
  BY TupleIs DEF CellsOf
<1>2. /\ SubSeq(s, m, n) \in Seq(CellsOf(s))
      /\ Len(SubSeq(s, m, n)) = IF m <= n THEN n - m + 1 ELSE 0
      /\ \A i \in 1 .. n - m + 1 : SubSeq(s, m, n)[i] = s[m + i - 1]
  BY <1>1, SubSeqProperties
<1>3. Source!IsTuple(SubSeq(s, m, n))
  BY <1>2, SeqIsTuple
<1> QED BY <1>2, <1>3

LEMMA ConcatIs ==
  ASSUME NEW s, NEW t, Source!IsTuple(s), Source!IsTuple(t)
  PROVE  /\ Source!IsTuple(s \o t) /\ Len(s \o t) = Len(s) + Len(t)
         /\ \A i \in 1 .. Len(s) + Len(t) :
              (s \o t)[i] = IF i <= Len(s) THEN s[i] ELSE t[i - Len(s)]
<1> DEFINE S == CellsOf(s) \cup CellsOf(t)
<1>1. s \in Seq(CellsOf(s)) /\ t \in Seq(CellsOf(t))
  BY TupleIs
<1>2. CellsOf(s) \subseteq S /\ CellsOf(t) \subseteq S
  OBVIOUS
<1> HIDE DEF S
<1>3. s \in Seq(S) /\ t \in Seq(S)
  BY <1>1, <1>2, SeqMonotonic
<1>4. /\ s \o t \in Seq(S) /\ Len(s \o t) = Len(s) + Len(t)
      /\ \A i \in 1 .. Len(s) + Len(t) :
           (s \o t)[i] = IF i <= Len(s) THEN s[i] ELSE t[i - Len(s)]
  BY <1>3, ConcatProperties
<1>5. Source!IsTuple(s \o t)
  BY <1>4, SeqIsTuple
<1> QED BY <1>4, <1>5

-----------------------------------------------------------------------------
(* Numbers in their order.                                                 *)

LEMMA OneToOne ==
  ASSUME NEW S, IsFiniteSet(S), NEW T, NEW f \in [S -> T],
         \A x, y \in S : f[x] = f[y] => x = y,
         \A t \in T : \E x \in S : f[x] = t
  PROVE  IsFiniteSet(T) /\ Cardinality(T) = Cardinality(S)
<1>1. f \in Bijection(S, T)
  BY DEF Bijection, Injection, Surjection, IsInjective
<1>2. ExistsBijection(S, T)
  BY <1>1 DEF ExistsBijection
<1> QED BY <1>2, FS_Bijection

\* In a strict total order an element is where the number before it says.
LEMMA Ranks ==
  ASSUME NEW P, IsFiniteSet(P), NEW B,
         \A i \in P : B[i] \subseteq P /\ i \notin B[i],
         \A i, j \in P : j \in B[i] => B[j] \subseteq B[i],
         \A i, j \in P : i # j => i \in B[j] \/ j \in B[i]
  PROVE  /\ Cardinality(P) \in Nat
         /\ \A i \in P : Cardinality(B[i]) \in 0 .. Cardinality(P) - 1
         /\ \A i, j \in P : j \in B[i] <=> Cardinality(B[j]) < Cardinality(B[i])
         /\ \A i, j \in P : Cardinality(B[i]) = Cardinality(B[j]) => i = j
         /\ \A k \in 1 .. Cardinality(P) : \E i \in P : Cardinality(B[i]) = k - 1
<1> DEFINE n == Cardinality(P)
<1>1. n \in Nat
  BY FS_CardinalityType
<1>2. ASSUME NEW i \in P
      PROVE  IsFiniteSet(B[i]) /\ Cardinality(B[i]) \in 0 .. n - 1
  <2>1. IsFiniteSet(B[i]) /\ Cardinality(B[i]) <= n /\ Cardinality(B[i]) # n
    BY FS_Subset
  <2>2. Cardinality(B[i]) \in Nat
    BY <2>1, FS_CardinalityType
  <2> QED BY <1>1, <2>1, <2>2
<1>3. ASSUME NEW i \in P, NEW j \in P, j \in B[i]
      PROVE  Cardinality(B[j]) < Cardinality(B[i])
  <2>1. B[j] \subseteq B[i] /\ B[j] # B[i]
    BY <1>3
  <2>2. Cardinality(B[j]) <= Cardinality(B[i]) /\ Cardinality(B[i]) # Cardinality(B[j])
    BY <1>2, <2>1, FS_Subset
  <2>3. Cardinality(B[j]) \in Int /\ Cardinality(B[i]) \in Int
    BY <1>2
  <2> QED BY <2>2, <2>3
<1>4. \A i, j \in P : Cardinality(B[i]) = Cardinality(B[j]) => i = j
  <2> SUFFICES ASSUME NEW i \in P, NEW j \in P, Cardinality(B[i]) = Cardinality(B[j]), i # j
               PROVE  FALSE
    OBVIOUS
  <2>1. Cardinality(B[i]) \in Int
    BY <1>2
  <2> QED BY <1>3, <2>1
<1>5. \A i, j \in P : j \in B[i] <=> Cardinality(B[j]) < Cardinality(B[i])
  <2> SUFFICES ASSUME NEW i \in P, NEW j \in P, Cardinality(B[j]) < Cardinality(B[i]),
                      j \notin B[i]
               PROVE  FALSE
    BY <1>3
  <2>1. Cardinality(B[i]) \in Int /\ Cardinality(B[j]) \in Int
    BY <1>2
  <2>2. i # j
    BY <2>1
  <2>3. Cardinality(B[i]) < Cardinality(B[j])
    BY <1>3, <2>2
  <2> QED BY <2>1, <2>3
<1>6. \A k \in 1 .. n : \E i \in P : Cardinality(B[i]) = k - 1
  <2> DEFINE f == [i \in P |-> Cardinality(B[i])]
  <2>1. f \in Injection(P, 0 .. n - 1)
    <3>1. f \in [P -> 0 .. n - 1]
      BY <1>2
    <3>2. \A i, j \in P : f[i] = f[j] => i = j
      BY <1>4
    <3> HIDE DEF f
    <3> QED BY <3>1, <3>2 DEF Injection, IsInjective
  <2>2. IsFiniteSet(0 .. n - 1) /\ Cardinality(0 .. n - 1) = IF 0 > n - 1 THEN 0 ELSE n - 1 - 0 + 1
    BY <1>1, FS_Interval
  <2>3. Cardinality(0 .. n - 1) = n
    BY <1>1, <2>2
  <2> HIDE DEF f
  <2>4. f \in Surjection(P, 0 .. n - 1)
    BY <2>1, <2>2, <2>3, FS_Injection
  <2>5. \A k \in 0 .. n - 1 : \E i \in P : f[i] = k
    BY <2>4 DEF Surjection
  <2>6. \A k \in 1 .. n : k - 1 \in 0 .. n - 1
    BY <1>1
  <2> QED BY <2>5, <2>6 DEF f
<1> QED BY <1>1, <1>2, <1>4, <1>5, <1>6

Rising(e, n) == \A j, k \in 1 .. n : j < k => e[j] < e[k]
Below(S, i)  == {j \in S : j < i}

LEMMA RisingIsOneToOne ==
  ASSUME NEW n \in Nat, NEW S, S \subseteq Int, NEW e \in [1 .. n -> S], Rising(e, n)
  PROVE  /\ \A j, k \in 1 .. n : e[j] = e[k] => j = k
         /\ \A j, k \in 1 .. n : e[j] < e[k] <=> j < k
<1>1. \A j \in 1 .. n : e[j] \in Int
  OBVIOUS
<1>2. ASSUME NEW j \in 1 .. n, NEW k \in 1 .. n
      PROVE  (e[j] = e[k] => j = k) /\ (e[j] < e[k] <=> j < k)
  <2>1. j < k \/ j = k \/ k < j
    OBVIOUS
  <2>2. e[j] \in Int /\ e[k] \in Int
    BY <1>1
  <2> QED BY <2>1, <2>2 DEF Rising
<1> QED BY <1>2

Enumerates(e, n, S) ==
  /\ n \in Nat /\ S \subseteq Int /\ e \in [1 .. n -> S] /\ Rising(e, n)
  /\ \A i \in S : \E k \in 1 .. n : e[k] = i

\* What enumerates a set and rises is its enumeration in order.
LEMMA EnumerationIs ==
  ASSUME NEW n, NEW S, NEW e, Enumerates(e, n, S)
  PROVE  /\ IsFiniteSet(S) /\ Cardinality(S) = n /\ Source!InOrder(S) = e
         /\ \A k \in 1 .. n : Cardinality(Below(S, e[k])) = k - 1
<1>0. /\ n \in Nat /\ S \subseteq Int /\ e \in [1 .. n -> S] /\ Rising(e, n)
      /\ \A i \in S : \E k \in 1 .. n : e[k] = i
  BY DEF Enumerates
<1>1. /\ \A j, k \in 1 .. n : e[j] = e[k] => j = k
      /\ \A j, k \in 1 .. n : e[j] < e[k] <=> j < k
  BY <1>0, RisingIsOneToOne
<1>2. IsFiniteSet(1 .. n) /\ Cardinality(1 .. n) = n
  BY <1>0, FS_Interval
<1>3. IsFiniteSet(S) /\ Cardinality(S) = n
  BY <1>0, <1>1, <1>2, OneToOne
<1>4. ASSUME NEW k \in 1 .. n PROVE Cardinality(Below(S, e[k])) = k - 1
  <2> DEFINE g == [j \in 1 .. k - 1 |-> e[j]]
  <2>1. IsFiniteSet(1 .. k - 1) /\ Cardinality(1 .. k - 1) = k - 1
    BY <1>0, FS_Interval
  <2>2. g \in [1 .. k - 1 -> Below(S, e[k])]
    BY <1>0, <1>1 DEF Below
  <2>3. \A x, y \in 1 .. k - 1 : g[x] = g[y] => x = y
    BY <1>0, <1>1
  <2>4. ASSUME NEW t \in Below(S, e[k]) PROVE \E x \in 1 .. k - 1 : g[x] = t
    <3>1. PICK x \in 1 .. n : e[x] = t
      BY <1>0 DEF Below
    <3>2. x < k
      BY <1>0, <1>1, <3>1 DEF Below
    <3> QED BY <3>1, <3>2
  <2> DEFINE P == 1 .. k - 1
             Q == Below(S, e[k])
  <2>5. IsFiniteSet(P) /\ Cardinality(P) = k - 1 /\ g \in [P -> Q]
    BY <2>1, <2>2
  <2>6. \A x, y \in P : g[x] = g[y] => x = y
    BY <2>3
  <2>7. \A t \in Q : \E x \in P : g[x] = t
    BY <2>4
  <2> HIDE DEF g, P, Q
  <2>8. Cardinality(Q) = k - 1
    BY <2>5, <2>6, <2>7, OneToOne
  <2> QED BY <2>8 DEF Q
<1>5. ASSUME NEW k \in 1 .. n
      PROVE  (CHOOSE i \in S : Cardinality({j \in S : j < i}) = k - 1) = e[k]
  <2>1. e[k] \in S /\ Cardinality({j \in S : j < e[k]}) = k - 1
    BY <1>0, <1>4 DEF Below
  <2>2. ASSUME NEW i \in S, Cardinality({j \in S : j < i}) = k - 1 PROVE i = e[k]
    <3>1. PICK l \in 1 .. n : e[l] = i
      BY <1>0
    <3>2. Cardinality({j \in S : j < e[l]}) = l - 1
      BY <1>4 DEF Below
    <3>3. l = k
      BY <1>0, <2>2, <3>1, <3>2
    <3> QED BY <3>1, <3>3
  <2> QED BY <2>1, <2>2
<1>6. Source!InOrder(S) = [k \in 1 .. n |-> e[k]]
  BY InOrderIs, <1>3, <1>5, Zenon
<1> QED BY <1>0, <1>3, <1>4, <1>6

LEMMA EnumerationOf ==
  ASSUME NEW S, S \subseteq Int, IsFiniteSet(S)
  PROVE  /\ Cardinality(S) \in Nat
         /\ Source!InOrder(S) \in [1 .. Cardinality(S) -> S]
         /\ Rising(Source!InOrder(S), Cardinality(S))
         /\ \A i \in S : \E k \in 1 .. Cardinality(S) : Source!InOrder(S)[k] = i
<1> DEFINE B == [i \in S |-> Below(S, i)]
           n == Cardinality(S)
<1>1. \A i \in S : B[i] \subseteq S /\ i \notin B[i]
  BY DEF Below
<1>2. ASSUME NEW i \in S, NEW j \in S, j \in B[i] PROVE B[j] \subseteq B[i]
  <2>1. j < i /\ i \in Int /\ j \in Int
    BY <1>2 DEF Below
  <2>2. ASSUME NEW x \in B[j] PROVE x \in B[i]
    <3>1. x \in S /\ x < j /\ x \in Int
      BY DEF Below
    <3> QED BY <2>1, <3>1 DEF Below
  <2> QED BY <2>2
<1>3. \A i, j \in S : i # j => i \in B[j] \/ j \in B[i]
  BY DEF Below
<1>4. \A i, j \in S : j \in B[i] <=> j < i
  BY DEF Below
<1>5. \A i \in S : B[i] = {j \in S : j < i}
  BY DEF Below
<1> HIDE DEF B
<1>6. /\ n \in Nat
      /\ \A i \in S : Cardinality(B[i]) \in 0 .. n - 1
      /\ \A i, j \in S : j \in B[i] <=> Cardinality(B[j]) < Cardinality(B[i])
      /\ \A k \in 1 .. n : \E i \in S : Cardinality(B[i]) = k - 1
  BY <1>1, <1>2, <1>3, Ranks
<1>7. ASSUME NEW k \in 1 .. n
      PROVE  Source!InOrder(S)[k] \in S /\ Cardinality(B[Source!InOrder(S)[k]]) = k - 1
  <2>1. Source!InOrder(S)[k] = CHOOSE i \in S : Cardinality({j \in S : j < i}) = k - 1
    BY InOrderIs
  <2>2. \E i \in S : Cardinality({j \in S : j < i}) = k - 1
    BY <1>5, <1>6
  <2>3. Source!InOrder(S)[k] \in S /\ Cardinality({j \in S : j < Source!InOrder(S)[k]}) = k - 1
    BY <2>1, <2>2
  <2> QED BY <1>5, <2>3
<1>8. Source!InOrder(S) \in [1 .. n -> S]
  <2>1. Source!InOrder(S) = [k \in 1 .. n |-> Source!InOrder(S)[k]]
    BY InOrderHas
  <2> QED BY <1>7, <2>1, Zenon
<1>9. Rising(Source!InOrder(S), n)
  <2> SUFFICES ASSUME NEW j \in 1 .. n, NEW k \in 1 .. n, j < k
               PROVE  Source!InOrder(S)[j] < Source!InOrder(S)[k]
    BY DEF Rising
  <2> DEFINE x == Source!InOrder(S)[j]
             y == Source!InOrder(S)[k]
  <2>1. x \in S /\ y \in S /\ Cardinality(B[x]) = j - 1 /\ Cardinality(B[y]) = k - 1
    BY <1>7
  <2> HIDE DEF x, y
  <2>2. Cardinality(B[x]) < Cardinality(B[y])
    BY <1>6, <2>1
  <2>3. x < y
    BY <1>4, <1>6, <2>1, <2>2
  <2> QED BY <2>3 DEF x, y
<1>10. ASSUME NEW i \in S PROVE \E k \in 1 .. n : Source!InOrder(S)[k] = i
  <2> DEFINE k == Cardinality(B[i]) + 1
  <2>1. k \in 1 .. n /\ Cardinality(B[i]) = k - 1
    <3>1. Cardinality(B[i]) \in 0 .. n - 1 /\ n \in Nat
      BY <1>6
    <3> HIDE DEF n
    <3> QED BY <3>1
  <2> HIDE DEF k
  <2> DEFINE x == Source!InOrder(S)[k]
  <2>2. x \in S /\ Cardinality(B[x]) = k - 1
    BY <1>7, <2>1
  <2> HIDE DEF x
  <2>3. ~(x < i) /\ ~(i < x)
    BY <1>4, <1>6, <2>1, <2>2
  <2>4. x = i
    BY <2>2, <2>3
  <2> QED BY <2>1, <2>4 DEF x
<1> QED BY <1>6, <1>8, <1>9, <1>10

LEMMA IntervalInOrder ==
  ASSUME NEW a \in Int, NEW n \in Nat
  PROVE  /\ IsFiniteSet(a .. a + n - 1) /\ Cardinality(a .. a + n - 1) = n
         /\ Source!InOrder(a .. a + n - 1) = [k \in 1 .. n |-> a + k - 1]
<1> DEFINE S == a .. a + n - 1
           e == [k \in 1 .. n |-> a + k - 1]
<1>1. S \subseteq Int /\ e \in [1 .. n -> S] /\ Rising(e, n)
  BY DEF Rising
<1>2. ASSUME NEW i \in S PROVE \E k \in 1 .. n : e[k] = i
  <2>1. i - a + 1 \in 1 .. n /\ e[i - a + 1] = i
    OBVIOUS
  <2> QED BY <2>1
<1> HIDE DEF S, e
<1>3. Enumerates(e, n, S)
  BY <1>1, <1>2 DEF Enumerates
<1>4. IsFiniteSet(S) /\ Cardinality(S) = n /\ Source!InOrder(S) = e
  BY <1>3, EnumerationIs
<1> QED BY <1>4 DEF S, e

-----------------------------------------------------------------------------
(* A window of an array.                                                   *)

LEMMA NpyWindowIsOfArray ==
  ASSUME Source!IsRequest("npy", request), NEW s, Source!IsFile("npy", "array", s["array"]),
         Source!Header = s["array"][1], Source!Noted("array").len = Len(s["array"]), Source!Fit("header"),
         Source!IsTuple(Source!Got("array")), Len(Source!Got("array")) = Source!ObservedCount,
         \A k \in 1 .. Len(Source!Got("array")) : Source!Got("array")[k] = s["array"][1 + request.first + k]
  PROVE  Source!NpyWindow = Source!ArrayOf(s)
<1> DEFINE F == s["array"]
           a == request.first
           n == request.count
           says == F[1].says
           c == Source!ObservedCount
           there == {i \in Source!Window : i < says}
<1>1. a \in Nat /\ n \in Nat \ {0} /\ says \in Nat /\ F # <<>>
  BY DEF Source!IsRequest, Source!IsFile
<1>2. c = Source!Least(Source!Saturating(says - a), n)
  BY DEF Source!ObservedCount
<1>3. F[1].rank = request.rank /\ Len(F) = 1 + says
  BY DEF Source!Fit
<1> HIDE DEF c, says
<1>4. c \in Nat /\ there = a .. a + c - 1 /\ (there = Source!Window <=> c = n)
  <2> HIDE DEF a, n
  <2>1. c \in Nat
    BY <1>1, <1>2 DEF Source!Least, Source!Saturating
  <2>2. Source!Window = a .. a + n - 1
    BY DEF Source!Window, a, n
  <2>3. there = a .. a + c - 1
    BY <1>1, <1>2, <2>2 DEF Source!Least, Source!Saturating
  <2>4. c <= n /\ (c = n => there = Source!Window)
    BY <1>1, <1>2, <2>2, <2>3 DEF Source!Least, Source!Saturating
  <2> HIDE DEF there
  <2>5. ASSUME c < n PROVE there # Source!Window
    <3>1. a \in Int /\ n \in Int /\ c \in Int
      BY <1>1, <2>1
    <3>2. a + c \in a .. a + n - 1 /\ a + c \notin a .. a + c - 1
      BY <2>1, <2>5, <3>1
    <3> QED BY <2>2, <2>3, <3>2
  <2> QED BY <1>1, <2>1, <2>3, <2>4, <2>5
<1> HIDE DEF there
<1>5. Cardinality(there) = c /\ Source!InOrder(there) = [k \in 1 .. c |-> a + k - 1]
  <2>1. a \in Int /\ c \in Nat /\ there = a .. a + c - 1
    BY <1>1, <1>4
  <2> HIDE DEF a
  <2> QED BY <2>1, IntervalInOrder
<1> DEFINE held == [k \in 1 .. Cardinality(there) |-> F[Source!InOrder(there)[k] + 2]]
<1>6. Source!Got("array") = held
  <2>1. \A k \in 1 .. c : Source!InOrder(there)[k] + 2 = 1 + a + k
    <3> HIDE DEF a
    <3>1. \A k \in 1 .. c : Source!InOrder(there)[k] = a + k - 1
      BY <1>5
    <3> QED BY <1>1, <1>4, <3>1
  <2>2. \A k \in 1 .. c : Source!Got("array")[k] = F[Source!InOrder(there)[k] + 2]
    BY <2>1 DEF c
  <2>3. Source!Got("array") = [k \in 1 .. c |-> Source!Got("array")[k]]
    BY DEF Source!IsTuple, c
  <2> QED BY <1>5, <2>2, <2>3, Zenon
<1>7. Source!ArrayOf(s) = [status |-> "accepted", complete |-> there = Source!Window, values |-> held]
  BY <1>1, <1>3, SourceCount DEF Source!ArrayOf, there, says
<1>8. Source!NpyWindow = [status |-> "accepted", values |-> Source!Got("array"), complete |-> c = n]
  BY DEF Source!NpyWindow, c
<1> HIDE DEF held, F, n, a
<1> QED BY <1>4, <1>6, <1>7, <1>8

LEMMA UnfitArrayIsRefused ==
  ASSUME NEW s, Source!Header = s["array"][1], Source!Noted("array").len = Len(s["array"]), ~Source!Fit("header")
  PROVE  Source!ArrayOf(s) = Source!Refused
BY DEF Source!ArrayOf, Source!Fit

-----------------------------------------------------------------------------
(* A window of samples.                                                    *)

LEMMA RisingByOne ==
  ASSUME NEW n \in Nat, NEW f, \A i \in 1 .. n : f[i] \in Int,
         \A i \in 2 .. n : f[i - 1] < f[i]
  PROVE  \A i, j \in 1 .. n : i < j => f[i] < f[j]
<1> SUFFICES ASSUME NEW i \in 1 .. n, NEW j \in 1 .. n, i < j, ~(f[i] < f[j])
             PROVE  FALSE
  OBVIOUS
<1> DEFINE T == {k \in 1 .. n : i < k /\ ~(f[i] < f[k])}
<1>1. T \subseteq Nat /\ T # {}
  OBVIOUS
<1> HIDE DEF T
<1>2. PICK k \in T : \A l \in T : k <= l
  BY <1>1, LeastNatural
<1>3. k \in 2 .. n /\ i < k /\ ~(f[i] < f[k]) /\ k - 1 \in 1 .. n
  BY DEF T
<1>4. k - 1 \notin T
  BY <1>2, <1>3
<1>5. i = k - 1 \/ f[i] < f[k - 1]
  BY <1>3, <1>4 DEF T
<1>6. f[k - 1] < f[k] /\ f[k - 1] \in Int /\ f[k] \in Int /\ f[i] \in Int
  BY <1>3
<1> QED BY <1>3, <1>5, <1>6

LEMMA SegmentsIncrease ==
  ASSUME NEW m, Source!IsMetadata(m)
  PROVE  Source!Increasing(m.segments) <=>
                  /\ \A k \in DOMAIN m.segments : k = 1 <=> m.segments[k][1] = 0
                  /\ \A j, k \in DOMAIN m.segments : j < k => m.segments[j][1] < m.segments[k][1]
<1> DEFINE seg == m.segments
           n == Len(seg)
           f == [k \in 1 .. n |-> seg[k][1]]
<1>1. Source!IsTuple(seg) /\ n \in Nat /\ DOMAIN seg = 1 .. n /\ \A k \in 1 .. n : seg[k][1] \in Nat
  BY TupleIs DEF Source!IsMetadata
<1>2. seg # <<>> <=> n >= 1
  BY <1>1, TupleIs
<1> HIDE DEF seg, n
<1>3. ASSUME Source!Increasing(seg)
      PROVE  /\ \A k \in DOMAIN seg : k = 1 <=> seg[k][1] = 0
             /\ \A j, k \in DOMAIN seg : j < k => seg[j][1] < seg[k][1]
  <2>1. \A k \in 2 .. n : seg[k - 1][1] < seg[k][1]
    BY <1>1, <1>3 DEF Source!Increasing, n
  <2>2. \A i \in 1 .. n : f[i] \in Int
    BY <1>1
  <2>3. \A i \in 2 .. n : f[i - 1] < f[i]
    BY <1>1, <2>1
  <2> HIDE DEF f
  <2>4. \A i, j \in 1 .. n : i < j => f[i] < f[j]
    BY <1>1, <2>2, <2>3, RisingByOne
  <2>5. \A i, j \in 1 .. n : i < j => seg[i][1] < seg[j][1]
    BY <2>4 DEF f
  <2>6. n >= 1 => seg[1][1] = 0
    BY <1>2, <1>3 DEF Source!Increasing
  <2>7. ASSUME NEW k \in 1 .. n PROVE k = 1 <=> seg[k][1] = 0
    <3>1. k = 1 \/ (1 \in 1 .. n /\ 1 < k)
      BY <1>1
    <3> QED BY <1>1, <2>5, <2>6, <3>1
  <2> QED BY <1>1, <2>5, <2>7
<1>4. ASSUME \A k \in DOMAIN seg : k = 1 <=> seg[k][1] = 0,
             \A j, k \in DOMAIN seg : j < k => seg[j][1] < seg[k][1]
      PROVE  Source!Increasing(seg)
  <2>1. seg # <<>> => seg[1][1] = 0
    BY <1>1, <1>2, <1>4
  <2>2. ASSUME NEW i \in 2 .. n PROVE seg[i - 1][1] < seg[i][1]
    <3>1. i - 1 \in 1 .. n /\ i \in 1 .. n /\ i - 1 < i
      BY <1>1
    <3> QED BY <1>1, <1>4, <3>1
  <2> QED BY <2>1, <2>2 DEF Source!Increasing, n
<1> QED BY <1>3, <1>4 DEF seg

LEMMA FitIsDescribed ==
  ASSUME Source!IsRequest("sigmf", request), Source!IsMetadata(Source!Meta)
  PROVE  Source!Fit("meta") /\ Source!Fit("data") <=> Source!Described(Source!Meta)
<1>1. Source!Fit("meta") <=> Source!MetadataIsFit
  BY DEF Source!Fit
<1>2. Source!Fit("data") <=> (Source!Meta.order = "none" \/ request.order \in {"none", Source!Meta.order})
  BY DEF Source!Fit
<1>3. Source!Fit("data") <=> {Source!Meta.order, request.order} # {"le", "be"}
  <2>1. Source!Meta.order \in {"le", "be", "none"} /\ request.order \in {"le", "be", "none"}
    BY DEF Source!IsRequest, Source!IsMetadata, Source!Orders
  <2> DEFINE x == Source!Meta.order
             y == request.order
  <2>2. (x = "none" \/ y \in {"none", x}) <=> {x, y} # {"le", "be"}
    <3> HIDE DEF x, y
    <3>1. x \in {"le", "be", "none"} /\ y \in {"le", "be", "none"}
      BY <2>1 DEF x, y
    <3> QED BY <3>1
  <2> QED BY <1>2, <2>2
<1>4. Source!Increasing(Source!Meta.segments) <=>
               /\ \A k \in DOMAIN Source!Meta.segments : k = 1 <=> Source!Meta.segments[k][1] = 0
               /\ \A j, k \in DOMAIN Source!Meta.segments :
                    j < k => Source!Meta.segments[j][1] < Source!Meta.segments[k][1]
  BY SegmentsIncrease
<1> QED BY <1>1, <1>3, <1>4 DEF Source!MetadataIsFit, Source!Described

\* The segment that a sample is in: it has begun and the next has not.
InSegment(segments, k, i) ==
  segments[k][1] <= i /\ (k < Len(segments) => i < segments[k + 1][1])

LEMMA TunedBySegment ==
  ASSUME NEW m, Source!IsMetadata(m), Source!Increasing(m.segments), m.segments # <<>>, NEW i \in Nat
  PROVE  /\ \E k \in DOMAIN m.segments : InSegment(m.segments, k, i)
         /\ \A k \in DOMAIN m.segments :
              InSegment(m.segments, k, i) => Source!Tuned(m.segments, i) = m.segments[k][2]
<1> DEFINE seg == m.segments
           n == Len(seg)
           before == {k \in DOMAIN seg : seg[k][1] <= i}
<1>1. n \in Nat /\ n >= 1 /\ DOMAIN seg = 1 .. n /\ \A k \in 1 .. n : seg[k][1] \in Nat
  BY TupleIs DEF Source!IsMetadata
<1>2. /\ \A k \in 1 .. n : k = 1 <=> seg[k][1] = 0
      /\ \A j, k \in 1 .. n : j < k => seg[j][1] < seg[k][1]
  BY <1>1, SegmentsIncrease
<1>3. before \subseteq 1 .. n /\ 1 \in before
  BY <1>1, <1>2
<1>4. \A k \in 1 .. n : k \in before <=> seg[k][1] <= i
  BY <1>1
<1>5. Source!Tuned(seg, i) = seg[Source!Max(before)][2]
  BY <1>3 DEF Source!Tuned
<1> HIDE DEF seg, n, before
<1>6. \E k \in DOMAIN seg : InSegment(seg, k, i)
  <2>1. PICK k \in before : \A j \in before : j <= k
    BY <1>1, <1>3, GreatestNatural
  <2>2. k \in 1 .. n /\ seg[k][1] <= i
    BY <1>3, <1>4, <2>1
  <2>3. ASSUME k < n PROVE i < seg[k + 1][1]
    <3>1. k + 1 \in 1 .. n /\ ~(k + 1 <= k)
      BY <1>1, <2>2, <2>3
    <3>2. k + 1 \notin before /\ seg[k + 1][1] \in Nat
      BY <1>1, <2>1, <3>1
    <3> QED BY <1>4, <3>1, <3>2
  <2> QED BY <1>1, <2>2, <2>3 DEF InSegment, n
<1>7. ASSUME NEW k \in DOMAIN seg, InSegment(seg, k, i) PROVE Source!Max(before) = k
  <2>1. k \in 1 .. n /\ k \in before
    BY <1>1, <1>4, <1>7 DEF InSegment
  <2>2. ASSUME NEW j \in before PROVE k >= j
    <3>1. j \in 1 .. n /\ seg[j][1] <= i /\ seg[j][1] \in Nat
      BY <1>1, <1>3, <1>4
    <3>2. ASSUME k < j PROVE FALSE
      <4>1. k < n /\ k + 1 \in 1 .. n /\ (k + 1 < j \/ k + 1 = j)
        BY <1>1, <2>1, <3>1, <3>2
      <4>2. i < seg[k + 1][1] /\ seg[k + 1][1] \in Nat
        BY <1>1, <1>7, <4>1 DEF InSegment, n
      <4>3. seg[k + 1][1] <= seg[j][1]
        BY <1>1, <1>2, <3>1, <4>1
      <4> QED BY <3>1, <4>2, <4>3
    <3> QED BY <1>1, <2>1, <3>1, <3>2
  <2>3. \A x \in before : (\A y \in before : x >= y) => x = k
    <3> SUFFICES ASSUME NEW x \in before, \A y \in before : x >= y PROVE x = k
      OBVIOUS
    <3>1. x >= k /\ k >= x /\ x \in 1 .. n
      BY <1>3, <2>1, <2>2
    <3> QED BY <2>1, <3>1
  <2> QED BY <2>1, <2>2, <2>3 DEF Source!Max
<1> QED BY <1>5, <1>6, <1>7 DEF seg

CentersOf(segments) == {Source!Tuned(segments, i) : i \in Source!Window}

LEMMA FrequencyOfWindow ==
  ASSUME Source!IsRequest("sigmf", request), NEW m, Source!IsMetadata(m), Source!Increasing(m.segments)
  PROVE  Source!WindowCenterFrequency(m.segments) =
                  IF Cardinality(CentersOf(m.segments)) = 1
                  THEN CHOOSE f \in CentersOf(m.segments) : TRUE ELSE 0
<1> DEFINE seg == m.segments
           center == CentersOf(m.segments)
           n == Len(seg)
           a == request.first
           z == request.first + request.count
           next(k) == IF k < Len(seg) THEN seg[k + 1][1] ELSE request.first + request.count + 1
           touched == {k \in DOMAIN seg : /\ seg[k][1] < request.first + request.count
                                          /\ next(k) > request.first}
           tuned == {seg[k][2] : k \in touched}
<1>1. a \in Nat /\ z \in Nat /\ a < z /\ Source!Window = a .. z - 1
  BY DEF Source!IsRequest, Source!Window
<1>2. Source!IsTuple(seg) /\ n \in Nat /\ DOMAIN seg = 1 .. n /\ \A k \in 1 .. n : seg[k][1] \in Nat
  BY TupleIs DEF Source!IsMetadata
<1>3. Source!WindowCenterFrequency(seg) = IF Cardinality(tuned) = 1 THEN CHOOSE f \in tuned : TRUE ELSE 0
  BY SourceCount DEF Source!WindowCenterFrequency
<1>4. CASE seg = <<>>
  <2>1. n = 0 /\ touched = {} /\ tuned = {}
    BY <1>2, <1>4
  <2>2. Cardinality(tuned) = 0
    BY <2>1, FS_EmptySet
  <2>3. \A i \in Source!Window : Source!Tuned(seg, i) = 0
    BY <1>2, <2>1 DEF Source!Tuned
  <2>4. a \in Source!Window
    BY <1>1
  <2> HIDE DEF seg, a, touched, tuned
  <2>5. center = {0}
    BY <2>3, <2>4 DEF seg, CentersOf
  <2>6. (CHOOSE f \in center : TRUE) = 0
    BY <2>5
  <2>7. Source!WindowCenterFrequency(seg) = 0
    BY <1>3, <2>2
  <2> QED BY <2>6, <2>7 DEF seg
<1>5. CASE seg # <<>>
  <2>1. \A i \in Source!Window : i \in Nat
    BY <1>1
  <2>2. ASSUME NEW f \in tuned PROVE f \in center
    <3>0. center = {Source!Tuned(seg, i) : i \in Source!Window}
      BY DEF CentersOf
    <3> HIDE DEF center
    <3>1. PICK k \in touched : f = seg[k][2]
      OBVIOUS
    <3>2. k \in 1 .. n /\ seg[k][1] < z /\ next(k) > a /\ seg[k][1] \in Nat
      BY <1>2, <3>1
    <3> DEFINE i == IF seg[k][1] < a THEN a ELSE seg[k][1]
    <3>3. i \in Source!Window /\ seg[k][1] <= i /\ i \in Nat
      BY <1>1, <3>2
    <3>4. ASSUME k < n PROVE i < seg[k + 1][1]
      <4>1. k + 1 \in 1 .. n /\ seg[k + 1][1] > a
        BY <1>2, <3>2, <3>4
      <4>2. seg[k][1] < seg[k + 1][1]
        <5>1. k + 1 \in 2 .. n /\ (k + 1) - 1 = k
          BY <3>2, <4>1
        <5> HIDE DEF i
        <5>2. \A j \in 2 .. n : seg[j - 1][1] < seg[j][1]
          BY DEF Source!Increasing
        <5> QED BY <5>1, <5>2
      <4> QED BY <4>1, <4>2
    <3> HIDE DEF i
    <3>5. InSegment(seg, k, i)
      BY <3>3, <3>4 DEF InSegment
    <3>6. Source!Tuned(seg, i) = seg[k][2]
      BY <1>2, <1>5, <3>2, <3>3, <3>5, TunedBySegment
    <3> QED BY <3>0, <3>1, <3>3, <3>6
  <2>3. ASSUME NEW f \in center PROVE f \in tuned
    <3>1. PICK i \in Source!Window : f = Source!Tuned(seg, i)
      BY DEF CentersOf
    <3>2. i \in Nat /\ a <= i /\ i < z
      BY <1>1, <3>1
    <3>3. PICK k \in DOMAIN seg : InSegment(seg, k, i)
      BY <1>5, <3>2, TunedBySegment
    <3>4. f = seg[k][2]
      BY <1>5, <3>1, <3>2, <3>3, TunedBySegment
    <3>5. k \in 1 .. n /\ seg[k][1] <= i /\ seg[k][1] \in Nat
      BY <1>2, <3>3 DEF InSegment
    <3>6. seg[k][1] < z
      BY <1>1, <3>2, <3>5
    <3>7. next(k) > a
      <4>1. CASE k < n
        <5>1. i < seg[k + 1][1] /\ seg[k + 1][1] \in Nat
          BY <1>2, <3>3, <3>5, <4>1 DEF InSegment
        <5> QED BY <1>1, <3>2, <4>1, <5>1
      <4>2. CASE ~(k < n)
        BY <1>1, <4>2
      <4> QED BY <4>1, <4>2
    <3>8. k \in touched
      BY <1>2, <3>5, <3>6, <3>7
    <3> QED BY <3>4, <3>8
  <2> HIDE DEF tuned
  <2>4. center = tuned
    BY <2>2, <2>3
  <2> QED BY <1>3, <2>4
<1> QED BY <1>4, <1>5

LEMMA HalfOf ==
  ASSUME NEW n \in Nat
  PROVE  /\ n \div 2 \in Nat /\ n % 2 \in {0, 1} /\ n = 2 * (n \div 2) + (n % 2)
OBVIOUS

\* So many samples of a window there are, for bytes there and samples declared.
BytesIn(a, n, len, m) ==
  Source!Least(Source!Saturating((IF m.dialect = "osu" THEN Source!Least(len, 2 * m.declared) ELSE len) - 2 * a), 2 * n)

WholeIn(a, n, len, m) == BytesIn(a, n, len, m) - (BytesIn(a, n, len, m) % 2)

SamplesIn(a, n, len, m) ==
  {i \in a .. a + n - 1 : 2 * i + 2 <= len /\ (m.dialect = "osu" => i < m.declared)}

LEMMA WholeSamples ==
  ASSUME NEW a \in Nat, NEW n \in Nat, NEW len \in Nat, NEW m, m.declared \in Nat
  PROVE  /\ Cardinality(SamplesIn(a, n, len, m)) \in 0 .. n
         /\ WholeIn(a, n, len, m) = 2 * Cardinality(SamplesIn(a, n, len, m))
         /\ SamplesIn(a, n, len, m)
              = a .. a + Cardinality(SamplesIn(a, n, len, m)) - 1
<1> DEFINE bytes == BytesIn(a, n, len, m)
           there == SamplesIn(a, n, len, m)
<1>0. bytes = Source!Least(Source!Saturating((IF m.dialect = "osu" THEN Source!Least(len, 2 * m.declared) ELSE len) - 2 * a), 2 * n)
  BY DEF BytesIn
<1>00. there = {i \in a .. a + n - 1 : 2 * i + 2 <= len /\ (m.dialect = "osu" => i < m.declared)}
  BY DEF SamplesIn
<1> HIDE DEF bytes, there
<1> DEFINE l == IF m.dialect = "osu" THEN Source!Least(len, 2 * m.declared) ELSE len
           c == bytes \div 2
<1>1. l \in Nat /\ \A i \in Nat : (2 * i + 2 <= len /\ (m.dialect = "osu" => i < m.declared)) <=> 2 * i + 2 <= l
  BY DEF Source!Least
<1>2. bytes = Source!Least(Source!Saturating(l - 2 * a), 2 * n)
  BY <1>0
<1> HIDE DEF l
<1>3. bytes \in Nat
  BY <1>1, <1>2 DEF Source!Least, Source!Saturating
<1>4. c \in Nat /\ bytes % 2 \in {0, 1} /\ bytes = 2 * c + (bytes % 2)
  BY <1>3, HalfOf
<1> HIDE DEF c
<1>5. c <= n /\ bytes - (bytes % 2) = 2 * c
  BY <1>1, <1>2, <1>3, <1>4 DEF Source!Least, Source!Saturating
<1>6. ASSUME NEW i \in Int PROVE i \in there <=> i \in a .. a + c - 1
  <2>1. i \in there <=> i \in a .. a + n - 1 /\ 2 * i + 2 <= l
    BY <1>00, <1>1
  <2>2. ASSUME i \in a .. a + n - 1 PROVE 2 * i + 2 <= l <=> i < a + c
    BY <1>1, <1>2, <1>3, <1>4, <2>2 DEF Source!Least, Source!Saturating
  <2> QED BY <1>4, <1>5, <2>1, <2>2
<1>7. there = a .. a + c - 1
  BY <1>00, <1>6
<1>8. Cardinality(there) = c /\ IsFiniteSet(there)
  <2>1. a \in Int
    OBVIOUS
  <2>2. IsFiniteSet(a .. a + c - 1) /\ Cardinality(a .. a + c - 1) = c
    BY <1>4, <2>1, IntervalInOrder
  <2> QED BY <1>7, <2>2
<1> QED BY <1>3, <1>4, <1>5, <1>7, <1>8 DEF bytes, there, WholeIn

LEMMA SigmfWindowIsOfSamples ==
  ASSUME Source!IsRequest("sigmf", request), NEW s, s["meta"] # <<>>, Source!Meta = s["meta"][1],
         Source!IsMetadata(Source!Meta), NEW F, F = s[Source!Meta.dialect], Source!IsTuple(F), F # <<>>,
         Source!Noted("data").len = Len(F), Source!Fit("meta"), Source!Fit("data"),
         Source!IsTuple(Source!Got("data")), Len(Source!Got("data")) = Source!PlannedBytes,
         \A k \in 1 .. Len(Source!Got("data")) : Source!Got("data")[k] = F[2 * request.first + k]
  PROVE  Source!SigmfWindow = Source!SamplesOf(s)
<1> DEFINE m == Source!Meta
           a == request.first
           n == request.count
           plain == SamplesIn(a, n, Len(F), m)
           bytes == WholeIn(a, n, Len(F), m)
           order == CHOOSE o \in {"le", "be", "none"} :
                      IF {m.order, request.order} = {"none"} THEN o = "none"
                      ELSE o # "none" /\ o \in {m.order, request.order}
           there == {i \in Source!Window : /\ 2 * i + 2 <= Len(F) /\ order # "none"
                                           /\ m.dialect = "osu" => i < m.declared}
           center == CentersOf(m.segments)
           held == [k \in 1 .. 2 * Cardinality(there) |-> F[2 * request.first + k]]
<1>1. /\ a \in Nat /\ n \in Nat /\ n > 0 /\ Len(F) \in Nat /\ m.declared \in Nat
      /\ m.order \in {"le", "be", "none"} /\ request.order \in {"le", "be", "none"}
  BY TupleIs DEF Source!IsRequest, Source!IsMetadata, Source!Orders
<1>2. Source!Described(m) /\ Source!Increasing(m.segments)
  BY FitIsDescribed DEF Source!Fit, Source!MetadataIsFit
<1>3. order = Source!ByteOrder
  <2> DEFINE x == m.order
             y == request.order
  <2>1. (x = "none" \/ y \in {"none", x}) /\ {x, y} \subseteq {"le", "be", "none"}
    BY <1>1 DEF Source!Fit
  <2>2. Source!ByteOrder = IF x # "none" THEN x ELSE y
    BY DEF Source!ByteOrder
  <2> HIDE DEF x, y
  <2>3. CASE x = "none" /\ y = "none"
    <3>1. {x, y} = {"none"}
      BY <2>3
    <3> QED BY <2>2, <2>3, <3>1 DEF x, y
  <2>4. CASE ~(x = "none" /\ y = "none")
    <3>1. {x, y} # {"none"}
      BY <2>4
    <3>2. Source!ByteOrder \in {"le", "be", "none"} /\ Source!ByteOrder # "none" /\ Source!ByteOrder \in {x, y}
      BY <2>1, <2>2, <2>4
    <3>3. \A o \in {"le", "be", "none"} : o # "none" /\ o \in {x, y} => o = Source!ByteOrder
      BY <2>1, <2>2, <2>4
    <3>4. order = CHOOSE o \in {"le", "be", "none"} : o # "none" /\ o \in {x, y}
      BY <3>1 DEF x, y
    <3> HIDE DEF order
    <3> QED BY <3>2, <3>3, <3>4
  <2> QED BY <2>3, <2>4
<1> HIDE DEF order
<1>4. /\ Cardinality(plain) \in 0 .. n
      /\ bytes = 2 * Cardinality(plain)
      /\ plain = a .. a + Cardinality(plain) - 1
  <2>2. a \in Nat /\ n \in Nat /\ Len(F) \in Nat /\ m.declared \in Nat
    BY <1>1
  <2>3. PICK A \in Nat, N \in Nat, L \in Nat : A = a /\ N = n /\ L = Len(F)
    BY <2>2
  <2>4. Cardinality(SamplesIn(A, N, L, m)) \in 0 .. N
    BY <2>2, WholeSamples
  <2>5. WholeIn(A, N, L, m) = 2 * Cardinality(SamplesIn(A, N, L, m))
    BY <2>2, WholeSamples
  <2>6. SamplesIn(A, N, L, m) = A .. A + Cardinality(SamplesIn(A, N, L, m)) - 1
    BY <2>2, WholeSamples
  <2> QED BY <2>3, <2>4, <2>5, <2>6
<1>5. there = IF order = "none" THEN {} ELSE plain
  <2>0. Source!Window = a .. a + n - 1
    BY DEF Source!Window
  <2> HIDE DEF m, a, n
  <2>1. ASSUME NEW i PROVE i \in there <=> order # "none" /\ i \in plain
    BY <2>0 DEF SamplesIn
  <2> HIDE DEF there, plain
  <2>2. CASE order = "none"
    <3>1. \A i : i \notin there
      BY <2>1, <2>2
    <3>2. there = {}
      BY <3>1
    <3> QED BY <2>2, <3>2
  <2>3. CASE order # "none"
    <3>1. there = plain
      BY <2>1, <2>3
    <3> QED BY <2>3, <3>1
  <2> QED BY <2>2, <2>3
<1>6. Source!PlannedBytes = IF Source!ByteOrder = "none" THEN 0 ELSE bytes
  BY DEF Source!PlannedBytes, BytesIn, WholeIn
<1> HIDE DEF plain, bytes, there
<1>7. /\ Cardinality(there) \in Nat /\ Source!PlannedBytes = 2 * Cardinality(there)
      /\ there = a .. a + Cardinality(there) - 1 /\ Cardinality(there) <= n
  <2>1. CASE order = "none"
    <3>1. there = {} /\ Cardinality(there) = 0
      BY <1>5, <2>1, FS_EmptySet
    <3> HIDE DEF a
    <3>2. a .. a + 0 - 1 = {}
      BY <1>1
    <3> QED BY <1>1, <1>3, <1>6, <2>1, <3>1, <3>2
  <2>2. CASE order # "none"
    BY <1>3, <1>4, <1>5, <1>6, <2>2
  <2> QED BY <2>1, <2>2
<1> DEFINE c == Cardinality(there)
<1>8. there = Source!Window <=> c = n
  <2>1. Source!Window = a .. a + n - 1
    BY DEF Source!Window
  <2> HIDE DEF a, n, c
  <2>2. c \in Nat /\ there = a .. a + c - 1 /\ c <= n
    BY <1>7 DEF c
  <2>3. ASSUME c < n PROVE there # Source!Window
    <3>1. a + c \in a .. a + n - 1 /\ a + c \notin a .. a + c - 1
      BY <1>1, <2>2, <2>3
    <3> QED BY <2>1, <2>2, <3>1
  <2> QED BY <1>1, <2>1, <2>2, <2>3
<1>9. Source!Got("data") = held
  <2>1. Source!Got("data") = [k \in 1 .. Len(Source!Got("data")) |-> Source!Got("data")[k]]
    BY DEF Source!IsTuple
  <2>2. Len(Source!Got("data")) = 2 * Cardinality(there)
    BY <1>7
  <2>3. \A k \in 1 .. 2 * Cardinality(there) : Source!Got("data")[k] = F[2 * request.first + k]
    BY <2>2
  <2> QED BY <2>1, <2>2, <2>3, Zenon
<1>10. Len(Source!Got("data")) \div 2 = c
  <2>1. Len(Source!Got("data")) = 2 * c /\ c \in Nat
    BY <1>7
  <2> HIDE DEF c
  <2> QED BY <2>1
<1> HIDE DEF held
<1>11. Source!WindowCenterFrequency(m.segments) =
                IF Cardinality(center) = 1 THEN CHOOSE f \in center : TRUE ELSE 0
  BY <1>2, FrequencyOfWindow
<1> HIDE DEF center
<1>12. Source!SamplesOf(s) =
         [status |-> "accepted", dialect |-> m.dialect, order |-> order,
          complete |-> there = Source!Window,
          center |-> IF Cardinality(center) = 1 THEN CHOOSE f \in center : TRUE ELSE 0,
          bytes |-> held]
  <2>1. m = s["meta"][1] /\ F = s[s["meta"][1].dialect]
    OBVIOUS
  <2> HIDE DEF m
  <2>2. Source!Described(s["meta"][1]) /\ s[s["meta"][1].dialect] # <<>>
    BY <1>2, <2>1
  <2>3. center = {Source!Tuned(m.segments, i) : i \in Source!Window}
    BY DEF center, CentersOf
  <2> USE DEF order, there, held
  <2> QED BY <2>1, <2>2, <2>3 DEF Source!SamplesOf, center, CentersOf, Source!Cardinality, Cardinality
<1>13. Source!SigmfWindow =
                [status |-> "accepted", bytes |-> Source!Got("data"), dialect |-> m.dialect,
                 order |-> Source!ByteOrder, center |-> Source!WindowCenterFrequency(m.segments),
                 complete |-> Len(Source!Got("data")) \div 2 = n]
  BY DEF Source!SigmfWindow
<1> HIDE DEF m, a, n, c
<1> QED BY <1>3, <1>8, <1>9, <1>10, <1>11, <1>12, <1>13

LEMMA UnfitSamplesAreRefused ==
  ASSUME Source!IsRequest("sigmf", request), NEW s, s["meta"] # <<>>, Source!Meta = s["meta"][1], Source!IsMetadata(Source!Meta),
         ~(Source!Fit("meta") /\ Source!Fit("data")) \/ s[Source!Meta.dialect] = <<>>
  PROVE  Source!SamplesOf(s) = Source!Refused
<1>1. ~Source!Described(Source!Meta) \/ s[Source!Meta.dialect] = <<>>
  BY FitIsDescribed
<1> QED BY <1>1 DEF Source!SamplesOf

-----------------------------------------------------------------------------
(* The rows of a log, sorted.                                              *)

LEMMA NotFallingByOne ==
  ASSUME NEW n \in Nat, NEW f, \A i \in 1 .. n : f[i] \in Int,
         \A i \in 2 .. n : f[i - 1] <= f[i]
  PROVE  \A i, j \in 1 .. n : i < j => f[i] <= f[j]
<1> SUFFICES ASSUME NEW i \in 1 .. n, NEW j \in 1 .. n, i < j, ~(f[i] <= f[j])
             PROVE  FALSE
  OBVIOUS
<1> DEFINE T == {k \in 1 .. n : i < k /\ ~(f[i] <= f[k])}
<1>1. T \subseteq Nat /\ T # {}
  OBVIOUS
<1> HIDE DEF T
<1>2. PICK k \in T : \A l \in T : k <= l
  BY <1>1, LeastNatural
<1>3. k \in 2 .. n /\ i < k /\ ~(f[i] <= f[k]) /\ k - 1 \in 1 .. n
  BY DEF T
<1>4. k - 1 \notin T
  BY <1>2, <1>3
<1>5. i = k - 1 \/ f[i] <= f[k - 1]
  BY <1>3, <1>4 DEF T
<1>6. f[k - 1] <= f[k] /\ f[k - 1] \in Int /\ f[k] \in Int /\ f[i] \in Int
  BY <1>3
<1> QED BY <1>3, <1>5, <1>6

Sorted(r, n, V) == r \in [1 .. n -> V] /\ \A i \in 2 .. n : r[i - 1] <= r[i]

UpTo(r, n, v) == {i \in 1 .. n : r[i] <= v}

LEMMA CountsOfSorted ==
  ASSUME NEW n \in Nat, NEW r, \A i \in 1 .. n : r[i] \in Int,
         \A i \in 2 .. n : r[i - 1] <= r[i], NEW v \in Int
  PROVE  \A k \in 1 .. n : r[k] <= v <=> k <= Cardinality(UpTo(r, n, v))
<1> DEFINE S == UpTo(r, n, v)
<1>1. \A i, j \in 1 .. n : i < j => r[i] <= r[j]
  BY NotFallingByOne
<1>2. S \subseteq 1 .. n /\ \A k \in 1 .. n : k \in S <=> r[k] <= v
  BY DEF UpTo
<1> HIDE DEF S
<1>3. CASE S = {}
  <2>1. Cardinality(S) = 0
    BY <1>3, FS_EmptySet
  <2> QED BY <1>2, <1>3, <2>1 DEF S
<1>4. CASE S # {}
  <2>1. PICK g \in S : \A k \in S : k <= g
    BY <1>2, <1>4, GreatestNatural
  <2>2. ASSUME NEW k \in 1 .. n, k <= g PROVE k \in S
    <3>1. k = g \/ r[k] <= r[g]
      BY <1>1, <1>2, <2>1, <2>2
    <3>2. r[g] <= v /\ r[g] \in Int /\ r[k] \in Int
      BY <1>2, <2>1
    <3> QED BY <1>2, <2>1, <3>1, <3>2
  <2>3. g \in 1 .. n
    BY <1>2, <2>1
  <2>4. S = 1 .. g
    <3>1. ASSUME NEW k \in S PROVE k \in 1 .. g
      <4>1. k \in 1 .. n /\ k <= g
        BY <1>2, <2>1
      <4> QED BY <2>3, <4>1
    <3>2. ASSUME NEW k \in 1 .. g PROVE k \in S
      <4>1. k \in 1 .. n /\ k <= g
        BY <2>3
      <4> QED BY <2>2, <4>1
    <3> QED BY <3>1, <3>2
  <2>5. Cardinality(1 .. g) = g
    BY <2>3, FS_Interval
  <2> QED BY <1>2, <2>1, <2>2, <2>4, <2>5 DEF S
<1> QED BY <1>3, <1>4

SameCounts(q, r, n, V) ==
  \A v \in V : Cardinality(UpTo(q, n, v)) = Cardinality(UpTo(r, n, v))

LEMMA SortedByCounts ==
  ASSUME NEW n \in Nat, NEW V, V \subseteq Int, NEW q, NEW r, Sorted(q, n, V), Sorted(r, n, V),
         SameCounts(q, r, n, V)
  PROVE  q = r
<1>0. /\ q \in [1 .. n -> V] /\ r \in [1 .. n -> V]
      /\ \A i \in 2 .. n : q[i - 1] <= q[i]
      /\ \A i \in 2 .. n : r[i - 1] <= r[i]
  BY DEF Sorted
<1>1. \A i \in 1 .. n : q[i] \in V /\ r[i] \in V /\ q[i] \in Int /\ r[i] \in Int
  BY <1>0
<1>2. ASSUME NEW k \in 1 .. n, NEW v \in V PROVE q[k] <= v <=> r[k] <= v
  <2>1. v \in Int
    OBVIOUS
  <2>2. q[k] <= v <=> k <= Cardinality(UpTo(q, n, v))
    BY <1>0, <1>1, <2>1, CountsOfSorted
  <2>3. r[k] <= v <=> k <= Cardinality(UpTo(r, n, v))
    BY <1>0, <1>1, <2>1, CountsOfSorted
  <2> QED BY <2>2, <2>3 DEF SameCounts
<1>3. ASSUME NEW k \in 1 .. n PROVE q[k] = r[k]
  <2>1. q[k] <= r[k] /\ r[k] <= q[k]
    BY <1>1, <1>2
  <2> QED BY <1>1, <2>1
<1> QED BY <1>0, <1>3

LEMMA AscendingIs ==
  ASSUME NEW t, Source!IsTuple(t), \A i \in 1 .. Len(t) : t[i] \in Int
  PROVE  \E p \in [1 .. Len(t) -> 1 .. Len(t)] :
           /\ \A j, k \in 1 .. Len(t) : p[j] = p[k] => j = k
           /\ \A i \in 1 .. Len(t) : \E k \in 1 .. Len(t) : p[k] = i
           /\ Source!Ascending(t) = [k \in 1 .. Len(t) |-> t[p[k]]]
           /\ \A j, k \in 1 .. Len(t) : j < k => t[p[j]] <= t[p[k]]
<1> DEFINE n == Len(t)
           P == 1 .. n
           earlier(i) == {j \in DOMAIN t : t[j] < t[i] \/ (t[j] = t[i] /\ j < i)}
           B == [i \in P |-> earlier(i)]
           p == [k \in P |-> CHOOSE i \in P : Cardinality(B[i]) = k - 1]
<1>1. n \in Nat /\ DOMAIN t = P
  BY TupleIs
<1>2. \A i, j \in P : j \in B[i] <=> (t[j] < t[i] \/ (t[j] = t[i] /\ j < i))
  BY <1>1
<1>3. \A i \in P : B[i] \subseteq P
  BY <1>1
<1>4. Source!Ascending(t) = [k \in P |-> t[CHOOSE i \in P : Cardinality(B[i]) = k - 1]]
  <2>1. \A i \in P : B[i] = earlier(i)
    OBVIOUS
  <2>2. Source!Ascending(t) = [k \in DOMAIN t |-> t[CHOOSE i \in DOMAIN t : Cardinality(earlier(i)) = k - 1]]
    BY DEF Source!Ascending, Source!Cardinality, Cardinality
  <2> HIDE DEF B, earlier
  <2>3. \A k \in P : (CHOOSE i \in P : Cardinality(earlier(i)) = k - 1)
                       = (CHOOSE i \in P : Cardinality(B[i]) = k - 1)
    BY <2>1
  <2> DEFINE here(k) == CHOOSE i \in P : Cardinality(earlier(i)) = k - 1
             there(k) == CHOOSE i \in P : Cardinality(B[i]) = k - 1
  <2>4. Source!Ascending(t) = [k \in P |-> t[here(k)]]
    BY <1>1, <2>2
  <2>5. \A k \in P : here(k) = there(k)
    BY <2>3
  <2> HIDE DEF P, here, there
  <2>6. Source!Ascending(t) = [k \in P |-> t[there(k)]]
    BY <2>4, <2>5
  <2> QED BY <2>6 DEF there
<1>5. \A i \in P : t[i] \in Int
  OBVIOUS
<1> HIDE DEF B
<1>6. \A i \in P : i \notin B[i]
  BY <1>2, <1>5
<1>7. ASSUME NEW i \in P, NEW j \in P, j \in B[i] PROVE B[j] \subseteq B[i]
  <2>1. ASSUME NEW x \in B[j] PROVE x \in B[i]
    <3>1. x \in P
      BY <1>3
    <3>2. t[x] < t[j] \/ (t[x] = t[j] /\ x < j)
      BY <1>2, <3>1
    <3>3. t[j] < t[i] \/ (t[j] = t[i] /\ j < i)
      BY <1>2, <1>7
    <3>4. t[x] \in Int /\ t[j] \in Int /\ t[i] \in Int /\ x \in Int /\ j \in Int /\ i \in Int
      BY <1>5, <3>1
    <3>5. t[x] < t[i] \/ (t[x] = t[i] /\ x < i)
      BY <3>2, <3>3, <3>4
    <3> QED BY <1>2, <3>1, <3>5
  <2> QED BY <2>1
<1>8. ASSUME NEW i \in P, NEW j \in P, i # j PROVE i \in B[j] \/ j \in B[i]
  <2>1. t[i] \in Int /\ t[j] \in Int /\ i \in Int /\ j \in Int
    BY <1>5
  <2> QED BY <1>2, <1>8, <2>1
<1>9. IsFiniteSet(P) /\ Cardinality(P) = n
  BY <1>1, FS_Interval
<1> HIDE DEF P
<1>10. /\ \A i \in P : Cardinality(B[i]) \in 0 .. n - 1
       /\ \A i, j \in P : j \in B[i] <=> Cardinality(B[j]) < Cardinality(B[i])
       /\ \A i, j \in P : Cardinality(B[i]) = Cardinality(B[j]) => i = j
       /\ \A k \in 1 .. n : \E i \in P : Cardinality(B[i]) = k - 1
  BY <1>3, <1>6, <1>7, <1>8, <1>9, Ranks
<1>11. ASSUME NEW k \in P PROVE p[k] \in P /\ Cardinality(B[p[k]]) = k - 1
  BY <1>10 DEF P
<1> HIDE DEF p
<1>12. p \in [P -> P]
  BY <1>11 DEF p
<1>13. \A j, k \in P : p[j] = p[k] => j = k
  <2> SUFFICES ASSUME NEW j \in P, NEW k \in P, p[j] = p[k] PROVE j = k
    OBVIOUS
  <2>1. j - 1 = k - 1 /\ j \in Int /\ k \in Int
    BY <1>11 DEF P
  <2> QED BY <2>1
<1>14. ASSUME NEW i \in P PROVE \E k \in P : p[k] = i
  <2> DEFINE k == Cardinality(B[i]) + 1
  <2>1. k \in P /\ Cardinality(B[i]) = k - 1
    <3>1. Cardinality(B[i]) \in 0 .. n - 1
      BY <1>10
    <3> QED BY <1>1, <3>1 DEF P
  <2> HIDE DEF k
  <2>2. p[k] = i
    BY <1>10, <1>11, <2>1
  <2> QED BY <2>1, <2>2
<1>15. Source!Ascending(t) = [k \in P |-> t[p[k]]]
  BY <1>4 DEF p
<1>16. ASSUME NEW j \in P, NEW k \in P, j < k PROVE t[p[j]] <= t[p[k]]
  <2>1. p[j] \in P /\ p[k] \in P /\ Cardinality(B[p[j]]) = j - 1 /\ Cardinality(B[p[k]]) = k - 1
    BY <1>11
  <2>2. j \in Int /\ k \in Int
    BY DEF P
  <2>3. p[j] \in B[p[k]]
    <3>1. j - 1 < k - 1
      BY <1>16, <2>2
    <3>2. Cardinality(B[p[j]]) < Cardinality(B[p[k]])
      BY <2>1, <3>1
    <3>3. \A x, y \in P : Cardinality(B[x]) < Cardinality(B[y]) => x \in B[y]
      BY <1>10
    <3> QED BY <2>1, <3>2, <3>3
  <2>4. t[p[j]] \in Int /\ t[p[k]] \in Int
    BY <1>5, <2>1
  <2> QED BY <1>2, <2>1, <2>3, <2>4
<1> QED BY <1>12, <1>13, <1>14, <1>15, <1>16 DEF P

\* As many rows of a log as can be, if it is a header, rows and at most a close.
IsLog(F, n) ==
  /\ F[1] # "bad" /\ Len(F) > n
  /\ \A i \in 2 .. n + 1 : F[i] > 0
  /\ Len(F) = n + 1 \/ (F[1] = "open" /\ Len(F) = n + 2 /\ F[n + 2] = Source!Close)

LEMMA AcceptedLogs ==
  ASSUME Source!IsRequest("zeek", request), NEW F, Source!IsFile("zeek", "log", F)
  PROVE  \/ Source!ConnLog(F) = Source!Refused /\ \A n \in 0 .. request.rows : ~IsLog(F, n)
         \/ \E n \in 0 .. request.rows : \E t :
              /\ IsLog(F, n) /\ Source!IsTuple(t) /\ Len(t) = n
              /\ \A i \in 1 .. n : t[i] = F[i + 1]
              /\ Source!ConnLog(F) = [status |-> "accepted", rows |-> Source!Ascending(t)]
<1> DEFINE R == request.rows
           body == Tail(F)
           last == Len(body)
           lines == last + (IF F[1] = "open" THEN 8 ELSE 7)
           misplaced(i) == \/ body[i] = Source!Directive
                           \/ body[i] = Source!Close /\ (i # last \/ F[1] # "open")
           closed == body # <<>> /\ Source!Last(body) = Source!Close
           t == IF closed THEN Source!Front(body) ELSE body
           n == IF closed THEN last - 1 ELSE last
           bad == \/ F[1] = "bad" \/ lines > R + 9
                  \/ \E i \in 1 .. last : body[i] = Source!Blank \/ misplaced(i)
                  \/ Source!BadRow \in Source!Range(t) \/ Len(t) > R
<1>1. /\ R \in Nat /\ Source!IsTuple(F) /\ F # <<>>
      /\ \A i \in 2 .. Len(F) : F[i] \in Int /\ F[i] >= -3
  BY DEF Source!IsRequest, Source!IsFile, Source!BadRow
<1>2. /\ Source!IsTuple(body) /\ last = Len(F) - 1 /\ Len(F) >= 1 /\ Len(F) \in Nat /\ last \in Nat
      /\ \A i \in 1 .. last : body[i] = F[i + 1]
  BY <1>1, TailIs, TupleIs
<1>3. Source!ConnLog(F) = IF bad THEN Source!Refused ELSE [status |-> "accepted", rows |-> Source!Ascending(t)]
  BY DEF Source!ConnLog
<1>4. body # <<>> <=> last >= 1
  BY <1>2, TupleIs
<1>5. closed <=> last >= 1 /\ F[last + 1] = -1
  BY <1>2, <1>4 DEF Source!Last, Source!Close
<1>6. /\ n \in Nat /\ Source!IsTuple(t) /\ Len(t) = n /\ n <= last
      /\ \A i \in 1 .. n : t[i] = F[i + 1]
  <2>1. CASE closed
    <3>1. last >= 1 /\ n = last - 1 /\ t = SubSeq(body, 1, last - 1) /\ last - 1 \in Nat
      BY <1>2, <1>4, <2>1 DEF Source!Front
    <3> HIDE DEF t, n, body, last, closed
    <3>2. Source!IsTuple(body) /\ last - 1 <= Len(body)
      BY <1>2 DEF last
    <3>3. /\ Source!IsTuple(t) /\ Len(t) = IF 1 <= last - 1 THEN (last - 1) - 1 + 1 ELSE 0
          /\ \A i \in 1 .. (last - 1) - 1 + 1 : t[i] = body[1 + i - 1]
      BY <3>1, <3>2, SubSeqIs
    <3>4. Len(t) = n
      BY <3>1, <3>3
    <3>5. \A i \in 1 .. n : t[i] = F[i + 1]
      BY <1>2, <3>1, <3>3
    <3> QED BY <1>2, <3>1, <3>3, <3>4, <3>5
  <2>2. CASE ~closed
    BY <1>2, <2>2
  <2> QED BY <2>1, <2>2
<1>7. Source!BadRow \in Source!Range(t) <=> \E i \in 1 .. n : F[i + 1] = -3
  <2>1. DOMAIN t = 1 .. n
    BY <1>6, TupleIs
  <2> HIDE DEF t, n
  <2> QED BY <1>6, <2>1 DEF Source!Range, Source!BadRow
<1>8. bad <=> \/ F[1] = "bad" \/ lines > R + 9 \/ n > R
              \/ \E i \in 1 .. last : \/ F[i + 1] = 0 \/ F[i + 1] = -2
                                      \/ (F[i + 1] = -1 /\ (i # last \/ F[1] # "open"))
              \/ \E i \in 1 .. n : F[i + 1] = -3
  <2>1. \A i \in 1 .. last : body[i] = Source!Blank \/ misplaced(i) <=>
          \/ F[i + 1] = 0 \/ F[i + 1] = -2 \/ (F[i + 1] = -1 /\ (i # last \/ F[1] # "open"))
    <3> HIDE DEF body, last
    <3> QED BY <1>2 DEF Source!Blank, Source!Directive, Source!Close
  <2> HIDE DEF t, n, last, body, lines, misplaced
  <2> QED BY <1>6, <1>7, <2>1
<1> DEFINE ended == n # last
<1>9. /\ ended <=> last >= 1 /\ F[last + 1] = -1
      /\ n = IF ended THEN last - 1 ELSE last
  <2> HIDE DEF closed, last
  <2> QED BY <1>2, <1>5
<1> HIDE DEF body, last, t, n, closed, bad, ended, misplaced
<1>10. \A i \in 1 .. last : F[i + 1] \in Int /\ F[i + 1] >= -3
  BY <1>1, <1>2
<1>11. ASSUME ~bad PROVE n <= R /\ IsLog(F, n)
  <2>1. F[1] # "bad" /\ n <= R /\ Len(F) > n /\ last <= R + 2
    BY <1>1, <1>2, <1>6, <1>8, <1>11
  <2>2. ASSUME NEW i \in 2 .. n + 1 PROVE F[i] > 0
    <3>1. PICK j \in 1 .. n : i = j + 1
      BY <1>6
    <3>2. j \in 1 .. last /\ F[j + 1] \in Int /\ F[j + 1] >= -3
      BY <1>2, <1>6, <1>10
    <3>3. F[j + 1] # 0 /\ F[j + 1] # -2 /\ F[j + 1] # -3
      BY <1>8, <1>11, <3>2
    <3>4. F[j + 1] # -1
      <4>1. ASSUME F[j + 1] = -1 PROVE FALSE
        <5>1. j = last
          BY <1>8, <1>11, <3>2, <4>1
        <5>2. ended /\ n = last - 1
          BY <1>2, <1>9, <3>2, <4>1, <5>1
        <5> QED BY <1>2, <5>1, <5>2
      <4> QED BY <4>1
    <3> QED BY <3>1, <3>2, <3>3, <3>4
  <2>3. CASE ended
    <3>1. last >= 1 /\ F[last + 1] = -1 /\ n = last - 1 /\ last \in 1 .. last
      BY <1>2, <1>9, <2>3
    <3>2. F[1] = "open"
      BY <1>8, <1>11, <3>1
    <3>3. Len(F) = n + 2 /\ F[n + 2] = Source!Close
      <4>1. n + 2 = last + 1
        BY <1>2, <3>1
      <4> QED BY <1>2, <3>1, <4>1 DEF Source!Close
    <3> QED BY <2>1, <2>2, <3>2, <3>3 DEF IsLog
  <2>4. CASE ~ended
    <3>1. Len(F) = n + 1
      BY <1>2, <1>9, <2>4
    <3> QED BY <2>1, <2>2, <3>1 DEF IsLog
  <2> QED BY <2>3, <2>4
<1>12. ASSUME NEW k \in 0 .. R, IsLog(F, k) PROVE ~bad
  <2>1. F[1] # "bad" /\ \A i \in 2 .. k + 1 : F[i] > 0
    BY <1>12 DEF IsLog
  <2>2. n = k /\ (last = k \/ (last = k + 1 /\ F[1] = "open" /\ F[last + 1] = -1))
    <3>1. CASE Len(F) = k + 1
      <4>1. last = k
        BY <1>2, <3>1
      <4>2. ~ended
        <5>1. ASSUME last >= 1, F[last + 1] = -1 PROVE FALSE
          <6>1. last + 1 \in 2 .. k + 1
            BY <4>1, <5>1
          <6> QED BY <2>1, <5>1, <6>1
        <5> QED BY <1>9, <5>1
      <4> QED BY <1>9, <4>1, <4>2
    <3>2. CASE F[1] = "open" /\ Len(F) = k + 2 /\ F[k + 2] = Source!Close
      <4>1. last = k + 1 /\ k + 2 = last + 1
        BY <1>2, <3>2
      <4>2. F[last + 1] = -1
        BY <3>2, <4>1 DEF Source!Close
      <4>3. ended
        BY <1>9, <4>1, <4>2
      <4> QED BY <1>9, <3>2, <4>1, <4>2, <4>3
    <3> QED BY <1>12, <3>1, <3>2 DEF IsLog
  <2>3. \A i \in 1 .. k : F[i + 1] > 0
    BY <2>1
  <2>4. ~(lines > R + 9)
    BY <1>1, <2>2
  <2>5. ASSUME NEW i \in 1 .. last
        PROVE  ~(\/ F[i + 1] = 0 \/ F[i + 1] = -2
                 \/ (F[i + 1] = -1 /\ (i # last \/ F[1] # "open")))
    <3>1. CASE i \in 1 .. k
      BY <2>3, <3>1
    <3>2. CASE i \notin 1 .. k
      <4>1. i = last /\ F[1] = "open" /\ F[i + 1] = -1
        BY <1>2, <2>2, <3>2
      <4> QED BY <4>1
    <3> QED BY <3>1, <3>2
  <2>6. \A i \in 1 .. n : F[i + 1] # -3
    BY <2>2, <2>3
  <2>7. ~(n > R)
    BY <1>1, <2>2
  <2> QED BY <1>8, <2>1, <2>4, <2>5, <2>6, <2>7
<1>13. CASE bad
  BY <1>3, <1>12, <1>13
<1>14. CASE ~bad
  <2>1. n \in 0 .. R
    BY <1>1, <1>6, <1>11, <1>14
  <2> QED BY <1>3, <1>6, <1>11, <1>14, <2>1
<1> QED BY <1>13, <1>14

LEMMA ConnLogIsOfLog ==
  ASSUME Source!IsRequest("zeek", request), NEW s, Source!IsFile("zeek", "log", s["log"])
  PROVE  Source!ConnLog(s["log"]) = Source!LogOf(s)
<1> DEFINE F == s["log"]
           R == request.rows
           accepted == \E n \in 0 .. R :
             /\ F # <<>> /\ F[1] # "bad" /\ Len(F) > n
             /\ \A i \in 2 .. n + 1 : F[i] > 0
             /\ Len(F) = n + 1 \/ (F[1] = "open" /\ Len(F) = n + 2 /\ F[n + 2] = Source!Close)
           rows == {i \in 2 .. Len(F) : F[i] > 0}
           V == {F[i] : i \in rows}
           sorted(r) == /\ \A i \in 2 .. Len(r) : r[i - 1] <= r[i]
                        /\ \A v \in {F[i] : i \in rows} :
                             Cardinality({i \in DOMAIN r : r[i] <= v})
                               = Cardinality({i \in rows : F[i] <= v})
<1>1. Source!LogOf(s) = IF ~accepted THEN Source!Refused
                        ELSE [status |-> "accepted", rows |->
                                CHOOSE r \in [1 .. Cardinality(rows) -> V] : sorted(r)]
  BY DEF Source!LogOf, Source!Cardinality, Cardinality
<1>2. F # <<>> /\ \A i \in 2 .. Len(F) : F[i] \in Int
  BY DEF Source!IsFile
<1>3. accepted <=> \E n \in 0 .. R : IsLog(F, n)
  BY <1>2 DEF IsLog
<1> HIDE DEF accepted
<1>4. CASE Source!ConnLog(F) = Source!Refused /\ \A n \in 0 .. R : ~IsLog(F, n)
  BY <1>1, <1>3, <1>4
<1>5. CASE \E n \in 0 .. R : \E t :
             /\ IsLog(F, n) /\ Source!IsTuple(t) /\ Len(t) = n
             /\ \A i \in 1 .. n : t[i] = F[i + 1]
             /\ Source!ConnLog(F) = [status |-> "accepted", rows |-> Source!Ascending(t)]
  <2>1. PICK n \in 0 .. R : \E t :
             /\ IsLog(F, n) /\ Source!IsTuple(t) /\ Len(t) = n
             /\ \A i \in 1 .. n : t[i] = F[i + 1]
             /\ Source!ConnLog(F) = [status |-> "accepted", rows |-> Source!Ascending(t)]
    BY <1>5
  <2>2. PICK t : /\ IsLog(F, n) /\ Source!IsTuple(t) /\ Len(t) = n
                 /\ \A i \in 1 .. n : t[i] = F[i + 1]
                 /\ Source!ConnLog(F) = [status |-> "accepted", rows |-> Source!Ascending(t)]
    BY <2>1
  <2>3. n \in Nat /\ accepted
    BY <1>3, <2>1, <2>2 DEF Source!IsRequest
  <2>4. rows = 2 .. n + 1
    <3>1. Len(F) = n + 1 \/ (Len(F) = n + 2 /\ ~(F[n + 2] > 0))
      BY <2>2 DEF IsLog, Source!Close
    <3>2. \A i \in 2 .. n + 1 : F[i] > 0
      BY <2>2 DEF IsLog
    <3> QED BY <2>3, <3>1, <3>2
  <2>5. \A i \in 1 .. n : i + 1 \in rows /\ t[i] = F[i + 1] /\ t[i] \in Int
    <3>1. \A i \in 1 .. n : i + 1 \in 2 .. Len(F)
      BY <2>3, <2>4
    <3>2. \A i \in 1 .. n : i + 1 \in rows
      BY <2>3, <2>4
    <3>3. \A i \in 1 .. n : F[i + 1] \in Int
      BY <1>2, <3>1
    <3>4. \A i \in 1 .. n : t[i] = F[i + 1]
      BY <2>2
    <3> HIDE DEF F, rows
    <3> QED BY <3>2, <3>3, <3>4
  <2>6. Cardinality(rows) = n /\ IsFiniteSet(rows)
    <3>1. 2 \in Int /\ n + 1 \in Int
      BY <2>3
    <3>2. IsFiniteSet(2 .. n + 1) /\ Cardinality(2 .. n + 1) = IF 2 > n + 1 THEN 0 ELSE n + 1 - 2 + 1
      BY <3>1, FS_Interval
    <3> HIDE DEF rows
    <3> QED BY <2>3, <2>4, <3>2
  <2>7. V \subseteq Int /\ \A i \in rows : F[i] \in V
    <3>1. rows \subseteq 2 .. Len(F)
      OBVIOUS
    <3> HIDE DEF rows
    <3> QED BY <1>2, <3>1
  <2> HIDE DEF F, rows
  <2>8. PICK p \in [1 .. n -> 1 .. n] :
           /\ \A j, k \in 1 .. n : p[j] = p[k] => j = k
           /\ \A i \in 1 .. n : \E k \in 1 .. n : p[k] = i
           /\ Source!Ascending(t) = [k \in 1 .. n |-> t[p[k]]]
           /\ \A j, k \in 1 .. n : j < k => t[p[j]] <= t[p[k]]
    <3>1. \A i \in 1 .. Len(t) : t[i] \in Int
      BY <2>2, <2>5
    <3>2. \E p \in [1 .. Len(t) -> 1 .. Len(t)] :
           /\ \A j, k \in 1 .. Len(t) : p[j] = p[k] => j = k
           /\ \A i \in 1 .. Len(t) : \E k \in 1 .. Len(t) : p[k] = i
           /\ Source!Ascending(t) = [k \in 1 .. Len(t) |-> t[p[k]]]
           /\ \A j, k \in 1 .. Len(t) : j < k => t[p[j]] <= t[p[k]]
      BY <2>2, <3>1, AscendingIs
    <3>3. Len(t) = n
      BY <2>2
    <3> QED BY ONLY <3>2, <3>3
  <2> DEFINE q == Source!Ascending(t)
  <2>9. \A k \in 1 .. n : p[k] \in 1 .. n /\ q[k] = t[p[k]] /\ q[k] = F[p[k] + 1]
    <3>1. \A k \in 1 .. n : p[k] \in 1 .. n /\ q[k] = t[p[k]]
      BY <2>8
    <3> HIDE DEF q
    <3> QED BY <2>5, <3>1
  <2>10. q \in [1 .. n -> V]
    <3>1. q = [k \in 1 .. n |-> q[k]]
      BY <2>8, <2>9
    <3>2. \A k \in 1 .. n : q[k] \in V
      BY <2>5, <2>7, <2>9
    <3> HIDE DEF q, V
    <3> QED BY <3>1, <3>2, Zenon
  <2>11. \A i \in 2 .. n : q[i - 1] <= q[i]
    <3> SUFFICES ASSUME NEW i \in 2 .. n PROVE q[i - 1] <= q[i]
      OBVIOUS
    <3>1. i \in 1 .. n /\ i - 1 \in 1 .. n /\ i - 1 < i
      BY <2>3
    <3> QED BY <2>8, <2>9, <3>1
  <2> HIDE DEF q
  <2>12. ASSUME NEW v \in V
         PROVE  Cardinality(UpTo(q, n, v)) = Cardinality({i \in rows : F[i] <= v})
    <3> DEFINE S == UpTo(q, n, v)
               T == {i \in rows : F[i] <= v}
               f == [k \in S |-> p[k] + 1]
    <3>1. S \subseteq 1 .. n /\ \A k \in 1 .. n : k \in S <=> q[k] <= v
      BY DEF UpTo
    <3>2. IsFiniteSet(S)
      <4>1. IsFiniteSet(1 .. n)
        BY <2>3, FS_Interval
      <4> QED BY <3>1, <4>1, FS_Subset
    <3> HIDE DEF S
    <3>3. f \in [S -> T]
      <4>1. ASSUME NEW k \in S PROVE p[k] + 1 \in T
        <5>1. k \in 1 .. n /\ q[k] <= v
          BY <3>1
        <5> QED BY <2>5, <2>9, <5>1
      <4> HIDE DEF T
      <4> QED BY <4>1
    <3>4. ASSUME NEW x \in S, NEW y \in S, f[x] = f[y] PROVE x = y
      <4>1. x \in 1 .. n /\ y \in 1 .. n /\ p[x] + 1 = p[y] + 1
        BY <3>1, <3>4
      <4>2. p[x] \in Int /\ p[y] \in Int
        BY <2>9, <4>1
      <4> QED BY <2>8, <4>1, <4>2
    <3>5. ASSUME NEW i \in T PROVE \E x \in S : f[x] = i
      <4>1. i \in 2 .. n + 1 /\ F[i] <= v
        BY <2>4
      <4>2. PICK k \in 1 .. n : p[k] = i - 1
        BY <2>3, <2>8, <4>1
      <4>3. p[k] + 1 = i /\ q[k] = F[i]
        <5>1. p[k] + 1 = i
          BY <4>1, <4>2
        <5>2. q[k] = F[p[k] + 1]
          BY <2>9
        <5> QED BY <5>1, <5>2
      <4> QED BY <3>1, <4>1, <4>3
    <3> HIDE DEF T, f
    <3>6. Cardinality(T) = Cardinality(S)
      BY <3>2, <3>3, <3>4, <3>5, OneToOne
    <3> QED BY <3>6 DEF S, T
  <2>13. ASSUME NEW r \in [1 .. n -> V]
         PROVE  sorted(r) <=> /\ \A i \in 2 .. n : r[i - 1] <= r[i]
                              /\ \A v \in V : Cardinality(UpTo(r, n, v))
                                                = Cardinality({i \in rows : F[i] <= v})
    <3>1. DOMAIN r = 1 .. n /\ Len(r) = n
      <4>1. r = [i \in 1 .. n |-> r[i]]
        OBVIOUS
      <4> QED BY <2>3, <4>1, FunctionIsTuple
    <3>2. \A v \in V : UpTo(r, n, v) = {i \in DOMAIN r : r[i] <= v}
      BY <3>1 DEF UpTo
    <3> QED BY <3>1, <3>2
  <2> HIDE DEF sorted, V
  <2>14. sorted(q)
    BY <2>10, <2>11, <2>12, <2>13
  <2>15. ASSUME NEW r \in [1 .. n -> V], sorted(r) PROVE r = q
    <3>1. \A i \in 2 .. n : r[i - 1] <= r[i]
      BY <2>13, <2>15
    <3>2. \A v \in V : Cardinality(UpTo(q, n, v)) = Cardinality(UpTo(r, n, v))
      BY <2>12, <2>13, <2>15
    <3>3. Sorted(q, n, V) /\ Sorted(r, n, V)
      BY <2>10, <2>11, <3>1 DEF Sorted
    <3>4. V \subseteq Int /\ n \in Nat
      BY <2>3, <2>7
    <3>5. SameCounts(q, r, n, V)
      BY <3>2 DEF SameCounts
    <3> QED BY <3>3, <3>4, <3>5, SortedByCounts
  <2>16. (CHOOSE r \in [1 .. n -> V] : sorted(r)) = q
    BY <2>10, <2>14, <2>15
  <2>17. Source!LogOf(s) = [status |-> "accepted", rows |-> q]
    BY <1>1, <2>3, <2>6, <2>16
  <2> QED BY <2>2, <2>17 DEF q, F
<1>6. \/ Source!ConnLog(F) = Source!Refused /\ \A n \in 0 .. R : ~IsLog(F, n)
      \/ \E n \in 0 .. R : \E t :
             /\ IsLog(F, n) /\ Source!IsTuple(t) /\ Len(t) = n
             /\ \A i \in 1 .. n : t[i] = F[i + 1]
             /\ Source!ConnLog(F) = [status |-> "accepted", rows |-> Source!Ascending(t)]
  BY AcceptedLogs
<1> QED BY <1>4, <1>5, <1>6

-----------------------------------------------------------------------------
(* The rows of a file that are wanted.                                     *)

\* Cells that are those of a file in some order-preserving place are picked from it.
Placed(g, q, T, W) ==
  /\ \A k \in 1 .. q : g[k] \in Int
  /\ Rising(g, q) /\ T \subseteq 1 .. q
  /\ \A k \in T : g[k] \in W
  /\ \A i \in W : \E k \in T : g[k] = i

\* The cells of t are those of c that g places.
Through(t, c, g, q) == \A k \in 1 .. q : t[k] = c[g[k]]

LEMMA PickedThrough ==
  ASSUME NEW q, q \in Nat, NEW g, NEW T, NEW W, Placed(g, q, T, W),
         NEW c, NEW t, Through(t, c, g, q)
  PROVE  /\ Source!Picked(t, T) = Source!Picked(c, W) /\ Cardinality(T) = Cardinality(W)
         /\ IsFiniteSet(T) /\ T \subseteq Int
<1> DEFINE n == Cardinality(T)
           e == Source!InOrder(T)
           h == [l \in 1 .. n |-> g[e[l]]]
<1>1. /\ \A k \in 1 .. q : g[k] \in Int
      /\ Rising(g, q) /\ T \subseteq 1 .. q
      /\ \A k \in T : g[k] \in W
      /\ \A i \in W : \E k \in T : g[k] = i
  BY DEF Placed
<1>2. IsFiniteSet(T) /\ T \subseteq Int /\ W \subseteq Int
  <2>1. IsFiniteSet(1 .. q) /\ T \in SUBSET (1 .. q)
    BY <1>1, FS_Interval
  <2>2. IsFiniteSet(T)
    BY <2>1, FS_Subset
  <2>3. W \subseteq Int
    BY <1>1
  <2> QED BY <1>1, <2>2, <2>3
<1>3. /\ n \in Nat /\ e \in [1 .. n -> T] /\ Rising(e, n)
      /\ \A i \in T : \E l \in 1 .. n : e[l] = i
  BY <1>2, EnumerationOf
<1>4. Source!Picked(t, T) = [l \in 1 .. n |-> t[e[l]]]
  BY PickIs
<1> HIDE DEF n, e
<1>5. \A l \in 1 .. n : e[l] \in T /\ e[l] \in 1 .. q
  BY <1>1, <1>3
<1>6. h \in [1 .. n -> W]
  BY <1>1, <1>5
<1>7. Rising(h, n)
  <2> SUFFICES ASSUME NEW j \in 1 .. n, NEW l \in 1 .. n, j < l PROVE h[j] < h[l]
    BY DEF Rising
  <2>1. e[j] < e[l]
    BY <1>3 DEF Rising
  <2> QED BY <1>1, <1>5, <2>1 DEF Rising
<1>8. ASSUME NEW i \in W PROVE \E l \in 1 .. n : h[l] = i
  <2>1. PICK k \in T : g[k] = i
    BY <1>1
  <2>2. PICK l \in 1 .. n : e[l] = k
    BY <1>3
  <2> QED BY <2>1, <2>2
<1>9. \A l \in 1 .. n : t[e[l]] = c[h[l]]
  BY <1>5 DEF Through
<1> HIDE DEF h
<1>10. Cardinality(W) = n /\ Source!InOrder(W) = h
  <2>1. Enumerates(h, n, W)
    BY <1>2, <1>3, <1>6, <1>7, <1>8 DEF Enumerates
  <2> QED BY <2>1, EnumerationIs
<1>11. Source!Picked(c, W) = [l \in 1 .. n |-> c[h[l]]]
  BY <1>10, PickIs
<1>12. Source!Picked(t, T) = Source!Picked(c, W)
  BY <1>4, <1>9, <1>11
<1> QED BY <1>2, <1>10, <1>12 DEF n

\* The cells of c at the positions S, one after the other.
Gathers(r, c, S) ==
  /\ Source!IsTuple(r) /\ Len(r) = Cardinality(S) /\ Cardinality(S) \in Nat
  /\ \A i \in S : \E k \in 1 .. Cardinality(S) : r[k] = c[i]
  /\ \A k \in 1 .. Cardinality(S) : Source!InOrder(S)[k] \in S /\ r[k] = c[Source!InOrder(S)[k]]

LEMMA PickedIs ==
  ASSUME NEW c, NEW S, S \subseteq Int, IsFiniteSet(S)
  PROVE  /\ Gathers(Source!Picked(c, S), c, S)
         /\ Source!IsTuple(Source!Picked(c, S)) /\ Len(Source!Picked(c, S)) = Cardinality(S)
         /\ Cardinality(S) \in Nat
<1> DEFINE n == Cardinality(S)
<1>1. /\ n \in Nat /\ Source!InOrder(S) \in [1 .. n -> S]
      /\ \A i \in S : \E k \in 1 .. n : Source!InOrder(S)[k] = i
  BY EnumerationOf
<1>2. Source!Picked(c, S) = [k \in 1 .. n |-> c[Source!InOrder(S)[k]]]
  BY PickIs
<1> HIDE DEF n
<1>3. \A k \in 1 .. n : Source!InOrder(S)[k] \in S /\ Source!Picked(c, S)[k] = c[Source!InOrder(S)[k]]
  BY <1>1, <1>2
<1>4. Source!Picked(c, S) = [k \in 1 .. n |-> Source!Picked(c, S)[k]]
  BY <1>2, <1>3
<1>5. Source!IsTuple(Source!Picked(c, S)) /\ Len(Source!Picked(c, S)) = n
  BY <1>1, <1>4, FunctionIsTuple
<1>6. ASSUME NEW i \in S PROVE \E k \in 1 .. n : Source!Picked(c, S)[k] = c[i]
  BY <1>1, <1>3
<1> QED BY <1>1, <1>3, <1>5, <1>6 DEF n, Gathers

LEMMA DetectionsAreOfFile ==
  ASSUME Source!IsRequest("sdr4iot", request), NEW s, Source!IsFile("sdr4iot", "csv", s["csv"])
  PROVE  Source!Detections(s["csv"]) = Source!DetectionsOf(s)
<1> DEFINE c == s["csv"]
           R == request.rows
           body == Tail(c)
           S == {i \in DOMAIN body : body[i] # Source!Blank}
           T == {i \in 2 .. Len(c) : c[i] > 0}
           rows == Source!Picked(body, S)
           amiss == \E i \in 2 .. Len(c) : c[i] < 0
<1>1. /\ R \in Nat /\ Source!IsTuple(c) /\ c # <<>> /\ Len(c) \in Nat
      /\ \A i \in 2 .. Len(c) : c[i] \in Int /\ c[i] >= -3
  BY TupleIs DEF Source!IsRequest, Source!IsFile, Source!BadRow
<1>2. /\ Source!IsTuple(body) /\ DOMAIN body = 1 .. Len(c) - 1
      /\ \A i \in 1 .. Len(c) - 1 : body[i] = c[i + 1]
  BY <1>1, TailIs, TupleIs
<1>3. Source!Detections(c) =
               IF c[1] = "bad" \/ Len(rows) > R \/ Source!Range(rows) \cap {Source!BadRow, Source!Directive, Source!Close} # {}
               THEN Source!Refused ELSE [status |-> "accepted", rows |-> rows, of |-> c]
  BY DEF Source!Detections
<1>4. Source!DetectionsOf(s) =
        IF c[1] = "bad" \/ Cardinality(T) > R \/ amiss
        THEN Source!Refused ELSE [status |-> "accepted", rows |-> Source!Picked(c, T), of |-> c]
  BY <1>1, SourceCount DEF Source!DetectionsOf
<1>5. S \subseteq 1 .. Len(c) - 1 /\ \A i \in 1 .. Len(c) - 1 : i \in S <=> c[i + 1] # 0
  BY <1>2 DEF Source!Blank
<1> HIDE DEF S, body, c
<1>6. IsFiniteSet(S) /\ S \subseteq Int
  <2>0. Len(c) - 1 \in Int /\ 1 \in Int
    BY <1>1
  <2>1. IsFiniteSet(1 .. Len(c) - 1) /\ S \in SUBSET (1 .. Len(c) - 1)
    BY <1>5, <2>0, FS_Interval
  <2>2. IsFiniteSet(S)
    BY <2>1, FS_Subset
  <2> QED BY <1>5, <2>2
<1>7. /\ Source!IsTuple(rows) /\ Len(rows) = Cardinality(S) /\ Cardinality(S) \in Nat
      /\ \A i \in S : \E k \in 1 .. Cardinality(S) : rows[k] = body[i]
      /\ \A k \in 1 .. Cardinality(S) : Source!InOrder(S)[k] \in S /\ rows[k] = body[Source!InOrder(S)[k]]
  <2>1. IsFiniteSet(S) /\ S \subseteq Int
    BY <1>6
  <2>2. Gathers(rows, body, S)
    BY <2>1, PickedIs
  <2> HIDE DEF rows
  <2> QED BY <2>2 DEF Gathers
<1> HIDE DEF rows
<1>8. Source!Range(rows) \cap {Source!BadRow, Source!Directive, Source!Close} # {} <=> amiss
  <2>1. DOMAIN rows = 1 .. Cardinality(S)
    BY <1>7, TupleIs
  <2>2. ASSUME Source!Range(rows) \cap {Source!BadRow, Source!Directive, Source!Close} # {} PROVE amiss
    <3>1. PICK x : x \in Source!Range(rows) /\ x \in {-1, -2, -3}
      BY <2>2 DEF Source!BadRow, Source!Directive, Source!Close
    <3>2. PICK k \in 1 .. Cardinality(S) : rows[k] = x
      BY <2>1, <3>1 DEF Source!Range
    <3>3. PICK i \in S : x = body[i]
      BY <1>7, <3>2
    <3>4. i \in 1 .. Len(c) - 1 /\ c[i + 1] = x
      BY <1>2, <1>5, <3>3
    <3>5. i + 1 \in 2 .. Len(c) /\ c[i + 1] < 0
      BY <1>1, <3>1, <3>4
    <3> QED BY <3>5
  <2>3. ASSUME NEW i \in 2 .. Len(c), c[i] < 0
        PROVE  Source!Range(rows) \cap {Source!BadRow, Source!Directive, Source!Close} # {}
    <3>1. i - 1 \in 1 .. Len(c) - 1 /\ (i - 1) + 1 = i
      BY <1>1
    <3>2. i - 1 \in S /\ body[i - 1] = c[i]
      BY <1>2, <1>5, <2>3, <3>1
    <3>3. PICK k \in 1 .. Cardinality(S) : rows[k] = c[i]
      BY <1>7, <3>2
    <3>4. c[i] \in Source!Range(rows)
      BY <2>1, <3>3 DEF Source!Range
    <3>5. c[i] = -1 \/ c[i] = -2 \/ c[i] = -3
      BY <1>1, <2>3
    <3> QED BY <3>4, <3>5 DEF Source!BadRow, Source!Directive, Source!Close
  <2> QED BY <2>2, <2>3
<1>9. ASSUME ~amiss PROVE rows = Source!Picked(c, T) /\ Cardinality(S) = Cardinality(T)
  <2>1. ASSUME NEW i \in 2 .. Len(c) PROVE i \in T <=> i - 1 \in S
    <3>1. i - 1 \in 1 .. Len(c) - 1 /\ (i - 1) + 1 = i
      BY <1>1
    <3>2. c[i] \in Int /\ ~(c[i] < 0)
      BY <1>1, <1>9
    <3>3. i - 1 \in S <=> c[i] # 0
      BY <1>5, <3>1
    <3> QED BY <3>2, <3>3
  <2>2. T \subseteq 2 .. Len(c)
    OBVIOUS
  <2> HIDE DEF T
  <2> DEFINE q == Len(c) - 1
             g == [k \in 1 .. q |-> k + 1]
  <2>3. q \in Nat /\ \A k \in 1 .. q : body[k] = c[g[k]]
    BY <1>1, <1>2, TailIs
  <2>4. Placed(g, q, S, T)
    <3>1. ASSUME NEW k \in S PROVE g[k] \in T
      <4>1. k \in 1 .. q /\ k + 1 \in 2 .. Len(c) /\ (k + 1) - 1 = k
        BY <1>1, <1>5
      <4> QED BY <2>1, <4>1
    <3>2. ASSUME NEW i \in T PROVE \E k \in S : g[k] = i
      <4>1. i \in 2 .. Len(c)
        BY <2>2
      <4>2. i - 1 \in S /\ i - 1 \in 1 .. q /\ (i - 1) + 1 = i
        BY <1>1, <2>1, <4>1
      <4> QED BY <4>2
    <3>3. /\ \A k \in 1 .. q : g[k] \in Int
          /\ \A j, k \in 1 .. q : j < k => g[j] < g[k]
      OBVIOUS
    <3> HIDE DEF g
    <3> QED BY <1>5, <3>1, <3>2, <3>3 DEF Placed, Rising
  <2> HIDE DEF q, g
  <2>5. Source!Picked(body, S) = Source!Picked(c, T) /\ Cardinality(S) = Cardinality(T)
    <3>1. Through(body, c, g, q)
      BY <2>3 DEF Through
    <3>2. q \in Nat
      BY <2>3
    <3> HIDE DEF S, body, c, R, amiss
    <3> QED BY <2>4, <3>1, <3>2, PickedThrough
  <2> QED BY <2>5 DEF rows
<1> HIDE DEF T, amiss
<1>10. CASE amiss
  BY <1>3, <1>4, <1>8, <1>10 DEF c
<1>11. CASE ~amiss
  <2>1. Source!Detections(c) = Source!DetectionsOf(s)
    BY <1>3, <1>4, <1>7, <1>8, <1>9, <1>11
  <2> QED BY <2>1 DEF c
<1> QED BY <1>10, <1>11

LEMMA MoreThanOne ==
  ASSUME NEW S, IsFiniteSet(S)
  PROVE  Cardinality(S) > 1 <=> \E x, y \in S : x # y
<1>1. Cardinality(S) \in Nat /\ (Cardinality(S) = 0 <=> S = {})
  BY FS_CardinalityType, FS_EmptySet
<1>2. Cardinality(S) = 1 <=> \E x : S = {x}
  BY FS_Singleton
<1>3. (\E x, y \in S : x # y) => S # {} /\ ~(\E x : S = {x})
  OBVIOUS
<1>4. ASSUME S # {}, ~(\E x : S = {x}) PROVE \E x, y \in S : x # y
  <2>1. PICK x : x \in S
    BY <1>4
  <2>2. S # {x}
    BY <1>4
  <2> QED BY <2>1, <2>2
<1>5. (\E x, y \in S : x # y) <=> Cardinality(S) # 0 /\ Cardinality(S) # 1
  BY <1>1, <1>2, <1>3, <1>4
<1> QED BY <1>1, <1>5

\* The first of the positions in a set, so many as are asked for.
LEMMA FirstOf ==
  ASSUME NEW g, NEW m, NEW W, Enumerates(g, m, W), NEW R \in Nat, NEW q, q = Source!Least(m, R)
  PROVE  /\ q \in Nat /\ q <= m
         /\ \A k \in 1 .. m : Cardinality(Below(W, g[k])) < R <=> k <= q
<1>1. m \in Nat
  BY DEF Enumerates
<1>2. q \in Nat /\ q <= m /\ \A k \in 1 .. m : k - 1 < R <=> k <= q
  BY <1>1 DEF Source!Least
<1>3. \A k \in 1 .. m : Cardinality(Below(W, g[k])) = k - 1
  BY EnumerationIs
<1> QED BY <1>2, <1>3

LEMMA PacketsAreOfFile ==
  ASSUME Source!IsRequest("kismet", request), NEW s, Source!IsFile("kismet", "db", s["db"])
  PROVE  Source!Packets(s["db"]) = Source!PacketsOf(s)
<1> DEFINE db == s["db"]
           R == request.rows
           last == Len(db) - 1
           rows == Tail(db)
           sources == {rows[i].source : i \in DOMAIN rows}
           M == {i \in DOMAIN rows : request.source \in {"any", rows[i].source}}
           chosen == Source!Picked(rows, M)
           taken == SubSeq(chosen, 1, Source!Least(Len(chosen), R))
           T(m) == {i \in DOMAIN taken : taken[i].mark = m}
           marked(m) == Source!Picked(taken, T(m))
           all == 2 .. Len(db)
           mine == {i \in all : request.source \in {"any", db[i].source}}
           first == {i \in mine : Cardinality({j \in mine : j < i}) < R}
           W(m) == {i \in first : db[i].mark = m}
<1>1. /\ Source!Packets(db) =
                  IF \/ db[1].version \notin {9, 10}
                     \/ request.source = "any" /\ Cardinality(sources) > 1
                     \/ marked("invalid") # <<>>
                  THEN Source!Refused
                  ELSE [status |-> "accepted", of |-> db, packets |-> marked("good"),
                        quarantines |-> marked("error"),
                        complete |-> Len(chosen) <= R /\ marked("error") = <<>>]
      /\ Source!PacketsOf(s) =
           IF \/ db = <<>> \/ db[1].version \notin {9, 10} \/ W("invalid") # {}
              \/ request.source = "any" /\ \E i, j \in all : db[i].source # db[j].source
           THEN Source!Refused
           ELSE [status |-> "accepted", of |-> db, packets |-> Source!Picked(db, W("good")),
                 quarantines |-> Source!Picked(db, W("error")), complete |-> W("good") = mine]
  BY SourceCount, Zenon DEF Source!Packets, Source!PacketsOf
<1>2. /\ R \in Nat /\ Source!IsTuple(db) /\ db # <<>>
      /\ \A i \in all : db[i].mark \in {"good", "error", "invalid"}
  BY DEF Source!IsRequest, Source!IsFile
<1>3. /\ Source!IsTuple(rows) /\ DOMAIN rows = 1 .. last /\ last \in Nat
      /\ all = 2 .. last + 1 /\ \A i \in 1 .. last : rows[i] = db[i + 1]
  BY <1>2, TailIs, TupleIs
<1> HIDE DEF db, rows, last, all
<1>4. Cardinality(sources) > 1 <=> \E i, j \in all : db[i].source # db[j].source
  <2> DEFINE f == [i \in 1 .. last |-> rows[i].source]
  <2>1. f \in Surjection(1 .. last, sources)
    BY <1>3 DEF Surjection
  <2>2. IsFiniteSet(1 .. last)
    BY <1>3, FS_Interval
  <2>3. IsFiniteSet(sources)
    BY <2>1, <2>2, FS_Surjection
  <2>4. \A i \in 1 .. last : rows[i].source \in sources
    BY <1>3
  <2>5. \A x \in sources : \E i \in 1 .. last : x = rows[i].source
    BY <1>3
  <2> HIDE DEF sources, f
  <2>6. Cardinality(sources) > 1 <=> \E x, y \in sources : x # y
    BY <2>3, MoreThanOne
  <2>7. ASSUME NEW x \in sources, NEW y \in sources, x # y
        PROVE  \E i, j \in all : db[i].source # db[j].source
    <3>1. PICK i \in 1 .. last : x = rows[i].source
      BY <2>5
    <3>2. PICK j \in 1 .. last : y = rows[j].source
      BY <2>5
    <3>3. i + 1 \in all /\ j + 1 \in all /\ db[i + 1].source # db[j + 1].source
      BY <1>3, <2>7, <3>1, <3>2
    <3> QED BY <3>3
  <2>8. ASSUME NEW i \in all, NEW j \in all, db[i].source # db[j].source
        PROVE  \E x, y \in sources : x # y
    <3>1. /\ i - 1 \in 1 .. last /\ rows[i - 1] = db[(i - 1) + 1] /\ (i - 1) + 1 = i
          /\ j - 1 \in 1 .. last /\ rows[j - 1] = db[(j - 1) + 1] /\ (j - 1) + 1 = j
      BY <1>3
    <3>2. rows[i - 1].source # rows[j - 1].source
      BY <2>8, <3>1
    <3> QED BY <2>4, <3>1, <3>2
  <2> QED BY <2>6, <2>7, <2>8
<1> DEFINE e == Source!InOrder(M)
           m0 == Cardinality(M)
           g == [k \in 1 .. m0 |-> e[k] + 1]
           q == Source!Least(m0, R)
<1>5. M \subseteq 1 .. last /\ \A i \in 1 .. last : i \in M <=> i + 1 \in mine
  <2>1. \A i \in 1 .. last : i + 1 \in all
    BY <1>3
  <2> QED BY <1>3, <2>1
<1>6. mine \subseteq all /\ \A i \in mine : i \in Int /\ i - 1 \in M
  <2>1. mine \subseteq all /\ \A i \in all : i \in Int /\ i - 1 \in 1 .. last /\ (i - 1) + 1 = i
    BY <1>3
  <2> HIDE DEF mine, M
  <2> QED BY <1>5, <2>1
<1> HIDE DEF M, mine, sources
<1>7. IsFiniteSet(M) /\ M \subseteq Int
  <2>1. IsFiniteSet(1 .. last) /\ M \in SUBSET (1 .. last)
    BY <1>3, <1>5, FS_Interval
  <2>2. IsFiniteSet(M)
    BY <2>1, FS_Subset
  <2> QED BY <1>5, <2>2
<1>8. /\ m0 \in Nat /\ e \in [1 .. m0 -> M] /\ Rising(e, m0)
      /\ \A i \in M : \E k \in 1 .. m0 : e[k] = i
  BY <1>7, EnumerationOf
<1>9. Source!IsTuple(chosen) /\ Len(chosen) = m0 /\ chosen = [k \in 1 .. m0 |-> rows[e[k]]]
  <2>1. chosen = [k \in 1 .. m0 |-> rows[e[k]]]
    BY PickIs
  <2>2. Source!IsTuple(chosen) /\ Len(chosen) = Cardinality(M)
    BY <1>7, PickedIs
  <2> QED BY <2>1, <2>2
<1> HIDE DEF m0, e, chosen
<1>10. \A k \in 1 .. m0 : /\ e[k] \in M /\ e[k] \in Int /\ g[k] = e[k] + 1 /\ g[k] \in mine
                          /\ chosen[k] = db[g[k]]
  <2> SUFFICES ASSUME NEW k \in 1 .. m0
               PROVE  /\ e[k] \in M /\ e[k] \in Int /\ g[k] = e[k] + 1 /\ g[k] \in mine
                      /\ chosen[k] = db[g[k]]
    OBVIOUS
  <2>1. e[k] \in M /\ e[k] \in 1 .. last
    BY <1>5, <1>8
  <2>2. chosen[k] = rows[e[k]] /\ rows[e[k]] = db[e[k] + 1]
    BY <1>3, <1>9, <2>1
  <2> QED BY <1>5, <2>1, <2>2
<1>11. Enumerates(g, m0, mine)
  <2>1. g \in [1 .. m0 -> mine]
    BY <1>10
  <2>2. \A j, k \in 1 .. m0 : j < k => g[j] < g[k]
    <3> SUFFICES ASSUME NEW j \in 1 .. m0, NEW k \in 1 .. m0, j < k PROVE g[j] < g[k]
      OBVIOUS
    <3>1. e[j] < e[k]
      BY <1>8 DEF Rising
    <3> QED BY <1>10, <3>1
  <2>3. ASSUME NEW i \in mine PROVE \E k \in 1 .. m0 : g[k] = i
    <3>1. i \in Int /\ i - 1 \in M
      BY <1>6
    <3>2. PICK k \in 1 .. m0 : e[k] = i - 1
      BY <1>8, <3>1
    <3>3. g[k] = i
      BY <1>10, <3>1, <3>2
    <3> QED BY <3>3
  <2>4. mine \subseteq Int
    BY <1>6
  <2> HIDE DEF g
  <2> QED BY <1>8, <2>1, <2>2, <2>3, <2>4 DEF Enumerates, Rising
<1> HIDE DEF g
<1>12. /\ q \in Nat /\ q <= m0
       /\ \A k \in 1 .. m0 : Cardinality(Below(mine, g[k])) < R <=> k <= q
  <2>1. q = Source!Least(m0, R)
    OBVIOUS
  <2> HIDE DEF q
  <2> QED BY <1>2, <1>11, <2>1, FirstOf
<1>13. /\ Source!IsTuple(taken) /\ Len(taken) = q /\ DOMAIN taken = 1 .. q
       /\ \A k \in 1 .. q : taken[k] = db[g[k]]
  <2>1. taken = SubSeq(chosen, 1, q)
    BY <1>9
  <2> HIDE DEF taken, q
  <2>0. q \in 0 .. Len(chosen) /\ Source!IsTuple(chosen) /\ 1 \in Nat \ {0}
    BY <1>8, <1>9, <1>12
  <2>2. /\ Source!IsTuple(taken) /\ Len(taken) = IF 1 <= q THEN q - 1 + 1 ELSE 0
        /\ \A i \in 1 .. q - 1 + 1 : taken[i] = chosen[1 + i - 1]
    BY <2>0, <2>1, SubSeqIs
  <2>3. Len(taken) = q
    BY <1>12, <2>2
  <2>4. DOMAIN taken = 1 .. q
    BY <2>2, <2>3, TupleIs
  <2>5. \A k \in 1 .. q : taken[k] = db[g[k]]
    <3> SUFFICES ASSUME NEW k \in 1 .. q PROVE taken[k] = db[g[k]]
      OBVIOUS
    <3>1. k \in 1 .. m0 /\ 1 + k - 1 = k /\ k \in 1 .. q - 1 + 1
      BY <1>8, <1>12
    <3> QED BY <1>10, <2>2, <3>1
  <2> QED BY <2>2, <2>3, <2>4, <2>5
<1> HIDE DEF taken, q
<1>14. \A i : i \in first <=> \E k \in 1 .. q : g[k] = i
  <2>1. first = {i \in mine : Cardinality(Below(mine, i)) < R}
    BY DEF Below
  <2> HIDE DEF first
  <2>2. ASSUME NEW i \in first PROVE \E k \in 1 .. q : g[k] = i
    <3>1. i \in mine /\ Cardinality(Below(mine, i)) < R
      BY <2>1
    <3>2. PICK k \in 1 .. m0 : g[k] = i
      BY <1>11, <3>1 DEF Enumerates
    <3>3. k \in 1 .. q
      BY <1>12, <3>1, <3>2
    <3> QED BY <3>2, <3>3
  <2>3. ASSUME NEW k \in 1 .. q PROVE g[k] \in first
    <3>1. k \in 1 .. m0 /\ k <= q
      BY <1>8, <1>12
    <3> QED BY <1>10, <1>12, <2>1, <3>1
  <2> QED BY <2>2, <2>3
<1> HIDE DEF first
<1>15. ASSUME NEW m
       PROVE  /\ marked(m) = Source!Picked(db, W(m)) /\ (marked(m) = <<>> <=> W(m) = {})
  <2>1. T(m) \subseteq 1 .. q /\ \A k \in 1 .. q : k \in T(m) <=> db[g[k]].mark = m
    BY <1>13
  <2>2. \A i : i \in W(m) <=> i \in first /\ db[i].mark = m
    OBVIOUS
  <2>3. Placed(g, q, T(m), W(m))
    <3>1. ASSUME NEW k \in T(m) PROVE g[k] \in W(m)
      BY <1>14, <2>1, <2>2
    <3>2. ASSUME NEW i \in W(m) PROVE \E k \in T(m) : g[k] = i
      <4>1. PICK k \in 1 .. q : g[k] = i
        BY <1>14, <2>2
      <4> QED BY <2>1, <2>2, <4>1
    <3>3. \A k \in 1 .. q : g[k] \in Int /\ k \in 1 .. m0
      BY <1>6, <1>8, <1>10, <1>12
    <3>4. \A j, k \in 1 .. q : j < k => g[j] < g[k]
      BY <1>11, <3>3 DEF Enumerates, Rising
    <3> HIDE DEF T, W
    <3> QED BY <2>1, <3>1, <3>2, <3>3, <3>4 DEF Placed, Rising
  <2> HIDE DEF T, W
  <2>4. /\ Source!Picked(taken, T(m)) = Source!Picked(db, W(m)) /\ IsFiniteSet(T(m)) /\ T(m) \subseteq Int
    <3>1. Through(taken, db, g, q)
      BY <1>13 DEF Through
    <3>2. q \in Nat
      BY <1>12
    <3> HIDE DEF g, q, taken, db
    <3> QED BY <2>3, <3>1, <3>2, PickedThrough
  <2>5. Source!IsTuple(Source!Picked(taken, T(m))) /\ Len(Source!Picked(taken, T(m))) = Cardinality(T(m))
    BY <2>4, PickedIs
  <2>6. Source!Picked(taken, T(m)) = <<>> <=> T(m) = {}
    BY <2>4, <2>5, TupleIs, FS_CardinalityType, FS_EmptySet
  <2>7. T(m) = {} <=> W(m) = {}
    BY <2>3 DEF Placed
  <2> QED BY <2>4, <2>6, <2>7
<1> HIDE DEF marked
<1>16. ASSUME W("invalid") = {}
       PROVE  W("good") = mine <=> Len(chosen) <= R /\ W("error") = {}
  <2>1. first \subseteq mine
    <3>1. ASSUME NEW i \in first PROVE i \in mine
      <4>1. PICK k \in 1 .. q : g[k] = i
        BY <1>14
      <4>2. k \in 1 .. m0
        BY <1>8, <1>12
      <4> QED BY <1>10, <4>1, <4>2
    <3> QED BY <3>1
  <2>2. \A i \in first : db[i].mark = "good" \/ db[i].mark = "error"
    <3>1. \A i \in first : db[i].mark \in {"good", "error", "invalid"}
      BY <1>2, <1>6, <2>1
    <3> QED BY <1>16, <3>1
  <2>3. Len(chosen) <= R <=> q = m0
    <3>1. q = Source!Least(m0, R)
      BY DEF q
    <3> QED BY <1>2, <1>8, <1>9, <3>1 DEF Source!Least
  <2>4. ASSUME W("good") = mine PROVE q = m0 /\ W("error") = {}
    <3>1. mine \subseteq first /\ \A i \in mine : db[i].mark = "good"
      BY <2>4
    <3>2. W("error") = {}
      BY <2>1, <3>1
    <3>3. ASSUME q # m0 PROVE FALSE
      <4>1. m0 \in 1 .. m0 /\ ~(m0 <= q)
        BY <1>8, <1>12, <3>3
      <4>2. g[m0] \in first
        BY <1>10, <3>1, <4>1
      <4>3. PICK k \in 1 .. q : g[k] = g[m0]
        BY <1>14, <4>2
      <4>4. k \in 1 .. m0 /\ k < m0
        BY <1>8, <1>12, <4>1
      <4>5. g[k] < g[m0] /\ g[m0] \in Int
        BY <1>6, <1>10, <1>11, <4>1, <4>4 DEF Enumerates, Rising
      <4> QED BY <4>3, <4>5
    <3> QED BY <3>2, <3>3
  <2>5. ASSUME q = m0, W("error") = {} PROVE W("good") = mine
    <3>1. ASSUME NEW i \in mine PROVE i \in first
      BY <1>11, <1>14, <2>5 DEF Enumerates
    <3>2. \A i \in first : db[i].mark = "good"
      BY <2>2, <2>5
    <3> QED BY <2>1, <3>1, <3>2
  <2> QED BY <2>3, <2>4, <2>5
<1> HIDE DEF W
<1>17. CASE W("invalid") # {}
  <2>1. Source!Packets(db) = Source!Refused /\ Source!PacketsOf(s) = Source!Refused
    BY <1>1, <1>15, <1>17
  <2> QED BY <2>1 DEF db
<1>18. CASE W("invalid") = {}
  <2> DEFINE whole == W("good") = mine
             no == request.source = "any" /\ \E i, j \in all : db[i].source # db[j].source
  <2>1. whole <=> Len(chosen) <= R /\ marked("error") = <<>>
    BY <1>15, <1>16, <1>18
  <2>2. marked("good") = Source!Picked(db, W("good")) /\ marked("error") = Source!Picked(db, W("error"))
        /\ marked("invalid") = <<>>
    BY <1>15, <1>18
  <2> DEFINE p == Source!Packets(db)
             r == Source!PacketsOf(s)
             other == db[1].version \notin {9, 10}
             whole2 == Len(chosen) <= R /\ marked("error") = <<>>
             record(w) == [status |-> "accepted", of |-> db, packets |-> Source!Picked(db, W("good")),
                           quarantines |-> Source!Picked(db, W("error")), complete |-> w]
  <2>4. p = IF other \/ no THEN Source!Refused ELSE record(whole2)
    BY <1>1, <1>4, <2>2
  <2>5. r = IF other \/ no THEN Source!Refused ELSE record(whole)
    BY <1>1, <1>2, <1>18
  <2>6. whole2 = whole
    BY <2>1
  <2> HIDE DEF R, p, r, other, no, whole, whole2
  <2>7. record(whole2) = record(whole)
    BY <2>6
  <2> HIDE DEF record
  <2>3. p = r
    BY <2>4, <2>5, <2>7
  <2> QED BY <2>3 DEF db, p, r
<1> QED BY <1>17, <1>18


-----------------------------------------------------------------------------
(* What holds while an adapter reads.  A stream is a file read from one     *)
(* place, in one step of the call; it is opened in another, and fenced and  *)
(* checked in steps of their own.                                           *)

Streams == [npy |-> {"header", "array"}, sigmf |-> {"meta", "data"}, zeek |-> {"log"},
            sdr4iot |-> {"csv"}, kismet |-> {"db"}]

OpenAt(n) == CASE n = "data" -> 5 [] n = "db" -> 2 [] OTHER -> 1
ReadAt(n) == CASE n = "array" -> 4 [] n = "data" -> 7 [] n = "db" -> 3 [] OTHER -> 2

\* The file noted under a name, and whether it is as it was noted.
Holds(p) == inodes[reader.noted[p].id].holds
AsNoted(p)  == inodes[reader.noted[p].id].ver = reader.noted[p].ver

DiskInv ==
  /\ adapter \in DOMAIN Source!Names /\ Source!IsRequest(adapter, request)
  /\ Source!IsTuple(inodes) /\ \A i \in 1 .. Len(inodes) : inodes[i].ver \in Nat
  /\ names \in [Source!Names[adapter] -> 0 .. Len(inodes)]
  /\ \A m, n \in Source!Names[adapter] : names[m] = names[n] /\ names[m] # 0 => m = n
  /\ \A n \in Source!Names[adapter] : names[n] # 0 => Source!IsFile(adapter, n, inodes[names[n]].holds)
  /\ edits \in Nat /\ journal \in BOOLEAN /\ committed \in BOOLEAN
  /\ adapter # "kismet" => ~journal
  /\ ~journal => Source!Standing \in seen

CallInv ==
  /\ reader = [at |-> reader.at, noted |-> reader.noted, got |-> reader.got,
               answer |-> reader.answer]
  /\ reader.at \in 1 .. Len(Source!Steps)

\* What was noted is a file of the name, and that name's alone.
NotedInv(p) ==
  /\ p \in Source!Names[adapter]
  /\ reader.noted[p].id \in 1 .. Len(inodes)
  /\ reader.noted[p].ver \in Nat /\ reader.noted[p].len \in Nat \ {0}
  /\ reader.noted[p].ver <= inodes[reader.noted[p].id].ver
  /\ Source!IsFile(adapter, p, Holds(p))
  /\ AsNoted(p) => Len(Holds(p)) = reader.noted[p].len
  /\ \A n \in Source!Names[adapter] : names[n] = reader.noted[p].id => n = p
  /\ edits = 0 => names[p] = reader.noted[p].id /\ AsNoted(p)

NotesInv == \A p \in DOMAIN reader.noted : NotedInv(p)

\* Of a file that is as it was noted, the cells read are its own.
ReadInv(n) ==
  /\ Source!IsTuple(Source!Got(n))
  /\ reader.at < ReadAt(n) => Source!Got(n) = <<>>
  /\ reader.at > OpenAt(n) => Source!Path(n) \in DOMAIN reader.noted
  /\ reader.at >= ReadAt(n) /\ AsNoted(Source!Path(n)) =>
       /\ Len(Source!Got(n)) <= Source!Wanted(n).cells
       /\ \A k \in 1 .. Len(Source!Got(n)) : Source!Got(n)[k] = Holds(Source!Path(n))[Source!Wanted(n).from + k]
  /\ reader.at > ReadAt(n) /\ AsNoted(Source!Path(n)) => Len(Source!Got(n)) = Source!Wanted(n).cells

ReadsInv == \A n \in Streams[adapter] : ReadInv(n)

\* What was checked is fit, and what checks rest on was read.
FitInv ==
  /\ adapter = "npy" =>
       /\ Source!Got("header") # <<>> => Source!Header.says \in Nat
       /\ reader.at > 2 => Source!Got("header") # <<>>
       /\ reader.at > 3 => Source!Fit("header")
  /\ adapter = "sigmf" =>
       /\ Source!Got("meta") # <<>> => Source!IsMetadata(Source!Meta)
       /\ reader.at > 3 => Source!Got("meta") # <<>>
       /\ reader.at > 4 => Source!Fit("meta")
       /\ reader.at > 6 => Source!Fit("data")

\* A file that all of a stream could have been read from, and files, by name,
\* that a projection could be of.
Taken(n, F) ==
  /\ Source!IsFile(adapter, Source!Path(n), F) /\ Len(F) = Source!Noted(n).len /\ Len(Source!Got(n)) = Source!Wanted(n).cells
  /\ \A k \in 1 .. Len(Source!Got(n)) : Source!Got(n)[k] = F[Source!Wanted(n).from + k]

AllTaken(s) == \A n \in Streams[adapter] : Taken(n, s[Source!Path(n)])

\* The moment of the call that its projection is of.
MomentInv ==
  /\ adapter \in {"npy", "zeek", "sdr4iot"} /\ reader.at = Len(Source!Steps) => \E s \in seen : AllTaken(s)
  /\ adapter = "sigmf" =>
       /\ reader.at = 9 /\ names["meta"] = Source!Noted("meta").id /\ AsNoted("meta") =>
            \E s \in seen : AllTaken(s)
       /\ reader.at = 10 => \E s \in seen : AllTaken(s)
  /\ adapter = "kismet" =>
       /\ reader.at >= 3 /\ ~journal /\ ~committed =>
            AsNoted("db") /\ \E s \in seen : s["db"] = Holds("db")
       /\ reader.at = 5 /\ ~committed => \E s \in seen : AllTaken(s)

StateInv == DiskInv /\ CallInv /\ NotesInv /\ ReadsInv /\ FitInv /\ MomentInv

SourceInv ==
  /\ StateInv
  /\ reader.answer = Source!Pending \/ Source!ProjectionIsOfSource

\* Which step is where.
CallStep(a, i, what, on) == adapter = a /\ reader.at = i /\ Source!Now.do = what /\ Source!Now.on = on

LEMMA CallsAre ==
  ASSUME adapter \in DOMAIN Source!Names, reader.at \in 1 .. Len(Source!Steps)
  PROVE  \/ /\ Len(Source!Steps) = 6
            /\ \/ CallStep("npy", 1, "open", "array")  \/ CallStep("npy", 2, "read", "header")
               \/ CallStep("npy", 3, "check", "header") \/ CallStep("npy", 4, "read", "array")
               \/ CallStep("npy", 5, "fence", "array") \/ CallStep("npy", 6, "answer", "array")
         \/ /\ Len(Source!Steps) = 10
            /\ \/ CallStep("sigmf", 1, "open", "meta")  \/ CallStep("sigmf", 2, "read", "meta")
               \/ CallStep("sigmf", 3, "fence", "meta") \/ CallStep("sigmf", 4, "check", "meta")
               \/ CallStep("sigmf", 5, "open", "data")  \/ CallStep("sigmf", 6, "check", "data")
               \/ CallStep("sigmf", 7, "read", "data")  \/ CallStep("sigmf", 8, "fence", "data")
               \/ CallStep("sigmf", 9, "fence", "meta") \/ CallStep("sigmf", 10, "answer", "data")
         \/ /\ Len(Source!Steps) = 4
            /\ \/ CallStep("zeek", 1, "open", "log")  \/ CallStep("zeek", 2, "read", "log")
               \/ CallStep("zeek", 3, "fence", "log") \/ CallStep("zeek", 4, "answer", "log")
         \/ /\ Len(Source!Steps) = 4
            /\ \/ CallStep("sdr4iot", 1, "open", "csv")  \/ CallStep("sdr4iot", 2, "read", "csv")
               \/ CallStep("sdr4iot", 3, "fence", "csv") \/ CallStep("sdr4iot", 4, "answer", "csv")
         \/ /\ Len(Source!Steps) = 5
            /\ \/ CallStep("kismet", 1, "sidecars", "db") \/ CallStep("kismet", 2, "open", "db")
               \/ CallStep("kismet", 3, "read", "db")     \/ CallStep("kismet", 4, "sidecars", "db")
               \/ CallStep("kismet", 5, "answer", "db")
<1>1. CASE adapter = "npy"
  <2>1. Source!Steps = Source!NpySteps /\ Len(Source!NpySteps) = 6
    BY <1>1 DEF Source!Steps, Source!NpySteps
  <2> QED BY <1>1, <2>1 DEF CallStep, Source!Now, Source!NpySteps, Source!Do
<1>2. CASE adapter = "sigmf"
  <2>1. Source!Steps = Source!SigmfSteps /\ Len(Source!SigmfSteps) = 10
    BY <1>2 DEF Source!Steps, Source!SigmfSteps
  <2> QED BY <1>2, <2>1 DEF CallStep, Source!Now, Source!SigmfSteps, Source!Do
<1>3. CASE adapter = "zeek"
  <2>1. Source!Steps = Source!ZeekSteps /\ Len(Source!ZeekSteps) = 4
    BY <1>3 DEF Source!Steps, Source!ZeekSteps
  <2> QED BY <1>3, <2>1 DEF CallStep, Source!Now, Source!ZeekSteps, Source!Do
<1>4. CASE adapter = "sdr4iot"
  <2>1. Source!Steps = Source!CsvSteps /\ Len(Source!CsvSteps) = 4
    BY <1>4 DEF Source!Steps, Source!CsvSteps
  <2> QED BY <1>4, <2>1 DEF CallStep, Source!Now, Source!CsvSteps, Source!Do
<1>5. CASE adapter = "kismet"
  <2>1. Source!Steps = Source!KismetSteps /\ Len(Source!KismetSteps) = 5
    BY <1>5 DEF Source!Steps, Source!KismetSteps
  <2> QED BY <1>5, <2>1 DEF CallStep, Source!Now, Source!KismetSteps, Source!Do
<1>6. DOMAIN Source!Names = {"npy", "sigmf", "zeek", "sdr4iot", "kismet"}
  BY DEF Source!Names
<1> QED BY <1>1, <1>2, <1>3, <1>4, <1>5, <1>6

LEMMA Namings ==
  ASSUME adapter \in DOMAIN Source!Names
  PROVE  /\ adapter = "npy" => Source!Names[adapter] = {"array"} /\ Streams[adapter] = {"header", "array"}
         /\ adapter = "sigmf" => Source!Names[adapter] = {"meta", "core", "osu"} /\ Streams[adapter] = {"meta", "data"}
         /\ adapter = "zeek" => Source!Names[adapter] = {"log"} /\ Streams[adapter] = {"log"}
         /\ adapter = "sdr4iot" => Source!Names[adapter] = {"csv"} /\ Streams[adapter] = {"csv"}
         /\ adapter = "kismet" => Source!Names[adapter] = {"db"} /\ Streams[adapter] = {"db"}
         /\ adapter \in {"npy", "sigmf", "zeek", "sdr4iot", "kismet"}
BY DEF Source!Names, Streams

LEMMA EvenPart ==
  ASSUME NEW x \in Nat
  PROVE  x - (x % 2) \in Nat /\ x - (x % 2) <= x
<1>1. x % 2 \in 0 .. 1 /\ (x = 0 => x % 2 = 0)
  OBVIOUS
<1> QED BY <1>1

\* What is wanted of a file is in it.
Ready(n) ==
  /\ n = "array" => Source!Header.says \in Nat /\ Source!Fit("header")
  /\ n = "data" => Source!IsMetadata(Source!Meta)

LEMMA WantedIs ==
  ASSUME DiskInv, NotesInv, NEW n \in Streams[adapter], Ready(n),
         Source!Path(n) \in DOMAIN reader.noted
  PROVE  /\ Source!Wanted(n).from \in Nat /\ Source!Wanted(n).cells \in Nat
         /\ \A k \in 1 .. Source!Wanted(n).cells : Source!Wanted(n).from + k <= Source!Noted(n).len
<1>1. Source!Noted(n).len \in Nat \ {0} /\ adapter \in DOMAIN Source!Names /\ Source!IsRequest(adapter, request)
  BY DEF NotesInv, NotedInv, Source!Noted, DiskInv
<1>2. CASE n = "header"
  <2>1. Source!Wanted(n) = [from |-> 0, cells |-> 1]
    BY <1>2 DEF Source!Wanted
  <2> QED BY <1>1, <2>1
<1>3. CASE n = "array"
  <2>1. adapter = "npy"
    BY <1>1, <1>3, Namings
  <2>2. /\ Source!Header.says \in Nat /\ Source!Noted(n).len = 1 + Source!Header.says
        /\ request.first \in Nat /\ request.count \in Nat
    BY <1>1, <1>3, <2>1 DEF Ready, Source!Fit, Source!IsRequest, Source!Noted, Source!Path
  <2>3. Source!Wanted(n) = [from |-> 1 + request.first, cells |-> Source!ObservedCount]
    BY <1>3 DEF Source!Wanted
  <2>4. Source!ObservedCount \in Nat /\ (Source!ObservedCount = 0 \/ Source!ObservedCount <= Source!Header.says - request.first)
    BY <2>2 DEF Source!ObservedCount, Source!Least, Source!Saturating
  <2> HIDE DEF Source!ObservedCount
  <2> QED BY <2>2, <2>3, <2>4
<1>4. CASE n = "data"
  <2>1. adapter = "sigmf"
    BY <1>1, <1>4, Namings
  <2>2. /\ Source!IsMetadata(Source!Meta) /\ request.first \in Nat /\ request.count \in Nat
        /\ Source!Noted("data").len \in Nat
    BY <1>1, <1>4, <2>1 DEF Ready, Source!IsRequest
  <2>3. Source!Wanted(n) = [from |-> 2 * request.first, cells |-> Source!PlannedBytes]
    BY <1>4 DEF Source!Wanted
  <2> DEFINE len == IF Source!Meta.dialect = "osu" THEN Source!Least(Source!Noted("data").len, 2 * Source!Meta.declared)
                    ELSE Source!Noted("data").len
             planned == Source!Least(Source!Saturating(len - 2 * request.first), 2 * request.count)
  <2>4. len \in Nat /\ len <= Source!Noted("data").len
    BY <2>2 DEF Source!Least, Source!IsMetadata
  <2>5. planned \in Nat /\ (planned = 0 \/ planned <= len - 2 * request.first)
    <3> HIDE DEF len
    <3> QED BY <2>2, <2>4 DEF Source!Least, Source!Saturating
  <2>6. Source!PlannedBytes = IF Source!ByteOrder = "none" THEN 0 ELSE planned - (planned % 2)
    BY DEF Source!PlannedBytes
  <2> HIDE DEF len, planned, Source!PlannedBytes
  <2>7. planned - (planned % 2) \in Nat /\ planned - (planned % 2) <= planned
    BY <2>5, EvenPart
  <2>8. Source!PlannedBytes \in Nat /\ Source!PlannedBytes <= planned
    BY <2>5, <2>6, <2>7
  <2> QED BY <1>4, <2>2, <2>3, <2>4, <2>5, <2>8
<1>5. CASE n \notin {"header", "array", "data"}
  <2>1. Source!Wanted(n) = [from |-> 0, cells |-> Source!Noted(n).len]
    BY <1>5 DEF Source!Wanted
  <2> QED BY <1>1, <2>1
<1> QED BY <1>2, <1>3, <1>4, <1>5

LEMMA ReadyIs ==
  ASSUME DiskInv, FitInv, NEW n \in Streams[adapter], reader.at \in Nat, reader.at >= ReadAt(n)
  PROVE  Ready(n)
<1>1. adapter \in DOMAIN Source!Names
  BY DEF DiskInv
<1>2. CASE n = "array"
  <2>1. adapter = "npy" /\ reader.at >= 4
    BY <1>1, <1>2, Namings DEF ReadAt
  <2> QED BY <1>2, <2>1 DEF FitInv, Ready
<1>3. CASE n = "data"
  <2>1. adapter = "sigmf" /\ reader.at >= 7
    BY <1>1, <1>3, Namings DEF ReadAt
  <2> QED BY <1>3, <2>1 DEF FitInv, Ready
<1>4. CASE n \notin {"array", "data"}
  BY <1>4 DEF Ready
<1> QED BY <1>2, <1>3, <1>4

\* What is noted and read stays so in the steps that add nothing to it.
LEMMA ViewsStay ==
  ASSUME UNCHANGED <<adapter, request>>, reader'.noted = reader.noted, reader'.got = reader.got
  PROVE  /\ \A n : Source!Got(n)' = Source!Got(n)
         /\ Source!Meta' = Source!Meta /\ Source!Header' = Source!Header
         /\ \A n : Source!Path(n)' = Source!Path(n)
         /\ \A n : Source!Noted(n)' = Source!Noted(n)
         /\ \A n : Source!Wanted(n)' = Source!Wanted(n)
         /\ \A n : Source!Fit(n)' <=> Source!Fit(n)
<1>1. \A n : Source!Got(n)' = Source!Got(n)
  BY DEF Source!Got
<1>2. Source!Meta' = Source!Meta /\ Source!Header' = Source!Header
  BY <1>1 DEF Source!Meta, Source!Header
<1>3. \A n : Source!Path(n)' = Source!Path(n)
  BY <1>2 DEF Source!Path
<1>4. \A n : Source!Noted(n)' = Source!Noted(n)
  BY <1>3 DEF Source!Noted
<1>5. Source!ObservedCount' = Source!ObservedCount /\ Source!ByteOrder' = Source!ByteOrder
  BY <1>2 DEF Source!ObservedCount, Source!ByteOrder
<1>6. Source!PlannedBytes' = Source!PlannedBytes
  BY <1>2, <1>4, <1>5 DEF Source!PlannedBytes
<1>7. \A n : Source!Wanted(n)' = Source!Wanted(n)
  BY <1>4, <1>5, <1>6 DEF Source!Wanted
<1>8. Source!MetadataIsFit' <=> Source!MetadataIsFit
  BY <1>2 DEF Source!MetadataIsFit
<1>9. \A n : Source!Fit(n)' <=> Source!Fit(n)
  BY <1>2, <1>4, <1>8 DEF Source!Fit
<1> QED BY <1>1, <1>2, <1>3, <1>4, <1>7, <1>9

LEMMA TakenStays ==
  ASSUME UNCHANGED <<adapter, request>>, reader'.noted = reader.noted, reader'.got = reader.got,
         NEW s, AllTaken(s)
  PROVE  AllTaken(s)'
<1> SUFFICES ASSUME NEW n \in Streams[adapter] PROVE Taken(n, s[Source!Path(n)])'
  BY DEF AllTaken
<1>1. Taken(n, s[Source!Path(n)])
  BY DEF AllTaken
<1>2. Source!Got(n)' = Source!Got(n) /\ Source!Path(n)' = Source!Path(n) /\ Source!Noted(n)' = Source!Noted(n) /\ Source!Wanted(n)' = Source!Wanted(n)
  BY ViewsStay
<1> QED BY <1>1, <1>2 DEF Taken

\* An answer changes nothing else.
LEMMA AnswerKeeps ==
  ASSUME StateInv, NEW x, reader' = [reader EXCEPT !.answer = x],
         UNCHANGED <<adapter, request, Source!source>>
  PROVE  StateInv'
<1>1. /\ reader'.at = reader.at /\ reader'.noted = reader.noted /\ reader'.got = reader.got
      /\ reader' = [at |-> reader.at, noted |-> reader.noted, got |-> reader.got, answer |-> x]
      /\ reader'.answer = x
  BY DEF StateInv, CallInv
<1>2. /\ \A n : Source!Got(n)' = Source!Got(n)
      /\ Source!Meta' = Source!Meta /\ Source!Header' = Source!Header
      /\ \A n : Source!Path(n)' = Source!Path(n)
      /\ \A n : Source!Noted(n)' = Source!Noted(n)
      /\ \A n : Source!Wanted(n)' = Source!Wanted(n)
      /\ \A n : Source!Fit(n)' <=> Source!Fit(n)
  BY <1>1, ViewsStay
<1>3. /\ UNCHANGED <<names, inodes, journal, committed, seen, edits>>
      /\ \A p : Holds(p)' = Holds(p) /\ (AsNoted(p)' <=> AsNoted(p))
  BY <1>1 DEF Holds, AsNoted, Source!source
<1>4. DiskInv' /\ CallInv'
  BY <1>1, <1>3 DEF StateInv, DiskInv, CallInv, Source!Steps, Source!Standing
<1>5. NotesInv'
  BY <1>1, <1>3 DEF StateInv, NotesInv, NotedInv
<1>6. ReadsInv'
  BY <1>1, <1>2, <1>3 DEF StateInv, ReadsInv, ReadInv
<1>7. FitInv'
  BY <1>1, <1>2 DEF StateInv, FitInv
<1>8. MomentInv'
  <2>1. \A s : AllTaken(s) => AllTaken(s)'
    BY <1>1, TakenStays
  <2> QED BY <1>1, <1>2, <1>3, <2>1 DEF StateInv, MomentInv, Source!Steps
<1> QED BY <1>4, <1>5, <1>6, <1>7, <1>8 DEF StateInv

-----------------------------------------------------------------------------
(* The steps of a call that go on with nothing new noted or read.          *)

LEMMA CallIs ==
  ASSUME DiskInv, CallInv
  PROVE  /\ adapter \in DOMAIN Source!Names /\ reader.at \in Nat /\ Len(Source!Steps) \in Nat
         /\ Len(Source!Steps) = CASE adapter = "npy" -> 6 [] adapter = "sigmf" -> 10
                                  [] adapter \in {"zeek", "sdr4iot"} -> 4 [] adapter = "kismet" -> 5
         /\ Source!Now.do # "answer" => reader.at < Len(Source!Steps)
         /\ \A n \in Streams[adapter] : reader.at = OpenAt(n) => Source!Now.do = "open"
         /\ \A n \in Streams[adapter] :
              reader.at = ReadAt(n) <=> Source!Now.do = "read" /\ Source!Now.on = n
<1>1. adapter \in DOMAIN Source!Names /\ reader.at \in 1 .. Len(Source!Steps)
  BY DEF DiskInv, CallInv
<1>2. CASE adapter = "npy"
  <2>1. Streams[adapter] = {"header", "array"}
    BY <1>1, <1>2, Namings
  <2>2. Len(Source!Steps) = 6
    BY <1>1, <1>2, CallsAre DEF CallStep
  <2>3. Source!Now.do # "answer" => reader.at < 6
    BY <1>1, <1>2, CallsAre DEF CallStep
  <2>4. /\ reader.at = 1 => Source!Now.do = "open"
        /\ reader.at = 2 <=> Source!Now.do = "read" /\ Source!Now.on = "header"
    BY <1>1, <1>2, CallsAre DEF CallStep
  <2>5. OpenAt("header") = 1 /\ ReadAt("header") = 2
    BY DEF OpenAt, ReadAt
  <2>6. /\ reader.at = 1 => Source!Now.do = "open"
        /\ reader.at = 4 <=> Source!Now.do = "read" /\ Source!Now.on = "array"
    BY <1>1, <1>2, CallsAre DEF CallStep
  <2>7. OpenAt("array") = 1 /\ ReadAt("array") = 4
    BY DEF OpenAt, ReadAt
  <2> QED BY <1>1, <1>2, <2>1, <2>2, <2>3, <2>4, <2>5, <2>6, <2>7
<1>3. CASE adapter = "sigmf"
  <2>1. Streams[adapter] = {"meta", "data"}
    BY <1>1, <1>3, Namings
  <2>2. Len(Source!Steps) = 10
    BY <1>1, <1>3, CallsAre DEF CallStep
  <2>3. Source!Now.do # "answer" => reader.at < 10
    BY <1>1, <1>3, CallsAre DEF CallStep
  <2>4. /\ reader.at = 1 => Source!Now.do = "open"
        /\ reader.at = 2 <=> Source!Now.do = "read" /\ Source!Now.on = "meta"
    BY <1>1, <1>3, CallsAre DEF CallStep
  <2>5. OpenAt("meta") = 1 /\ ReadAt("meta") = 2
    BY DEF OpenAt, ReadAt
  <2>6. /\ reader.at = 5 => Source!Now.do = "open"
        /\ reader.at = 7 <=> Source!Now.do = "read" /\ Source!Now.on = "data"
    BY <1>1, <1>3, CallsAre DEF CallStep
  <2>7. OpenAt("data") = 5 /\ ReadAt("data") = 7
    BY DEF OpenAt, ReadAt
  <2> QED BY <1>1, <1>3, <2>1, <2>2, <2>3, <2>4, <2>5, <2>6, <2>7
<1>4. CASE adapter = "zeek"
  <2>1. Streams[adapter] = {"log"}
    BY <1>1, <1>4, Namings
  <2>2. Len(Source!Steps) = 4
    BY <1>1, <1>4, CallsAre DEF CallStep
  <2>3. Source!Now.do # "answer" => reader.at < 4
    BY <1>1, <1>4, CallsAre DEF CallStep
  <2>4. /\ reader.at = 1 => Source!Now.do = "open"
        /\ reader.at = 2 <=> Source!Now.do = "read" /\ Source!Now.on = "log"
    BY <1>1, <1>4, CallsAre DEF CallStep
  <2>5. OpenAt("log") = 1 /\ ReadAt("log") = 2
    BY DEF OpenAt, ReadAt
  <2> QED BY <1>1, <1>4, <2>1, <2>2, <2>3, <2>4, <2>5
<1>5. CASE adapter = "sdr4iot"
  <2>1. Streams[adapter] = {"csv"}
    BY <1>1, <1>5, Namings
  <2>2. Len(Source!Steps) = 4
    BY <1>1, <1>5, CallsAre DEF CallStep
  <2>3. Source!Now.do # "answer" => reader.at < 4
    BY <1>1, <1>5, CallsAre DEF CallStep
  <2>4. /\ reader.at = 1 => Source!Now.do = "open"
        /\ reader.at = 2 <=> Source!Now.do = "read" /\ Source!Now.on = "csv"
    BY <1>1, <1>5, CallsAre DEF CallStep
  <2>5. OpenAt("csv") = 1 /\ ReadAt("csv") = 2
    BY DEF OpenAt, ReadAt
  <2> QED BY <1>1, <1>5, <2>1, <2>2, <2>3, <2>4, <2>5
<1>6. CASE adapter = "kismet"
  <2>1. Streams[adapter] = {"db"}
    BY <1>1, <1>6, Namings
  <2>2. Len(Source!Steps) = 5
    BY <1>1, <1>6, CallsAre DEF CallStep
  <2>3. Source!Now.do # "answer" => reader.at < 5
    BY <1>1, <1>6, CallsAre DEF CallStep
  <2>4. /\ reader.at = 2 => Source!Now.do = "open"
        /\ reader.at = 3 <=> Source!Now.do = "read" /\ Source!Now.on = "db"
    BY <1>1, <1>6, CallsAre DEF CallStep
  <2>5. OpenAt("db") = 2 /\ ReadAt("db") = 3
    BY DEF OpenAt, ReadAt
  <2> QED BY <1>1, <1>6, <2>1, <2>2, <2>3, <2>4, <2>5
<1> QED BY <1>1, <1>2, <1>3, <1>4, <1>5, <1>6, Namings

LEMMA AdvanceIs ==
  ASSUME CallInv, Source!Advance, UNCHANGED <<adapter, request, Source!source>>
  PROVE  /\ reader'.at = reader.at + 1 /\ reader'.noted = reader.noted /\ reader'.got = reader.got
         /\ reader'.answer = reader.answer
         /\ reader' = [at |-> reader'.at, noted |-> reader'.noted, got |-> reader'.got,
                       answer |-> reader'.answer]
         /\ UNCHANGED <<names, inodes, journal, committed, seen, edits>>
         /\ \A p : Holds(p)' = Holds(p) /\ (AsNoted(p)' <=> AsNoted(p))
<1>1. /\ reader'.at = reader.at + 1 /\ reader'.noted = reader.noted /\ reader'.got = reader.got
      /\ reader'.answer = reader.answer
      /\ reader' = [at |-> reader'.at, noted |-> reader'.noted, got |-> reader'.got,
                    answer |-> reader'.answer]
  BY DEF CallInv, Source!Advance
<1> QED BY <1>1 DEF Source!source, Holds, AsNoted

LEMMA AdvanceKeeps ==
  ASSUME StateInv, Source!Advance, UNCHANGED <<adapter, request, Source!source>>,
         Source!Now.do \notin {"open", "answer"}, FitInv',
         \A n \in Streams[adapter] :
           reader.at = ReadAt(n) /\ AsNoted(Source!Path(n)) => Len(Source!Got(n)) = Source!Wanted(n).cells
  PROVE  DiskInv' /\ CallInv' /\ NotesInv' /\ ReadsInv'
<1>1. /\ reader'.at = reader.at + 1 /\ reader'.noted = reader.noted /\ reader'.got = reader.got
      /\ reader' = [at |-> reader'.at, noted |-> reader'.noted, got |-> reader'.got,
                    answer |-> reader'.answer]
      /\ UNCHANGED <<names, inodes, journal, committed, seen, edits>>
      /\ \A p : Holds(p)' = Holds(p) /\ (AsNoted(p)' <=> AsNoted(p))
  BY AdvanceIs DEF StateInv
<1>2. /\ \A n : Source!Got(n)' = Source!Got(n)
      /\ Source!Meta' = Source!Meta /\ Source!Header' = Source!Header
      /\ \A n : Source!Path(n)' = Source!Path(n)
      /\ \A n : Source!Noted(n)' = Source!Noted(n)
      /\ \A n : Source!Wanted(n)' = Source!Wanted(n)
      /\ \A n : Source!Fit(n)' <=> Source!Fit(n)
  BY <1>1, ViewsStay
<1>3. /\ adapter \in DOMAIN Source!Names /\ reader.at \in Nat /\ Len(Source!Steps) \in Nat
      /\ reader.at < Len(Source!Steps)
      /\ \A n \in Streams[adapter] : reader.at # OpenAt(n)
  BY CallIs DEF StateInv
<1>4. DiskInv'
  BY <1>1 DEF StateInv, DiskInv, Source!Standing
<1>5. CallInv'
  <2>1. Source!Steps' = Source!Steps
    BY <1>1 DEF Source!Steps
  <2> QED BY <1>1, <1>3, <2>1 DEF CallInv
<1>6. NotesInv'
  BY <1>1 DEF StateInv, NotesInv, NotedInv
<1>7. ReadsInv'
  <2> SUFFICES ASSUME NEW n \in Streams[adapter] PROVE ReadInv(n)'
    BY DEF ReadsInv
  <2>1. ReadInv(n)
    BY DEF StateInv, ReadsInv
  <2>2. OpenAt(n) \in Nat /\ ReadAt(n) \in Nat /\ OpenAt(n) < ReadAt(n)
    BY DEF OpenAt, ReadAt
  <2>3. reader.at > OpenAt(n) \/ reader.at < OpenAt(n)
    BY <1>3, <2>2
  <2>4. reader'.at > OpenAt(n) => reader.at > OpenAt(n)
    BY <1>1, <1>3, <2>2, <2>3
  <2>5. ASSUME reader.at + 1 = ReadAt(n) PROVE Source!Wanted(n).cells \in Nat /\ Source!Got(n) = <<>>
    <3>1. reader.at < ReadAt(n) /\ reader.at > OpenAt(n)
      BY <1>3, <2>2, <2>3, <2>5
    <3>2. Source!Got(n) = <<>> /\ Source!Path(n) \in DOMAIN reader.noted
      BY <2>1, <3>1 DEF ReadInv
    <3>3. Ready(n)
      <4>1. ASSUME n = "array" PROVE Source!Header.says \in Nat /\ Source!Fit("header")
        <5>1. adapter = "npy" /\ reader.at + 1 = 4
          BY <1>3, <2>5, <4>1, Namings DEF ReadAt
        <5> QED BY <1>1, <1>2, <5>1 DEF FitInv
      <4>2. ASSUME n = "data" PROVE Source!IsMetadata(Source!Meta)
        <5>1. adapter = "sigmf" /\ reader.at + 1 = 7
          BY <1>3, <2>5, <4>2, Namings DEF ReadAt
        <5> QED BY <1>1, <1>2, <5>1 DEF FitInv
      <4> QED BY <4>1, <4>2 DEF Ready
    <3> QED BY <3>2, <3>3, WantedIs DEF StateInv
  <2>6. /\ Source!IsTuple(Source!Got(n))
        /\ reader.at + 1 < ReadAt(n) => Source!Got(n) = <<>>
        /\ reader.at + 1 > OpenAt(n) => Source!Path(n) \in DOMAIN reader.noted
    BY <1>1, <1>3, <2>1, <2>2, <2>4 DEF ReadInv
  <2>7. ASSUME reader.at + 1 >= ReadAt(n), AsNoted(Source!Path(n))
        PROVE  /\ Len(Source!Got(n)) <= Source!Wanted(n).cells
               /\ \A k \in 1 .. Len(Source!Got(n)) : Source!Got(n)[k] = Holds(Source!Path(n))[Source!Wanted(n).from + k]
    <3>1. CASE reader.at >= ReadAt(n)
      BY <2>1, <2>7, <3>1 DEF ReadInv
    <3>2. CASE reader.at + 1 = ReadAt(n)
      BY <2>5, <3>2
    <3> QED BY <1>3, <2>2, <2>7, <3>1, <3>2
  <2>8. ASSUME reader.at + 1 > ReadAt(n), AsNoted(Source!Path(n))
        PROVE  Len(Source!Got(n)) = Source!Wanted(n).cells
    <3>1. CASE reader.at > ReadAt(n)
      BY <2>1, <2>8, <3>1 DEF ReadInv
    <3>2. CASE reader.at = ReadAt(n)
      BY <2>8, <3>2
    <3> QED BY <1>3, <2>2, <2>8, <3>1, <3>2
  <2> QED BY <1>1, <1>2, <2>6, <2>7, <2>8 DEF ReadInv
<1> QED BY <1>4, <1>5, <1>6, <1>7

-----------------------------------------------------------------------------
(* What a projection is of.                                                *)

LEMMA ReferenceStays ==
  ASSUME UNCHANGED <<adapter, request>>
  PROVE  \A s : Source!Reference(s)' = Source!Reference(s)
<1>1. Source!Window' = Source!Window
  BY DEF Source!Window
<1>2. \A s : Source!ArrayOf(s)' = Source!ArrayOf(s)
  BY <1>1 DEF Source!ArrayOf
<1>3. \A s : Source!SamplesOf(s)' = Source!SamplesOf(s)
  <2>1. \A m : Source!Described(m)' <=> Source!Described(m)
    BY DEF Source!Described
  <2> QED BY <1>1, <2>1 DEF Source!SamplesOf
<1>4. \A s : Source!LogOf(s)' = Source!LogOf(s)
  BY DEF Source!LogOf
<1>5. \A s : Source!DetectionsOf(s)' = Source!DetectionsOf(s)
  BY DEF Source!DetectionsOf
<1>6. \A s : Source!PacketsOf(s)' = Source!PacketsOf(s)
  BY DEF Source!PacketsOf
<1> QED BY <1>2, <1>3, <1>4, <1>5, <1>6 DEF Source!Reference

LEMMA RefuseKeeps ==
  ASSUME StateInv, Source!Refuse, UNCHANGED <<adapter, request, Source!source>>,
         edits = 0 /\ ~journal /\ ~committed => Source!Reference(Source!Standing) = Source!Refused
  PROVE  SourceInv'
<1>1. StateInv'
  BY AnswerKeeps DEF Source!Refuse
<1>2. reader'.answer = Source!Refused
  BY DEF Source!Refuse, StateInv, CallInv
<1>3. UNCHANGED <<names, inodes, journal, committed, seen, edits>>
  BY DEF Source!source
<1>4. Source!Reference(Source!Standing)' = Source!Reference(Source!Standing)
  <2>1. Source!Standing' = Source!Standing
    BY <1>3 DEF Source!Standing
  <2>2. \A s : Source!Reference(s)' = Source!Reference(s)
    BY ReferenceStays
  <2> QED BY <2>1, <2>2
<1>5. Source!ProjectionIsOfSource'
  BY <1>2, <1>3, <1>4 DEF Source!ProjectionIsOfSource, Source!Refused
<1> QED BY <1>1, <1>5 DEF SourceInv

\* A name that stands for what was noted under it.
LEMMA NamedIs ==
  ASSUME DiskInv, NotesInv, NEW p \in DOMAIN reader.noted, names[p] = reader.noted[p].id
  PROVE  Source!Standing[p] = Holds(p)
<1>1. p \in Source!Names[adapter] /\ reader.noted[p].id \in 1 .. Len(inodes) /\ Len(inodes) \in Nat
  BY DEF NotesInv, NotedInv, DiskInv, Source!IsTuple
<1>2. p \in DOMAIN names /\ names[p] # 0
  BY <1>1 DEF DiskInv
<1> QED BY <1>2 DEF Source!Standing, Holds

LEMMA StreamIsTaken ==
  ASSUME StateInv, NEW n \in Streams[adapter], reader.at > ReadAt(n), AsNoted(Source!Path(n))
  PROVE  Taken(n, Holds(Source!Path(n))) /\ Source!Path(n) \in DOMAIN reader.noted
<1>1. ReadInv(n) /\ reader.at \in Nat
  BY CallIs DEF StateInv, ReadsInv
<1>2. OpenAt(n) \in Nat /\ ReadAt(n) \in Nat /\ OpenAt(n) < ReadAt(n)
  BY DEF OpenAt, ReadAt
<1>3. /\ Source!Path(n) \in DOMAIN reader.noted /\ Len(Source!Got(n)) = Source!Wanted(n).cells
      /\ \A k \in 1 .. Len(Source!Got(n)) : Source!Got(n)[k] = Holds(Source!Path(n))[Source!Wanted(n).from + k]
  BY <1>1, <1>2 DEF ReadInv
<1>4. NotedInv(Source!Path(n))
  BY <1>3 DEF StateInv, NotesInv
<1> QED BY <1>3, <1>4 DEF Taken, NotedInv, Source!Noted

LEMMA StandingIsTaken ==
  ASSUME StateInv,
         \A n \in Streams[adapter] : /\ reader.at > ReadAt(n) /\ AsNoted(Source!Path(n))
                                     /\ names[Source!Path(n)] = Source!Noted(n).id
  PROVE  AllTaken(Source!Standing)
<1> SUFFICES ASSUME NEW n \in Streams[adapter] PROVE Taken(n, Source!Standing[Source!Path(n)])
  BY DEF AllTaken
<1>1. Taken(n, Holds(Source!Path(n))) /\ Source!Path(n) \in DOMAIN reader.noted
  BY StreamIsTaken
<1>2. Source!Standing[Source!Path(n)] = Holds(Source!Path(n))
  BY <1>1, NamedIs DEF StateInv, Source!Noted
<1> QED BY <1>1, <1>2

\* With no change by others, all that was read is of what stands.
LEMMA UntouchedIsTaken ==
  ASSUME StateInv, edits = 0, \A n \in Streams[adapter] : reader.at > ReadAt(n)
  PROVE  AllTaken(Source!Standing)
<1>1. ASSUME NEW n \in Streams[adapter]
      PROVE  AsNoted(Source!Path(n)) /\ names[Source!Path(n)] = Source!Noted(n).id
  <2>1. reader.at > OpenAt(n) /\ reader.at > ReadAt(n)
    BY CallIs DEF StateInv, OpenAt, ReadAt
  <2>2. Source!Path(n) \in DOMAIN reader.noted
    BY <2>1 DEF StateInv, ReadsInv, ReadInv
  <2> QED BY <1>1, <2>2 DEF StateInv, NotesInv, NotedInv, Source!Noted
<1> QED BY <1>1, StandingIsTaken

\* A file that is read to its end.
LEMMA WholeIsTaken ==
  ASSUME StateInv, NEW n \in Streams[adapter], n \notin {"header", "array", "data"},
         NEW F, Taken(n, F)
  PROVE  Source!Got(n) = F /\ F # <<>> /\ Source!IsFile(adapter, n, F)
<1>1. /\ Source!Path(n) = n /\ Source!Wanted(n) = [from |-> 0, cells |-> Source!Noted(n).len]
  BY DEF Source!Path, Source!Wanted
<1>2. /\ Source!IsTuple(F) /\ F # <<>> /\ Source!IsFile(adapter, n, F) /\ Len(F) = Len(Source!Got(n))
      /\ \A k \in 1 .. Len(Source!Got(n)) : Source!Got(n)[k] = F[0 + k]
  BY <1>1 DEF Taken, Source!IsFile
<1>3. Source!IsTuple(Source!Got(n))
  BY DEF StateInv, ReadsInv, ReadInv
<1>4. \A k \in 1 .. Len(Source!Got(n)) : Source!Got(n)[k] = F[k]
  BY <1>2, <1>3 DEF Source!IsTuple
<1> QED BY <1>2, <1>3, <1>4, TupleEqual

LEMMA ProjectionIs ==
  ASSUME StateInv, Source!Now.do = "answer", NEW s, AllTaken(s)
  PROVE  Source!Projection = Source!Reference(s)
<1>1. adapter \in DOMAIN Source!Names /\ Source!IsRequest(adapter, request) /\ FitInv
  BY DEF StateInv, DiskInv
<1>2. \A n \in Streams[adapter] : Taken(n, s[Source!Path(n)]) /\ Source!IsTuple(Source!Got(n))
  BY DEF AllTaken, StateInv, ReadsInv, ReadInv
<1>3. reader.at \in 1 .. Len(Source!Steps)
  BY DEF StateInv, CallInv
<1>4. CASE adapter = "npy"
  <2>1. Streams[adapter] = {"header", "array"} /\ Source!Path("header") = "array" /\ Source!Path("array") = "array"
    BY <1>1, <1>4, Namings DEF Source!Path
  <2>2. Taken("header", s["array"]) /\ Taken("array", s["array"]) /\ Source!IsTuple(Source!Got("array"))
    BY <1>2, <2>1
  <2>3. /\ Source!Wanted("header") = [from |-> 0, cells |-> 1]
        /\ Source!Wanted("array") = [from |-> 1 + request.first, cells |-> Source!ObservedCount]
    BY DEF Source!Wanted
  <2>4. Source!Header = s["array"][1]
    <3>1. 1 \in 1 .. Len(Source!Got("header"))
      BY <2>2, <2>3 DEF Taken
    <3>2. Source!Got("header")[1] = s["array"][0 + 1]
      BY <2>2, <2>3, <3>1 DEF Taken
    <3> QED BY <3>2 DEF Source!Header
  <2>5. /\ Source!IsFile("npy", "array", s["array"]) /\ Source!Noted("array").len = Len(s["array"])
        /\ Len(Source!Got("array")) = Source!ObservedCount
        /\ \A k \in 1 .. Len(Source!Got("array")) : Source!Got("array")[k] = s["array"][1 + request.first + k]
    BY <1>4, <2>1, <2>2, <2>3 DEF Taken
  <2>6. Source!Fit("header")
    <3>1. reader.at = 6
      BY <1>1, <1>3, <1>4, CallsAre DEF CallStep
    <3> QED BY <1>1, <1>4, <3>1 DEF FitInv
  <2>7. Source!NpyWindow = Source!ArrayOf(s)
    BY <1>1, <1>4, <2>2, <2>4, <2>5, <2>6, NpyWindowIsOfArray
  <2> QED BY <1>4, <2>7 DEF Source!Projection, Source!Reference
<1>5. CASE adapter = "sigmf"
  <2>1. Streams[adapter] = {"meta", "data"} /\ Source!Path("meta") = "meta" /\ Source!Path("data") = Source!Meta.dialect
    BY <1>1, <1>5, Namings DEF Source!Path
  <2>2. Taken("meta", s["meta"]) /\ Taken("data", s[Source!Meta.dialect]) /\ Source!IsTuple(Source!Got("data"))
    BY <1>2, <2>1
  <2>3. Source!Wanted("data") = [from |-> 2 * request.first, cells |-> Source!PlannedBytes]
    BY DEF Source!Wanted
  <2>4. Source!Got("meta") = s["meta"] /\ s["meta"] # <<>>
    BY <2>1, <2>2, WholeIsTaken
  <2>5. Source!Meta = s["meta"][1]
    BY <2>4 DEF Source!Meta
  <2>6. Source!IsMetadata(Source!Meta) /\ Source!Fit("meta") /\ Source!Fit("data")
    <3>1. reader.at = 10
      BY <1>1, <1>3, <1>5, CallsAre DEF CallStep
    <3> QED BY <1>1, <1>5, <3>1 DEF FitInv
  <2> DEFINE F == s[Source!Meta.dialect]
  <2>7. /\ Source!IsTuple(F) /\ F # <<>> /\ Source!Noted("data").len = Len(F)
        /\ Len(Source!Got("data")) = Source!PlannedBytes
        /\ \A k \in 1 .. Len(Source!Got("data")) : Source!Got("data")[k] = F[2 * request.first + k]
    BY <2>2, <2>3 DEF Taken, Source!IsFile
  <2>8. F = s[Source!Meta.dialect]
    OBVIOUS
  <2> HIDE DEF F
  <2>9. Source!SigmfWindow = Source!SamplesOf(s)
    BY <1>1, <1>5, <2>2, <2>4, <2>5, <2>6, <2>7, <2>8, SigmfWindowIsOfSamples
  <2> QED BY <1>5, <2>9 DEF Source!Projection, Source!Reference
<1>6. CASE adapter = "zeek"
  <2>1. Streams[adapter] = {"log"} /\ Source!Path("log") = "log"
    BY <1>1, <1>6, Namings DEF Source!Path
  <2>2. Source!Got("log") = s["log"] /\ Source!IsFile("zeek", "log", s["log"])
    BY <1>2, <1>6, <2>1, WholeIsTaken
  <2> QED BY <1>1, <1>6, <2>2, ConnLogIsOfLog DEF Source!Projection, Source!Reference
<1>7. CASE adapter = "sdr4iot"
  <2>1. Streams[adapter] = {"csv"} /\ Source!Path("csv") = "csv"
    BY <1>1, <1>7, Namings DEF Source!Path
  <2>2. Source!Got("csv") = s["csv"] /\ Source!IsFile("sdr4iot", "csv", s["csv"])
    BY <1>2, <1>7, <2>1, WholeIsTaken
  <2> QED BY <1>1, <1>7, <2>2, DetectionsAreOfFile DEF Source!Projection, Source!Reference
<1>8. CASE adapter = "kismet"
  <2>1. Streams[adapter] = {"db"} /\ Source!Path("db") = "db"
    BY <1>1, <1>8, Namings DEF Source!Path
  <2>2. Source!Got("db") = s["db"] /\ Source!IsFile("kismet", "db", s["db"])
    BY <1>2, <1>8, <2>1, WholeIsTaken
  <2> QED BY <1>1, <1>8, <2>2, PacketsAreOfFile DEF Source!Projection, Source!Reference
<1> QED BY <1>1, <1>4, <1>5, <1>6, <1>7, <1>8, Namings

-----------------------------------------------------------------------------
(* Every step of a call keeps the invariant.                               *)

LEMMA StepIs ==
  ASSUME StateInv
  PROVE  /\ Source!Now.do = "open" => \/ CallStep("npy", 1, "open", "array") \/ CallStep("sigmf", 1, "open", "meta")
                                      \/ CallStep("sigmf", 5, "open", "data") \/ CallStep("zeek", 1, "open", "log")
                                      \/ CallStep("sdr4iot", 1, "open", "csv") \/ CallStep("kismet", 2, "open", "db")
         /\ Source!Now.do = "read" => \/ CallStep("npy", 2, "read", "header") \/ CallStep("npy", 4, "read", "array")
                                      \/ CallStep("sigmf", 2, "read", "meta") \/ CallStep("sigmf", 7, "read", "data")
                                      \/ CallStep("zeek", 2, "read", "log") \/ CallStep("sdr4iot", 2, "read", "csv")
                                      \/ CallStep("kismet", 3, "read", "db")
         /\ Source!Now.do = "check" => \/ CallStep("npy", 3, "check", "header") \/ CallStep("sigmf", 4, "check", "meta")
                                       \/ CallStep("sigmf", 6, "check", "data")
         /\ Source!Now.do = "fence" => \/ CallStep("npy", 5, "fence", "array") \/ CallStep("sigmf", 3, "fence", "meta")
                                       \/ CallStep("sigmf", 8, "fence", "data") \/ CallStep("sigmf", 9, "fence", "meta")
                                       \/ CallStep("zeek", 3, "fence", "log") \/ CallStep("sdr4iot", 3, "fence", "csv")
         /\ Source!Now.do = "sidecars" => \/ CallStep("kismet", 1, "sidecars", "db")
                                          \/ CallStep("kismet", 4, "sidecars", "db")
         /\ Source!Now.do = "answer" => \/ CallStep("npy", 6, "answer", "array") \/ CallStep("sigmf", 10, "answer", "data")
                                        \/ CallStep("zeek", 4, "answer", "log") \/ CallStep("sdr4iot", 4, "answer", "csv")
                                        \/ CallStep("kismet", 5, "answer", "db")
<1>1. adapter \in DOMAIN Source!Names /\ reader.at \in 1 .. Len(Source!Steps)
  BY DEF StateInv, DiskInv, CallInv
<1>2. \/ CallStep("npy", 1, "open", "array")  \/ CallStep("npy", 2, "read", "header")
      \/ CallStep("npy", 3, "check", "header") \/ CallStep("npy", 4, "read", "array")
      \/ CallStep("npy", 5, "fence", "array") \/ CallStep("npy", 6, "answer", "array")
      \/ CallStep("sigmf", 1, "open", "meta")  \/ CallStep("sigmf", 2, "read", "meta")
      \/ CallStep("sigmf", 3, "fence", "meta") \/ CallStep("sigmf", 4, "check", "meta")
      \/ CallStep("sigmf", 5, "open", "data")  \/ CallStep("sigmf", 6, "check", "data")
      \/ CallStep("sigmf", 7, "read", "data")  \/ CallStep("sigmf", 8, "fence", "data")
      \/ CallStep("sigmf", 9, "fence", "meta") \/ CallStep("sigmf", 10, "answer", "data")
      \/ CallStep("zeek", 1, "open", "log")  \/ CallStep("zeek", 2, "read", "log")
      \/ CallStep("zeek", 3, "fence", "log") \/ CallStep("zeek", 4, "answer", "log")
      \/ CallStep("sdr4iot", 1, "open", "csv")  \/ CallStep("sdr4iot", 2, "read", "csv")
      \/ CallStep("sdr4iot", 3, "fence", "csv") \/ CallStep("sdr4iot", 4, "answer", "csv")
      \/ CallStep("kismet", 1, "sidecars", "db") \/ CallStep("kismet", 2, "open", "db")
      \/ CallStep("kismet", 3, "read", "db")     \/ CallStep("kismet", 4, "sidecars", "db")
      \/ CallStep("kismet", 5, "answer", "db")
  BY <1>1, CallsAre
<1>3. \A a, i, w, n : CallStep(a, i, w, n) => Source!Now.do = w
  BY DEF CallStep
<1> QED BY <1>2, <1>3

LEMMA LastIs ==
  ASSUME StateInv
  PROVE  /\ adapter = "npy" => Len(Source!Steps) = 6
         /\ adapter \in {"zeek", "sdr4iot"} => Len(Source!Steps) = 4
BY CallIs DEF StateInv

\* A call that goes on keeps its answer for later.
LEMMA CallGoesOn ==
  ASSUME StateInv, Source!Running, Source!Advance, UNCHANGED <<adapter, request, Source!source>>,
         Source!Now.do \notin {"open", "answer"}, FitInv',
         \A n \in Streams[adapter] :
           reader.at = ReadAt(n) /\ AsNoted(Source!Path(n)) => Len(Source!Got(n)) = Source!Wanted(n).cells,
         MomentInv'
  PROVE  SourceInv'
<1>1. DiskInv' /\ CallInv' /\ NotesInv' /\ ReadsInv'
  BY AdvanceKeeps
<1>2. reader'.answer = Source!Pending
  BY AdvanceIs DEF StateInv, Source!Running
<1> QED BY <1>1, <1>2 DEF SourceInv, StateInv

LEMMA RejectSidecarsKeeps ==
  ASSUME SourceInv, Source!RejectSidecars
  PROVE  SourceInv'
<1>1. /\ StateInv /\ Source!Running /\ Source!Now.do = "sidecars" /\ UNCHANGED <<adapter, request, Source!source>>
      /\ IF journal THEN Source!Refuse ELSE Source!Advance
  BY DEF Source!RejectSidecars, Source!At, SourceInv
<1>2. CASE journal
  BY <1>1, <1>2, RefuseKeeps
<1>3. CASE ~journal
  <2>1. adapter = "kismet" /\ (reader.at = 1 \/ reader.at = 4) /\ adapter \in DOMAIN Source!Names
    BY <1>1, StepIs DEF CallStep, StateInv, DiskInv
  <2>2. /\ Source!Advance /\ reader'.at = reader.at + 1 /\ reader'.noted = reader.noted
        /\ reader'.got = reader.got
        /\ UNCHANGED <<adapter, names, inodes, journal, committed, seen, edits>>
        /\ \A p : Holds(p)' = Holds(p) /\ (AsNoted(p)' <=> AsNoted(p))
    BY <1>1, <1>3, AdvanceIs DEF StateInv
  <2>3. FitInv'
    BY <1>1, <2>1 DEF FitInv
  <2>4. \A n \in Streams[adapter] : reader.at # ReadAt(n)
    BY <1>1, CallIs DEF StateInv
  <2>5. ASSUME reader.at = 4, ~committed
        PROVE  /\ AsNoted("db") /\ \E s \in seen : s["db"] = Holds("db")
               /\ \E s \in seen : AllTaken(s)'
    <3>1. AsNoted("db") /\ \E s \in seen : s["db"] = Holds("db")
      BY <1>1, <1>3, <2>1, <2>5 DEF StateInv, MomentInv
    <3>2. PICK s \in seen : s["db"] = Holds("db")
      BY <3>1
    <3>3. Streams[adapter] = {"db"} /\ Source!Path("db") = "db" /\ ReadAt("db") = 3
      BY <2>1, Namings DEF Source!Path, ReadAt
    <3>4. Taken("db", Holds("db"))
      BY <1>1, <2>5, <3>1, <3>3, StreamIsTaken
    <3>5. AllTaken(s)
      BY <3>2, <3>3, <3>4 DEF AllTaken
    <3>6. AllTaken(s)'
      BY <1>1, <2>2, <3>5, TakenStays
    <3> QED BY <3>1, <3>6
  <2>6. MomentInv'
    BY <1>3, <2>1, <2>2, <2>5 DEF MomentInv
  <2> QED BY <1>1, <2>2, <2>3, <2>4, <2>6, CallGoesOn
<1> QED BY <1>2, <1>3

LEMMA FenceKeeps ==
  ASSUME SourceInv, Source!Fence
  PROVE  SourceInv'
<1> DEFINE n == Source!Now.on
           p == Source!Path(n)
<1>1. /\ StateInv /\ Source!Running /\ Source!Now.do = "fence" /\ UNCHANGED <<adapter, request, Source!source>>
      /\ IF names[p] = Source!Noted(n).id /\ Source!Opened.ver = Source!Noted(n).ver THEN Source!Advance ELSE Source!Refuse
  BY DEF Source!Fence, Source!At, SourceInv
<1>2. Source!Noted(n) = reader.noted[p] /\ (Source!Opened.ver = Source!Noted(n).ver <=> AsNoted(p))
  BY DEF Source!Noted, Source!Opened, AsNoted
<1>3. /\ \/ adapter = "npy" /\ reader.at = 5 /\ n = "array"
         \/ adapter = "sigmf" /\ reader.at = 3 /\ n = "meta"
         \/ adapter = "sigmf" /\ reader.at = 8 /\ n = "data"
         \/ adapter = "sigmf" /\ reader.at = 9 /\ n = "meta"
         \/ adapter = "zeek" /\ reader.at = 3 /\ n = "log"
         \/ adapter = "sdr4iot" /\ reader.at = 3 /\ n = "csv"
      /\ adapter \in DOMAIN Source!Names
  BY <1>1, StepIs DEF CallStep, StateInv, DiskInv
<1>4. n \in Streams[adapter] /\ reader.at > ReadAt(n) /\ reader.at > OpenAt(n)
  BY <1>3, Namings DEF ReadAt, OpenAt
<1>5. p \in DOMAIN reader.noted /\ NotedInv(p)
  BY <1>1, <1>4 DEF StateInv, ReadsInv, ReadInv, NotesInv
<1> HIDE DEF n, p
<1>6. CASE ~(names[p] = Source!Noted(n).id /\ AsNoted(p))
  <2>1. Source!Refuse /\ edits # 0
    BY <1>1, <1>2, <1>5, <1>6 DEF NotedInv
  <2> QED BY <1>1, <2>1, RefuseKeeps
<1>7. CASE names[p] = Source!Noted(n).id /\ AsNoted(p)
  <2>1. /\ Source!Advance /\ reader'.at = reader.at + 1 /\ reader'.noted = reader.noted
        /\ reader'.got = reader.got
        /\ UNCHANGED <<adapter, names, inodes, journal, committed, seen, edits>>
        /\ \A q : Holds(q)' = Holds(q) /\ (AsNoted(q)' <=> AsNoted(q))
    BY <1>1, <1>2, <1>7, AdvanceIs DEF StateInv
  <2>2. /\ \A m : Source!Got(m)' = Source!Got(m)
        /\ Source!Meta' = Source!Meta /\ Source!Header' = Source!Header
        /\ \A m : Source!Noted(m)' = Source!Noted(m)
        /\ \A m : Source!Fit(m)' <=> Source!Fit(m)
    BY <1>1, <2>1, ViewsStay
  <2>3. Taken(n, Holds(p))
    BY <1>1, <1>4, <1>7, StreamIsTaken DEF p
  <2>4. adapter = "sigmf" /\ reader.at = 3 => Source!Got("meta") # <<>>
    <3>1. ASSUME n = "meta" PROVE Source!Got("meta") # <<>>
      BY <1>1, <1>4, <2>3, <3>1, WholeIsTaken
    <3> QED BY <1>3, <3>1
  <2>5. FitInv'
    BY <1>1, <1>3, <2>1, <2>2, <2>4 DEF StateInv, FitInv
  <2>6. \A m \in Streams[adapter] : reader.at # ReadAt(m)
    BY <1>1, CallIs DEF StateInv
  <2>7. \A s : AllTaken(s) => AllTaken(s)'
    BY <1>1, <2>1, TakenStays
  <2>8. adapter \in {"npy", "zeek", "sdr4iot"} => AllTaken(Source!Standing)
    <3> SUFFICES ASSUME adapter \in {"npy", "zeek", "sdr4iot"},
                        NEW m \in Streams[adapter]
                 PROVE  reader.at > ReadAt(m) /\ AsNoted(Source!Path(m)) /\ names[Source!Path(m)] = Source!Noted(m).id
      BY <1>1, StandingIsTaken
    <3>1. Source!Path(m) = p
      BY <1>3, Namings DEF Source!Path, p
    <3>2. reader.at > ReadAt(m)
      BY <1>3, Namings DEF ReadAt
    <3> QED BY <1>2, <1>7, <3>1, <3>2 DEF Source!Noted
  <2>9. ASSUME adapter = "sigmf", reader.at = 8, names["meta"] = Source!Noted("meta").id, AsNoted("meta")
        PROVE  AllTaken(Source!Standing)
    <3> SUFFICES ASSUME NEW m \in Streams[adapter]
                 PROVE  reader.at > ReadAt(m) /\ AsNoted(Source!Path(m)) /\ names[Source!Path(m)] = Source!Noted(m).id
      BY <1>1, StandingIsTaken
    <3>1. m = "meta" \/ m = n
      BY <1>3, <2>9, Namings
    <3>2. reader.at > ReadAt(m)
      BY <2>9, <1>3, <3>1 DEF ReadAt
    <3>3. CASE m = "meta"
      BY <2>9, <3>2, <3>3 DEF Source!Path
    <3>4. CASE m = n
      BY <1>7, <3>2, <3>4 DEF p
    <3> QED BY <3>1, <3>3, <3>4
  <2>10. ASSUME adapter = "sigmf", reader.at = 9 PROVE \E s \in seen : AllTaken(s)
    <3>1. n = "meta"
      BY <1>3, <2>10
    <3>2. p = "meta"
      BY <3>1 DEF p, Source!Path
    <3>3. names["meta"] = Source!Noted("meta").id /\ AsNoted("meta")
      BY <1>7, <3>1, <3>2
    <3> QED BY <1>1, <2>10, <3>3 DEF StateInv, MomentInv
  <2>11. adapter # "kismet" /\ Source!Standing \in seen
    BY <1>1, <1>3 DEF StateInv, DiskInv
  <2>12. adapter \in {"npy", "zeek", "sdr4iot"} => \E s \in seen' : AllTaken(s)'
    BY <2>1, <2>7, <2>8, <2>11
  <2>13. MomentInv'
    <3>1. ASSUME adapter = "sigmf", reader.at + 1 = 9, names["meta"] = Source!Noted("meta").id, AsNoted("meta")
          PROVE  \E s \in seen' : AllTaken(s)'
      <4>1. reader.at = 8
        BY <1>3, <3>1
      <4> QED BY <2>1, <2>7, <2>9, <2>11, <3>1, <4>1
    <3>2. ASSUME adapter = "sigmf", reader.at + 1 = 10 PROVE \E s \in seen' : AllTaken(s)'
      <4>1. reader.at = 9
        BY <1>3, <3>2
      <4> QED BY <2>1, <2>7, <2>10, <3>2, <4>1
    <3> QED BY <2>1, <2>2, <2>11, <2>12, <3>1, <3>2 DEF MomentInv
  <2> QED BY <1>1, <2>1, <2>5, <2>6, <2>13, CallGoesOn
<1> QED BY <1>6, <1>7

LEMMA CheckKeeps ==
  ASSUME SourceInv, Source!Check
  PROVE  SourceInv'
<1> DEFINE n == Source!Now.on
<1>1. /\ StateInv /\ Source!Running /\ Source!Now.do = "check" /\ UNCHANGED <<adapter, request, Source!source>>
      /\ IF Source!Fit(n) THEN Source!Advance ELSE Source!Refuse
  BY DEF Source!Check, Source!At, SourceInv
<1>2. /\ \/ adapter = "npy" /\ reader.at = 3 /\ n = "header"
         \/ adapter = "sigmf" /\ reader.at = 4 /\ n = "meta"
         \/ adapter = "sigmf" /\ reader.at = 6 /\ n = "data"
      /\ adapter \in DOMAIN Source!Names /\ Source!IsRequest(adapter, request)
  BY <1>1, StepIs DEF CallStep, StateInv, DiskInv
<1> HIDE DEF n
<1>3. CASE Source!Fit(n)
  <2>1. /\ Source!Advance /\ reader'.at = reader.at + 1 /\ reader'.noted = reader.noted
        /\ reader'.got = reader.got /\ UNCHANGED <<adapter, names, inodes>>
    BY <1>1, <1>3, AdvanceIs DEF StateInv
  <2>2. /\ \A m : Source!Got(m)' = Source!Got(m)
        /\ Source!Meta' = Source!Meta /\ Source!Header' = Source!Header
        /\ \A m : Source!Fit(m)' <=> Source!Fit(m)
    BY <1>1, <2>1, ViewsStay
  <2>3. FitInv'
    BY <1>1, <1>2, <1>3, <2>1, <2>2 DEF StateInv, FitInv
  <2>4. \A m \in Streams[adapter] : reader.at # ReadAt(m)
    BY <1>1, CallIs DEF StateInv
  <2>5. MomentInv'
    <3>1. Source!Steps' = Source!Steps
      BY <2>1 DEF Source!Steps
    <3>2. adapter = "npy" => reader.at + 1 # Len(Source!Steps)
      BY <1>1, <1>2, LastIs
    <3>3. adapter = "sigmf" => reader.at + 1 \notin {9, 10}
      BY <1>2
    <3>4. adapter \in {"npy", "sigmf"}
      BY <1>2
    <3> QED BY <2>1, <3>1, <3>2, <3>3, <3>4 DEF MomentInv
  <2> QED BY <1>1, <2>1, <2>3, <2>4, <2>5, CallGoesOn
<1>4. CASE ~Source!Fit(n)
  <2> SUFFICES ASSUME edits = 0 PROVE Source!Reference(Source!Standing) = Source!Refused
    BY <1>1, <1>4, RefuseKeeps
  <2> DEFINE p == IF adapter = "npy" THEN "array" ELSE "meta"
             h == IF adapter = "npy" THEN "header" ELSE "meta"
  <2>1. /\ h \in Streams[adapter] /\ Source!Path(h) = p
        /\ reader.at > ReadAt(h) /\ reader.at > OpenAt(h)
    BY <1>2, Namings DEF Source!Path, ReadAt, OpenAt
  <2>2. p \in DOMAIN reader.noted /\ NotedInv(p)
    BY <1>1, <2>1 DEF StateInv, ReadsInv, ReadInv, NotesInv
  <2>3. names[p] = reader.noted[p].id /\ AsNoted(p)
    BY <2>2 DEF NotedInv
  <2>4. Source!Standing[p] = Holds(p)
    BY <1>1, <2>2, <2>3, NamedIs DEF StateInv
  <2>5. Taken(h, Source!Standing[p])
    BY <1>1, <2>1, <2>3, <2>4, StreamIsTaken
  <2>6. CASE adapter = "npy"
    <3>1. Source!Wanted("header") = [from |-> 0, cells |-> 1]
      BY DEF Source!Wanted
    <3>2. /\ Len(Source!Standing["array"]) = Source!Noted("header").len /\ 1 \in 1 .. Len(Source!Got("header"))
          /\ Source!Got("header")[1] = Source!Standing["array"][0 + 1]
      BY <2>5, <2>6, <3>1 DEF Taken
    <3>3. Source!Header = Source!Standing["array"][1] /\ Source!Noted("array").len = Len(Source!Standing["array"])
      BY <3>2 DEF Source!Header, Source!Noted, Source!Path
    <3>4. ~Source!Fit("header")
      BY <1>2, <1>4, <2>6
    <3>5. Source!ArrayOf(Source!Standing) = Source!Refused
      BY <3>3, <3>4, UnfitArrayIsRefused
    <3> QED BY <2>6, <3>5 DEF Source!Reference
  <2>7. CASE adapter = "sigmf"
    <3>1. Source!Got("meta") = Source!Standing["meta"] /\ Source!Standing["meta"] # <<>>
      BY <1>1, <2>1, <2>5, <2>7, WholeIsTaken
    <3>2. Source!Meta = Source!Standing["meta"][1] /\ Source!IsMetadata(Source!Meta)
      BY <1>1, <2>7, <3>1 DEF Source!Meta, StateInv, FitInv
    <3>3. ~(Source!Fit("meta") /\ Source!Fit("data"))
      BY <1>2, <1>4, <2>7
    <3>4. Source!SamplesOf(Source!Standing) = Source!Refused
      BY <1>2, <2>7, <3>1, <3>2, <3>3, UnfitSamplesAreRefused
    <3> QED BY <2>7, <3>4 DEF Source!Reference
  <2> QED BY <1>2, <2>6, <2>7
<1> QED BY <1>3, <1>4

LEMMA AnswerStepKeeps ==
  ASSUME SourceInv, Source!Answer
  PROVE  SourceInv'
<1>1. /\ StateInv /\ Source!Running /\ Source!Now.do = "answer" /\ UNCHANGED <<adapter, request, Source!source>>
      /\ reader' = [reader EXCEPT !.answer = Source!Projection] \/ (Source!Torn /\ Source!Refuse)
  BY DEF Source!Answer, Source!At, SourceInv
<1>2. /\ \/ adapter = "npy" /\ reader.at = 6
         \/ adapter = "sigmf" /\ reader.at = 10
         \/ adapter = "zeek" /\ reader.at = 4
         \/ adapter = "sdr4iot" /\ reader.at = 4
         \/ adapter = "kismet" /\ reader.at = 5
      /\ adapter \in DOMAIN Source!Names
  BY <1>1, StepIs DEF CallStep, StateInv, DiskInv
<1>3. (\E s \in seen : AllTaken(s)) \/ (adapter = "kismet" /\ committed)
  <2>1. adapter \in {"npy", "zeek", "sdr4iot"} => reader.at = Len(Source!Steps)
    BY <1>1, <1>2, CallIs DEF StateInv
  <2> QED BY <1>1, <1>2, <2>1 DEF StateInv, MomentInv
<1>4. \A n \in Streams[adapter] : reader.at > ReadAt(n)
  BY <1>2, Namings DEF ReadAt
<1>5. edits = 0 => Source!Reference(Source!Standing) = Source!Projection
  BY <1>1, <1>4, UntouchedIsTaken, ProjectionIs
<1>6. \A s : AllTaken(s) => Source!Projection = Source!Reference(s)
  BY <1>1, ProjectionIs
<1>7. CASE reader' = [reader EXCEPT !.answer = Source!Projection]
  <2>1. StateInv'
    BY <1>1, <1>7, AnswerKeeps
  <2>2. reader'.answer = Source!Projection
    BY <1>1, <1>7 DEF StateInv, CallInv
  <2>3. UNCHANGED <<adapter, names, inodes, journal, committed, seen, edits>>
    BY <1>1 DEF Source!source
  <2>4. \A s : Source!Reference(s)' = Source!Reference(s)
    BY <1>1, ReferenceStays
  <2>5. Source!Standing' = Source!Standing
    BY <2>3 DEF Source!Standing
  <2>6. reader'.answer.status = "accepted" =>
           (\E s \in seen' : reader'.answer = Source!Reference(s)') \/ (adapter' = "kismet" /\ committed')
    BY <1>3, <1>6, <2>2, <2>3, <2>4
  <2>7. reader'.answer = Source!Refused /\ edits' = 0 => Source!Reference(Source!Standing)' = Source!Refused
    BY <1>5, <2>2, <2>3, <2>4, <2>5
  <2>8. Source!ProjectionIsOfSource'
    BY <2>6, <2>7 DEF Source!ProjectionIsOfSource, Source!Refused
  <2> QED BY <2>1, <2>8 DEF SourceInv
<1>8. CASE Source!Torn /\ Source!Refuse
  <2>1. adapter = "kismet" /\ \A s \in seen : s["db"] # Source!Got("db")
    BY <1>8 DEF Source!Torn
  <2>2. ASSUME NEW s \in seen, AllTaken(s) PROVE FALSE
    <3>1. Streams[adapter] = {"db"} /\ Source!Path("db") = "db"
      BY <1>2, <2>1, Namings DEF Source!Path
    <3>2. Taken("db", s["db"])
      BY <2>2, <3>1 DEF AllTaken
    <3>3. Source!Got("db") = s["db"]
      BY <1>1, <3>1, <3>2, WholeIsTaken
    <3> QED BY <2>1, <3>3
  <2>3. committed
    BY <1>3, <2>2
  <2> QED BY <1>1, <1>8, <2>3, RefuseKeeps
<1> QED BY <1>1, <1>7, <1>8

\* What is left to be read of a file that is as it was noted.
LEMMA EnoughIs ==
  ASSUME StateInv, Source!Now.do = "read"
  PROVE  /\ Source!Now.on \in Streams[adapter] /\ reader.at = ReadAt(Source!Now.on)
         /\ Source!Path(Source!Now.on) \in DOMAIN reader.noted /\ NotedInv(Source!Path(Source!Now.on))
         /\ Source!Opened.holds = Holds(Source!Path(Source!Now.on))
         /\ Len(Source!Got(Source!Now.on)) \in Nat
         /\ Source!Wanted(Source!Now.on).from \in Nat /\ Source!Wanted(Source!Now.on).cells \in Nat
         /\ AsNoted(Source!Path(Source!Now.on)) /\ Source!Enough => Len(Source!Got(Source!Now.on)) = Source!Wanted(Source!Now.on).cells
         /\ AsNoted(Source!Path(Source!Now.on)) /\ ~Source!Enough =>
                 /\ Len(Source!Got(Source!Now.on)) < Source!Wanted(Source!Now.on).cells
                 /\ Source!Position <= Len(Source!Opened.holds)
<1> DEFINE n == Source!Now.on
           p == Source!Path(n)
<1>1. n \in Streams[adapter] /\ reader.at = ReadAt(n) /\ reader.at \in Nat
  BY StepIs, CallIs, Namings DEF CallStep, StateInv, DiskInv, ReadAt
<1>2. ReadInv(n) /\ ReadAt(n) > OpenAt(n)
  BY <1>1 DEF StateInv, ReadsInv, OpenAt, ReadAt
<1>3. p \in DOMAIN reader.noted /\ NotedInv(p) /\ Len(Source!Got(n)) \in Nat
  BY <1>1, <1>2 DEF StateInv, ReadInv, NotesInv, Source!IsTuple
<1>4. Source!Opened.holds = Holds(p)
  BY DEF Source!Opened, Source!Noted, Holds
<1>5. Ready(n)
  BY <1>1, ReadyIs DEF StateInv
<1>6. /\ Source!Wanted(n).from \in Nat /\ Source!Wanted(n).cells \in Nat
      /\ \A k \in 1 .. Source!Wanted(n).cells : Source!Wanted(n).from + k <= Source!Noted(n).len
  BY <1>1, <1>3, <1>5, WantedIs DEF StateInv
<1>7. Source!Position = Source!Wanted(n).from + Len(Source!Got(n)) + 1
  BY DEF Source!Position
<1>8. adapter = "kismet" => Source!Wanted(n) = [from |-> 0, cells |-> Source!Noted(n).len]
  <2>1. adapter = "kismet" => n = "db"
    BY <1>1, Namings DEF StateInv, DiskInv
  <2> QED BY <2>1 DEF Source!Wanted
<1>9. ASSUME AsNoted(p)
      PROVE  Len(Source!Opened.holds) = Source!Noted(n).len /\ Len(Source!Got(n)) <= Source!Wanted(n).cells /\ Source!Noted(n).len \in Nat
  BY <1>1, <1>2, <1>3, <1>4, <1>9 DEF ReadInv, NotedInv, Source!Noted
<1>10. Source!Enough <=> IF adapter = "kismet" THEN Source!Position > Len(Source!Opened.holds)
                         ELSE Len(Source!Got(n)) = Source!Wanted(n).cells
  BY DEF Source!Enough
<1> HIDE DEF n, p, Source!Position, Source!Enough
<1>11. ASSUME AsNoted(p), Source!Enough PROVE Len(Source!Got(n)) = Source!Wanted(n).cells
  BY <1>3, <1>6, <1>7, <1>8, <1>9, <1>10, <1>11
<1>12. ASSUME AsNoted(p), ~Source!Enough
       PROVE  Len(Source!Got(n)) < Source!Wanted(n).cells /\ Source!Position <= Len(Source!Opened.holds)
  <2>1. Len(Source!Got(n)) < Source!Wanted(n).cells
    BY <1>3, <1>6, <1>7, <1>8, <1>9, <1>10, <1>12
  <2>2. Source!Wanted(n).from + (Len(Source!Got(n)) + 1) <= Source!Noted(n).len
    BY <1>3, <1>6, <2>1
  <2> QED BY <1>3, <1>6, <1>7, <1>9, <1>12, <2>1, <2>2
<1> QED BY <1>1, <1>3, <1>4, <1>6, <1>11, <1>12 DEF n, p

LEMMA ReadAllKeeps ==
  ASSUME SourceInv, Source!ReadAll
  PROVE  SourceInv'
<1>1. /\ StateInv /\ Source!Running /\ Source!Now.do = "read" /\ UNCHANGED <<adapter, request, Source!source>>
      /\ Source!Enough /\ Source!Advance
  BY DEF Source!ReadAll, Source!At, SourceInv
<1>2. /\ \/ adapter = "npy" /\ reader.at \in {2, 4} /\ (reader.at = 2 => Source!Now.on = "header")
         \/ adapter = "sigmf" /\ reader.at \in {2, 7}
         \/ adapter \in {"zeek", "sdr4iot"} /\ reader.at = 2
         \/ adapter = "kismet" /\ reader.at = 3
      /\ adapter \in DOMAIN Source!Names
  BY <1>1, StepIs DEF CallStep, StateInv, DiskInv
<1>3. /\ reader'.at = reader.at + 1 /\ reader'.noted = reader.noted
      /\ reader'.got = reader.got
      /\ UNCHANGED <<adapter, names, inodes, journal, committed, seen, edits>>
      /\ \A q : Holds(q)' = Holds(q) /\ (AsNoted(q)' <=> AsNoted(q))
  BY <1>1, AdvanceIs DEF StateInv
<1>4. /\ \A m : Source!Got(m)' = Source!Got(m)
      /\ Source!Meta' = Source!Meta /\ Source!Header' = Source!Header
      /\ \A m : Source!Fit(m)' <=> Source!Fit(m)
  BY <1>1, <1>3, ViewsStay
<1>5. adapter = "npy" /\ reader.at = 2 => Source!Got("header") # <<>>
  <2> SUFFICES ASSUME adapter = "npy", reader.at = 2 PROVE Source!Got("header") # <<>>
    OBVIOUS
  <2>1. Source!Now.on = "header"
    BY <1>2
  <2>2. Len(Source!Got("header")) = Source!Wanted("header").cells
    BY <1>1, <2>1 DEF Source!Enough
  <2>3. Source!Wanted("header").cells = 1
    BY DEF Source!Wanted
  <2> QED BY <2>2, <2>3
<1>6. FitInv'
  BY <1>1, <1>2, <1>3, <1>4, <1>5 DEF StateInv, FitInv
<1>7. ASSUME NEW m \in Streams[adapter], reader.at = ReadAt(m), AsNoted(Source!Path(m))
      PROVE  Len(Source!Got(m)) = Source!Wanted(m).cells
  <2>1. m = Source!Now.on
    BY <1>1, <1>7, CallIs DEF StateInv
  <2> QED BY <1>1, <1>7, <2>1, EnoughIs
<1>8. MomentInv'
  <2>1. Source!Steps' = Source!Steps
    BY <1>3 DEF Source!Steps
  <2>2. adapter \in {"npy", "zeek", "sdr4iot"} => reader.at + 1 # Len(Source!Steps)
    <3>1. adapter = "npy" => reader.at + 1 < 6
      BY <1>2
    <3>2. adapter \in {"zeek", "sdr4iot"} => reader.at + 1 < 4
      BY <1>2
    <3>3. (adapter = "npy" => Len(Source!Steps) = 6) /\ (adapter \in {"zeek", "sdr4iot"} => Len(Source!Steps) = 4)
      BY <1>1, LastIs
    <3>4. reader.at \in Int
      <4>1. reader.at \in 1 .. Len(Source!Steps)
        BY <1>1 DEF StateInv, CallInv
      <4> QED BY <4>1
    <3>5. CASE adapter = "npy"
      BY <3>1, <3>3, <3>4, <3>5
    <3>6. ASSUME adapter \in {"zeek", "sdr4iot"} PROVE reader.at + 1 # Len(Source!Steps)
      <4>1. reader.at + 1 < 4 /\ Len(Source!Steps) = 4
        BY <3>2, <3>3, <3>6
      <4> QED BY <3>4, <4>1
    <3> QED BY <3>5, <3>6
  <2>3. adapter = "kismet" =>
           /\ reader.at = 3 /\ (~journal /\ ~committed =>
                 AsNoted("db") /\ \E s \in seen : s["db"] = Holds("db"))
    BY <1>1, <1>2 DEF StateInv, MomentInv
  <2>4. adapter = "sigmf" => reader.at + 1 \notin {9, 10}
    BY <1>2
  <2>5. adapter \in {"npy", "sigmf", "zeek", "sdr4iot", "kismet"}
    BY <1>2
  <2> QED BY <1>3, <2>1, <2>2, <2>3, <2>4, <2>5 DEF MomentInv
<1> QED BY <1>1, <1>6, <1>7, <1>8, CallGoesOn

LEMMA CellKeeps ==
  ASSUME StateInv, Source!Running, Source!Now.do = "read", ~Source!Enough, Source!Position <= Len(Source!Opened.holds),
         reader' = [reader EXCEPT !.got =
            Source!Bind(@, Source!Now.on, Append(Source!Got(Source!Now.on), Source!Opened.holds[Source!Position]))],
         UNCHANGED <<adapter, request, Source!source>>
  PROVE  SourceInv'
<1>1. PICK n \in Streams[adapter] : n = Source!Now.on
  BY EnoughIs
<1> DEFINE p == Source!Path(n)
           x == Source!Opened.holds[Source!Position]
           y == Append(Source!Got(n), x)
<1>2. /\ reader.at = ReadAt(n)
      /\ p \in DOMAIN reader.noted /\ NotedInv(p) /\ Source!Opened.holds = Holds(p)
      /\ Len(Source!Got(n)) \in Nat /\ Source!Wanted(n).from \in Nat /\ Source!Wanted(n).cells \in Nat
      /\ AsNoted(p) => Len(Source!Got(n)) < Source!Wanted(n).cells
  BY <1>1, EnoughIs
<1>3. /\ \/ adapter = "npy" /\ reader.at = 2 /\ n = "header"
         \/ adapter = "npy" /\ reader.at = 4 /\ n = "array"
         \/ adapter = "sigmf" /\ reader.at = 2 /\ n = "meta"
         \/ adapter = "sigmf" /\ reader.at = 7 /\ n = "data"
         \/ adapter = "zeek" /\ reader.at = 2 /\ n = "log"
         \/ adapter = "sdr4iot" /\ reader.at = 2 /\ n = "csv"
         \/ adapter = "kismet" /\ reader.at = 3 /\ n = "db"
      /\ adapter \in DOMAIN Source!Names
  BY <1>1, StepIs DEF CallStep, StateInv, DiskInv
<1>4. /\ reader'.at = reader.at /\ reader'.noted = reader.noted /\ reader'.answer = Source!Pending
      /\ reader'.got = Source!Bind(reader.got, n, y)
      /\ reader' = [at |-> reader'.at, noted |-> reader'.noted, got |-> reader'.got,
                    answer |-> reader'.answer]
  BY <1>1 DEF StateInv, CallInv, Source!Running
<1>5. /\ UNCHANGED <<adapter, request, names, inodes, journal, committed, seen, edits>>
      /\ \A q : Holds(q)' = Holds(q) /\ (AsNoted(q)' <=> AsNoted(q))
  BY <1>4 DEF Source!source, Holds, AsNoted
<1>6. Source!IsTuple(Source!Got(n)) /\ ReadInv(n)
  BY DEF StateInv, ReadsInv, ReadInv
<1>7. /\ Source!Position = Source!Wanted(n).from + (Len(Source!Got(n)) + 1)
      /\ Source!Position \in Nat \ {0}
  BY <1>1, <1>2 DEF Source!Position
<1>8. /\ Source!IsTuple(y) /\ Len(y) = Len(Source!Got(n)) + 1
      /\ \A k \in 1 .. Len(Source!Got(n)) : y[k] = Source!Got(n)[k]
      /\ y[Len(Source!Got(n)) + 1] = x
  BY <1>6, AppendIs
<1>9. x = Holds(p)[Source!Wanted(n).from + (Len(Source!Got(n)) + 1)]
  BY <1>2, <1>7
<1>10. /\ Source!Got(n)' = y
       /\ \A m : m # n => Source!Got(m)' = Source!Got(m)
  <2> HIDE DEF y
  <2>1. /\ DOMAIN reader'.got = DOMAIN reader.got \cup {n}
        /\ reader'.got[n] = y
        /\ \A m \in DOMAIN reader.got : m # n => reader'.got[m] = reader.got[m]
    BY <1>4 DEF Source!Bind
  <2>2. ASSUME NEW m, m # n PROVE Source!Got(m)' = Source!Got(m)
    BY <2>1, <2>2 DEF Source!Got
  <2>3. Source!Got(n)' = y
    BY <2>1 DEF Source!Got
  <2> QED BY <2>2, <2>3
<1> HIDE DEF p, x, y
\* What is known of headers and metadata.
<1>11. /\ n # "header" => Source!Header' = Source!Header
       /\ n # "meta" => Source!Meta' = Source!Meta
  BY <1>10 DEF Source!Header, Source!Meta
<1>12. \/ Source!Got(n) # <<>> /\ y[1] = Source!Got(n)[1]
       \/ Source!Got(n) = <<>> /\ x = Holds(p)[Source!Wanted(n).from + 1] /\ y[1] = x
  <2>1. CASE Source!Got(n) = <<>>
    <3>1. Len(Source!Got(n)) = 0
      BY <2>1
    <3> QED BY <1>2, <1>8, <1>9, <2>1, <3>1
  <2>2. CASE Source!Got(n) # <<>>
    <3>1. 1 \in 1 .. Len(Source!Got(n))
      BY <1>2, <1>6, <2>2, TupleIs
    <3> QED BY <1>8, <2>2, <3>1
  <2> QED BY <2>1, <2>2
<1>13. ASSUME n = "header" PROVE Source!Header'.says \in Nat
  <2>1. Source!Wanted(n).from = 0 /\ adapter = "npy" /\ p = "array"
    BY <1>3, <1>13 DEF Source!Wanted, Source!Path, p
  <2>2. Source!Header' = y[1]
    BY <1>10, <1>13 DEF Source!Header
  <2>3. Source!IsFile("npy", "array", Holds(p))
    BY <1>2, <2>1 DEF NotedInv
  <2>4. Holds(p)[1].says \in Nat
    BY <2>3 DEF Source!IsFile
  <2>5. Source!Got(n) # <<>> => Source!Got(n)[1].says \in Nat
    BY <1>13, <2>1 DEF StateInv, FitInv, Source!Header
  <2> QED BY <1>12, <2>1, <2>2, <2>4, <2>5
<1>14. ASSUME n = "meta" PROVE Source!IsMetadata(Source!Meta')
  <2>1. Source!Wanted(n).from = 0 /\ adapter = "sigmf" /\ p = "meta"
    BY <1>3, <1>14 DEF Source!Wanted, Source!Path, p
  <2>2. Source!Meta' = y[1]
    BY <1>10, <1>14 DEF Source!Meta
  <2>3. Source!IsFile("sigmf", "meta", Holds(p))
    BY <1>2, <2>1 DEF NotedInv
  <2>4. Source!IsMetadata(Holds(p)[1])
    BY <2>3 DEF Source!IsFile
  <2>5. Source!Got(n) # <<>> => Source!IsMetadata(Source!Got(n)[1])
    BY <1>14, <2>1 DEF StateInv, FitInv, Source!Meta
  <2> QED BY <1>12, <2>1, <2>2, <2>4, <2>5
<1>15. n # "meta" => \A m : Source!Path(m)' = Source!Path(m) /\ Source!Noted(m)' = Source!Noted(m)
  BY <1>4, <1>11 DEF Source!Path, Source!Noted
<1>16. \A m : m # "data" => Source!Path(m)' = Source!Path(m) /\ Source!Noted(m)' = Source!Noted(m)
  BY <1>4 DEF Source!Path, Source!Noted
<1>17. \A m \in Streams[adapter] : m = n \/ reader.at > ReadAt(m) => Source!Wanted(m)' = Source!Wanted(m)
  <2> SUFFICES ASSUME NEW m \in Streams[adapter], m = n \/ reader.at > ReadAt(m)
               PROVE  Source!Wanted(m)' = Source!Wanted(m)
    OBVIOUS
  <2>1. CASE m = "header"
    BY <2>1 DEF Source!Wanted
  <2>2. CASE m = "array"
    <3>1. n = "array"
      BY <1>3, <2>2, Namings DEF ReadAt
    <3>2. Source!ObservedCount' = Source!ObservedCount
      BY <1>5, <1>11, <3>1 DEF Source!ObservedCount
    <3> QED BY <1>5, <2>2, <3>2 DEF Source!Wanted
  <2>3. CASE m = "data"
    <3>1. n = "data"
      BY <1>3, <2>3, Namings DEF ReadAt
    <3>2. Source!Meta' = Source!Meta /\ Source!Noted("data")' = Source!Noted("data")
      BY <1>11, <1>15, <3>1
    <3>3. Source!PlannedBytes' = Source!PlannedBytes
      BY <1>5, <3>2 DEF Source!PlannedBytes, Source!ByteOrder
    <3> QED BY <1>5, <2>3, <3>3 DEF Source!Wanted
  <2>4. CASE m \notin {"header", "array", "data"}
    <3>1. Source!Noted(m)' = Source!Noted(m)
      BY <1>16, <2>4
    <3> QED BY <2>4, <3>1 DEF Source!Wanted
  <2> QED BY <2>1, <2>2, <2>3, <2>4
<1>18. ReadsInv'
  <2> SUFFICES ASSUME NEW m \in Streams[adapter] PROVE ReadInv(m)'
    BY <1>5 DEF ReadsInv
  <2>1. ReadInv(m)
    BY DEF StateInv, ReadsInv
  <2>2. CASE m = n
    <3>1. n # "data" \/ n # "meta"
      OBVIOUS
    <3>2. Source!Path(n)' = p /\ Source!Wanted(n)' = Source!Wanted(n)
      BY <1>15, <1>16, <1>17, <3>1 DEF p
    <3>3. ReadAt(n) \in Nat /\ OpenAt(n) \in Nat /\ OpenAt(n) < ReadAt(n)
      BY DEF ReadAt, OpenAt
    <3>4. ASSUME AsNoted(p)
          PROVE  /\ Len(y) <= Source!Wanted(n).cells
                 /\ \A k \in 1 .. Len(y) : y[k] = Holds(p)[Source!Wanted(n).from + k]
      <4>1. \A k \in 1 .. Len(Source!Got(n)) : Source!Got(n)[k] = Holds(p)[Source!Wanted(n).from + k]
        BY <1>2, <1>6, <3>3, <3>4 DEF ReadInv, p
      <4>2. \A k \in 1 .. Len(y) : k \in 1 .. Len(Source!Got(n)) \/ k = Len(Source!Got(n)) + 1
        BY <1>2, <1>8
      <4> QED BY <1>2, <1>8, <1>9, <3>4, <4>1, <4>2
    <3>5. (AsNoted(Source!Path(n))' <=> AsNoted(p)) /\ Holds(Source!Path(n))' = Holds(p)
      BY <1>4, <1>5, <3>2 DEF AsNoted, Holds
    <3> QED BY <1>2, <1>4, <1>8, <1>10, <2>2, <3>2, <3>3, <3>4, <3>5 DEF ReadInv
  <2>3. CASE m # n
    <3>1. Source!Got(m)' = Source!Got(m)
      BY <1>10, <2>3
    <3>2. CASE reader.at > ReadAt(m)
      <4>1. n # "meta" \/ m # "data"
        BY <1>3, <3>2 DEF ReadAt
      <4>2. Source!Path(m)' = Source!Path(m) /\ Source!Wanted(m)' = Source!Wanted(m)
        BY <1>15, <1>16, <1>17, <3>2, <4>1
      <4>3. (AsNoted(Source!Path(m))' <=> AsNoted(Source!Path(m))) /\ Holds(Source!Path(m))' = Holds(Source!Path(m))
        BY <1>5, <4>2 DEF AsNoted, Holds
      <4> QED BY <1>4, <2>1, <3>1, <4>2, <4>3 DEF ReadInv
    <3>3. CASE ~(reader.at > ReadAt(m))
      <4>1. reader.at < ReadAt(m)
        BY <1>3, <2>3, <3>3, Namings DEF ReadAt
      <4>2. Source!Got(m) = <<>>
        BY <2>1, <4>1 DEF ReadInv
      <4>3. reader.at > OpenAt(m) => m # "data"
        BY <1>3, <2>3, Namings DEF OpenAt
      <4>4. reader.at > OpenAt(m) => Source!Path(m)' \in DOMAIN reader'.noted
        BY <1>4, <1>16, <2>1, <4>3 DEF ReadInv
      <4>5. ~(reader.at >= ReadAt(m))
        BY <1>3, <4>1, <3>3 DEF ReadAt
      <4> QED BY <1>4, <2>1, <3>1, <3>3, <4>1, <4>2, <4>4, <4>5 DEF ReadInv
    <3> QED BY <3>2, <3>3
  <2> QED BY <2>2, <2>3
<1>19. DiskInv'
  BY <1>5 DEF StateInv, DiskInv, Source!Standing
<1>20. CallInv'
  <2>1. Source!Steps' = Source!Steps
    BY <1>5 DEF Source!Steps
  <2> QED BY <1>4, <2>1 DEF StateInv, CallInv
<1>21. NotesInv'
  BY <1>4, <1>5 DEF StateInv, NotesInv, NotedInv
<1>22. FitInv'
  <2>1. CASE adapter = "npy"
    <3>1. CASE n = "header"
      BY <1>3, <1>4, <1>5, <1>13, <3>1 DEF FitInv
    <3>2. CASE n = "array"
      <4>1. Source!Fit("header")' <=> Source!Fit("header")
        BY <1>5, <1>11, <1>16, <3>2 DEF Source!Fit
      <4>2. Source!Got("header")' = Source!Got("header") /\ Source!Header' = Source!Header
        BY <1>10, <1>11, <3>2
      <4> QED BY <1>4, <1>5, <2>1, <4>1, <4>2 DEF StateInv, FitInv
    <3> QED BY <1>3, <2>1, <3>1, <3>2
  <2>2. CASE adapter = "sigmf"
    <3>1. CASE n = "meta"
      BY <1>3, <1>4, <1>5, <1>14, <3>1 DEF FitInv
    <3>2. CASE n = "data"
      <4>1. Source!Got("meta")' = Source!Got("meta") /\ Source!Meta' = Source!Meta
        BY <1>10, <1>11, <3>2
      <4>2. (Source!Fit("meta")' <=> Source!Fit("meta")) /\ (Source!Fit("data")' <=> Source!Fit("data"))
        BY <1>5, <4>1 DEF Source!Fit, Source!MetadataIsFit
      <4> QED BY <1>4, <1>5, <2>2, <4>1, <4>2 DEF StateInv, FitInv
    <3> QED BY <1>3, <2>2, <3>1, <3>2
  <2>3. CASE adapter \notin {"npy", "sigmf"}
    BY <1>5, <2>3 DEF FitInv
  <2> QED BY <2>1, <2>2, <2>3
<1>23. MomentInv'
  <2>1. Source!Steps' = Source!Steps
    BY <1>5 DEF Source!Steps
  <2>2. /\ adapter = "npy" => reader.at = 2 \/ reader.at = 4
        /\ adapter = "zeek" => reader.at = 2
        /\ adapter = "sdr4iot" => reader.at = 2
    BY <1>3
  <2>3. ASSUME adapter \in {"npy", "zeek", "sdr4iot"} PROVE reader.at # Len(Source!Steps)
    <3>1. adapter = "npy" => Len(Source!Steps) = 6
      BY LastIs
    <3>2. adapter = "zeek" => Len(Source!Steps) = 4
      BY LastIs
    <3>3. adapter = "sdr4iot" => Len(Source!Steps) = 4
      BY LastIs
    <3>4. ASSUME adapter = "npy" PROVE reader.at # Len(Source!Steps)
      <4>1. Len(Source!Steps) = 6
        BY <3>1, <3>4
      <4>2. CASE reader.at = 2
        BY <4>1, <4>2
      <4>3. CASE reader.at = 4
        BY <4>1, <4>3
      <4> QED BY <2>2, <3>4, <4>2, <4>3
    <3>5. ASSUME adapter \in {"zeek", "sdr4iot"} PROVE reader.at # Len(Source!Steps)
      <4>1. Len(Source!Steps) = 4
        BY <3>2, <3>3, <3>5
      <4>2. reader.at = 2
        BY <2>2, <3>5
      <4> QED BY <4>1, <4>2
    <3> QED BY <2>3, <3>4, <3>5
  <2>4. adapter = "sigmf" => reader.at \notin {9, 10}
    BY <1>3
  <2>5. adapter = "kismet" =>
           /\ reader.at = 3
           /\ ~journal /\ ~committed => AsNoted("db") /\ \E s \in seen : s["db"] = Holds("db")
    BY <1>3 DEF StateInv, MomentInv
  <2> QED BY <1>4, <1>5, <2>1, <2>3, <2>4, <2>5 DEF MomentInv
<1> QED BY <1>4, <1>18, <1>19, <1>20, <1>21, <1>22, <1>23 DEF SourceInv, StateInv

LEMMA ReadKeeps ==
  ASSUME SourceInv, Source!Read
  PROVE  SourceInv'
<1>1. /\ StateInv /\ Source!Running /\ Source!Now.do = "read" /\ ~Source!Enough
      /\ UNCHANGED <<adapter, request, Source!source>>
      /\ IF Source!Position > Len(Source!Opened.holds) THEN (IF adapter = "sigmf" THEN Source!Advance ELSE Source!Refuse)
         ELSE reader' = [reader EXCEPT !.got =
                Source!Bind(@, Source!Now.on, Append(Source!Got(Source!Now.on), Source!Opened.holds[Source!Position]))]
  BY DEF Source!Read, Source!At, SourceInv
<1>2. PICK n \in Streams[adapter] : n = Source!Now.on
  BY <1>1, EnoughIs
<1>3. /\ reader.at = ReadAt(n) /\ Source!Path(n) \in DOMAIN reader.noted /\ NotedInv(Source!Path(n))
      /\ AsNoted(Source!Path(n)) => Source!Position <= Len(Source!Opened.holds)
      /\ Source!Opened.holds = Holds(Source!Path(n)) /\ Len(Source!Got(n)) \in Nat /\ Source!Wanted(n).from \in Nat
  BY <1>1, <1>2, EnoughIs
<1>4. Source!Position \in Nat /\ Len(Source!Opened.holds) \in Nat
  <2>1. Source!Position = Source!Wanted(n).from + Len(Source!Got(n)) + 1
    BY <1>2 DEF Source!Position
  <2>2. Source!IsTuple(Holds(Source!Path(n)))
    BY <1>3 DEF NotedInv, Source!IsFile
  <2> QED BY <1>3, <2>1, <2>2 DEF Source!IsTuple
<1>5. CASE Source!Position > Len(Source!Opened.holds) /\ adapter = "sigmf"
  <2>1. ~AsNoted(Source!Path(n)) /\ Source!Advance
    BY <1>1, <1>3, <1>4, <1>5
  <2>2. reader.at = 2 \/ reader.at = 7
    BY <1>1, <1>5, StepIs DEF CallStep
  <2>3. /\ reader'.at = reader.at + 1 /\ reader'.noted = reader.noted
        /\ reader'.got = reader.got /\ UNCHANGED adapter
    BY <1>1, <2>1, AdvanceIs DEF StateInv
  <2>4. /\ \A m : Source!Got(m)' = Source!Got(m)
        /\ Source!Meta' = Source!Meta
        /\ \A m : Source!Fit(m)' <=> Source!Fit(m)
    BY <1>1, <2>3, ViewsStay
  <2>5. FitInv'
    BY <1>1, <1>5, <2>2, <2>3, <2>4 DEF StateInv, FitInv
  <2>6. MomentInv'
    BY <1>5, <2>2, <2>3 DEF MomentInv
  <2>7. ASSUME NEW m \in Streams[adapter], reader.at = ReadAt(m), AsNoted(Source!Path(m))
        PROVE  Len(Source!Got(m)) = Source!Wanted(m).cells
    <3>1. m = n
      BY <1>1, <1>2, <2>7, CallIs DEF StateInv
    <3> QED BY <2>1, <2>7, <3>1
  <2> QED BY <1>1, <2>1, <2>5, <2>6, <2>7, CallGoesOn
<1>6. CASE Source!Position > Len(Source!Opened.holds) /\ adapter # "sigmf"
  <2>1. ~AsNoted(Source!Path(n)) /\ Source!Refuse
    BY <1>1, <1>3, <1>4, <1>6
  <2>2. edits # 0
    BY <1>3, <2>1 DEF NotedInv
  <2> QED BY <1>1, <2>1, <2>2, RefuseKeeps
<1>7. CASE ~(Source!Position > Len(Source!Opened.holds))
  <2>1. Source!Position <= Len(Source!Opened.holds)
    BY <1>4, <1>7
  <2> QED BY <1>1, <1>7, <2>1, CellKeeps
<1> QED BY <1>5, <1>6, <1>7

\* A file is noted: the name that it was opened under stands for it now.
LEMMA NoteKeeps ==
  ASSUME StateInv, Source!Running, Source!Now.do = "open", names[Source!Path(Source!Now.on)] # 0,
         reader' = [reader EXCEPT !.at = @ + 1, !.noted =
            Source!Bind(@, Source!Path(Source!Now.on), [id  |-> names[Source!Path(Source!Now.on)],
                                                        ver |-> inodes[names[Source!Path(Source!Now.on)]].ver,
                                                        len |-> Len(inodes[names[Source!Path(Source!Now.on)]].holds)])],
         UNCHANGED <<adapter, request, Source!source>>
  PROVE  SourceInv'
<1>1. /\ \/ adapter = "npy" /\ reader.at = 1 /\ Source!Now.on = "array"
         \/ adapter = "sigmf" /\ reader.at = 1 /\ Source!Now.on = "meta"
         \/ adapter = "sigmf" /\ reader.at = 5 /\ Source!Now.on = "data"
         \/ adapter = "zeek" /\ reader.at = 1 /\ Source!Now.on = "log"
         \/ adapter = "sdr4iot" /\ reader.at = 1 /\ Source!Now.on = "csv"
         \/ adapter = "kismet" /\ reader.at = 2 /\ Source!Now.on = "db"
      /\ adapter \in DOMAIN Source!Names
  BY StepIs DEF CallStep, StateInv, DiskInv
<1>2. Source!Path(Source!Now.on) \in Source!Names[adapter]
  <2>1. adapter = "sigmf" /\ reader.at = 5 => Source!Meta.dialect \in {"core", "osu"}
    BY DEF StateInv, FitInv, Source!IsMetadata
  <2> QED BY <1>1, <2>1, Namings DEF Source!Path
<1>3. PICK p \in Source!Names[adapter] : p = Source!Path(Source!Now.on)
  BY <1>2
<1>4. PICK id \in Nat : id = names[p]
  BY DEF StateInv, DiskInv, Source!IsTuple
<1> DEFINE note == [id |-> id, ver |-> inodes[id].ver, len |-> Len(inodes[id].holds)]
<1>5. /\ reader'.at = reader.at + 1 /\ reader'.got = reader.got /\ reader'.answer = Source!Pending
      /\ reader'.noted = Source!Bind(reader.noted, p, note)
      /\ reader' = [at |-> reader'.at, noted |-> reader'.noted, got |-> reader'.got,
                    answer |-> reader'.answer]
  BY <1>3, <1>4 DEF StateInv, CallInv, Source!Running
<1>6. /\ DOMAIN reader'.noted = DOMAIN reader.noted \cup {p} /\ reader'.noted[p] = note
      /\ \A q \in DOMAIN reader.noted : q # p => reader'.noted[q] = reader.noted[q]
  BY <1>5 DEF Source!Bind
<1>7. UNCHANGED <<adapter, request, names, inodes, journal, committed, seen, edits>>
  BY DEF Source!source
<1>8. /\ id \in 1 .. Len(inodes) /\ inodes[id].ver \in Nat
      /\ Source!IsFile(adapter, p, inodes[id].holds) /\ Len(inodes[id].holds) \in Nat \ {0}
  <2>2. DiskInv
    BY DEF StateInv
  <2>3. Len(inodes) \in Nat /\ names[p] \in 0 .. Len(inodes) /\ names[p] # 0
    BY <1>3, <1>4, <2>2 DEF DiskInv, Source!IsTuple
  <2>4. id \in 1 .. Len(inodes)
    BY <1>4, <2>3
  <2>1. id \in 1 .. Len(inodes) /\ inodes[id].ver \in Nat /\ Source!IsFile(adapter, p, inodes[id].holds)
    BY <1>3, <1>4, <2>2, <2>3, <2>4 DEF DiskInv
  <2> QED BY <2>1, TupleIs DEF Source!IsFile
<1>9. /\ \A m : Source!Got(m)' = Source!Got(m)
      /\ Source!Meta' = Source!Meta /\ Source!Header' = Source!Header
      /\ \A m : Source!Path(m)' = Source!Path(m)
  BY <1>5 DEF Source!Got, Source!Meta, Source!Header, Source!Path
<1>10. DiskInv'
  BY <1>7 DEF StateInv, DiskInv, Source!Standing
<1>11. CallInv'
  <2>1. Source!Steps' = Source!Steps
    BY <1>7 DEF Source!Steps
  <2>2. reader.at \in Nat /\ reader.at < Len(Source!Steps) /\ Len(Source!Steps) \in Nat
    BY CallIs DEF StateInv
  <2> QED BY <1>5, <2>1, <2>2 DEF CallInv
<1>12. NotesInv'
  <2> SUFFICES ASSUME NEW q \in DOMAIN reader'.noted PROVE NotedInv(q)'
    BY DEF NotesInv
  <2>1. CASE q = p
    <3>1. reader'.noted[q].id = id /\ reader'.noted[q].ver = inodes[id].ver
          /\ reader'.noted[q].len = Len(inodes[id].holds)
      BY <1>6, <2>1
    <3>2. Holds(q)' = inodes[id].holds /\ AsNoted(q)'
      BY <1>7, <3>1 DEF Holds, AsNoted
    <3>4. DiskInv /\ id # 0
      BY <1>8 DEF StateInv
    <3>3. \A n \in Source!Names[adapter] : names[n] = id => n = p
      BY <1>3, <1>4, <3>4 DEF DiskInv
    <3> QED BY <1>3, <1>4, <1>7, <1>8, <2>1, <3>1, <3>2, <3>3 DEF NotedInv
  <2>2. CASE q # p
    <3>1. q \in DOMAIN reader.noted /\ reader'.noted[q] = reader.noted[q]
      BY <1>6, <2>2
    <3>2. NotedInv(q) /\ Holds(q)' = Holds(q) /\ (AsNoted(q)' <=> AsNoted(q))
      BY <1>7, <3>1 DEF StateInv, NotesInv, Holds, AsNoted
    <3> QED BY <1>7, <3>1, <3>2 DEF NotedInv
  <2> QED BY <2>1, <2>2
<1>13. ReadsInv'
  <2> SUFFICES ASSUME NEW m \in Streams[adapter] PROVE ReadInv(m)'
    BY <1>7 DEF ReadsInv
  <2>1. ReadInv(m)
    BY DEF StateInv, ReadsInv
  <2>2. ReadAt(m) \in Nat /\ OpenAt(m) \in Nat /\ OpenAt(m) < ReadAt(m) /\ reader.at \in Nat
    BY <1>1 DEF ReadAt, OpenAt
  <2>3. CASE reader.at = OpenAt(m)
    <3>1. Source!Path(m) = p
      BY <1>1, <1>3, <2>3, Namings DEF OpenAt, Source!Path
    <3>2. Source!Got(m) = <<>>
      BY <2>1, <2>2, <2>3 DEF ReadInv
    <3>3. reader.at + 1 >= ReadAt(m) => Source!Wanted(m)'.cells \in Nat
      <4>1. CASE m = "header"
        BY <4>1 DEF Source!Wanted
      <4>2. CASE m \in {"array", "data"}
        BY <2>2, <2>3, <4>2 DEF OpenAt, ReadAt
      <4>3. CASE m \notin {"header", "array", "data"}
        <5>1. Source!Wanted(m)' = [from |-> 0, cells |-> Source!Noted(m)'.len]
          BY <4>3 DEF Source!Wanted
        <5>2. Source!Noted(m)' = note
          BY <1>6, <1>9, <3>1 DEF Source!Noted
        <5> QED BY <1>8, <5>1, <5>2
      <4> QED BY <4>1, <4>2, <4>3
    <3> QED BY <1>5, <1>6, <1>9, <2>1, <2>2, <2>3, <3>1, <3>2, <3>3 DEF ReadInv
  <2>4. CASE reader.at < OpenAt(m)
    BY <1>5, <1>9, <2>1, <2>2, <2>4 DEF ReadInv
  <2>5. CASE reader.at > OpenAt(m)
    <3>1. adapter = "sigmf" /\ reader.at = 5 /\ m = "meta"
      BY <1>1, <2>5, Namings DEF OpenAt
    <3>2. p # "meta"
      <4>1. p = Source!Meta.dialect
        BY <1>1, <1>3, <3>1 DEF Source!Path
      <4> QED BY <3>1, <4>1 DEF StateInv, FitInv, Source!IsMetadata
    <3>3. Source!Path(m) = "meta" /\ "meta" \in DOMAIN reader.noted
      BY <2>1, <2>5, <3>1 DEF ReadInv, Source!Path
    <3>4. Source!Noted(m)' = Source!Noted(m) /\ Holds("meta")' = Holds("meta") /\ (AsNoted("meta")' <=> AsNoted("meta"))
      BY <1>6, <1>7, <1>9, <3>2, <3>3 DEF Source!Noted, Holds, AsNoted
    <3>5. Source!Wanted(m)' = Source!Wanted(m)
      BY <3>1, <3>4 DEF Source!Wanted
    <3> QED BY <1>5, <1>6, <1>9, <2>1, <3>1, <3>3, <3>4, <3>5 DEF ReadInv, ReadAt, OpenAt
  <2> QED BY <2>2, <2>3, <2>4, <2>5
<1>14. FitInv'
  <2>1. Source!MetadataIsFit' <=> Source!MetadataIsFit
    BY <1>7, <1>9 DEF Source!MetadataIsFit
  <2>2. Source!Fit("meta")' <=> Source!Fit("meta")
    BY <2>1 DEF Source!Fit
  <2> QED BY <1>1, <1>5, <1>7, <1>9, <2>2 DEF StateInv, FitInv
<1>15. MomentInv'
  <2>1. Source!Steps' = Source!Steps
    BY <1>7 DEF Source!Steps
  <2>2. ASSUME adapter \in {"npy", "zeek", "sdr4iot"} PROVE reader.at + 1 # Len(Source!Steps)
    <3>1. reader.at = 1
      BY <1>1, <2>2
    <3>2. Len(Source!Steps) = 6 \/ Len(Source!Steps) = 4
      BY <2>2, LastIs
    <3> QED BY <3>1, <3>2
  <2>3. ASSUME adapter = "kismet", ~journal
        PROVE  AsNoted("db")' /\ \E s \in seen : s["db"] = Holds("db")'
    <3>1. p = "db"
      BY <1>1, <1>3, <2>3 DEF Source!Path
    <3>2. AsNoted("db")' /\ Holds("db")' = inodes[id].holds
      BY <1>6, <1>7, <3>1 DEF AsNoted, Holds
    <3>3. Source!Standing["db"] = inodes[id].holds
      BY <1>3, <1>4, <1>8, <3>1 DEF StateInv, DiskInv, Source!Standing
    <3> QED BY <2>3, <3>2, <3>3 DEF StateInv, DiskInv
  <2>4. adapter = "sigmf" => reader.at + 1 \notin {9, 10}
    BY <1>1
  <2>5. adapter = "kismet" => reader.at = 2
    BY <1>1
  <2> QED BY <1>5, <1>7, <2>1, <2>2, <2>3, <2>4, <2>5 DEF MomentInv
<1> QED BY <1>5, <1>10, <1>11, <1>12, <1>13, <1>14, <1>15 DEF SourceInv, StateInv

LEMMA OpenKeeps ==
  ASSUME SourceInv, Source!Open
  PROVE  SourceInv'
<1> DEFINE p == Source!Path(Source!Now.on)
<1>1. /\ StateInv /\ Source!Running /\ Source!Now.do = "open" /\ UNCHANGED <<adapter, request, Source!source>>
  BY DEF Source!Open, Source!At, SourceInv
<1>2. CASE names[p] # 0
  <2>1. reader' = [reader EXCEPT !.at = @ + 1, !.noted =
          Source!Bind(@, p, [id |-> names[p], ver |-> inodes[names[p]].ver,
                             len |-> Len(inodes[names[p]].holds)])]
    BY <1>2 DEF Source!Open
  <2> QED BY <1>1, <1>2, <2>1, NoteKeeps
<1>3. CASE names[p] = 0
  <2>1. Source!Refuse
    BY <1>3 DEF Source!Open
  <2> SUFFICES ASSUME edits = 0 PROVE Source!Reference(Source!Standing) = Source!Refused
    BY <1>1, <2>1, RefuseKeeps
  <2>2. /\ \/ adapter = "npy" /\ reader.at = 1 /\ Source!Now.on = "array"
           \/ adapter = "sigmf" /\ reader.at = 1 /\ Source!Now.on = "meta"
           \/ adapter = "sigmf" /\ reader.at = 5 /\ Source!Now.on = "data"
           \/ adapter = "zeek" /\ reader.at = 1 /\ Source!Now.on = "log"
           \/ adapter = "sdr4iot" /\ reader.at = 1 /\ Source!Now.on = "csv"
           \/ adapter = "kismet" /\ reader.at = 2 /\ Source!Now.on = "db"
        /\ adapter \in DOMAIN Source!Names /\ Source!IsRequest(adapter, request)
    BY <1>1, StepIs DEF CallStep, StateInv, DiskInv
  <2>3. adapter = "sigmf" /\ reader.at = 5 => Source!IsMetadata(Source!Meta) /\ Source!Meta.dialect \in {"core", "osu"}
    BY <1>1 DEF StateInv, FitInv, Source!IsMetadata
  <2>4. p \in Source!Names[adapter]
    BY <2>2, <2>3, Namings DEF Source!Path
  <2>5. Source!Standing[p] = <<>>
    BY <1>1, <1>3, <2>4 DEF StateInv, DiskInv, Source!Standing
  <2>6. CASE adapter = "npy"
    <3>1. Source!Standing["array"] = <<>>
      BY <2>2, <2>5, <2>6 DEF Source!Path
    <3> QED BY <2>6, <3>1 DEF Source!Reference, Source!ArrayOf
  <2>7. CASE adapter = "sigmf" /\ reader.at = 1
    <3>1. Source!Standing["meta"] = <<>>
      BY <2>2, <2>5, <2>7 DEF Source!Path
    <3> QED BY <2>7, <3>1 DEF Source!Reference, Source!SamplesOf
  <2>8. CASE adapter = "sigmf" /\ reader.at = 5
    <3>1. p = Source!Meta.dialect
      BY <2>2, <2>8 DEF Source!Path
    <3>2. "meta" \in Streams[adapter] /\ Source!Path("meta") = "meta" /\ ReadAt("meta") = 2
          /\ OpenAt("meta") = 1
      BY <2>2, <2>8, Namings DEF Source!Path, ReadAt, OpenAt
    <3>3. "meta" \in DOMAIN reader.noted
      BY <1>1, <2>8, <3>2 DEF StateInv, ReadsInv, ReadInv
    <3>4. names["meta"] = reader.noted["meta"].id /\ AsNoted("meta")
      BY <1>1, <3>3 DEF StateInv, NotesInv, NotedInv
    <3>5. Taken("meta", Source!Standing["meta"])
      BY <1>1, <2>8, <3>2, <3>3, <3>4, StreamIsTaken, NamedIs DEF StateInv
    <3>6. Source!Got("meta") = Source!Standing["meta"] /\ Source!Standing["meta"] # <<>>
      BY <1>1, <3>2, <3>5, WholeIsTaken
    <3>7. Source!Meta = Source!Standing["meta"][1]
      BY <3>6 DEF Source!Meta
    <3>8. Source!SamplesOf(Source!Standing) = Source!Refused
      BY <2>2, <2>3, <2>5, <2>8, <3>1, <3>6, <3>7, UnfitSamplesAreRefused
    <3> QED BY <2>8, <3>8 DEF Source!Reference
  <2>9. CASE adapter = "zeek"
    <3>1. Source!Standing["log"] = <<>>
      BY <2>2, <2>5, <2>9 DEF Source!Path
    <3> QED BY <2>9, <3>1 DEF Source!Reference, Source!LogOf
  <2>10. CASE adapter = "sdr4iot"
    <3>1. Source!Standing["csv"] = <<>>
      BY <2>2, <2>5, <2>10 DEF Source!Path
    <3> QED BY <2>10, <3>1 DEF Source!Reference, Source!DetectionsOf
  <2>11. CASE adapter = "kismet"
    <3>1. Source!Standing["db"] = <<>>
      BY <2>2, <2>5, <2>11 DEF Source!Path
    <3> QED BY <2>11, <3>1 DEF Source!Reference, Source!PacketsOf
  <2> QED BY <2>2, <2>6, <2>7, <2>8, <2>9, <2>10, <2>11
<1> QED BY <1>2, <1>3

-----------------------------------------------------------------------------
(* Every step of another program keeps the invariant.                      *)

\* What such a step may do to files and names; the answer is still out.
Outside ==
  /\ UNCHANGED <<adapter, request, reader>>
  /\ Len(inodes) <= Len(inodes')
  /\ \A i \in 1 .. Len(inodes) :
       /\ inodes'[i].ver \in Nat /\ inodes[i].ver <= inodes'[i].ver
       /\ inodes'[i].ver = inodes[i].ver => inodes'[i].holds = inodes[i].holds
       /\ \A p \in Source!Names[adapter] :
            /\ Source!IsFile(adapter, p, inodes[i].holds)
            /\ \A n \in Source!Names[adapter] : names[n] = i => n = p
            => Source!IsFile(adapter, p, inodes'[i].holds)
  /\ \A n \in Source!Names[adapter] : names'[n] = names[n] \/ names'[n] = 0 \/ names'[n] > Len(inodes)
  /\ seen \subseteq seen'
  /\ edits' = 0 => edits = 0 /\ UNCHANGED <<names, inodes>>
  /\ ~committed' => ~committed
  /\ adapter = "kismet" /\ ~journal' /\ ~committed' =>
       ~journal /\ \A i \in 1 .. Len(inodes) : inodes'[i].ver = inodes[i].ver
  /\ DiskInv'

LEMMA OutsideKeeps ==
  ASSUME SourceInv, Source!Running, Outside
  PROVE  SourceInv'
<1>1. /\ UNCHANGED <<adapter, request, reader>> /\ StateInv /\ reader.answer = Source!Pending
      /\ Len(inodes) \in Nat /\ Len(inodes') \in Nat /\ Len(inodes) <= Len(inodes')
  BY DEF SourceInv, StateInv, DiskInv, Source!IsTuple, Outside, Source!Running
<1>2. DiskInv' /\ CallInv'
  BY <1>1 DEF Outside, CallInv, StateInv, Source!Steps
<1>3. /\ \A n : Source!Got(n)' = Source!Got(n)
      /\ Source!Meta' = Source!Meta /\ Source!Header' = Source!Header
      /\ \A n : Source!Path(n)' = Source!Path(n)
      /\ \A n : Source!Noted(n)' = Source!Noted(n)
      /\ \A n : Source!Wanted(n)' = Source!Wanted(n)
      /\ \A n : Source!Fit(n)' <=> Source!Fit(n)
  BY <1>1, ViewsStay
\* What is as it was noted was so before, and holds the same.
<1>4. ASSUME NEW p \in DOMAIN reader.noted
      PROVE  /\ NotedInv(p)' /\ (AsNoted(p)' => AsNoted(p) /\ Holds(p)' = Holds(p))
             /\ names'[p] = reader.noted[p].id => names[p] = reader.noted[p].id
  <2>1. NotedInv(p)
    BY <1>1 DEF StateInv, NotesInv
  <2>2. PICK id \in 1 .. Len(inodes) : id = reader.noted[p].id
    BY <2>1 DEF NotedInv
  <2>3. /\ inodes'[id].ver \in Nat /\ inodes[id].ver \in Nat /\ inodes[id].ver <= inodes'[id].ver
        /\ inodes'[id].ver = inodes[id].ver => inodes'[id].holds = inodes[id].holds
        /\ \A n \in Source!Names[adapter] : names[n] = id => n = p
        /\ Source!IsFile(adapter, p, inodes'[id].holds) /\ id \in 1 .. Len(inodes')
    <3>1. \A n \in Source!Names[adapter] : names[n] = id => n = p
      BY <2>1, <2>2 DEF NotedInv
    <3>2. Source!IsFile(adapter, p, inodes[id].holds) /\ p \in Source!Names[adapter]
      BY <2>1, <2>2 DEF NotedInv, Holds
    <3>3. Source!IsFile(adapter, p, inodes'[id].holds)
      BY <3>1, <3>2 DEF Outside
    <3>4. inodes[id].ver \in Nat
      BY <1>1 DEF StateInv, DiskInv
    <3> QED BY <1>1, <3>1, <3>3, <3>4 DEF Outside
  <2>4. \A n \in Source!Names[adapter] : names'[n] = id => names[n] = id
    BY <1>1, <2>2 DEF Outside
  <2>5. /\ AsNoted(p) <=> inodes[id].ver = reader.noted[p].ver
        /\ AsNoted(p)' <=> inodes'[id].ver = reader.noted[p].ver
        /\ Holds(p) = inodes[id].holds /\ Holds(p)' = inodes'[id].holds
        /\ reader.noted[p].ver \in Nat /\ reader.noted[p].ver <= inodes[id].ver
    BY <1>1, <2>1, <2>2 DEF AsNoted, Holds, NotedInv
  <2>6. AsNoted(p)' => AsNoted(p) /\ Holds(p)' = Holds(p)
    BY <2>3, <2>5
  <2>7. edits' = 0 => names'[p] = id /\ AsNoted(p)'
    BY <2>1, <2>2, <2>5 DEF Outside, NotedInv
  <2>8. reader.noted[p].ver <= inodes'[id].ver
    BY <2>3, <2>5
  <2>9. NotedInv(p)'
    BY <1>1, <2>1, <2>2, <2>3, <2>4, <2>5, <2>6, <2>7, <2>8 DEF NotedInv
  <2>10. p \in Source!Names[adapter]
    BY <2>1 DEF NotedInv
  <2> QED BY <2>2, <2>4, <2>6, <2>9, <2>10
<1>5. NotesInv'
  BY <1>1, <1>4 DEF NotesInv
<1>6. ReadsInv'
  <2> SUFFICES ASSUME NEW n \in Streams[adapter] PROVE ReadInv(n)'
    BY <1>1 DEF ReadsInv
  <2>1. ReadInv(n) /\ reader.at \in Nat
    BY <1>1, CallIs DEF StateInv, ReadsInv
  <2>2. ReadAt(n) \in Nat /\ OpenAt(n) \in Nat /\ OpenAt(n) < ReadAt(n)
    BY DEF ReadAt, OpenAt
  <2>3. ASSUME reader.at >= ReadAt(n), AsNoted(Source!Path(n))'
        PROVE  AsNoted(Source!Path(n)) /\ Holds(Source!Path(n))' = Holds(Source!Path(n))
    <3>1. PICK p \in DOMAIN reader.noted : p = Source!Path(n)
      BY <2>1, <2>2, <2>3 DEF ReadInv
    <3>2. AsNoted(p)' /\ Holds(Source!Path(n))' = Holds(p)'
      BY <1>3, <2>3, <3>1 DEF AsNoted, Holds
    <3> QED BY <1>4, <3>1, <3>2
  <2>4. reader.at > ReadAt(n) => reader.at >= ReadAt(n)
    BY <2>1, <2>2
  <2> QED BY <1>1, <1>3, <2>1, <2>3, <2>4 DEF ReadInv
<1>7. FitInv'
  BY <1>1, <1>3 DEF StateInv, FitInv
<1>8. MomentInv'
  <2>1. \A s : AllTaken(s) => AllTaken(s)'
    BY <1>1, TakenStays
  <2>2. Source!Steps' = Source!Steps /\ seen \subseteq seen'
    BY <1>1 DEF Source!Steps, Outside
  <2>3. ASSUME adapter = "sigmf", reader.at = 9, names'["meta"] = Source!Noted("meta").id, AsNoted("meta")'
        PROVE  names["meta"] = Source!Noted("meta").id /\ AsNoted("meta")
    <3>1. "meta" \in DOMAIN reader.noted
      <4>1. "meta" \in Streams[adapter] /\ Source!Path("meta") = "meta" /\ OpenAt("meta") = 1
        BY <1>1, <2>3, Namings DEF Source!Path, OpenAt, StateInv, DiskInv
      <4> QED BY <1>1, <2>3, <4>1 DEF StateInv, ReadsInv, ReadInv
    <3> QED BY <1>4, <2>3, <3>1 DEF Source!Noted, Source!Path
  <2>4. ASSUME adapter = "kismet", reader.at >= 3, ~journal', ~committed'
        PROVE  AsNoted("db")' /\ \E s \in seen' : s["db"] = Holds("db")'
    <3>1. ~journal /\ ~committed /\ \A i \in 1 .. Len(inodes) : inodes'[i].ver = inodes[i].ver
      BY <2>4 DEF Outside
    <3>2. AsNoted("db") /\ \E s \in seen : s["db"] = Holds("db")
      BY <1>1, <2>4, <3>1 DEF StateInv, MomentInv
    <3>3. "db" \in DOMAIN reader.noted
      <4>1. "db" \in Streams[adapter] /\ Source!Path("db") = "db" /\ OpenAt("db") = 2 /\ reader.at > 2
        <5>1. reader.at \in Nat
          BY <1>1, CallIs DEF StateInv
        <5> QED BY <1>1, <2>4, <5>1, Namings DEF Source!Path, OpenAt, StateInv, DiskInv
      <4> QED BY <1>1, <4>1 DEF StateInv, ReadsInv, ReadInv
    <3>4. reader.noted["db"].id \in 1 .. Len(inodes)
      BY <1>1, <3>3 DEF StateInv, NotesInv, NotedInv
    <3>5. AsNoted("db")'
      BY <1>1, <3>1, <3>2, <3>4 DEF AsNoted
    <3>6. Holds("db")' = Holds("db")
      BY <1>4, <3>3, <3>5
    <3> QED BY <2>2, <3>2, <3>5, <3>6
  <2>5. ~committed' => ~committed
    BY DEF Outside
  <2> QED BY <1>1, <1>3, <2>1, <2>2, <2>3, <2>4, <2>5 DEF StateInv, MomentInv
<1> QED BY <1>1, <1>2, <1>5, <1>6, <1>7, <1>8 DEF SourceInv, StateInv

\* A file that a cell is written to is a file still.
LEMMA WrittenIsFile ==
  ASSUME NEW a, NEW n, NEW old, NEW g, Source!IsFile(a, n, old), Source!IsFile(a, n, g),
         NEW i, i \in DOMAIN g, i <= Len(old) + 1,
         NEW end, end = SubSeq(old, i + 1, Len(old)) \/ end = <<>>
  PROVE  Source!IsFile(a, n, SubSeq(old, 1, i - 1) \o <<g[i]>> \o end)
<1> DEFINE start == SubSeq(old, 1, i - 1)
           mid == <<g[i]>>
           new == (start \o mid) \o end
<1>1. /\ Source!IsTuple(old) /\ Source!IsTuple(g) /\ Len(old) \in Nat /\ Len(g) \in Nat
      /\ DOMAIN g = 1 .. Len(g) /\ i \in 1 .. Len(g)
  BY TupleIs DEF Source!IsFile
<1>2. i \in Nat \ {0} /\ i - 1 \in Nat /\ i - 1 <= Len(old) /\ i + 1 \in Nat \ {0} /\ 1 \in Nat \ {0}
  BY <1>1
<1>3. /\ Source!IsTuple(start) /\ Len(start) = i - 1
      /\ \A k \in 1 .. i - 1 : start[k] = old[k]
  <2>1. /\ Source!IsTuple(start) /\ Len(start) = IF 1 <= i - 1 THEN (i - 1) - 1 + 1 ELSE 0
        /\ \A k \in 1 .. (i - 1) - 1 + 1 : start[k] = old[1 + k - 1]
    BY <1>1, <1>2, SubSeqIs
  <2>2. Len(start) = i - 1
    BY <1>2, <2>1
  <2>3. \A k \in 1 .. i - 1 : k \in 1 .. (i - 1) - 1 + 1 /\ 1 + k - 1 = k
    BY <1>2
  <2> HIDE DEF start
  <2> QED BY <2>1, <2>2, <2>3
<1>4. Source!IsTuple(mid) /\ Len(mid) = 1 /\ mid[1] = g[i]
  <2>1. mid \in Seq({g[i]})
    OBVIOUS
  <2> QED BY <2>1, SeqIsTuple
<1>5. /\ Source!IsTuple(end) /\ Len(end) \in Nat
      /\ \A k \in 1 .. Len(end) : end[k] = old[i + k] /\ i + k \in 1 .. Len(old)
  <2>1. CASE end = <<>>
    <3>1. end \in Seq({})
      BY <2>1
    <3>2. Source!IsTuple(end) /\ Len(end) = 0
      BY <2>1, <3>1, SeqIsTuple
    <3> QED BY <3>2
  <2>2. CASE end = SubSeq(old, i + 1, Len(old))
    <3> DEFINE L == Len(old)
    <3>1. /\ Source!IsTuple(end) /\ Len(end) = IF i + 1 <= L THEN L - (i + 1) + 1 ELSE 0
          /\ \A k \in 1 .. L - (i + 1) + 1 : end[k] = old[i + 1 + k - 1]
      BY <1>1, <1>2, <2>2, SubSeqIs
    <3>2. L \in Nat
      BY <1>1
    <3> HIDE DEF L
    <3>3. Len(end) \in Nat
      BY <1>2, <3>1, <3>2
    <3>4. ASSUME NEW k \in 1 .. Len(end) PROVE end[k] = old[i + k] /\ i + k \in 1 .. L
      <4>0. k \in Int /\ 1 <= k /\ k <= Len(end)
        BY <3>3
      <4>1. i + 1 <= L /\ Len(end) = L - (i + 1) + 1
        BY <3>1, <3>3, <4>0
      <4>2. L - (i + 1) + 1 = L - i /\ k <= L - i /\ i \in Int
        BY <1>2, <3>2, <4>0, <4>1
      <4>3. i + 1 + k - 1 = i + k /\ k \in 1 .. L - i
        BY <3>2, <4>0, <4>2
      <4>4. i + k \in 1 .. L
        <5>1. 0 < i /\ i \in Int /\ L \in Int
          BY <1>2, <3>2
        <5>2. i + k \in Int /\ i + k <= L /\ 1 <= i + k
          BY <4>0, <4>2, <5>1
        <5> QED BY <5>1, <5>2
      <4> QED BY <3>1, <4>2, <4>3, <4>4
    <3> QED BY <3>1, <3>3, <3>4 DEF L
  <2> QED BY <2>1, <2>2
<1> HIDE DEF start, mid
<1>6. /\ Source!IsTuple(start \o mid) /\ Len(start \o mid) = i
      /\ \A k \in 1 .. i : (start \o mid)[k] = IF k < i THEN old[k] ELSE g[i]
  <2>1. /\ Source!IsTuple(start \o mid) /\ Len(start \o mid) = (i - 1) + 1
        /\ \A k \in 1 .. (i - 1) + 1 :
             (start \o mid)[k] = IF k <= i - 1 THEN start[k] ELSE mid[k - (i - 1)]
    <3>1. /\ Source!IsTuple(start \o mid) /\ Len(start \o mid) = Len(start) + Len(mid)
          /\ \A k \in 1 .. Len(start) + Len(mid) :
               (start \o mid)[k] = IF k <= Len(start) THEN start[k] ELSE mid[k - Len(start)]
      BY <1>3, <1>4, ConcatIs
    <3>2. Len(start) = i - 1 /\ Len(mid) = 1
      BY <1>3, <1>4
    <3> QED BY <3>1, <3>2
  <2>2. (i - 1) + 1 = i
    BY <1>2
  <2>3. ASSUME NEW k \in 1 .. i PROVE (start \o mid)[k] = IF k < i THEN old[k] ELSE g[i]
    <3>1. CASE k < i
      BY <1>2, <1>3, <2>1, <2>2, <3>1
    <3>2. CASE ~(k < i)
      <4>1. k = i /\ ~(k <= i - 1) /\ k - (i - 1) = 1
        BY <1>2, <3>2
      <4>2. (start \o mid)[k] = mid[k - (i - 1)]
        BY <2>1, <2>2, <4>1
      <4>3. (start \o mid)[k] = mid[1]
        BY <4>1, <4>2
      <4> QED BY <1>4, <3>2, <4>3
    <3> QED BY <3>1, <3>2
  <2> QED BY <2>1, <2>2, <2>3
<1> DEFINE u == start \o mid
<1>7. /\ Source!IsTuple(new) /\ Len(new) = i + Len(end)
      /\ \A k \in 1 .. i + Len(end) : new[k] = IF k <= i THEN u[k] ELSE end[k - i]
  <2>1. Source!IsTuple(u) /\ Len(u) = i
    BY <1>6
  <2> HIDE DEF u
  <2>2. new = u \o end
    BY DEF u
  <2> HIDE DEF new
  <2>3. /\ Source!IsTuple(u \o end) /\ Len(u \o end) = Len(u) + Len(end)
        /\ \A k \in 1 .. Len(u) + Len(end) :
             (u \o end)[k] = IF k <= Len(u) THEN u[k] ELSE end[k - Len(u)]
    BY <1>5, <2>1, ConcatIs
  <2> QED BY <2>1, <2>2, <2>3
<1> HIDE DEF u, new
<1>8. ASSUME NEW k \in 1 .. Len(new)
      PROVE  \/ k \in 1 .. Len(old) /\ new[k] = old[k]
             \/ k \in 1 .. Len(g) /\ new[k] = g[k]
  <2>1. CASE k <= i
    <3>1. new[k] = u[k] /\ k \in 1 .. i
      BY <1>2, <1>5, <1>7, <2>1
    <3>2. new[k] = IF k < i THEN old[k] ELSE g[i]
      BY <1>6, <3>1 DEF u
    <3> QED BY <1>1, <1>2, <3>1, <3>2
  <2>2. CASE ~(k <= i)
    <3>1. new[k] = end[k - i] /\ k - i \in 1 .. Len(end) /\ i + (k - i) = k
      BY <1>2, <1>5, <1>7, <2>2
    <3> QED BY <1>5, <3>1
  <2> QED BY <2>1, <2>2
<1>9. new # <<>> /\ 1 \in 1 .. Len(new) /\ Len(new) \in Nat
  <2>1. Len(new) \in Nat /\ Len(new) >= 1
    BY <1>2, <1>5, <1>7
  <2> QED BY <1>7, <2>1, TupleIs
<1>10. new[1] = old[1] \/ new[1] = g[1]
  BY <1>8, <1>9
<1>11. Source!IsFile(a, n, new)
  <2>1. a = "npy" => new[1].says \in Nat
    BY <1>10 DEF Source!IsFile
  <2>2. n = "meta" => Source!IsMetadata(new[1])
    BY <1>10 DEF Source!IsFile
  <2>3. ASSUME NEW k \in 2 .. Len(new)
        PROVE  \/ k \in 2 .. Len(old) /\ new[k] = old[k]
               \/ k \in 2 .. Len(g) /\ new[k] = g[k]
    <3>1. k \in 1 .. Len(new) /\ k >= 2
      BY <1>9
    <3> QED BY <1>1, <1>8, <3>1
  <2>4. a \in {"zeek", "sdr4iot"} => \A k \in 2 .. Len(new) : new[k] \in Int /\ new[k] >= Source!BadRow
    BY <2>3 DEF Source!IsFile
  <2>5. a = "kismet" => \A k \in 2 .. Len(new) : new[k].mark \in {"good", "error", "invalid"}
    BY <2>3 DEF Source!IsFile
  <2> QED BY <1>7, <1>9, <2>1, <2>2, <2>4, <2>5 DEF Source!IsFile
<1> QED BY <1>11 DEF new, start, mid

LEMMA OthersAreFiles ==
  ASSUME Source!SourceAssumption, adapter \in Source!Adapters, DiskInv,
         NEW n \in DOMAIN names, NEW g \in Others[adapter][n]
  PROVE  n \in Source!Names[adapter] /\ Source!IsFile(adapter, n, g) /\ DOMAIN names = Source!Names[adapter]
<1>1. DOMAIN names = Source!Names[adapter]
  BY DEF DiskInv
<1> QED BY <1>1 DEF Source!SourceAssumption

LEMMA ReplaceIsOutside ==
  ASSUME Source!SourceAssumption, adapter \in Source!Adapters, DiskInv,
         NEW n \in DOMAIN names, NEW g \in Others[adapter][n], Source!Replace(n, g)
  PROVE  Outside
<1>1. n \in Source!Names[adapter] /\ Source!IsFile(adapter, n, g) /\ DOMAIN names = Source!Names[adapter]
  BY OthersAreFiles
<1> DEFINE e == [ver |-> 0, holds |-> g]
           N == Len(inodes)
<1>2. /\ UNCHANGED <<adapter, request, journal, committed, reader>> /\ ~journal
      /\ inodes' = Append(inodes, e) /\ edits' = edits + 1 /\ edits \in Nat
      /\ names' = [names EXCEPT ![n] = Len(inodes')]
      /\ seen' = seen \cup {Source!Standing'}
  BY DEF Source!Replace, Source!Changed, DiskInv
<1>3. /\ Source!IsTuple(inodes) /\ N \in Nat
      /\ names \in [Source!Names[adapter] -> 0 .. N]
      /\ \A i \in 1 .. N : inodes[i].ver \in Nat
  BY DEF DiskInv, Source!IsTuple
<1>4. /\ Source!IsTuple(inodes') /\ Len(inodes') = N + 1
      /\ \A i \in 1 .. N : inodes'[i] = inodes[i]
      /\ inodes'[N + 1] = e
  BY <1>2, <1>3, AppendIs
<1>5. /\ names'[n] = N + 1 /\ names' \in [Source!Names[adapter] -> 0 .. Len(inodes')]
      /\ \A m \in Source!Names[adapter] : m # n => names'[m] = names[m]
  BY <1>1, <1>2, <1>3, <1>4
<1> HIDE DEF e, N
<1>6. \A i \in 1 .. Len(inodes') : inodes'[i].ver \in Nat
  <2> SUFFICES ASSUME NEW i \in 1 .. Len(inodes') PROVE inodes'[i].ver \in Nat
    OBVIOUS
  <2>1. i \in 1 .. N \/ i = N + 1
    BY <1>3, <1>4
  <2> QED BY <1>3, <1>4, <2>1 DEF e
<1>7. \A l, m \in Source!Names[adapter] : names'[l] = names'[m] /\ names'[l] # 0 => l = m
  <2> SUFFICES ASSUME NEW l \in Source!Names[adapter], NEW m \in Source!Names[adapter],
                      names'[l] = names'[m], names'[l] # 0
               PROVE  l = m
    OBVIOUS
  <2>1. \A k \in Source!Names[adapter] : names[k] \in 0 .. N
    BY <1>3
  <2>2. \A k \in Source!Names[adapter] : names[k] # N + 1
    BY <1>3, <2>1
  <2>3. CASE l # n /\ m # n
    BY <1>5, <2>3 DEF DiskInv
  <2>4. CASE l = n \/ m = n
    BY <1>5, <2>2, <2>4
  <2> QED BY <2>3, <2>4
<1>8. ASSUME NEW m \in Source!Names[adapter], names'[m] # 0
      PROVE  Source!IsFile(adapter, m, inodes'[names'[m]].holds)
  <2>1. CASE m = n
    BY <1>1, <1>4, <1>5, <2>1 DEF e
  <2>2. CASE m # n
    <3>1. names'[m] = names[m] /\ names[m] \in 1 .. N
      BY <1>3, <1>5, <1>8, <2>2
    <3> QED BY <1>4, <1>8, <3>1 DEF DiskInv
  <2> QED BY <2>1, <2>2
<1>9. DiskInv'
  <2>1. /\ adapter' \in DOMAIN Source!Names /\ Source!IsRequest(adapter', request')
        /\ edits' \in Nat /\ journal' \in BOOLEAN /\ committed' \in BOOLEAN
        /\ (adapter' # "kismet" => ~journal') /\ Source!Standing' \in seen'
    BY <1>2 DEF DiskInv
  <2> QED BY <1>2, <1>4, <1>5, <1>6, <1>7, <1>8, <2>1 DEF DiskInv
<1>10. \A m \in Source!Names[adapter] : names'[m] = names[m] \/ names'[m] > N
  <2>1. N + 1 > N
    BY <1>3
  <2> QED BY <1>5, <2>1
<1>11. ASSUME NEW i \in 1 .. N
       PROVE  inodes'[i].ver \in Nat /\ inodes'[i] = inodes[i] /\ inodes[i].ver <= inodes'[i].ver
  BY <1>3, <1>4
<1>12. N <= Len(inodes') /\ edits' # 0
  BY <1>2, <1>3, <1>4
<1> QED BY <1>2, <1>9, <1>10, <1>11, <1>12 DEF Outside, N

LEMMA UnlinkIsOutside ==
  ASSUME DiskInv, NEW n \in DOMAIN names, Source!Unlink(n)
  PROVE  Outside
<1>1. /\ UNCHANGED <<adapter, request, inodes, journal, committed, reader>> /\ ~journal
      /\ names' = [names EXCEPT ![n] = 0] /\ edits' = edits + 1 /\ edits \in Nat
      /\ seen' = seen \cup {Source!Standing'} /\ n \in Source!Names[adapter]
      /\ Len(inodes) \in Nat
  BY DEF Source!Unlink, Source!Changed, DiskInv, Source!IsTuple
<1>2. /\ names' \in [Source!Names[adapter] -> 0 .. Len(inodes)] /\ names'[n] = 0
      /\ \A m \in Source!Names[adapter] : m # n => names'[m] = names[m]
  BY <1>1 DEF DiskInv
<1>3. \A l, m \in Source!Names[adapter] : names'[l] = names'[m] /\ names'[l] # 0 => l = m
  BY <1>2 DEF DiskInv
<1>4. \A m \in Source!Names[adapter] : names'[m] # 0 => Source!IsFile(adapter, m, inodes[names'[m]].holds)
  BY <1>2 DEF DiskInv
<1>5. DiskInv'
  BY <1>1, <1>2, <1>3, <1>4 DEF DiskInv
<1>6. \A i \in 1 .. Len(inodes) : inodes[i].ver \in Nat /\ inodes[i].ver <= inodes[i].ver
  BY DEF DiskInv
<1>7. edits' # 0
  BY <1>1
<1> QED BY <1>1, <1>2, <1>5, <1>6, <1>7 DEF Outside

LEMMA WriteIsOutside ==
  ASSUME Source!SourceAssumption, adapter \in Source!Adapters, DiskInv,
         NEW n \in DOMAIN names, NEW g \in Others[adapter][n], NEW i \in DOMAIN g, Source!Write(n, g, i)
  PROVE  Outside
<1>1. n \in Source!Names[adapter] /\ Source!IsFile(adapter, n, g) /\ DOMAIN names = Source!Names[adapter]
  BY OthersAreFiles
<1> DEFINE N == Len(inodes)
<1>2. PICK id \in 1 .. N : id = names[n]
  <2>1. names[n] # 0 /\ names[n] \in 0 .. N /\ N \in Nat
    BY <1>1 DEF Source!Write, DiskInv, Source!IsTuple
  <2> QED BY <2>1
<1> DEFINE old == inodes[id].holds
<1>3. PICK end : /\ end = SubSeq(old, i + 1, Len(old)) \/ end = <<>>
                 /\ inodes' = [inodes EXCEPT ![id] =
                      [ver |-> @.ver + 1,
                       holds |-> SubSeq(old, 1, i - 1) \o <<g[i]>> \o end]]
  BY <1>2 DEF Source!Write
<1> DEFINE new == SubSeq(old, 1, i - 1) \o <<g[i]>> \o end
<1>4. /\ UNCHANGED <<adapter, request, names, journal, committed, reader>>
      /\ adapter = "kismet" => journal
      /\ i <= Len(old) + 1 /\ edits' = edits + 1 /\ edits \in Nat
      /\ seen' = IF journal' THEN seen ELSE seen \cup {Source!Standing'}
  BY <1>2 DEF Source!Write, Source!Changed, DiskInv
<1>5. Source!IsFile(adapter, n, old)
  BY <1>1, <1>2 DEF DiskInv
<1>6. Source!IsFile(adapter, n, new)
  BY <1>1, <1>3, <1>4, <1>5, WrittenIsFile
<1>7. Source!IsTuple(inodes) /\ N \in Nat /\ \A j \in 1 .. N : inodes[j].ver \in Nat
  BY DEF DiskInv, Source!IsTuple
<1> HIDE DEF new, old
<1>8. /\ Source!IsTuple(inodes') /\ Len(inodes') = N
      /\ inodes'[id].ver = inodes[id].ver + 1 /\ inodes'[id].holds = new
      /\ \A j \in 1 .. N : j # id => inodes'[j] = inodes[j]
  <2>0. inodes = [j \in 1 .. N |-> inodes[j]]
    BY <1>7 DEF Source!IsTuple
  <2>1. DOMAIN inodes = 1 .. N
    BY <1>7, TupleIs
  <2>2. inodes' = [inodes EXCEPT ![id] = [ver |-> inodes[id].ver + 1, holds |-> new]]
    BY <1>3 DEF new
  <2>3. inodes'[id] = [ver |-> inodes[id].ver + 1, holds |-> new]
    BY <1>2, <2>1, <2>2
  <2>4. inodes' = [j \in 1 .. N |-> inodes'[j]]
    BY <2>1, <2>2
  <2>5. Source!IsTuple(inodes') /\ Len(inodes') = N
    <3> DEFINE s == inodes'
    <3>1. s = [j \in 1 .. N |-> s[j]]
      BY <2>4
    <3> HIDE DEF s
    <3>2. Source!IsTuple(s) /\ Len(s) = N
      BY <1>7, <3>1, FunctionIsTuple
    <3> QED BY <3>2 DEF s
  <2>6. \A j \in 1 .. N : j # id => inodes'[j] = inodes[j]
    BY <2>1, <2>2
  <2> QED BY <2>3, <2>5, <2>6
<1>9. ASSUME NEW j \in 1 .. N
      PROVE  /\ inodes'[j].ver \in Nat /\ inodes[j].ver <= inodes'[j].ver
             /\ inodes'[j].ver = inodes[j].ver => inodes'[j].holds = inodes[j].holds
  <2>1. CASE j = id
    <3>1. inodes[id].ver \in Nat /\ inodes'[id].ver = inodes[id].ver + 1
      BY <1>7, <1>8
    <3>2. inodes'[id].ver \in Nat /\ inodes[id].ver <= inodes'[id].ver /\ inodes'[id].ver # inodes[id].ver
      BY <3>1
    <3> QED BY <2>1, <3>2
  <2>2. CASE j # id
    <3>1. inodes'[j] = inodes[j] /\ inodes[j].ver \in Nat
      BY <1>7, <1>8, <2>2
    <3> QED BY <3>1
  <2> QED BY <2>1, <2>2
<1>10. ASSUME NEW j \in 1 .. N, NEW p \in Source!Names[adapter], Source!IsFile(adapter, p, inodes[j].holds),
              \A m \in Source!Names[adapter] : names[m] = j => m = p
       PROVE  Source!IsFile(adapter, p, inodes'[j].holds)
  <2>1. CASE j = id
    <3>1. p = n
      BY <1>1, <1>2, <1>10, <2>1
    <3> QED BY <1>6, <1>8, <2>1, <3>1
  <2>2. CASE j # id
    BY <1>8, <1>10, <2>2
  <2> QED BY <2>1, <2>2
<1>11. ASSUME NEW m \in Source!Names[adapter], names[m] # 0
       PROVE  Source!IsFile(adapter, m, inodes'[names[m]].holds)
  <2>1. names[m] \in 1 .. N /\ Source!IsFile(adapter, m, inodes[names[m]].holds)
    BY <1>7, <1>11 DEF DiskInv
  <2>2. \A l \in Source!Names[adapter] : names[l] = names[m] => l = m
    BY <1>11 DEF DiskInv
  <2> QED BY <1>10, <2>1, <2>2
<1>12. DiskInv'
  <2>1. ~journal' => Source!Standing' \in seen'
    BY <1>4
  <2>2. \A j \in 1 .. Len(inodes') : inodes'[j].ver \in Nat
    BY <1>8, <1>9
  <2>3. edits' \in Nat
    BY <1>4
  <2> HIDE DEF N
  <2>4. names \in [Source!Names[adapter] -> 0 .. N]
    BY DEF DiskInv, N
  <2> QED BY <1>4, <1>8, <1>11, <2>1, <2>2, <2>3, <2>4 DEF DiskInv
<1>13. edits' # 0 /\ N <= Len(inodes')
  BY <1>4, <1>7, <1>8
<1>14. adapter = "kismet" => journal'
  BY <1>4
<1> HIDE DEF N
<1>15. seen \subseteq seen'
  BY <1>4
<1> QED BY <1>4, <1>9, <1>10, <1>12, <1>13, <1>14, <1>15 DEF Outside, N

LEMMA TransactionIsOutside ==
  ASSUME DiskInv, Source!BeginTransaction \/ Source!Commit
  PROVE  Outside
<1>1. UNCHANGED <<adapter, request, names, inodes, edits, reader>>
  BY DEF Source!BeginTransaction, Source!Commit
<1>2. \A i \in 1 .. Len(inodes) : inodes[i].ver \in Nat /\ inodes[i].ver <= inodes[i].ver
  BY DEF DiskInv
<1>3. Len(inodes) <= Len(inodes)
  BY DEF DiskInv, Source!IsTuple
<1>4. Source!Standing' = Source!Standing
  BY <1>1 DEF Source!Standing
<1>5. CASE Source!BeginTransaction
  <2>1. adapter = "kismet" /\ journal' = TRUE /\ UNCHANGED <<committed, seen>>
    BY <1>5 DEF Source!BeginTransaction
  <2>2. DiskInv'
    BY <1>1, <2>1 DEF DiskInv
  <2> QED BY <1>1, <1>2, <1>3, <2>1, <2>2 DEF Outside
<1>6. CASE Source!Commit
  <2>1. journal' = FALSE /\ committed' = TRUE /\ seen' = seen \cup {Source!Standing'}
    BY <1>6 DEF Source!Commit, Source!Changed
  <2>2. DiskInv'
    BY <1>1, <2>1 DEF DiskInv
  <2> QED BY <1>1, <1>2, <1>3, <2>1, <2>2 DEF Outside
<1> QED BY <1>5, <1>6

LEMMA NextKeeps ==
  ASSUME Source!SourceAssumption, adapter \in Source!Adapters, SourceInv, Source!Next
  PROVE  SourceInv' /\ adapter' = adapter
<1>1. DiskInv
  BY DEF SourceInv, StateInv
<1>2. CASE Source!Open
  BY <1>2, OpenKeeps DEF Source!Open
<1>3. CASE Source!Read
  BY <1>3, ReadKeeps DEF Source!Read
<1>4. CASE Source!ReadAll
  BY <1>4, ReadAllKeeps DEF Source!ReadAll
<1>5. CASE Source!Check
  BY <1>5, CheckKeeps DEF Source!Check
<1>6. CASE Source!Fence
  BY <1>6, FenceKeeps DEF Source!Fence
<1>7. CASE Source!RejectSidecars
  BY <1>7, RejectSidecarsKeeps DEF Source!RejectSidecars
<1>8. CASE Source!Answer
  BY <1>8, AnswerStepKeeps DEF Source!Answer
<1>9. ASSUME NEW n \in DOMAIN names, Source!Unlink(n) PROVE SourceInv' /\ adapter' = adapter
  <2>1. Outside
    BY <1>1, <1>9, UnlinkIsOutside
  <2>2. Source!Running
    BY <1>9 DEF Source!Unlink
  <2> QED BY <2>1, <2>2, OutsideKeeps DEF Outside
<1>10. ASSUME NEW n \in DOMAIN names, NEW g \in Others[adapter][n], Source!Replace(n, g)
       PROVE  SourceInv' /\ adapter' = adapter
  <2>1. Outside
    BY <1>1, <1>10, ReplaceIsOutside
  <2>2. Source!Running
    BY <1>10 DEF Source!Replace
  <2> QED BY <2>1, <2>2, OutsideKeeps DEF Outside
<1>11. ASSUME NEW n \in DOMAIN names, NEW g \in Others[adapter][n], NEW i \in DOMAIN g, Source!Write(n, g, i)
       PROVE  SourceInv' /\ adapter' = adapter
  <2>1. Outside
    BY <1>1, <1>11, WriteIsOutside
  <2>2. Source!Running
    BY <1>11 DEF Source!Write
  <2> QED BY <2>1, <2>2, OutsideKeeps DEF Outside
<1>12. CASE Source!BeginTransaction \/ Source!Commit
  <2>1. Outside
    BY <1>1, <1>12, TransactionIsOutside
  <2>2. Source!Running
    BY <1>12 DEF Source!BeginTransaction, Source!Commit
  <2> QED BY <2>1, <2>2, OutsideKeeps DEF Outside
<1> QED BY <1>2, <1>3, <1>4, <1>5, <1>6, <1>7, <1>8, <1>9, <1>10, <1>11, <1>12 DEF Source!Next

LEMMA BeginHolds ==
  ASSUME NEW a, NEW q, NEW f, a \in DOMAIN Source!Names, Source!IsRequest(a, q),
         f = [n \in Source!Names[a] |-> f[n]], \A n \in Source!Names[a] : f[n] = <<>> \/ Source!IsFile(a, n, f[n]),
         Source!Begin(a, q, f)
  PROVE  SourceInv
<1> DEFINE D == Source!Names[a]
           N == Cardinality(D)
           all == Source!SetToSeq(D)
<1>1. DOMAIN f = D /\ adapter = a /\ request = q /\ edits = 0
  BY DEF Source!Begin
<1>2. IsFiniteSet(D)
  <2>1. \A x : IsFiniteSet({x})
    <3> TAKE x
    <3>1. IsFiniteSet({} \cup {x})
      BY FS_EmptySet, FS_AddElement
    <3> QED BY <3>1
  <2>2. IsFiniteSet({"meta", "core", "osu"})
    <3>1. IsFiniteSet({"meta"} \cup {"core"})
      BY <2>1, FS_AddElement
    <3>2. IsFiniteSet(({"meta"} \cup {"core"}) \cup {"osu"})
      BY <3>1, FS_AddElement
    <3> QED BY <3>2
  <2>3. D \in {{"array"}, {"meta", "core", "osu"}, {"log"}, {"csv"}, {"db"}}
    BY DEF Source!Names
  <2> QED BY <2>1, <2>2, <2>3
<1>3. PICK b : b \in [1 .. N -> D] /\ IsInjective(b) /\ N \in Nat
  <2>1. N \in Nat /\ ExistsBijection(1 .. N, D)
    BY <1>2, FS_CardinalityType
  <2>2. PICK c : c \in Bijection(1 .. N, D)
    BY <2>1 DEF ExistsBijection
  <2>3. c \in [1 .. N -> D] /\ IsInjective(c)
    BY <2>2 DEF Bijection, Injection
  <2> QED BY <2>1, <2>3
<1>4. all \in [1 .. N -> D] /\ IsInjective(all)
  BY <1>3, ChosenIs
<1>5. ASSUME NEW n \in D PROVE \E i \in 1 .. N : all[i] = n
  <2> HIDE DEF N
  <2>4. 1 \in Int /\ N \in Int /\ N >= 0
    BY <1>3
  <2>1. IsFiniteSet(1 .. N) /\ Cardinality(1 .. N) = N
    BY <2>4, FS_Interval
  <2> USE DEF N
  <2>2. all \in Injection(1 .. N, D)
    BY <1>4 DEF Injection, IsInjective
  <2> HIDE DEF all
  <2>3. all \in Surjection(1 .. N, D)
    BY <1>2, <2>1, <2>2, FS_Injection
  <2> QED BY <2>3 DEF Surjection
<1> DEFINE at(n) == CHOOSE i \in DOMAIN all : all[i] = n
<1>6. ASSUME NEW n \in D PROVE at(n) \in 1 .. N /\ all[at(n)] = n
  BY <1>4, <1>5
<1>7. names = [n \in D |-> IF f[n] = <<>> THEN 0 ELSE at(n)]
      /\ inodes = [i \in 1 .. N |-> [ver |-> 0, holds |-> f[all[i]]]]
  BY <1>1, <1>4 DEF Source!Begin
<1> HIDE DEF all, at
<1>8. Len(inodes) = N /\ Source!IsTuple(inodes)
  BY <1>3, <1>7, FunctionIsTuple
<1>9. ASSUME NEW n \in D
      PROVE  /\ names[n] \in 0 .. N /\ (names[n] = 0 <=> f[n] = <<>>)
             /\ names[n] # 0 => all[names[n]] = n /\ inodes[names[n]].holds = f[n]
  BY <1>3, <1>6, <1>7
<1>10. Source!Standing = f
  <2>1. Source!Standing = [n \in D |-> IF names[n] = 0 THEN <<>> ELSE inodes[names[n]].holds]
    BY <1>7 DEF Source!Standing
  <2>2. \A n \in D : (IF names[n] = 0 THEN <<>> ELSE inodes[names[n]].holds) = f[n]
    BY <1>9
  <2> QED BY <2>1, <2>2
<1>11. DiskInv
  <2>1. adapter \in DOMAIN Source!Names /\ Source!IsRequest(adapter, request)
    BY <1>1
  <2>2. \A i \in 1 .. Len(inodes) : inodes[i].ver \in Nat
    BY <1>7, <1>8
  <2>3. names \in [D -> 0 .. Len(inodes)]
    BY <1>7, <1>8, <1>9
  <2>4. \A m, n \in D : names[m] = names[n] /\ names[m] # 0 => m = n
    BY <1>9
  <2>5. \A n \in D : names[n] # 0 => Source!IsFile(a, n, inodes[names[n]].holds)
    BY <1>9
  <2>6. journal \in BOOLEAN /\ committed \in BOOLEAN /\ (a # "kismet" => ~journal)
    BY DEF Source!Begin
  <2>7. Source!Standing \in seen
    BY <1>10 DEF Source!Begin
  <2> QED BY <1>1, <1>8, <2>1, <2>2, <2>3, <2>4, <2>5, <2>6, <2>7 DEF DiskInv
<1>12. reader = [at |-> 1, noted |-> <<>>, got |-> <<>>, answer |-> Source!Pending]
  BY DEF Source!Begin
<1>13. Len(Source!Steps) \in 4 .. 10
  <2>1. a \in {"npy", "sigmf", "zeek", "sdr4iot", "kismet"}
    BY DEF Source!Names
  <2>2. Len(Source!NpySteps) = 6
    BY DEF Source!NpySteps
  <2>3. Len(Source!SigmfSteps) = 10
    BY DEF Source!SigmfSteps
  <2>4. Len(Source!ZeekSteps) = 4
    BY DEF Source!ZeekSteps
  <2>5. Len(Source!CsvSteps) = 4
    BY DEF Source!CsvSteps
  <2>6. Len(Source!KismetSteps) = 5
    BY DEF Source!KismetSteps
  <2> QED BY <1>1, <2>1, <2>2, <2>3, <2>4, <2>5, <2>6 DEF Source!Steps
<1>14. CallInv /\ reader.at = 1 /\ reader.answer = Source!Pending
  <2> HIDE DEF all
  <2>1. reader.at = 1 /\ reader.noted = <<>> /\ reader.got = <<>> /\ reader.answer = Source!Pending
    BY <1>12
  <2>3. PICK l \in 4 .. 10 : Len(Source!Steps) = l
    BY <1>13
  <2>2. reader.at \in 1 .. Len(Source!Steps)
    <3>1. 1 \in 1 .. l
      OBVIOUS
    <3> QED BY <2>1, <2>3, <3>1
  <2> QED BY <1>12, <2>1, <2>2 DEF CallInv
<1>15. NotesInv
  BY <1>12 DEF NotesInv
<1>16. ASSUME NEW n \in Streams[a] PROVE ReadInv(n)
  <2>1. Source!Got(n) = <<>>
    BY <1>12 DEF Source!Got
  <2>3. Len(<<>>) = 0 /\ Source!IsTuple(<<>>)
    BY DEF Source!IsTuple
  <2>2. OpenAt(n) >= 1 /\ ReadAt(n) > 1 /\ OpenAt(n) \in Nat /\ ReadAt(n) \in Nat
    BY DEF OpenAt, ReadAt
  <2> QED BY <1>12, <2>1, <2>2, <2>3 DEF ReadInv
<1>17. FitInv
  BY <1>12 DEF FitInv, Source!Got
<1>18. MomentInv
  <2>1. PICK l \in 4 .. 10 : Len(Source!Steps) = l
    BY <1>13
  <2>2. l # 1 /\ reader.at # l /\ ~(reader.at >= 3)
    BY <1>14
  <2>3. reader.at \notin {5, 9, 10} /\ reader.at # Len(Source!Steps)
    BY <1>14, <2>1, <2>2
  <2> QED BY <2>2, <2>3 DEF MomentInv
<1> QED BY <1>1, <1>11, <1>12, <1>14, <1>15, <1>16, <1>17, <1>18 DEF SourceInv, StateInv, ReadsInv

-----------------------------------------------------------------------------
(* The same of the behaviours that MCDataFiles composes: an adapter reads   *)
(* in some, and in the others nothing changes of the call or its files.     *)

ReadingInv == SourceInv /\ (subject = "projection" => adapter \in Source!Adapters)

LEMMA SmallArray ==
  LET f == [array |-> <<Array(1, 1), 1>>]
  IN /\ f = [n \in Source!Names["npy"] |-> f[n]]
     /\ \A n \in Source!Names["npy"] : f[n] = <<>> \/ Source!IsFile("npy", n, f[n])
     /\ "npy" \in DOMAIN Source!Names
     /\ Source!IsRequest("npy", [first |-> 0, count |-> 1, rank |-> 1])
<1> DEFINE c == <<Array(1, 1), 1>>
           f == [array |-> c]
           q == [first |-> 0, count |-> 1, rank |-> 1]
<1>1. Source!Names["npy"] = {"array"} /\ "npy" \in DOMAIN Source!Names
  BY DEF Source!Names
<1>2. Source!IsTuple(c)
  <2>1. Len(c) = 2 /\ c = [i \in 1 .. 2 |-> c[i]]
    OBVIOUS
  <2> QED BY <2>1 DEF Source!IsTuple
<1>3. c # <<>> /\ c[1].says \in Nat
  BY DEF Array
<1> HIDE DEF c
<1>4. Source!IsFile("npy", "array", c)
  BY <1>2, <1>3 DEF Source!IsFile
<1>5. f = [n \in Source!Names["npy"] |-> f[n]] /\ f["array"] = c
  BY <1>1
<1>6. Source!IsRequest("npy", q)
  BY DEF Source!IsRequest
<1> QED BY <1>1, <1>4, <1>5, <1>6 DEF c

LEMMA ReadingBegins == MCInit => ReadingInv
<1> SUFFICES ASSUME MCInit PROVE ReadingInv
  OBVIOUS
<1>1. CASE subject = "projection"
  <2>1. Source!Init
    BY <1>1 DEF MCInit
  <2>2. PICK a \in Source!Adapters :
          \E q \in Requests[a], f \in Standing0[a] : Source!Begin(a, q, f)
    BY <2>1 DEF Source!Init
  <2>3. PICK q \in Requests[a], f \in Standing0[a] : Source!Begin(a, q, f)
    BY <2>2
  <2>4. /\ a \in DOMAIN Source!Names /\ Source!IsRequest(a, q)
        /\ f = [n \in Source!Names[a] |-> f[n]]
        /\ \A n \in Source!Names[a] : f[n] = <<>> \/ Source!IsFile(a, n, f[n])
    BY SourcesAssumption DEF Source!SourceAssumption
  <2>5. SourceInv
    BY <2>3, <2>4, BeginHolds
  <2>6. adapter = a
    BY <2>3 DEF Source!Begin
  <2> QED BY <2>5, <2>6 DEF ReadingInv
<1>2. CASE subject # "projection"
  <2>1. Source!Begin("npy", [first |-> 0, count |-> 1, rank |-> 1], [array |-> <<Array(1, 1), 1>>])
    BY <1>2 DEF MCInit
  <2>2. SourceInv
    BY <2>1, SmallArray, BeginHolds
  <2> QED BY <1>2, <2>2 DEF ReadingInv
<1> QED BY <1>1, <1>2

LEMMA CallStays ==
  ASSUME SourceInv, UNCHANGED call
  PROVE  SourceInv'
<1>1. UNCHANGED <<adapter, request, names, inodes, journal, committed, seen, edits, reader>>
  BY DEF call
<1>2. reader' = [reader EXCEPT !.answer = reader.answer]
  BY <1>1 DEF SourceInv, StateInv, CallInv
<1>3. UNCHANGED <<adapter, request, Source!source>>
  BY <1>1 DEF Source!source
<1>4. StateInv'
  BY <1>2, <1>3, AnswerKeeps DEF SourceInv
<1>5. CASE reader.answer = Source!Pending
  BY <1>1, <1>4, <1>5 DEF SourceInv, Source!Pending
<1>6. CASE Source!ProjectionIsOfSource
  <2>1. Source!Standing' = Source!Standing /\ Source!Refused' = Source!Refused
    BY <1>1 DEF Source!Standing, Source!Refused
  <2>2. \A s : Source!Reference(s)' = Source!Reference(s)
    BY <1>1, ReferenceStays
  <2>3. Source!Reference(Source!Standing)' = Source!Reference(Source!Standing)
    BY <1>1, <2>1, <2>2
  <2>4. Source!ProjectionIsOfSource'
    BY <1>1, <1>6, <2>1, <2>2, <2>3 DEF Source!ProjectionIsOfSource
  <2> QED BY <1>4, <2>4 DEF SourceInv
<1> QED BY <1>5, <1>6 DEF SourceInv

LEMMA ReadingGoesOn == ReadingInv /\ [MCNext]_<<vars, caches, call, subject>> => ReadingInv'
<1> SUFFICES ASSUME ReadingInv, [MCNext]_<<vars, caches, call, subject>> PROVE ReadingInv'
  OBVIOUS
<1>1. (Projection /\ Source!Next) \/ (UNCHANGED call /\ UNCHANGED subject)
  <2>1. MCNext => (Projection /\ Source!Next) \/ (UNCHANGED call /\ UNCHANGED subject)
    BY DEF MCNext, Download, Evaluation, Source!Next
  <2> QED BY <2>1
<1>2. CASE Projection /\ Source!Next
  <2>1. subject = "projection" /\ subject' = subject
    BY <1>2 DEF Projection
  <2>2. SourceInv /\ adapter \in Source!Adapters
    BY <2>1 DEF ReadingInv
  <2>3. SourceInv' /\ adapter' = adapter
    BY <1>2, <2>2, SourcesAssumption, NextKeeps
  <2>4. Source!Adapters' = Source!Adapters
    BY DEF Source!Adapters
  <2> QED BY <2>2, <2>3, <2>4 DEF ReadingInv
<1>3. CASE UNCHANGED call /\ UNCHANGED subject
  <2>1. SourceInv'
    BY <1>3, CallStays DEF ReadingInv
  <2>2. adapter' = adapter /\ subject' = subject
    BY <1>3 DEF call
  <2> QED BY <2>1, <2>2 DEF ReadingInv, Source!Adapters
<1> QED BY <1>1, <1>2, <1>3

(* What an adapter returns is what it would have, had it seen all of its   *)
(* files at one moment of the call, and it refuses nothing that stood      *)
(* unchanged and is well formed: for any arrays, recordings, logs, tables  *)
(* and databases, any windows and limits asked of them, and any number of  *)
(* changes by other programs between two reads.                            *)
THEOREM ProjectionsAreOfSources == MCSpec => []ProjectionIsOfSource
<1>1. ReadingInv => ProjectionIsOfSource
  <2> SUFFICES ASSUME ReadingInv PROVE Source!ProjectionIsOfSource
    BY DEF ProjectionIsOfSource
  <2>1. CASE reader.answer = Source!Pending
    <3>1. reader.answer.status = "pending" /\ reader.answer # Source!Refused
      BY <2>1 DEF Source!Pending, Source!Refused
    <3> QED BY <3>1 DEF Source!ProjectionIsOfSource
  <2> QED BY <2>1 DEF ReadingInv, SourceInv
<1>2. MCSpec => []ReadingInv
  <2>1. MCInit => ReadingInv
    BY ReadingBegins
  <2>2. ReadingInv /\ [MCNext]_<<vars, caches, call, subject>> => ReadingInv'
    BY ReadingGoesOn
  <2> QED BY <2>1, <2>2, PTL DEF MCSpec
<1> QED BY <1>1, <1>2, PTL

=============================================================================
