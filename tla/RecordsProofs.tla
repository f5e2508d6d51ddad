---------------------------- MODULE RecordsProofs ----------------------------
(***************************************************************************)
(* What holds of evidence that was recorded and is read again: a saved     *)
(* capture on its way to a file of records and back, for captures of every *)
(* length, every packet limit, and every number of changes by others.      *)
(*                                                                         *)
(* The models fold over sequences.  A fold is the last of a run of states, *)
(* one for each element: once that is shown of a fold, facts about its     *)
(* result are shown of the run, by the least state that would break them.  *)
(***************************************************************************)
EXTENDS SavedCapture, TLAPS, WellFoundedInduction, FunctionTheorems, SequenceTheorems,
        FiniteSetTheorems

----------------------------------------------------------------------------
(* Numbers and sequences.                                                  *)

LEMMA LeastNatural ==
  ASSUME NEW T, T \subseteq Nat, T # {}
  PROVE  \E n \in T : \A m \in T : n <= m
<1>1. IsWellFoundedOn(OpToRel(<, Nat), Nat)
  BY NatLessThanWellFounded, Zenon
<1>2. PICK x \in T : \A y \in T : ~ (<<y, x>> \in OpToRel(<, Nat))
  BY <1>1, WFMin, Zenon
<1>3. \A y \in T : ~ (y < x)
  BY <1>2 DEF OpToRel
<1> QED BY <1>3

LEMMA MaxOfPrefix ==
  ASSUME NEW k \in Nat, NEW s, s \subseteq 1 .. k + 1, k + 1 \in s
  PROVE  Max(s) = k + 1
<1>1. \A y \in s : k + 1 >= y
  OBVIOUS
<1>2. \A x \in s : (\A y \in s : x >= y) => x = k + 1
  BY <1>1
<1> QED BY <1>1, <1>2 DEF Max

LEMMA PrefixProperties ==
  ASSUME NEW S, NEW s \in Seq(S), NEW n \in 0 .. Len(s)
  PROVE  /\ SubSeq(s, 1, n) \in Seq(S) /\ Len(SubSeq(s, 1, n)) = n
         /\ \A i \in 1 .. n : SubSeq(s, 1, n)[i] = s[i]
<1>1. n \in Int /\ 1 <= n + 1 /\ \A i \in 1 .. n : s[i] \in S
  OBVIOUS
<1>2. /\ SubSeq(s, 1, n) \in Seq(S)
      /\ Len(SubSeq(s, 1, n)) = IF 1 <= n THEN n - 1 + 1 ELSE 0
      /\ \A i \in 1 .. n - 1 + 1 : SubSeq(s, 1, n)[i] = s[1 + i - 1]
  BY <1>1, SubSeqProperties
<1> QED BY <1>1, <1>2

----------------------------------------------------------------------------
(* The report.                                                             *)

Broken(row) == [row EXCEPT !.shape = "broken"]

LEMMA BrokenRow ==
  ASSUME NEW row \in Row
  PROVE  Broken(row) \in Row /\ Broken(Broken(row)) = Broken(row)
<1>1. Broken(row) \in Row
  BY DEF Row, Broken
<1>2. Broken(Broken(row)) = Broken(row)
  BY DEF Row, Broken
<1> QED BY <1>1, <1>2

\* What is left of a copy of `whole': some last rows are gone, some are broken.
Remains(copy, whole) ==
  /\ copy \in Seq(Row) /\ whole \in Seq(Row)
  /\ Len(copy) <= Len(whole)
  /\ \A i \in 1 .. Len(copy) : copy[i] = whole[i] \/ copy[i] = Broken(whole[i])

InfoOf(content) == [count |-> Len(content), size |-> Len(content),
                    extent |-> EventWindow(content)]
RowsOf(content) == SubSeq(content, 1, Minimum(limit, Len(content)))

Unreported == {"stage", "capinfos", "tshark", "rehash", "report"}

\* The tools looked at other contents only if the copy is not whole any more.
LookInv ==
  /\ limit \in Nat \ {0}
  /\ pc \in Unreported \cup {"write", "returned", "failed"}
  /\ IF pc = "stage" THEN staged \in Seq(Row) ELSE Remains(staged, artifact)
  /\ pc \in {"tshark", "rehash", "report"} =>
       (staged = artifact => info = InfoOf(artifact))
  /\ pc \in {"rehash", "report"} => (staged = artifact => rows = RowsOf(artifact))
  /\ pc = "report" => staged = artifact
  /\ pc \in Unreported => report = None
  /\ pc \in {"write", "returned"} \/ report # None =>
       report = Report(artifact, RowsOf(artifact), InfoOf(artifact), limit)

\* A copy that was changed stays changed.
LEMMA DamageStays ==
  ASSUME NEW copy, NEW whole, Remains(copy, whole), NEW new,
         \/ copy # <<>> /\ new = Front(copy)
         \/ \E i \in DOMAIN copy : new = [copy EXCEPT ![i].shape = "broken"]
  PROVE  Remains(new, whole) /\ (new = whole => copy = whole)
<1>0. /\ copy \in Seq(Row) /\ whole \in Seq(Row)
      /\ Len(copy) \in Nat /\ Len(whole) \in Nat /\ DOMAIN copy = 1 .. Len(copy)
      /\ Len(copy) <= Len(whole)
      /\ \A i \in 1 .. Len(copy) : copy[i] \in Row /\ whole[i] \in Row
      /\ \A i \in 1 .. Len(copy) : copy[i] = whole[i] \/ copy[i] = Broken(whole[i])
  BY DEF Remains
<1>1. CASE copy # <<>> /\ new = Front(copy)
  <2>0. new = SubSeq(copy, 1, Len(copy) - 1)
    BY <1>1 DEF Front
  <2>1. Len(copy) > 0
    BY <1>0, <1>1, EmptySeq
  <2>2. /\ new \in Seq(Row) /\ Len(new) = Len(copy) - 1
        /\ \A i \in 1 .. Len(copy) - 1 : new[i] = copy[i]
    <3>1. Len(copy) - 1 \in 0 .. Len(copy)
      BY <1>0, <2>1
    <3> QED BY <1>0, <2>0, <3>1, PrefixProperties
  <2>3. Len(new) < Len(whole)
    BY <1>0, <2>2
  <2> QED BY <1>0, <2>2, <2>3 DEF Remains
<1>2. CASE \E i \in DOMAIN copy : new = [copy EXCEPT ![i].shape = "broken"]
  <2>1. PICK i \in 1 .. Len(copy) : new = [copy EXCEPT ![i] = Broken(copy[i])]
    BY <1>0, <1>2 DEF Broken
  <2>2. Broken(copy[i]) \in Row
    BY <1>0, <2>1, BrokenRow
  <2>3. /\ new \in Seq(Row) /\ Len(new) = Len(copy)
        /\ \A j \in 1 .. Len(new) : new[j] = IF j = i THEN Broken(copy[i]) ELSE copy[j]
    BY <1>0, <2>1, <2>2, ExceptSeq
  <2>4. Broken(copy[i]) = Broken(whole[i])
    BY <1>0, <2>1, BrokenRow
  <2>5. Remains(new, whole)
    BY <1>0, <2>3, <2>4 DEF Remains
  <2>6. ASSUME new = whole PROVE copy = whole
    <3>1. whole[i] = Broken(copy[i]) /\ Broken(whole[i]) = whole[i]
      BY <1>0, <2>1, <2>3, <2>4, <2>6, BrokenRow
    <3>2. \A j \in 1 .. Len(copy) : copy[j] = whole[j]
      BY <1>0, <2>3, <2>6, <3>1
    <3> QED BY <1>0, <2>3, <2>6, <3>2, SeqEqual
  <2> QED BY <2>5, <2>6
<1> QED BY <1>1, <1>2

LEMMA InitLook == Init => LookInv
<1> SUFFICES ASSUME Init PROVE LookInv
  OBVIOUS
<1>1. limit \in Nat \ {0}
  BY BoundsAssumption DEF Init
<1>2. staged \in Seq(Row)
  BY CapturesAssumption DEF Init
<1> QED BY <1>1, <1>2 DEF Init, LookInv, Unreported

LEMMA NextLook == LookInv /\ [Next]_vars => LookInv'
<1> SUFFICES ASSUME LookInv, [Next]_vars PROVE LookInv'
  OBVIOUS
<1>1. CASE Stage
  <2>1. Remains(staged, staged)
    BY <1>1 DEF LookInv, Stage, Remains
  <2> QED BY <1>1, <2>1 DEF LookInv, Stage, Unreported
<1>2. CASE RunCapinfos
  BY <1>2 DEF LookInv, RunCapinfos, Unreported, InfoOf
<1>3. CASE RunTshark
  BY <1>3 DEF LookInv, RunTshark, Unreported, RowsOf
<1>4. CASE Rehash
  <2>1. RowsOf(artifact)' = RowsOf(artifact)
    BY <1>4 DEF Rehash, RowsOf
  <2> QED BY <1>4, <2>1 DEF LookInv, Rehash, Unreported
<1>5. CASE BuildReport
  <2>1. RowsOf(artifact)' = RowsOf(artifact)
    BY <1>5 DEF BuildReport, RowsOf
  <2>2. info = InfoOf(artifact) /\ rows = RowsOf(artifact)
    BY <1>5 DEF LookInv, BuildReport
  <2> QED BY <1>5, <2>1, <2>2 DEF LookInv, BuildReport, Unreported
<1>6. CASE Tamper
  <2>1. RowsOf(artifact)' = RowsOf(artifact)
    BY <1>6 DEF Tamper, RowsOf
  <2>2. pc \in {"capinfos", "tshark", "rehash"} /\ Remains(staged, artifact)
    BY <1>6 DEF Tamper, LookInv
  <2>3. Remains(staged', artifact) /\ (staged' = artifact => staged = artifact)
    BY <1>6, <2>2, DamageStays DEF Tamper
  <2>4. UNCHANGED <<pc, limit, artifact, info, rows, report>>
    BY <1>6 DEF Tamper
  <2> QED BY <2>1, <2>2, <2>3, <2>4 DEF LookInv
<1>7. CASE WriteLine \/ StopWriting \/ Damage \/ Finished \/ UNCHANGED vars
  <2>1. UNCHANGED <<limit, staged, artifact, info, rows, report>>
    BY <1>7 DEF WriteLine, StopWriting, Damage, Finished, vars
  <2>2. RowsOf(artifact)' = RowsOf(artifact)
    BY <2>1 DEF RowsOf
  <2>3. pc' = pc \/ (pc = "write" /\ pc' = "returned")
    BY <1>7 DEF WriteLine, StopWriting, Damage, Finished, vars
  <2> QED BY <2>1, <2>2, <2>3 DEF LookInv, Unreported
<1> QED BY <1>1, <1>2, <1>3, <1>4, <1>5, <1>6, <1>7 DEF Next

\* A report says of a capture what the capture of that digest contains, for
\* captures of any length and however often the copy is changed between the
\* tools that look at it.
THEOREM ReportsAreOfArtifacts == Spec => []ReportIsOfArtifact
<1>1. LookInv => ReportIsOfArtifact
  BY DEF LookInv, ReportIsOfArtifact, RowsOf, InfoOf
<1> QED BY <1>1, InitLook, NextLook, PTL DEF Spec

----------------------------------------------------------------------------
(* The rows of a capture as packets and quarantines.                       *)

ParseStart == [packets |-> <<>>, quarantines |-> <<>>, rows |-> 0, previous |-> 0]

\* parse_rows takes the rows one after the other.
LEMMA ParseRowsRun ==
  ASSUME NEW S, NEW given \in Seq(S)
  PROVE  \E h : /\ h[0] = ParseStart
                /\ \A i \in 1 .. Len(given) : h[i] = ParseNext(h[i - 1], given[i])
                /\ ParseRows(given) = h[Len(given)]
<1> DEFINE n == Len(given)
           Of(it, s) == IF s = {} THEN ParseStart
                        ELSE ParseNext(it[s \ {Max(s)}], given[Max(s)])
           Runs(k) == \E it : it = [s \in SUBSET (1 .. k) |-> Of(it, s)]
           Bad == {k \in 0 .. n : ~Runs(k)}
<1>0. n \in Nat /\ DOMAIN given = 1 .. n
  BY LenProperties
<1>1. Runs(0)
  <2> DEFINE it == [s \in SUBSET (1 .. 0) |-> ParseStart]
  <2>1. \A s \in SUBSET (1 .. 0) : s = {}
    OBVIOUS
  <2>2. it = [s \in SUBSET (1 .. 0) |-> Of(it, s)]
    BY <2>1
  <2> HIDE DEF it
  <2> QED BY <2>2
<1>2. ASSUME NEW k \in Nat, Runs(k) PROVE Runs(k + 1)
  <2>1. PICK f : f = [s \in SUBSET (1 .. k) |-> Of(f, s)]
    BY <1>2
  <2> DEFINE g == [s \in SUBSET (1 .. k + 1) |->
                     IF k + 1 \in s THEN ParseNext(f[s \ {k + 1}], given[k + 1]) ELSE f[s]]
  <2>2. ASSUME NEW s \in SUBSET (1 .. k + 1) PROVE g[s] = Of(g, s)
    <3>1. CASE k + 1 \in s
      <4>1. s \ {k + 1} \in SUBSET (1 .. k + 1) /\ k + 1 \notin s \ {k + 1}
        OBVIOUS
      <4>2. g[s \ {k + 1}] = f[s \ {k + 1}]
        BY <4>1
      <4>3. Max(s) = k + 1 /\ s # {}
        BY <3>1, MaxOfPrefix
      <4> HIDE DEF g
      <4>4. g[s] = ParseNext(f[s \ {k + 1}], given[k + 1])
        BY <3>1 DEF g
      <4> QED BY <4>2, <4>3, <4>4
    <3>2. CASE k + 1 \notin s
      <4>1. s \in SUBSET (1 .. k)
        BY <3>2
      <4>2. g[s] = f[s] /\ f[s] = Of(f, s)
        BY <2>1, <3>2, <4>1
      <4>3. s \ {Max(s)} \in SUBSET (1 .. k + 1) /\ k + 1 \notin s \ {Max(s)}
        BY <3>2
      <4>4. g[s \ {Max(s)}] = f[s \ {Max(s)}]
        BY <4>3
      <4> HIDE DEF g
      <4> QED BY <4>2, <4>4
    <3> QED BY <3>1, <3>2
  <2>3. g = [s \in SUBSET (1 .. k + 1) |-> g[s]]
    OBVIOUS
  <2> HIDE DEF g, Of
  <2>4. g = [s \in SUBSET (1 .. k + 1) |-> Of(g, s)]
    BY <2>2, <2>3
  <2> QED BY <2>4
<1>3. Runs(n)
  <2> HIDE DEF Runs
  <2>1. ASSUME Bad # {} PROVE FALSE
    <3>0. Bad \subseteq Nat
      BY <1>0
    <3> HIDE DEF Bad
    <3>1. PICK k \in Bad : \A m \in Bad : k <= m
      BY <2>1, <3>0, LeastNatural, Zenon
    <3> USE DEF Bad
    <3>2. k # 0
      BY <1>1
    <3>3. k - 1 \in Nat /\ k - 1 \in 0 .. n /\ k - 1 \notin Bad
      BY <1>0, <3>1, <3>2
    <3>4. Runs((k - 1) + 1)
      BY <1>2, <3>3
    <3>5. (k - 1) + 1 = k
      BY <1>0, <3>1
    <3> QED BY <3>1, <3>4, <3>5
  <2> QED BY <1>0, <2>1
<1> DEFINE it == CHOOSE it : it = [s \in SUBSET (1 .. n) |-> Of(it, s)]
<1>4. it = [s \in SUBSET (1 .. n) |-> Of(it, s)]
  BY <1>3
<1>5. ParseRows(given) = it[1 .. n]
  BY <1>0 DEF ParseRows, FoldLeft, MapThenFoldSet, ParseStart
<1> HIDE DEF it
<1> DEFINE h == [i \in 0 .. n |-> it[1 .. i]]
<1>6. h[0] = ParseStart
  <2>1. 1 .. 0 = {}
    OBVIOUS
  <2> QED BY <1>0, <1>4, <2>1
<1>7. ASSUME NEW i \in 1 .. n PROVE h[i] = ParseNext(h[i - 1], given[i])
  <2>0. i - 1 \in Nat /\ i = (i - 1) + 1 /\ 1 .. i \subseteq 1 .. (i - 1) + 1 /\ i \in 1 .. i
    BY <1>0
  <2>1. Max(1 .. i) = i /\ 1 .. i # {}
    BY <2>0, MaxOfPrefix
  <2>2. (1 .. i) \ {i} = 1 .. i - 1
    BY <1>0
  <2>3. 1 .. i \in SUBSET (1 .. n)
    BY <1>0
  <2>4. it[1 .. i] = Of(it, 1 .. i)
    BY <1>4, <2>3
  <2>5. h[i] = it[1 .. i] /\ h[i - 1] = it[1 .. i - 1]
    BY <1>0
  <2> HIDE DEF h
  <2> QED BY <2>1, <2>2, <2>4, <2>5
<1>8. h[n] = it[1 .. n]
  BY <1>0
<1> HIDE DEF h
<1> QED BY <1>5, <1>6, <1>7, <1>8

QuarantineType == [line : Nat, reason : {"not_increasing", "invalid"}]

\* After k rows: each is a packet or a quarantine, in the order of the rows.
ParseOK(out, k) ==
  /\ out.packets \in Seq(Row) /\ out.quarantines \in Seq(QuarantineType)
  /\ out.rows = k /\ out.previous \in Nat
  /\ Len(out.packets) + Len(out.quarantines) = k
  /\ \A i \in 1 .. Len(out.packets) : out.packets[i].frame <= out.previous
  /\ \A i, j \in 1 .. Len(out.packets) :
        i < j => out.packets[i].frame < out.packets[j].frame
  /\ \A i \in 1 .. Len(out.quarantines) : out.quarantines[i].line <= k
  /\ \A i, j \in 1 .. Len(out.quarantines) :
        i < j => out.quarantines[i].line < out.quarantines[j].line

LEMMA ParseNextOK ==
  ASSUME NEW k \in Nat, NEW out, ParseOK(out, k), NEW row \in Row
  PROVE  ParseOK(ParseNext(out, row), k + 1)
<1> DEFINE fresh == ParseRow(row) /\ row.frame > out.previous
           q == [line |-> k + 1, reason |-> IF ParseRow(row) THEN "not_increasing" ELSE "invalid"]
           P == out.packets
           Q == out.quarantines
<1>0. row.frame \in Nat
  BY DEF Row
<1>1. /\ out.previous \in Nat /\ P \in Seq(Row) /\ Q \in Seq(QuarantineType)
      /\ Len(P) + Len(Q) = k /\ out.rows = k
  BY DEF ParseOK
<1>2. /\ \A i \in 1 .. Len(P) : P[i].frame <= out.previous
      /\ \A i, j \in 1 .. Len(P) : i < j => P[i].frame < P[j].frame
  BY DEF ParseOK
<1>3. /\ \A i \in 1 .. Len(Q) : Q[i].line <= k
      /\ \A i, j \in 1 .. Len(Q) : i < j => Q[i].line < Q[j].line
  BY DEF ParseOK
<1>4. \A i \in 1 .. Len(P) : P[i].frame \in Nat
  <2>1. \A r \in Row : r.frame \in Nat
    BY DEF Row
  <2>2. \A i \in 1 .. Len(P) : P[i] \in Row
    BY <1>1, ElementOfSeq
  <2> QED BY <2>1, <2>2
<1>5. \A i \in 1 .. Len(Q) : Q[i].line \in Nat
  <2>1. \A r \in QuarantineType : r.line \in Nat
    BY DEF QuarantineType
  <2>2. \A i \in 1 .. Len(Q) : Q[i] \in QuarantineType
    BY <1>1, ElementOfSeq
  <2> QED BY <2>1, <2>2
<1>6. Len(P) \in Nat /\ Len(Q) \in Nat
  BY <1>1
<1>7. CASE fresh
  <2>1. PICK new : new = ParseNext(out, row)
    OBVIOUS
  <2>2. /\ new.packets = Append(P, row) /\ new.quarantines = Q
        /\ new.rows = k + 1 /\ new.previous = row.frame
    BY <1>1, <1>7, <2>1 DEF ParseNext
  <2> DEFINE R == new.packets
  <2>3. /\ R \in Seq(Row) /\ Len(R) = Len(P) + 1
        /\ \A i \in 1 .. Len(P) : R[i] = P[i]
        /\ R[Len(P) + 1] = row
    BY <1>1, <2>2, AppendProperties
  <2>4. row.frame > out.previous
    BY <1>7
  <2> HIDE DEF P, Q, R, fresh
  <2>5. \A i \in 1 .. Len(R) : R[i].frame <= row.frame
    BY <1>0, <1>1, <1>2, <1>4, <1>6, <2>3, <2>4
  <2>6. ASSUME NEW i \in 1 .. Len(R), NEW j \in 1 .. Len(R), i < j
        PROVE  R[i].frame < R[j].frame
    <3>1. i \in 1 .. Len(P) /\ R[i] = P[i]
      BY <1>6, <2>3, <2>6
    <3>2. CASE j = Len(P) + 1
      BY <1>0, <1>1, <1>2, <1>4, <2>3, <2>4, <3>1, <3>2
    <3>3. CASE j # Len(P) + 1
      <4>1. j \in 1 .. Len(P) /\ R[j] = P[j]
        BY <1>6, <2>3, <3>3
      <4> QED BY <1>2, <2>6, <3>1, <4>1
    <3> QED BY <3>2, <3>3
  <2>7. \A i \in 1 .. Len(Q) : Q[i].line <= k + 1
    BY <1>3, <1>5
  <2>8. Len(R) + Len(Q) = k + 1
    BY <1>1, <1>6, <2>3
  <2> USE DEF R
  <2>9. ParseOK(new, k + 1)
    BY <1>0, <1>1, <1>3, <2>2, <2>3, <2>5, <2>6, <2>7, <2>8 DEF ParseOK
  <2> QED BY <2>1, <2>9
<1>8. CASE ~fresh
  <2>1. PICK new : new = ParseNext(out, row)
    OBVIOUS
  <2>2. /\ new.packets = P /\ new.quarantines = Append(Q, q)
        /\ new.rows = k + 1 /\ new.previous = out.previous
    BY <1>1, <1>8, <2>1 DEF ParseNext
  <2> DEFINE R == new.quarantines
  <2>3. q \in QuarantineType /\ q.line = k + 1
    BY DEF QuarantineType
  <2> HIDE DEF q, P, Q, fresh
  <2>4. /\ R \in Seq(QuarantineType) /\ Len(R) = Len(Q) + 1
        /\ \A i \in 1 .. Len(Q) : R[i] = Q[i]
        /\ R[Len(Q) + 1] = q
    BY <1>1, <2>2, <2>3, AppendProperties
  <2> HIDE DEF R
  <2>5. \A i \in 1 .. Len(R) : R[i].line <= k + 1
    BY <1>3, <1>5, <1>6, <2>3, <2>4
  <2>6. ASSUME NEW i \in 1 .. Len(R), NEW j \in 1 .. Len(R), i < j
        PROVE  R[i].line < R[j].line
    <3>1. i \in 1 .. Len(Q) /\ R[i] = Q[i]
      BY <1>6, <2>4, <2>6
    <3>2. CASE j = Len(Q) + 1
      BY <1>3, <1>5, <2>3, <2>4, <3>1, <3>2
    <3>3. CASE j # Len(Q) + 1
      <4>1. j \in 1 .. Len(Q) /\ R[j] = Q[j]
        BY <1>6, <2>4, <3>3
      <4> QED BY <1>3, <2>6, <3>1, <4>1
    <3> QED BY <3>2, <3>3
  <2>8. Len(P) + Len(R) = k + 1
    BY <1>1, <1>6, <2>4
  <2> USE DEF R
  <2>9. ParseOK(new, k + 1)
    BY <1>1, <1>2, <2>2, <2>4, <2>5, <2>6, <2>8 DEF ParseOK
  <2> QED BY <2>1, <2>9
<1> QED BY <1>7, <1>8

LEMMA ParsedRun ==
  ASSUME NEW given \in Seq(Row)
  PROVE  \E h : /\ h[0] = ParseStart
                /\ \A i \in 1 .. Len(given) : h[i] = ParseNext(h[i - 1], given[i])
                /\ ParseRows(given) = h[Len(given)]
                /\ \A i \in 0 .. Len(given) : ParseOK(h[i], i)
<1> DEFINE n == Len(given)
<1>1. PICK h : /\ h[0] = ParseStart
               /\ \A i \in 1 .. n : h[i] = ParseNext(h[i - 1], given[i])
               /\ ParseRows(given) = h[n]
  BY ParseRowsRun
<1> DEFINE Bad == {k \in 0 .. n : ~ParseOK(h[k], k)}
<1>2. n \in Nat /\ Bad \subseteq Nat
  OBVIOUS
<1>3. 0 \notin Bad
  <2>1. ParseOK(ParseStart, 0)
    BY EmptySeq DEF ParseOK, ParseStart
  <2> QED BY <1>1, <2>1
<1>4. ASSUME Bad # {} PROVE FALSE
  <2>1. PICK k \in Bad : \A m \in Bad : k <= m
    <3> HIDE DEF Bad
    <3> QED BY <1>2, <1>4, LeastNatural, Zenon
  <2>2. k \in 1 .. n /\ k - 1 \in 0 .. n /\ k - 1 \notin Bad
    BY <1>2, <1>3, <2>1
  <2>3. given[k] \in Row
    BY <2>2, ElementOfSeq
  <2>4. ParseOK(h[k - 1], k - 1) /\ k - 1 \in Nat
    BY <2>2
  <2>5. ParseOK(ParseNext(h[k - 1], given[k]), k - 1 + 1)
    BY <2>3, <2>4, ParseNextOK
  <2>6. ParseOK(h[k], k)
    BY <1>1, <2>2, <2>5
  <2> QED BY <2>1, <2>6
<1> QED BY <1>1, <1>2, <1>4

LEMMA ParsedRows ==
  ASSUME NEW given \in Seq(Row)
  PROVE  ParseOK(ParseRows(given), Len(given))
<1>1. Len(given) \in 0 .. Len(given)
  OBVIOUS
<1> QED BY <1>1, ParsedRun

\* If no row was quarantined, the packets are the rows.
LEMMA ParsedWhole ==
  ASSUME NEW given \in Seq(Row), ParseRows(given).quarantines = <<>>
  PROVE  /\ ParseRows(given).packets = given
         /\ \A i \in 1 .. Len(given) : given[i].shape # "broken"
<1> DEFINE n == Len(given)
<1>1. PICK h : /\ h[0] = ParseStart
               /\ \A i \in 1 .. n : h[i] = ParseNext(h[i - 1], given[i])
               /\ ParseRows(given) = h[n]
               /\ \A i \in 0 .. n : ParseOK(h[i], i)
  BY ParsedRun
<1> DEFINE Whole(k) == Len(h[k].quarantines) = 0 =>
                         /\ Len(h[k].packets) = k
                         /\ \A i \in 1 .. k : h[k].packets[i] = given[i]
                                              /\ given[i].shape # "broken"
           Bad == {k \in 0 .. n : ~Whole(k)}
<1>2. n \in Nat /\ Bad \subseteq Nat
  OBVIOUS
<1>3. 0 \notin Bad
  BY <1>1, EmptySeq DEF ParseStart
<1>4. ASSUME Bad # {} PROVE FALSE
  <2>1. PICK k \in Bad : \A m \in Bad : k <= m
    <3> HIDE DEF Bad
    <3> QED BY <1>2, <1>4, LeastNatural, Zenon
  <2>2. k \in 1 .. n /\ k - 1 \in 0 .. n /\ k - 1 \notin Bad
    BY <1>2, <1>3, <2>1
  <2> DEFINE P == h[k - 1].packets
             Q == h[k - 1].quarantines
             row == given[k]
  <2>3. /\ P \in Seq(Row) /\ Q \in Seq(QuarantineType) /\ h[k - 1].rows = k - 1
        /\ row \in Row /\ Len(Q) \in Nat
    <3>1. ParseOK(h[k - 1], k - 1)
      BY <1>1, <2>2
    <3>2. row \in Row
      BY <2>2, ElementOfSeq
    <3>3. P \in Seq(Row) /\ Q \in Seq(QuarantineType) /\ h[k - 1].rows = k - 1
      BY <3>1 DEF ParseOK
    <3> HIDE DEF P, Q, row
    <3> QED BY <3>2, <3>3, LenProperties
  <2>4. h[k] = ParseNext(h[k - 1], row)
    BY <1>1, <2>2
  <2>5. CASE Len(h[k].quarantines) # 0
    BY <2>1, <2>5
  <2>6. CASE Len(h[k].quarantines) = 0
    <3> DEFINE fresh == ParseRow(row) /\ row.frame > h[k - 1].previous
               q == [line |-> h[k - 1].rows + 1,
                     reason |-> IF ParseRow(row) THEN "not_increasing" ELSE "invalid"]
    <3>1. fresh
      <4> SUFFICES ASSUME ~fresh PROVE FALSE
        OBVIOUS
      <4>1. h[k].quarantines = Append(Q, q)
        BY <2>4 DEF ParseNext
      <4>2. q \in QuarantineType
        BY <2>2, <2>3 DEF QuarantineType
      <4> HIDE DEF q, Q
      <4>3. Len(h[k].quarantines) = Len(Q) + 1
        BY <2>3, <4>1, <4>2, AppendProperties
      <4> QED BY <2>3, <2>6, <4>3
    <3>2. h[k].packets = Append(P, row) /\ h[k].quarantines = Q /\ row.shape # "broken"
      BY <2>4, <3>1 DEF ParseNext, ParseRow
    <3>3. /\ Len(P) = k - 1
          /\ \A i \in 1 .. k - 1 : P[i] = given[i] /\ given[i].shape # "broken"
      BY <2>2, <2>6, <3>2
    <3> HIDE DEF P, row
    <3>4. /\ Len(h[k].packets) = Len(P) + 1
          /\ \A i \in 1 .. Len(P) : h[k].packets[i] = P[i]
          /\ h[k].packets[Len(P) + 1] = row
      BY <2>3, <3>2, AppendProperties
    <3>5. k - 1 \in Nat /\ (k - 1) + 1 = k
      BY <1>2, <2>2
    <3>6. Len(h[k].packets) = k /\ h[k].packets[k] = row
      BY <3>3, <3>4, <3>5
    <3>7. \A i \in 1 .. k : i \in 1 .. k - 1 \/ i = k
      BY <3>5
    <3>8. \A i \in 1 .. k : h[k].packets[i] = given[i] /\ given[i].shape # "broken"
      BY <3>2, <3>3, <3>4, <3>6, <3>7 DEF row
    <3> QED BY <2>1, <3>6, <3>8
  <2> QED BY <2>5, <2>6
<1>5. Whole(n) /\ ParseOK(h[n], n)
  BY <1>1, <1>2, <1>4
<1>6. Len(h[n].quarantines) = 0
  BY <1>1, EmptySeq
<1>7. h[n].packets \in Seq(Row)
  BY <1>5 DEF ParseOK
<1>8. h[n].packets = given
  BY <1>5, <1>6, <1>7, SeqEqual
<1> QED BY <1>1, <1>5, <1>6, <1>8

----------------------------------------------------------------------------
(* Reading.                                                                *)

\* A strictly increasing map of 1 .. n into itself moves nothing.
LEMMA OrderFixes ==
  ASSUME NEW n \in Nat, NEW at \in [1 .. n -> 1 .. n],
         \A i, j \in 1 .. n : i < j => at[i] < at[j]
  PROVE  \A i \in 1 .. n : at[i] = i
<1> DEFINE Low  == {i \in 1 .. n : at[i] < i}
           High == {n - i : i \in {i \in 1 .. n : at[i] > i}}
<1>0. \A i \in 1 .. n : at[i] \in 1 .. n
  OBVIOUS
<1>1. ASSUME Low # {} PROVE FALSE
  <2>0. Low \subseteq Nat
    OBVIOUS
  <2> HIDE DEF Low
  <2>1. PICK i \in Low : \A m \in Low : i <= m
    BY <1>1, <2>0, LeastNatural, Zenon
  <2> USE DEF Low
  <2>2. i \in 1 .. n /\ at[i] < i
    OBVIOUS
  <2>3. i - 1 \in 1 .. n /\ i - 1 \notin Low
    BY <1>0, <2>1, <2>2
  <2>4. at[i - 1] >= i - 1 /\ at[i - 1] < at[i]
    BY <1>0, <2>2, <2>3
  <2> QED BY <1>0, <2>2, <2>3, <2>4
<1>2. ASSUME High # {} PROVE FALSE
  <2>0. High \subseteq Nat
    <3>1. \A i \in 1 .. n : n - i \in Nat
      OBVIOUS
    <3> QED BY <3>1, Zenon
  <2> HIDE DEF High
  <2>1. PICK d \in High : \A m \in High : d <= m
    BY <1>2, <2>0, LeastNatural, Zenon
  <2>2. PICK i \in 1 .. n : d = n - i /\ at[i] > i
    BY <2>1 DEF High
  <2>3. i + 1 \in 1 .. n
    BY <1>0, <2>2
  <2>4. at[i + 1] > at[i]
    BY <2>2, <2>3
  <2>5. at[i + 1] > i + 1
    BY <1>0, <2>2, <2>3, <2>4
  <2>6. n - (i + 1) \in High
    BY <2>3, <2>5 DEF High
  <2> QED BY <2>1, <2>2, <2>3, <2>6
<1> QED BY <1>0, <1>1, <1>2

LEMMA ReadRun ==
  ASSUME NEW S, NEW given \in Seq(S)
  PROVE  \E h : /\ h[0] = ReadStart
                /\ \A i \in 1 .. Len(given) : h[i] = ReadLine(h[i - 1], given[i])
                /\ FoldLeft(ReadLine, ReadStart, given) = h[Len(given)]
<1> DEFINE n == Len(given)
           Of(it, s) == IF s = {} THEN ReadStart
                        ELSE ReadLine(it[s \ {Max(s)}], given[Max(s)])
           Runs(k) == \E it : it = [s \in SUBSET (1 .. k) |-> Of(it, s)]
           Bad == {k \in 0 .. n : ~Runs(k)}
<1>0. n \in Nat /\ DOMAIN given = 1 .. n
  BY LenProperties
<1>1. Runs(0)
  <2> DEFINE it == [s \in SUBSET (1 .. 0) |-> ReadStart]
  <2>1. \A s \in SUBSET (1 .. 0) : s = {}
    OBVIOUS
  <2>2. it = [s \in SUBSET (1 .. 0) |-> Of(it, s)]
    BY <2>1
  <2> HIDE DEF it
  <2> QED BY <2>2
<1>2. ASSUME NEW k \in Nat, Runs(k) PROVE Runs(k + 1)
  <2>1. PICK f : f = [s \in SUBSET (1 .. k) |-> Of(f, s)]
    BY <1>2
  <2> DEFINE g == [s \in SUBSET (1 .. k + 1) |->
                     IF k + 1 \in s THEN ReadLine(f[s \ {k + 1}], given[k + 1]) ELSE f[s]]
  <2>2. ASSUME NEW s \in SUBSET (1 .. k + 1) PROVE g[s] = Of(g, s)
    <3>1. CASE k + 1 \in s
      <4>1. s \ {k + 1} \in SUBSET (1 .. k + 1) /\ k + 1 \notin s \ {k + 1}
        OBVIOUS
      <4>2. g[s \ {k + 1}] = f[s \ {k + 1}]
        BY <4>1
      <4>3. Max(s) = k + 1 /\ s # {}
        BY <3>1, MaxOfPrefix
      <4> HIDE DEF g
      <4>4. g[s] = ReadLine(f[s \ {k + 1}], given[k + 1])
        BY <3>1 DEF g
      <4> QED BY <4>2, <4>3, <4>4
    <3>2. CASE k + 1 \notin s
      <4>1. s \in SUBSET (1 .. k)
        BY <3>2
      <4>2. g[s] = f[s] /\ f[s] = Of(f, s)
        BY <2>1, <3>2, <4>1
      <4>3. s \ {Max(s)} \in SUBSET (1 .. k + 1) /\ k + 1 \notin s \ {Max(s)}
        BY <3>2
      <4>4. g[s \ {Max(s)}] = f[s \ {Max(s)}]
        BY <4>3
      <4> HIDE DEF g
      <4> QED BY <4>2, <4>4
    <3> QED BY <3>1, <3>2
  <2>3. g = [s \in SUBSET (1 .. k + 1) |-> g[s]]
    OBVIOUS
  <2> HIDE DEF g, Of
  <2>4. g = [s \in SUBSET (1 .. k + 1) |-> Of(g, s)]
    BY <2>2, <2>3
  <2> QED BY <2>4
<1>3. Runs(n)
  <2> HIDE DEF Runs
  <2>1. ASSUME Bad # {} PROVE FALSE
    <3>0. Bad \subseteq Nat
      BY <1>0
    <3> HIDE DEF Bad
    <3>1. PICK k \in Bad : \A m \in Bad : k <= m
      BY <2>1, <3>0, LeastNatural, Zenon
    <3> USE DEF Bad
    <3>2. k # 0
      BY <1>1
    <3>3. k - 1 \in Nat /\ k - 1 \in 0 .. n /\ k - 1 \notin Bad
      BY <1>0, <3>1, <3>2
    <3>4. Runs((k - 1) + 1)
      BY <1>2, <3>3
    <3>5. (k - 1) + 1 = k
      BY <1>0, <3>1
    <3> QED BY <3>1, <3>4, <3>5
  <2> QED BY <1>0, <2>1
<1> DEFINE it == CHOOSE it : it = [s \in SUBSET (1 .. n) |-> Of(it, s)]
<1>4. it = [s \in SUBSET (1 .. n) |-> Of(it, s)]
  BY <1>3
<1>5. FoldLeft(ReadLine, ReadStart, given) = it[1 .. n]
  BY <1>0 DEF FoldLeft, MapThenFoldSet
<1> HIDE DEF it
<1> DEFINE h == [i \in 0 .. n |-> it[1 .. i]]
<1>6. h[0] = ReadStart
  <2>1. 1 .. 0 = {}
    OBVIOUS
  <2> QED BY <1>0, <1>4, <2>1
<1>7. ASSUME NEW i \in 1 .. n PROVE h[i] = ReadLine(h[i - 1], given[i])
  <2>0. i - 1 \in Nat /\ i = (i - 1) + 1 /\ 1 .. i \subseteq 1 .. (i - 1) + 1 /\ i \in 1 .. i
    BY <1>0
  <2>1. Max(1 .. i) = i /\ 1 .. i # {}
    BY <2>0, MaxOfPrefix
  <2>2. (1 .. i) \ {i} = 1 .. i - 1
    BY <1>0
  <2>3. 1 .. i \in SUBSET (1 .. n)
    BY <1>0
  <2>4. it[1 .. i] = Of(it, 1 .. i)
    BY <1>4, <2>3
  <2>5. h[i] = it[1 .. i] /\ h[i - 1] = it[1 .. i - 1]
    BY <1>0
  <2> HIDE DEF h
  <2> QED BY <2>1, <2>2, <2>4, <2>5
<1>8. h[n] = it[1 .. n]
  BY <1>0
<1> HIDE DEF h
<1> QED BY <1>5, <1>6, <1>7, <1>8


PacketLine(r, i) ==
    [family |-> "packet", capture |-> r.manifest.capture, packet |-> r.packets[i]]
QuarantineLine(r, i) ==
    [family |-> "quarantine", capture |-> r.manifest.capture, row |-> r.quarantines[i]]
Torn == [family |-> "torn"]

\* What may stand on a line of a file with the records of a report.
LineSet(r) == {r.manifest, r.receipt, Torn}
              \cup {PacketLine(r, i) : i \in 1 .. Len(r.packets)}
              \cup {QuarantineLine(r, i) : i \in 1 .. Len(r.quarantines)}

ManifestType == [family : {"manifest"}, capture : Seq(Row), limit : Nat,
                 limitReached : BOOLEAN, state : {"partial", "complete"},
                 emitted : Nat, quarantined : Nat]

\* The manifest and the receipt agree with the records and with each other.
Agrees(r) ==
  /\ r.manifest.emitted = Len(r.packets)
  /\ r.manifest.quarantined = Len(r.quarantines)
  /\ r.receipt.family = "receipt" /\ r.receipt.capture = r.manifest.capture
  /\ r.receipt.size = Len(r.manifest.capture)
  /\ r.manifest.emitted + r.manifest.quarantined
       = Minimum(r.receipt.count, r.manifest.limit)
  /\ r.manifest.limitReached = (r.receipt.count > r.manifest.limit)
  /\ r.receipt.digest = RecordsDigest(r.manifest, r.packets, r.quarantines)

ByFrame(s) == \A i, j \in 1 .. Len(s) : i < j => s[i].frame < s[j].frame
ByLine(s)  == \A i, j \in 1 .. Len(s) : i < j => s[i].line < s[j].line

ReportOK(r) ==
  /\ r.manifest \in ManifestType
  /\ Agrees(r)
  /\ r.packets \in Seq(Row) /\ ByFrame(r.packets)
  /\ r.quarantines \in Seq(QuarantineType) /\ ByLine(r.quarantines)

LEMMA ReportIsOK ==
  ASSUME NEW content \in Seq(Row), limit \in Nat \ {0}
  PROVE  ReportOK(Report(content, RowsOf(content), InfoOf(content), limit))
<1> DEFINE n == Len(content)
           parsed == ParseRows(RowsOf(content))
           m == Manifest(content, parsed, n, limit)
<1>1. n \in Nat /\ Minimum(limit, n) \in 0 .. n /\ Minimum(n, limit) = Minimum(limit, n)
  BY DEF Minimum
<1>2. RowsOf(content) \in Seq(Row) /\ Len(RowsOf(content)) = Minimum(limit, n)
  BY <1>1, PrefixProperties DEF RowsOf
<1>3. ParseOK(parsed, Minimum(limit, n))
  BY <1>2, ParsedRows
<1>4. PICK r : r = Report(content, RowsOf(content), InfoOf(content), limit)
  OBVIOUS
<1>5. /\ r.manifest = m /\ r.packets = parsed.packets /\ r.quarantines = parsed.quarantines
      /\ r.receipt.family = "receipt" /\ r.receipt.capture = content
      /\ r.receipt.count = n /\ r.receipt.size = n
      /\ r.receipt.digest = RecordsDigest(m, parsed.packets, parsed.quarantines)
  BY <1>4 DEF Report, InfoOf
<1> HIDE DEF parsed
<1>6. /\ parsed.packets \in Seq(Row) /\ parsed.quarantines \in Seq(QuarantineType)
      /\ Len(parsed.packets) + Len(parsed.quarantines) = Minimum(limit, n)
      /\ ByFrame(parsed.packets) /\ ByLine(parsed.quarantines)
  BY <1>3 DEF ParseOK, ByFrame, ByLine
<1>7. Len(parsed.packets) \in Nat /\ Len(parsed.quarantines) \in Nat
  BY <1>6
<1>8. /\ m.capture = content /\ m.limit = limit /\ m.limitReached = (n > limit)
      /\ m.emitted = Len(parsed.packets) /\ m.quarantined = Len(parsed.quarantines)
  BY DEF Manifest
<1>9. m \in ManifestType
  BY <1>1, <1>7 DEF Manifest, ManifestType
<1> HIDE DEF m
<1>10. Agrees(r)
  BY <1>1, <1>5, <1>6, <1>8 DEF Agrees
<1>11. ReportOK(r)
  BY <1>5, <1>6, <1>9, <1>10 DEF ReportOK
<1> QED BY <1>4, <1>11

\* The lines of a report are its manifest, its receipt, its packets and its quarantines.
LEMMA LinesShape ==
  ASSUME NEW r, ReportOK(r), NEW w \in BOOLEAN
  PROVE  LET k == IF w THEN 2 ELSE 1
             p == Len(r.packets)
         IN  /\ Lines(r, w) \in Seq(LineSet(r))
             /\ Len(Lines(r, w)) = k + p + Len(r.quarantines)
             /\ Lines(r, w)[1] = r.manifest
             /\ w => Lines(r, w)[2] = r.receipt
             /\ \A i \in 1 .. p : Lines(r, w)[k + i] = PacketLine(r, i)
             /\ \A i \in 1 .. Len(r.quarantines) :
                   Lines(r, w)[k + p + i] = QuarantineLine(r, i)
<1> DEFINE S  == LineSet(r)
           p  == Len(r.packets)
           q  == Len(r.quarantines)
           k  == IF w THEN 2 ELSE 1
           a  == <<r.manifest>>
           b  == IF w THEN <<r.receipt>> ELSE <<>>
           c  == [i \in DOMAIN r.packets |->
                    [family |-> "packet", capture |-> r.manifest.capture,
                     packet |-> r.packets[i]]]
           d  == [i \in DOMAIN r.quarantines |->
                    [family |-> "quarantine", capture |-> r.manifest.capture,
                     row |-> r.quarantines[i]]]
<1>1. /\ p \in Nat /\ q \in Nat /\ DOMAIN r.packets = 1 .. p /\ DOMAIN r.quarantines = 1 .. q
  BY DEF ReportOK
<1>2. Lines(r, w) = ((a \o b) \o c) \o d
  BY DEF Lines
<1>3. /\ a \in Seq(S) /\ Len(a) = 1 /\ a[1] = r.manifest
      /\ b \in Seq(S) /\ Len(b) = k - 1 /\ (w => b[1] = r.receipt)
  <2>1. r.manifest \in S /\ r.receipt \in S
    BY DEF LineSet
  <2> HIDE DEF S
  <2> QED BY <2>1
<1>4. /\ c \in Seq(S) /\ Len(c) = p /\ \A i \in 1 .. p : c[i] = PacketLine(r, i)
  <2>1. \A i \in 1 .. p : PacketLine(r, i) \in S
    BY DEF LineSet
  <2>2. c = [i \in 1 .. p |-> PacketLine(r, i)]
    BY <1>1 DEF PacketLine
  <2> HIDE DEF S, c, p
  <2> QED BY <1>1, <2>1, <2>2
<1>5. /\ d \in Seq(S) /\ Len(d) = q /\ \A i \in 1 .. q : d[i] = QuarantineLine(r, i)
  <2>1. \A i \in 1 .. q : QuarantineLine(r, i) \in S
    BY DEF LineSet
  <2>2. d = [i \in 1 .. q |-> QuarantineLine(r, i)]
    BY <1>1 DEF QuarantineLine
  <2> HIDE DEF S, d, q
  <2> QED BY <1>1, <2>1, <2>2
<1> DEFINE ab == a \o b
           abc == ab \o c
<1> HIDE DEF S, a, b, c, d, p, q
<1>6. /\ ab \in Seq(S) /\ Len(ab) = k /\ ab[1] = r.manifest /\ (w => ab[2] = r.receipt)
  <2>1. /\ ab \in Seq(S) /\ Len(ab) = Len(a) + Len(b)
        /\ \A i \in 1 .. Len(a) + Len(b) : ab[i] = IF i <= Len(a) THEN a[i] ELSE b[i - Len(a)]
    BY <1>3, ConcatProperties
  <2> HIDE DEF ab
  <2> QED BY <1>3, <2>1
<1> HIDE DEF ab
<1>7. /\ abc \in Seq(S) /\ Len(abc) = k + p
      /\ \A i \in 1 .. k : abc[i] = ab[i]
      /\ \A i \in 1 .. p : abc[k + i] = c[i]
  <2>1. /\ abc \in Seq(S) /\ Len(abc) = Len(ab) + Len(c)
        /\ \A i \in 1 .. Len(ab) + Len(c) : abc[i] = IF i <= Len(ab) THEN ab[i] ELSE c[i - Len(ab)]
    BY <1>4, <1>6, ConcatProperties
  <2> HIDE DEF abc
  <2> QED BY <1>1, <1>4, <1>6, <2>1
<1> HIDE DEF abc
<1> DEFINE all == abc \o d
<1>8. /\ all \in Seq(S) /\ Len(all) = k + p + q
      /\ \A i \in 1 .. k + p : all[i] = abc[i]
      /\ \A i \in 1 .. q : all[k + p + i] = d[i]
  <2>1. /\ all \in Seq(S) /\ Len(all) = Len(abc) + Len(d)
        /\ \A i \in 1 .. Len(abc) + Len(d) :
              all[i] = IF i <= Len(abc) THEN abc[i] ELSE d[i - Len(abc)]
    BY <1>5, <1>7, ConcatProperties
  <2> HIDE DEF all
  <2> QED BY <1>1, <1>5, <1>7, <2>1
<1>9. Lines(r, w) = all
  BY <1>2 DEF ab, abc
<1> HIDE DEF all
<1>10. /\ all[1] = r.manifest /\ (w => all[2] = r.receipt)
       /\ \A i \in 1 .. p : all[k + i] = PacketLine(r, i)
  <2>1. 1 \in 1 .. k /\ 1 \in 1 .. k + p /\ (w => 2 \in 1 .. k /\ 2 \in 1 .. k + p)
    BY <1>1
  <2>2. \A i \in 1 .. p : k + i \in 1 .. k + p
    BY <1>1
  <2> HIDE DEF k
  <2>3. all[1] = r.manifest /\ (w => all[2] = r.receipt)
    BY <1>6, <1>7, <1>8, <2>1
  <2>4. \A i \in 1 .. p : all[k + i] = PacketLine(r, i)
    BY <1>4, <1>7, <1>8, <2>2
  <2> QED BY <2>3, <2>4
<1>11. \A i \in 1 .. q : all[k + p + i] = QuarantineLine(r, i)
  BY <1>5, <1>8
<1> HIDE DEF k
<1>12. /\ Lines(r, w) \in Seq(LineSet(r))
       /\ Len(Lines(r, w)) = k + p + q
       /\ Lines(r, w)[1] = r.manifest
       /\ w => Lines(r, w)[2] = r.receipt
       /\ \A i \in 1 .. p : Lines(r, w)[k + i] = PacketLine(r, i)
       /\ \A i \in 1 .. q : Lines(r, w)[k + p + i] = QuarantineLine(r, i)
  BY <1>8, <1>9, <1>10, <1>11 DEF S
<1> QED BY <1>12 DEF k, p, q


\* A reader that has met no error.
Read(phase, manifest, receipt, packets, quarantines) ==
    [error |-> None, phase |-> phase, manifest |-> manifest, receipt |-> receipt,
     packets |-> packets, quarantines |-> quarantines]

Errors == {"Json", "RecordOrder", "CaptureIdMismatch", "DuplicateManifest",
           "DuplicateReceipt", "PacketFrameOrder", "QuarantineSourceLineOrder",
           "MissingManifest", "ManifestCountMismatch", "ReceiptFileSizeMismatch",
           "ReceiptNormalizedCountMismatch", "ReceiptPacketLimitReachedMismatch",
           "ReceiptDigestMismatch"}

Failed(read) == \E e \in Errors : read = ReadFailed(e)

LEMMA FailedStays ==
  ASSUME NEW read, Failed(read), NEW line
  PROVE  read.error # None /\ ReadLine(read, line) = read
<1>1. PICK e \in Errors : read = [error |-> e]
  BY DEF Failed, ReadFailed
<1>2. e # None
  BY <1>1, NoneAssumption DEF Errors
<1>3. read.error # None
  BY <1>1, <1>2
<1> QED BY <1>3 DEF ReadLine

LEMMA ReadsManifest ==
  ASSUME NEW phase, NEW m, NEW rc, NEW ps, NEW qs, NEW line, line.family = "manifest",
         NEW read, read = ReadLine(Read(phase, m, rc, ps, qs), line)
  PROVE  \/ Failed(read)
         \/ read = Read("receipt_or_packet", line, rc, ps, qs)
  BY DEF ReadLine, Read, ReadManifest, Failed, Errors

LEMMA ReadsReceipt ==
  ASSUME NEW phase, NEW m, NEW rc, NEW ps, NEW qs, NEW line, line.family = "receipt",
         NEW read, read = ReadLine(Read(phase, m, rc, ps, qs), line)
  PROVE  \/ Failed(read)
         \/ read = Read("packet", m, line, ps, qs)
  BY DEF ReadLine, Read, ReadReceipt, Failed, Errors

LEMMA ReadsPacket ==
  ASSUME NEW phase, NEW m, NEW rc, NEW ps, NEW qs, NEW line, line.family = "packet",
         NEW read, read = ReadLine(Read(phase, m, rc, ps, qs), line)
  PROVE  \/ Failed(read)
         \/ /\ ps = <<>> \/ ~(line.packet.frame <= Last(ps).frame)
            /\ read = Read("packet", m, rc, Append(ps, line.packet), qs)
  BY DEF ReadLine, Read, ReadPacket, Failed, Errors

LEMMA ReadsQuarantine ==
  ASSUME NEW phase, NEW m, NEW rc, NEW ps, NEW qs, NEW line, line.family = "quarantine",
         NEW read, read = ReadLine(Read(phase, m, rc, ps, qs), line)
  PROVE  \/ Failed(read)
         \/ /\ qs = <<>> \/ ~(line.row.line <= Last(qs).line)
            /\ read = Read("quarantine", m, rc, ps, Append(qs, line.row))
  BY DEF ReadLine, Read, ReadQuarantine, Failed, Errors

\* An increasing sequence of some elements of another.
PacketsFrom(s, all) ==
  s \in Seq(Row) /\ ByFrame(s) /\ \A i \in 1 .. Len(s) : \E j \in 1 .. Len(all) : s[i] = all[j]
QuarantinesFrom(s, all) ==
  /\ s \in Seq(QuarantineType) /\ ByLine(s)
  /\ \A i \in 1 .. Len(s) : \E j \in 1 .. Len(all) : s[i] = all[j]

\* All that a reader can hold of a file with lines of a report, in whatever order.
ReadOK(r, read) ==
  \/ Failed(read)
  \/ \E phase, m, rc, ps, qs :
        /\ read = Read(phase, m, rc, ps, qs)
        /\ m \in {None, r.manifest} /\ rc \in {None, r.receipt}
        /\ PacketsFrom(ps, r.packets) /\ QuarantinesFrom(qs, r.quarantines)

LEMMA AppendPacket ==
  ASSUME NEW all \in Seq(Row), NEW s, PacketsFrom(s, all), NEW j \in 1 .. Len(all),
         s = <<>> \/ ~(all[j].frame <= Last(s).frame)
  PROVE  PacketsFrom(Append(s, all[j]), all)
<1> DEFINE new == Append(s, all[j])
           n == Len(s)
<1>1. /\ all[j] \in Row /\ s \in Seq(Row) /\ n \in Nat /\ ByFrame(s)
      /\ \A i \in 1 .. n : \E k \in 1 .. Len(all) : s[i] = all[k]
  BY ElementOfSeq DEF PacketsFrom
<1>2. /\ new \in Seq(Row) /\ Len(new) = n + 1 /\ new[n + 1] = all[j]
      /\ \A i \in 1 .. n : new[i] = s[i]
  BY <1>1, AppendProperties
<1>3. \A i \in 1 .. n : s[i].frame \in Nat
  <2>1. \A x \in Row : x.frame \in Nat
    BY DEF Row
  <2> QED BY <1>1, <2>1, ElementOfSeq
<1>4. all[j].frame \in Nat
  BY <1>1 DEF Row
<1>5. n # 0 => all[j].frame > s[n].frame
  <2>1. n # 0 => s # <<>>
    BY <1>1
  <2> QED BY <1>1, <1>3, <1>4, <2>1 DEF Last
<1> HIDE DEF new, n
<1>6. ASSUME NEW i \in 1 .. n + 1, NEW k \in 1 .. n + 1, i < k
      PROVE  new[i].frame < new[k].frame
  <2>1. i \in 1 .. n /\ new[i] = s[i]
    BY <1>1, <1>2, <1>6
  <2>2. CASE k \in 1 .. n
    <3>1. s[i].frame < s[k].frame
      BY <1>1, <1>6, <2>1, <2>2 DEF ByFrame, n
    <3> QED BY <1>2, <2>1, <2>2, <3>1
  <2>3. CASE k \notin 1 .. n
    <3>1. k = n + 1 /\ n # 0 /\ n \in 1 .. n
      BY <1>1, <2>1, <2>3
    <3>2. s[i].frame <= s[n].frame
      <4>1. i < n => s[i].frame < s[n].frame
        BY <1>1, <2>1, <3>1 DEF ByFrame, n
      <4>2. i = n \/ i < n
        BY <1>1, <2>1
      <4> QED BY <1>3, <2>1, <3>1, <4>1, <4>2
    <3> QED BY <1>2, <1>3, <1>4, <1>5, <2>1, <3>1, <3>2
  <2> QED BY <2>2, <2>3
<1>7. \A i \in 1 .. n + 1 : \E k \in 1 .. Len(all) : new[i] = all[k]
  <2>1. \A i \in 1 .. n + 1 : i \in 1 .. n \/ i = n + 1
    BY <1>1
  <2> QED BY <1>1, <1>2, <2>1
<1>8. PacketsFrom(new, all)
  BY <1>2, <1>6, <1>7 DEF PacketsFrom, ByFrame
<1> QED BY <1>8 DEF new

LEMMA AppendQuarantine ==
  ASSUME NEW all \in Seq(QuarantineType), NEW s, QuarantinesFrom(s, all),
         NEW j \in 1 .. Len(all), s = <<>> \/ ~(all[j].line <= Last(s).line)
  PROVE  QuarantinesFrom(Append(s, all[j]), all)
<1> DEFINE new == Append(s, all[j])
           n == Len(s)
<1>1. /\ all[j] \in QuarantineType /\ s \in Seq(QuarantineType) /\ n \in Nat /\ ByLine(s)
      /\ \A i \in 1 .. n : \E k \in 1 .. Len(all) : s[i] = all[k]
  BY ElementOfSeq DEF QuarantinesFrom
<1>2. /\ new \in Seq(QuarantineType) /\ Len(new) = n + 1 /\ new[n + 1] = all[j]
      /\ \A i \in 1 .. n : new[i] = s[i]
  BY <1>1, AppendProperties
<1>3. \A i \in 1 .. n : s[i].line \in Nat
  <2>1. \A x \in QuarantineType : x.line \in Nat
    BY DEF QuarantineType
  <2> QED BY <1>1, <2>1, ElementOfSeq
<1>4. all[j].line \in Nat
  BY <1>1 DEF QuarantineType
<1>5. n # 0 => all[j].line > s[n].line
  <2>1. n # 0 => s # <<>>
    BY <1>1
  <2> QED BY <1>1, <1>3, <1>4, <2>1 DEF Last
<1> HIDE DEF new, n
<1>6. ASSUME NEW i \in 1 .. n + 1, NEW k \in 1 .. n + 1, i < k
      PROVE  new[i].line < new[k].line
  <2>1. i \in 1 .. n /\ new[i] = s[i]
    BY <1>1, <1>2, <1>6
  <2>2. CASE k \in 1 .. n
    <3>1. s[i].line < s[k].line
      BY <1>1, <1>6, <2>1, <2>2 DEF ByLine, n
    <3> QED BY <1>2, <2>1, <2>2, <3>1
  <2>3. CASE k \notin 1 .. n
    <3>1. k = n + 1 /\ n # 0 /\ n \in 1 .. n
      BY <1>1, <2>1, <2>3
    <3>2. s[i].line <= s[n].line
      <4>1. i < n => s[i].line < s[n].line
        BY <1>1, <2>1, <3>1 DEF ByLine, n
      <4>2. i = n \/ i < n
        BY <1>1, <2>1
      <4> QED BY <1>3, <2>1, <3>1, <4>1, <4>2
    <3> QED BY <1>2, <1>3, <1>4, <1>5, <2>1, <3>1, <3>2
  <2> QED BY <2>2, <2>3
<1>7. \A i \in 1 .. n + 1 : \E k \in 1 .. Len(all) : new[i] = all[k]
  <2>1. \A i \in 1 .. n + 1 : i \in 1 .. n \/ i = n + 1
    BY <1>1
  <2> QED BY <1>1, <1>2, <2>1
<1>8. QuarantinesFrom(new, all)
  BY <1>2, <1>6, <1>7 DEF QuarantinesFrom, ByLine
<1> QED BY <1>8 DEF new

LEMMA ReadKeeps ==
  ASSUME NEW r, ReportOK(r), NEW read, ReadOK(r, read), NEW line \in LineSet(r)
  PROVE  ReadOK(r, ReadLine(read, line))
<1>1. CASE Failed(read)
  BY <1>1, FailedStays DEF ReadOK
<1>2. ASSUME NEW phase, NEW m, NEW rc, NEW ps, NEW qs,
             read = Read(phase, m, rc, ps, qs),
             m \in {None, r.manifest}, rc \in {None, r.receipt},
             PacketsFrom(ps, r.packets), QuarantinesFrom(qs, r.quarantines)
      PROVE  ReadOK(r, ReadLine(read, line))
  <2>0. PICK new : new = ReadLine(Read(phase, m, rc, ps, qs), line)
    OBVIOUS
  <2>1. CASE line = r.manifest
    <3>1. line.family = "manifest"
      BY <2>1 DEF ReportOK, ManifestType
    <3>2. Failed(new) \/ new = Read("receipt_or_packet", line, rc, ps, qs)
      BY <2>0, <3>1, ReadsManifest
    <3>3. ReadOK(r, new)
      BY <1>2, <2>1, <3>2 DEF ReadOK
    <3> QED BY <1>2, <2>0, <3>3
  <2>2. CASE line = r.receipt
    <3>1. line.family = "receipt"
      BY <2>2 DEF ReportOK, Agrees
    <3>2. Failed(new) \/ new = Read("packet", m, line, ps, qs)
      BY <2>0, <3>1, ReadsReceipt
    <3>3. ReadOK(r, new)
      BY <1>2, <2>2, <3>2 DEF ReadOK
    <3> QED BY <1>2, <2>0, <3>3
  <2>3. CASE line = Torn
    <3>1. new = ReadFailed("Json")
      BY <2>0, <2>3 DEF ReadLine, Read, Torn
    <3>2. ReadOK(r, new)
      BY <3>1 DEF ReadOK, Failed, Errors
    <3> QED BY <1>2, <2>0, <3>2
  <2>4. CASE \E j \in 1 .. Len(r.packets) : line = PacketLine(r, j)
    <3>1. PICK j \in 1 .. Len(r.packets) : line = PacketLine(r, j)
      BY <2>4
    <3>2. line.family = "packet" /\ line.packet = r.packets[j]
      BY <3>1 DEF PacketLine
    <3>3. \/ Failed(new)
          \/ /\ ps = <<>> \/ ~(line.packet.frame <= Last(ps).frame)
             /\ new = Read("packet", m, rc, Append(ps, line.packet), qs)
      BY <2>0, <3>2, ReadsPacket
    <3>4. CASE Failed(new)
      BY <1>2, <2>0, <3>4 DEF ReadOK
    <3>5. CASE ~Failed(new)
      <4>1. r.packets \in Seq(Row)
        BY DEF ReportOK
      <4>2. PacketsFrom(Append(ps, r.packets[j]), r.packets)
        BY <1>2, <3>2, <3>3, <3>5, <4>1, AppendPacket
      <4>3. ReadOK(r, new)
        BY <1>2, <3>2, <3>3, <3>5, <4>2 DEF ReadOK
      <4> QED BY <1>2, <2>0, <4>3
    <3> QED BY <3>4, <3>5
  <2>5. CASE \E j \in 1 .. Len(r.quarantines) : line = QuarantineLine(r, j)
    <3>1. PICK j \in 1 .. Len(r.quarantines) : line = QuarantineLine(r, j)
      BY <2>5
    <3>2. line.family = "quarantine" /\ line.row = r.quarantines[j]
      BY <3>1 DEF QuarantineLine
    <3>3. \/ Failed(new)
          \/ /\ qs = <<>> \/ ~(line.row.line <= Last(qs).line)
             /\ new = Read("quarantine", m, rc, ps, Append(qs, line.row))
      BY <2>0, <3>2, ReadsQuarantine
    <3>4. CASE Failed(new)
      BY <1>2, <2>0, <3>4 DEF ReadOK
    <3>5. CASE ~Failed(new)
      <4>1. r.quarantines \in Seq(QuarantineType)
        BY DEF ReportOK
      <4>2. QuarantinesFrom(Append(qs, r.quarantines[j]), r.quarantines)
        BY <1>2, <3>2, <3>3, <3>5, <4>1, AppendQuarantine
      <4>3. ReadOK(r, new)
        BY <1>2, <3>2, <3>3, <3>5, <4>2 DEF ReadOK
      <4> QED BY <1>2, <2>0, <4>3
    <3> QED BY <3>4, <3>5
  <2> QED BY <2>1, <2>2, <2>3, <2>4, <2>5 DEF LineSet
<1> QED BY <1>1, <1>2 DEF ReadOK


\* As many elements of an increasing sequence, in increasing order, are all of it.
LEMMA AllPackets ==
  ASSUME NEW all \in Seq(Row), ByFrame(all), NEW s, PacketsFrom(s, all), Len(s) = Len(all)
  PROVE  s = all
<1> DEFINE n  == Len(all)
           at == [i \in 1 .. n |-> CHOOSE j \in 1 .. n : s[i] = all[j]]
<1>1. n \in Nat /\ s \in Seq(Row) /\ Len(s) = n
  BY DEF PacketsFrom
<1>2. \A i \in 1 .. n : at[i] \in 1 .. n /\ s[i] = all[at[i]]
  BY <1>1 DEF PacketsFrom
<1>3. \A i \in 1 .. n : all[i].frame \in Nat
  <2>1. \A x \in Row : x.frame \in Nat
    BY DEF Row
  <2> QED BY <2>1, ElementOfSeq
<1>4. at \in [1 .. n -> 1 .. n]
  BY <1>2
<1>5. ASSUME NEW i \in 1 .. n, NEW j \in 1 .. n, i < j PROVE at[i] < at[j]
  <2>1. s[i].frame < s[j].frame
    BY <1>1, <1>5 DEF PacketsFrom, ByFrame
  <2>2. all[at[i]].frame < all[at[j]].frame
    BY <1>2, <2>1
  <2>3. at[j] < at[i] => all[at[j]].frame < all[at[i]].frame
    BY <1>2 DEF ByFrame
  <2>4. all[at[i]].frame \in Nat /\ all[at[j]].frame \in Nat /\ at[i] \in Nat /\ at[j] \in Nat
    BY <1>2, <1>3
  <2> HIDE DEF at
  <2> QED BY <2>2, <2>3, <2>4
<1> HIDE DEF at
<1>6. \A i \in 1 .. n : at[i] = i
  BY <1>1, <1>4, <1>5, OrderFixes
<1>7. \A i \in 1 .. n : s[i] = all[i]
  BY <1>2, <1>6
<1> QED BY <1>1, <1>7, SeqEqual

LEMMA AllQuarantines ==
  ASSUME NEW all \in Seq(QuarantineType), ByLine(all), NEW s, QuarantinesFrom(s, all),
         Len(s) = Len(all)
  PROVE  s = all
<1> DEFINE n  == Len(all)
           at == [i \in 1 .. n |-> CHOOSE j \in 1 .. n : s[i] = all[j]]
<1>1. n \in Nat /\ s \in Seq(QuarantineType) /\ Len(s) = n
  BY DEF QuarantinesFrom
<1>2. \A i \in 1 .. n : at[i] \in 1 .. n /\ s[i] = all[at[i]]
  BY <1>1 DEF QuarantinesFrom
<1>3. \A i \in 1 .. n : all[i].line \in Nat
  <2>1. \A x \in QuarantineType : x.line \in Nat
    BY DEF QuarantineType
  <2> QED BY <2>1, ElementOfSeq
<1>4. at \in [1 .. n -> 1 .. n]
  BY <1>2
<1>5. ASSUME NEW i \in 1 .. n, NEW j \in 1 .. n, i < j PROVE at[i] < at[j]
  <2>1. s[i].line < s[j].line
    BY <1>1, <1>5 DEF QuarantinesFrom, ByLine
  <2>2. all[at[i]].line < all[at[j]].line
    BY <1>2, <2>1
  <2>3. at[j] < at[i] => all[at[j]].line < all[at[i]].line
    BY <1>2 DEF ByLine
  <2>4. all[at[i]].line \in Nat /\ all[at[j]].line \in Nat /\ at[i] \in Nat /\ at[j] \in Nat
    BY <1>2, <1>3
  <2> HIDE DEF at
  <2> QED BY <2>2, <2>3, <2>4
<1> HIDE DEF at
<1>6. \A i \in 1 .. n : at[i] = i
  BY <1>1, <1>4, <1>5, OrderFixes
<1>7. \A i \in 1 .. n : s[i] = all[i]
  BY <1>2, <1>6
<1> QED BY <1>1, <1>7, SeqEqual

\* However a file of these lines was damaged, what is read of it is in order.
LEMMA ReadsOnlyRecords ==
  ASSUME NEW r, ReportOK(r), NEW given \in Seq(LineSet(r))
  PROVE  ReadOK(r, FoldLeft(ReadLine, ReadStart, given))
<1> DEFINE n == Len(given)
<1>1. PICK h : /\ h[0] = ReadStart
               /\ \A i \in 1 .. n : h[i] = ReadLine(h[i - 1], given[i])
               /\ FoldLeft(ReadLine, ReadStart, given) = h[n]
  BY ReadRun
<1> DEFINE Bad == {k \in 0 .. n : ~ReadOK(r, h[k])}
<1>2. n \in Nat /\ Bad \subseteq Nat
  OBVIOUS
<1>3. 0 \notin Bad
  <2>1. ReadStart = Read("manifest", None, None, <<>>, <<>>)
    BY DEF ReadStart, Read
  <2>2. PacketsFrom(<<>>, r.packets) /\ QuarantinesFrom(<<>>, r.quarantines)
    BY EmptySeq DEF PacketsFrom, QuarantinesFrom, ByFrame, ByLine
  <2>3. ReadOK(r, ReadStart)
    BY <2>1, <2>2 DEF ReadOK
  <2> QED BY <1>1, <2>3
<1>4. ASSUME Bad # {} PROVE FALSE
  <2>1. PICK k \in Bad : \A m \in Bad : k <= m
    <3> HIDE DEF Bad
    <3> QED BY <1>2, <1>4, LeastNatural, Zenon
  <2>2. k \in 1 .. n /\ k - 1 \in 0 .. n /\ k - 1 \notin Bad
    BY <1>2, <1>3, <2>1
  <2>3. given[k] \in LineSet(r)
    BY <2>2, ElementOfSeq
  <2>4. ReadOK(r, h[k - 1])
    BY <2>2
  <2>5. ReadOK(r, ReadLine(h[k - 1], given[k]))
    BY <2>3, <2>4, ReadKeeps
  <2> QED BY <1>1, <2>1, <2>2, <2>5
<1> QED BY <1>1, <1>2, <1>4

\* A file of a report's lines that is accepted holds the whole report.
LEMMA AcceptedIsWhole ==
  ASSUME NEW r, ReportOK(r), NEW given \in Seq(LineSet(r)), Accepted(given)
  PROVE  LET read == ParseStream(given)
         IN  /\ read.manifest = r.manifest
             /\ read.packets = r.packets
             /\ read.quarantines = r.quarantines
             /\ read.receipt \in {None, r.receipt}
<1>1. PICK read : read = FoldLeft(ReadLine, ReadStart, given)
  OBVIOUS
<1>2. ReadOK(r, read)
  BY <1>1, ReadsOnlyRecords
<1>3. ParseStream(given) = IF read.error # None THEN read
                           ELSE IF CheckStream(read) # None THEN ReadFailed(CheckStream(read))
                           ELSE read
  BY <1>1 DEF ParseStream
<1>4. read.error = None /\ CheckStream(read) = None /\ ParseStream(given) = read
  BY <1>3 DEF Accepted, ReadFailed
<1>5. PICK phase, m, rc, ps, qs :
         /\ read = Read(phase, m, rc, ps, qs)
         /\ m \in {None, r.manifest} /\ rc \in {None, r.receipt}
         /\ PacketsFrom(ps, r.packets) /\ QuarantinesFrom(qs, r.quarantines)
  BY <1>2, <1>4, FailedStays DEF ReadOK
<1>6. /\ read.manifest = m /\ read.receipt = rc
      /\ read.packets = ps /\ read.quarantines = qs
  BY <1>5 DEF Read
<1>7. "MissingManifest" # None /\ "ManifestCountMismatch" # None
  BY NoneAssumption
<1>8. m # None /\ m.emitted = Len(ps) /\ m.quarantined = Len(qs)
  BY <1>4, <1>6, <1>7 DEF CheckStream
<1>9. m = r.manifest /\ Len(ps) = Len(r.packets) /\ Len(qs) = Len(r.quarantines)
  BY <1>5, <1>8 DEF ReportOK, Agrees
<1>10. ps = r.packets
  BY <1>5, <1>9, AllPackets DEF ReportOK
<1>11. qs = r.quarantines
  BY <1>5, <1>9, AllQuarantines DEF ReportOK
<1> QED BY <1>4, <1>5, <1>6, <1>9, <1>10, <1>11

LEMMA PrefixGrows ==
  ASSUME NEW S, NEW s \in Seq(S), NEW j \in 1 .. Len(s)
  PROVE  Append(SubSeq(s, 1, j - 1), s[j]) = SubSeq(s, 1, j)
<1> DEFINE a == SubSeq(s, 1, j - 1)
           b == SubSeq(s, 1, j)
           c == Append(a, s[j])
<1>1. j - 1 \in 0 .. Len(s) /\ j \in 0 .. Len(s) /\ s[j] \in S
  BY ElementOfSeq
<1>2. /\ a \in Seq(S) /\ Len(a) = j - 1 /\ \A i \in 1 .. j - 1 : a[i] = s[i]
  BY <1>1, PrefixProperties
<1>3. /\ b \in Seq(S) /\ Len(b) = j /\ \A i \in 1 .. j : b[i] = s[i]
  BY <1>1, PrefixProperties
<1> HIDE DEF a, b
<1>4. /\ c \in Seq(S) /\ Len(c) = Len(a) + 1 /\ \A i \in 1 .. Len(a) : c[i] = a[i]
      /\ c[Len(a) + 1] = s[j]
  BY <1>1, <1>2, AppendProperties
<1> HIDE DEF c
<1>5. Len(c) = Len(b)
  BY <1>1, <1>2, <1>3, <1>4
<1>6. \A i \in 1 .. Len(c) : c[i] = b[i]
  <2>0. j \in Int /\ Len(c) = j
    BY <1>2, <1>4
  <2>1. \A i \in 1 .. Len(c) : i \in 1 .. j - 1 \/ i = j
    BY <2>0
  <2>2. \A i \in 1 .. j - 1 : c[i] = b[i]
    BY <1>2, <1>3, <1>4
  <2>3. c[j] = b[j]
    BY <1>2, <1>3, <1>4
  <2> QED BY <2>1, <2>2, <2>3
<1>7. c = b
  BY <1>3, <1>4, <1>5, <1>6, SeqEqual
<1> QED BY <1>7 DEF a, b, c

LEMMA ManifestIsSome ==
  ASSUME NEW r, ReportOK(r)
  PROVE  r.manifest # None /\ r.manifest.family = "manifest"
<1>1. r.manifest \in ManifestType
  BY DEF ReportOK
<1>2. None \notin ManifestType
  BY NoneAssumption DEF ManifestType
<1>3. \A m \in ManifestType : m.family = "manifest"
  BY DEF ManifestType
<1> QED BY <1>1, <1>2, <1>3

LEMMA ReadsItsReceipt ==
  ASSUME NEW r, ReportOK(r), NEW ps, NEW qs
  PROVE  ReadLine(Read("receipt_or_packet", r.manifest, None, ps, qs), r.receipt)
           = Read("packet", r.manifest, r.receipt, ps, qs)
<1> DEFINE old == Read("receipt_or_packet", r.manifest, None, ps, qs)
<1>1. PICK new : new = ReadLine(old, r.receipt)
  OBVIOUS
<1>2. r.receipt.family = "receipt" /\ r.receipt.capture = r.manifest.capture
  BY DEF ReportOK, Agrees
<1>3. r.manifest # None
  BY ManifestIsSome
<1>4. new = ReadReceipt(old, r.receipt)
  BY <1>1, <1>2 DEF ReadLine, Read
<1>5. ~Failed(new)
  <2>1. new = [old EXCEPT !.receipt = r.receipt, !.phase = "packet"]
    BY <1>2, <1>3, <1>4 DEF ReadReceipt, SameCapture, Read
  <2>2. new.error = None
    BY <2>1 DEF Read
  <2> QED BY <2>2, FailedStays
<1>6. Failed(new) \/ new = Read("packet", r.manifest, r.receipt, ps, qs)
  BY <1>1, <1>2, ReadsReceipt
<1> QED BY <1>1, <1>5, <1>6

LEMMA ReadsNextPacket ==
  ASSUME NEW r, ReportOK(r), NEW j \in 1 .. Len(r.packets), NEW rc, NEW qs,
         NEW phase \in {"receipt_or_packet", "packet"}
  PROVE  ReadLine(Read(phase, r.manifest, rc, SubSeq(r.packets, 1, j - 1), qs),
                  PacketLine(r, j))
           = Read("packet", r.manifest, rc, SubSeq(r.packets, 1, j), qs)
<1> DEFINE ps == SubSeq(r.packets, 1, j - 1)
           line == PacketLine(r, j)
<1>1. line.family = "packet" /\ line.packet = r.packets[j]
      /\ line.capture = r.manifest.capture
  BY DEF PacketLine
<1>2. r.packets \in Seq(Row) /\ ByFrame(r.packets) /\ Len(r.packets) \in Nat
  BY DEF ReportOK
<1>3. j - 1 \in 0 .. Len(r.packets)
  BY <1>2
<1>4. ps \in Seq(Row) /\ Len(ps) = j - 1 /\ \A i \in 1 .. j - 1 : ps[i] = r.packets[i]
  BY <1>2, <1>3, PrefixProperties
<1>5. Append(ps, r.packets[j]) = SubSeq(r.packets, 1, j)
  BY <1>2, PrefixGrows
<1> HIDE DEF ps, line
<1>6. ps = <<>> \/ ~(line.packet.frame <= Last(ps).frame)
  <2> SUFFICES ASSUME ps # <<>> PROVE ~(line.packet.frame <= Last(ps).frame)
    OBVIOUS
  <2>1. Len(ps) \in Nat \ {0}
    BY <1>4, EmptySeq
  <2>2. j - 1 \in 1 .. Len(r.packets) /\ j - 1 < j
    BY <1>2, <1>4, <2>1
  <2>3. Last(ps) = r.packets[j - 1]
    BY <1>4, <2>1 DEF Last
  <2>4. r.packets[j - 1].frame < r.packets[j].frame
    BY <1>2, <2>2 DEF ByFrame
  <2>5. r.packets[j - 1].frame \in Nat /\ r.packets[j].frame \in Nat
    <3>1. \A x \in Row : x.frame \in Nat
      BY DEF Row
    <3> QED BY <1>2, <2>2, <3>1, ElementOfSeq
  <2> QED BY <1>1, <2>3, <2>4, <2>5
<1>7. r.manifest # None
  BY ManifestIsSome
<1>8. ReadLine(Read(phase, r.manifest, rc, ps, qs), line)
        = ReadPacket(Read(phase, r.manifest, rc, ps, qs), line)
  BY <1>1 DEF ReadLine, Read
<1>9. ReadPacket(Read(phase, r.manifest, rc, ps, qs), line)
        = Read("packet", r.manifest, rc, Append(ps, line.packet), qs)
  BY <1>1, <1>6, <1>7 DEF ReadPacket, SameCapture, Read
<1> QED BY <1>1, <1>5, <1>8, <1>9 DEF ps, line

LEMMA ReadsNextQuarantine ==
  ASSUME NEW r, ReportOK(r), NEW j \in 1 .. Len(r.quarantines), NEW rc, NEW ps,
         NEW phase \in {"receipt_or_packet", "packet", "quarantine"}
  PROVE  ReadLine(Read(phase, r.manifest, rc, ps, SubSeq(r.quarantines, 1, j - 1)),
                  QuarantineLine(r, j))
           = Read("quarantine", r.manifest, rc, ps, SubSeq(r.quarantines, 1, j))
<1> DEFINE qs == SubSeq(r.quarantines, 1, j - 1)
           line == QuarantineLine(r, j)
<1>1. line.family = "quarantine" /\ line.row = r.quarantines[j]
      /\ line.capture = r.manifest.capture
  BY DEF QuarantineLine
<1>2. /\ r.quarantines \in Seq(QuarantineType) /\ ByLine(r.quarantines)
      /\ Len(r.quarantines) \in Nat
  BY DEF ReportOK
<1>3. j - 1 \in 0 .. Len(r.quarantines)
  BY <1>2
<1>4. /\ qs \in Seq(QuarantineType) /\ Len(qs) = j - 1
      /\ \A i \in 1 .. j - 1 : qs[i] = r.quarantines[i]
  BY <1>2, <1>3, PrefixProperties
<1>5. Append(qs, r.quarantines[j]) = SubSeq(r.quarantines, 1, j)
  BY <1>2, PrefixGrows
<1> HIDE DEF qs, line
<1>6. qs = <<>> \/ ~(line.row.line <= Last(qs).line)
  <2> SUFFICES ASSUME qs # <<>> PROVE ~(line.row.line <= Last(qs).line)
    OBVIOUS
  <2>1. Len(qs) \in Nat \ {0}
    BY <1>4, EmptySeq
  <2>2. j - 1 \in 1 .. Len(r.quarantines) /\ j - 1 < j
    BY <1>2, <1>4, <2>1
  <2>3. Last(qs) = r.quarantines[j - 1]
    BY <1>4, <2>1 DEF Last
  <2>4. r.quarantines[j - 1].line < r.quarantines[j].line
    BY <1>2, <2>2 DEF ByLine
  <2>5. r.quarantines[j - 1].line \in Nat /\ r.quarantines[j].line \in Nat
    <3>1. \A x \in QuarantineType : x.line \in Nat
      BY DEF QuarantineType
    <3> QED BY <1>2, <2>2, <3>1, ElementOfSeq
  <2> QED BY <1>1, <2>3, <2>4, <2>5
<1>7. r.manifest # None
  BY ManifestIsSome
<1>8. ReadLine(Read(phase, r.manifest, rc, ps, qs), line)
        = ReadQuarantine(Read(phase, r.manifest, rc, ps, qs), line)
  BY <1>1 DEF ReadLine, Read
<1>9. ReadQuarantine(Read(phase, r.manifest, rc, ps, qs), line)
        = Read("quarantine", r.manifest, rc, ps, Append(qs, line.row))
  BY <1>1, <1>6, <1>7 DEF ReadQuarantine, SameCapture, Read
<1> QED BY <1>1, <1>5, <1>8, <1>9 DEF qs, line

\* Whatever was written is accepted: no check refuses the lines of a report.
LEMMA LinesAreAccepted ==
  ASSUME NEW r, ReportOK(r), NEW w \in BOOLEAN
  PROVE  Accepted(Lines(r, w))
<1> DEFINE k  == IF w THEN 2 ELSE 1
           p  == Len(r.packets)
           q  == Len(r.quarantines)
           rc == IF w THEN r.receipt ELSE None
           given == Lines(r, w)
<1>1. /\ p \in Nat /\ q \in Nat /\ k \in {1, 2} /\ (w => k = 2)
      /\ r.packets \in Seq(Row) /\ r.quarantines \in Seq(QuarantineType)
  BY DEF ReportOK
<1>2. /\ given \in Seq(LineSet(r)) /\ Len(given) = k + p + q
      /\ given[1] = r.manifest /\ (w => given[2] = r.receipt)
      /\ \A i \in 1 .. p : given[k + i] = PacketLine(r, i)
      /\ \A i \in 1 .. q : given[k + p + i] = QuarantineLine(r, i)
  BY LinesShape
<1> HIDE DEF given
<1>0. Len(given) = k + p + q
  BY <1>2
<1>3. PICK h : /\ h[0] = ReadStart
               /\ \A i \in 1 .. Len(given) : h[i] = ReadLine(h[i - 1], given[i])
               /\ FoldLeft(ReadLine, ReadStart, given) = h[Len(given)]
  BY <1>2, ReadRun
<1>4. r.manifest # None /\ r.manifest.family = "manifest"
  BY ManifestIsSome
<1>5. h[1] = Read("receipt_or_packet", r.manifest, None, <<>>, <<>>)
  <2>1. h[1] = ReadLine(ReadStart, r.manifest)
    <3>1. 1 \in 1 .. Len(given) /\ 1 - 1 = 0
      <4> HIDE DEF p, q, k
      <4> QED BY <1>0, <1>1
    <3> QED BY <1>2, <1>3, <3>1
  <2> QED BY <1>4, <2>1 DEF ReadStart, Read, ReadLine, ReadManifest
<1>6. \E phase \in {"receipt_or_packet", "packet"} :
         h[k] = Read(phase, r.manifest, rc, <<>>, <<>>)
  <2>1. CASE ~w
    BY <1>5, <2>1
  <2>2. CASE w
    <3>1. h[2] = ReadLine(h[1], r.receipt)
      <4>1. 2 \in 1 .. Len(given) /\ 2 - 1 = 1
        <5> HIDE DEF p, q, k
        <5> QED BY <1>0, <1>1, <2>2
      <4> QED BY <1>2, <1>3, <2>2, <4>1
    <3>2. h[2] = Read("packet", r.manifest, r.receipt, <<>>, <<>>)
      BY <1>5, <3>1, ReadsItsReceipt
    <3> QED BY <2>2, <3>2
  <2> QED BY <2>1, <2>2
<1> HIDE DEF rc, k
<1> DEFINE AfterPackets(i) == \E phase \in {"receipt_or_packet", "packet"} :
               h[k + i] = Read(phase, r.manifest, rc, SubSeq(r.packets, 1, i), <<>>)
           BadPackets == {i \in 0 .. p : ~AfterPackets(i)}
<1>7. AfterPackets(0)
  <2>1. SubSeq(r.packets, 1, 0) = <<>> /\ k + 0 = k
    BY <1>1, SubSeqEmpty
  <2> QED BY <1>6, <2>1
<1>8. ASSUME BadPackets # {} PROVE FALSE
  <2>0. BadPackets \subseteq Nat
    BY <1>1
  <2> HIDE DEF BadPackets
  <2>1. PICK j \in BadPackets : \A i \in BadPackets : j <= i
    BY <1>8, <2>0, LeastNatural, Zenon
  <2>2. j \in 0 .. p /\ ~AfterPackets(j) /\ j # 0
    BY <1>7, <2>1 DEF BadPackets
  <2>3. j - 1 \in 0 .. p /\ j \in 1 .. p /\ ~(j <= j - 1)
    BY <1>1, <2>2
  <2>4. AfterPackets(j - 1)
    BY <2>1, <2>3 DEF BadPackets
  <2>5. PICK phase \in {"receipt_or_packet", "packet"} :
           h[k + (j - 1)] = Read(phase, r.manifest, rc, SubSeq(r.packets, 1, j - 1), <<>>)
    BY <2>4
  <2>6. k + j \in 1 .. Len(given) /\ (k + j) - 1 = k + (j - 1)
    <3> HIDE DEF p, q
    <3> QED BY <1>0, <1>1, <2>3
  <2>7. h[k + j] = ReadLine(h[k + (j - 1)], PacketLine(r, j))
    BY <1>2, <1>3, <2>3, <2>6
  <2>8. h[k + j] = Read("packet", r.manifest, rc, SubSeq(r.packets, 1, j), <<>>)
    BY <2>3, <2>5, <2>7, ReadsNextPacket
  <2> QED BY <2>2, <2>8
<1>9. AfterPackets(p)
  <2>1. p \in 0 .. p
    BY <1>1
  <2> QED BY <1>8, <2>1
<1> DEFINE AfterRows(i) == \E phase \in {"receipt_or_packet", "packet", "quarantine"} :
               h[k + p + i] = Read(phase, r.manifest, rc, r.packets,
                                   SubSeq(r.quarantines, 1, i))
           BadRows == {i \in 0 .. q : ~AfterRows(i)}
<1>10. AfterRows(0)
  <2>1. SubSeq(r.quarantines, 1, 0) = <<>> /\ k + p + 0 = k + p
    BY <1>1, SubSeqEmpty
  <2>2. SubSeq(r.packets, 1, p) = r.packets
    BY <1>1, SubSeqFull
  <2> QED BY <1>9, <2>1, <2>2
<1> HIDE DEF AfterPackets, BadPackets
<1>11. ASSUME BadRows # {} PROVE FALSE
  <2>0. BadRows \subseteq Nat
    BY <1>1
  <2> HIDE DEF BadRows
  <2>1. PICK j \in BadRows : \A i \in BadRows : j <= i
    BY <1>11, <2>0, LeastNatural, Zenon
  <2>2. j \in 0 .. q /\ ~AfterRows(j) /\ j # 0
    BY <1>10, <2>1 DEF BadRows
  <2>3. j - 1 \in 0 .. q /\ j \in 1 .. q /\ ~(j <= j - 1)
    BY <1>1, <2>2
  <2>4. AfterRows(j - 1)
    BY <2>1, <2>3 DEF BadRows
  <2>5. PICK phase \in {"receipt_or_packet", "packet", "quarantine"} :
           h[k + p + (j - 1)] = Read(phase, r.manifest, rc, r.packets,
                                     SubSeq(r.quarantines, 1, j - 1))
    BY <2>4
  <2>6. k + p + j \in 1 .. Len(given) /\ (k + p + j) - 1 = k + p + (j - 1)
    <3> HIDE DEF p, q
    <3> QED BY <1>0, <1>1, <2>3
  <2>7. h[k + p + j] = ReadLine(h[k + p + (j - 1)], QuarantineLine(r, j))
    BY <1>2, <1>3, <2>3, <2>6
  <2>8. h[k + p + j] = Read("quarantine", r.manifest, rc, r.packets,
                            SubSeq(r.quarantines, 1, j))
    BY <2>3, <2>5, <2>7, ReadsNextQuarantine
  <2> QED BY <2>2, <2>8
<1>12. AfterRows(q)
  <2>1. q \in 0 .. q
    BY <1>1
  <2> QED BY <1>11, <2>1
<1> HIDE DEF BadRows
<1>13. PICK phase : FoldLeft(ReadLine, ReadStart, given)
                      = Read(phase, r.manifest, rc, r.packets, r.quarantines)
  <2>1. SubSeq(r.quarantines, 1, q) = r.quarantines
    BY <1>1, SubSeqFull
  <2> QED BY <1>2, <1>3, <1>12, <2>1
<1>14. PICK read : read = FoldLeft(ReadLine, ReadStart, given)
  OBVIOUS
<1>15. /\ read.error = None /\ read.manifest = r.manifest /\ read.receipt = rc
       /\ read.packets = r.packets /\ read.quarantines = r.quarantines
  BY <1>13, <1>14 DEF Read
<1>16. CheckStream(read) = None
  <2>1. Agrees(r)
    BY DEF ReportOK
  <2>2. CASE w
    BY <1>4, <1>15, <2>1, <2>2 DEF CheckStream, rc, Agrees
  <2>3. CASE ~w
    BY <1>4, <1>15, <2>1, <2>3 DEF CheckStream, rc, Agrees
  <2> QED BY <2>2, <2>3
<1>17. ParseStream(given) = IF read.error # None THEN read
                            ELSE IF CheckStream(read) # None THEN ReadFailed(CheckStream(read))
                            ELSE read
  BY <1>14 DEF ParseStream
<1> QED BY <1>15, <1>16, <1>17 DEF Accepted, given


----------------------------------------------------------------------------
(* The file of records.                                                    *)

\* Damage leaves lines of the report on the lines of the file.
LEMMA DamagedLines ==
  ASSUME NEW S, NEW s \in Seq(S)
  PROVE  /\ \A i \in 1 .. Len(s) : RemoveAt(s, i) \in Seq(S) /\ InsertAt(s, i, s[i]) \in Seq(S)
         /\ \A i, j \in 1 .. Len(s) : [s EXCEPT ![i] = s[j], ![j] = s[i]] \in Seq(S)
<1>0. /\ Len(s) \in Nat /\ \A i \in 1 .. Len(s) : s[i] \in S
  BY ElementOfSeq
<1>1. ASSUME NEW i \in 1 .. Len(s) PROVE RemoveAt(s, i) \in Seq(S) /\ InsertAt(s, i, s[i]) \in Seq(S)
  <2>1. SubSeq(s, 1, i - 1) \in Seq(S)
    <3>1. i - 1 \in 0 .. Len(s)
      BY <1>0, <1>1
    <3> QED BY <3>1, PrefixProperties
  <2>2. SubSeq(s, i + 1, Len(s)) \in Seq(S)
    <3>1. i + 1 \in Int /\ Len(s) \in Int /\ \A k \in i + 1 .. Len(s) : s[k] \in S
      BY <1>0
    <3> QED BY <3>1, SubSeqProperties
  <2>3. SubSeq(s, i, Len(s)) \in Seq(S)
    <3>1. i \in Int /\ Len(s) \in Int /\ \A k \in i .. Len(s) : s[k] \in S
      BY <1>0
    <3> QED BY <3>1, SubSeqProperties
  <2>4. <<s[i]>> \in Seq(S)
    <3>1. s[i] \in S
      BY <1>0
    <3> QED BY <3>1
  <2>5. RemoveAt(s, i) \in Seq(S)
    BY <2>1, <2>2, ConcatProperties DEF RemoveAt
  <2>6. SubSeq(s, 1, i - 1) \o <<s[i]>> \in Seq(S)
    BY <2>1, <2>4, ConcatProperties
  <2>7. InsertAt(s, i, s[i]) \in Seq(S)
    BY <2>3, <2>6, ConcatProperties DEF InsertAt
  <2> QED BY <2>5, <2>7
<1>2. ASSUME NEW i \in 1 .. Len(s), NEW j \in 1 .. Len(s)
      PROVE  [s EXCEPT ![i] = s[j], ![j] = s[i]] \in Seq(S)
  <2> DEFINE t == [s EXCEPT ![i] = s[j]]
  <2>1. s[i] \in S /\ s[j] \in S
    BY <1>0
  <2>2. t \in Seq(S) /\ Len(t) = Len(s)
    BY <2>1, ExceptSeq
  <2>3. [s EXCEPT ![i] = s[j], ![j] = s[i]] = [t EXCEPT ![j] = s[i]]
    OBVIOUS
  <2> HIDE DEF t
  <2>4. [t EXCEPT ![j] = s[i]] \in Seq(S)
    <3>1. j \in 1 .. Len(t)
      BY <2>2
    <3> QED BY <2>1, <2>2, <3>1, ExceptSeq
  <2> QED BY <2>3, <2>4
<1> QED BY <1>1, <1>2

FileInv ==
  /\ damages \in Nat /\ full \in BOOLEAN
  /\ pc \notin {"write", "returned"} => report = None /\ file = <<>>
  /\ pc \in {"write", "returned"} => file \in Seq(LineSet(report))
  /\ pc = "write" => /\ Len(file) <= Len(Lines(report, full))
                     /\ \A i \in 1 .. Len(file) : file[i] = Lines(report, full)[i]
  /\ pc = "returned" /\ damages = 0 => file = Lines(report, full)

LEMMA LookOK ==
  ASSUME LookInv, pc \in {"write", "returned"}
  PROVE  ReportOK(report)
<1>1. /\ report = Report(artifact, RowsOf(artifact), InfoOf(artifact), limit)
      /\ artifact \in Seq(Row) /\ limit \in Nat \ {0}
  BY DEF LookInv, Remains
<1> QED BY <1>1, ReportIsOK

LEMMA InitFile == Init => FileInv
  BY DEF Init, FileInv

LEMMA NextFile == LookInv /\ FileInv /\ [Next]_vars => FileInv'
<1> SUFFICES ASSUME LookInv, FileInv, [Next]_vars PROVE FileInv'
  OBVIOUS
<1>1. CASE Stage \/ RunCapinfos \/ RunTshark \/ Rehash \/ Tamper
  <2>1. /\ UNCHANGED <<report, full, file, damages>>
        /\ pc \notin {"write", "returned"} /\ pc' \notin {"write", "returned"}
    BY <1>1 DEF Stage, RunCapinfos, RunTshark, Rehash, Tamper
  <2> QED BY <2>1 DEF FileInv
<1>2. CASE BuildReport
  <2>1. /\ UNCHANGED <<full, file, damages>> /\ file = <<>> /\ report = None
        /\ pc' = "write" \/ (pc' = "failed" /\ report' = report)
    BY <1>2 DEF BuildReport, FileInv
  <2>2. CASE pc' = "failed"
    BY <2>1, <2>2 DEF FileInv
  <2>3. CASE pc' = "write"
    <3>1. LookInv'
      BY NextLook
    <3>2. ReportOK(report')
      <4>1. /\ report' = Report(artifact', RowsOf(artifact)', InfoOf(artifact'), limit')
            /\ artifact' \in Seq(Row) /\ limit' \in Nat \ {0} /\ UNCHANGED <<artifact, limit>>
        BY <1>2, <2>3, <3>1 DEF LookInv, Remains, BuildReport, InfoOf
      <4>2. RowsOf(artifact)' = RowsOf(artifact)
        BY <4>1 DEF RowsOf
      <4> QED BY <4>1, <4>2, ReportIsOK
    <3>3. Lines(report', full') \in Seq(LineSet(report'))
      BY <2>1, <3>2, LinesShape DEF FileInv
    <3>4. file' \in Seq(LineSet(report')) /\ Len(file') = 0 /\ Len(Lines(report', full')) \in Nat
      BY <2>1, <3>3, EmptySeq, LenProperties
    <3>5. damages' \in Nat /\ full' \in BOOLEAN
      BY <2>1 DEF FileInv
    <3> QED BY <2>3, <3>4, <3>5 DEF FileInv
  <2> QED BY <2>1, <2>2, <2>3
<1>3. CASE WriteLine
  <2> DEFINE all == Lines(report, full)
             S == LineSet(report)
  <2>1. ReportOK(report) /\ pc = "write"
    BY <1>3, LookOK DEF WriteLine
  <2>2. full \in BOOLEAN /\ damages \in Nat
    BY DEF FileInv
  <2>3. all \in Seq(S)
    BY <2>1, <2>2, LinesShape
  <2>4. /\ file \in Seq(S) /\ Len(file) <= Len(all) /\ Len(file) \in Nat /\ Len(all) \in Nat
        /\ \A i \in 1 .. Len(file) : file[i] = all[i]
    BY <2>1, <2>3, LenProperties DEF FileInv
  <2>5. /\ UNCHANGED <<report, full, damages>>
        /\ IF Len(file) < Len(all)
           THEN file' = Append(file, all[Len(file) + 1]) /\ pc' = pc
           ELSE pc' = "returned" /\ file' = file
    BY <1>3 DEF WriteLine
  <2>6. CASE Len(file) < Len(all)
    <3> HIDE DEF all, S
    <3>1. all[Len(file) + 1] \in S
      <4>1. Len(file) + 1 \in 1 .. Len(all)
        BY <2>4, <2>6
      <4> QED BY <2>3, <4>1, ElementOfSeq
    <3>2. /\ file' \in Seq(S) /\ Len(file') = Len(file) + 1
          /\ \A i \in 1 .. Len(file) : file'[i] = file[i]
          /\ file'[Len(file) + 1] = all[Len(file) + 1]
      BY <2>4, <2>5, <2>6, <3>1, AppendProperties
    <3>3. Len(file') <= Len(all) /\ \A i \in 1 .. Len(file') : file'[i] = all[i]
      BY <2>4, <2>6, <3>2
    <3>4. file' \in Seq(S) /\ pc' = "write"
      BY <2>1, <2>5, <2>6, <3>2
    <3> QED BY <2>2, <2>5, <3>3, <3>4 DEF FileInv, all, S
  <2>7. CASE ~(Len(file) < Len(all))
    <3>0. pc' = "returned" /\ file' = file
      BY <2>5, <2>7
    <3>1. Len(file) = Len(all)
      <4> HIDE DEF all
      <4> QED BY <2>4, <2>7
    <3>2. file = all
      <4> HIDE DEF all, S
      <4> QED BY <2>3, <2>4, <3>1, SeqEqual
    <3> QED BY <2>2, <2>4, <2>5, <3>0, <3>2 DEF FileInv
  <2> QED BY <2>6, <2>7
<1>4. CASE StopWriting
  <2>1. /\ UNCHANGED <<report, full>> /\ damages' = damages + 1 /\ pc = "write" /\ pc' = "returned"
        /\ file' = file \/ file' = Append(file, Torn)
    BY <1>4 DEF StopWriting, Torn
  <2>2. file \in Seq(LineSet(report)) /\ Torn \in LineSet(report) /\ damages \in Nat
    BY <2>1 DEF FileInv, LineSet
  <2>3. file' \in Seq(LineSet(report))
    BY <2>1, <2>2, AppendProperties
  <2>4. damages' \in Nat /\ damages' # 0 /\ full' \in BOOLEAN
    BY <2>1, <2>2 DEF FileInv
  <2> QED BY <2>1, <2>3, <2>4 DEF FileInv
<1>5. CASE Damage
  <2> DEFINE all == Lines(report, full)
             S == LineSet(report)
  <2>1. /\ UNCHANGED <<pc, report, full>> /\ damages' = damages + 1 /\ pc = "returned"
        /\ \/ \E i \in DOMAIN file : file' = RemoveAt(file, i)
           \/ \E i \in DOMAIN file : file' = InsertAt(file, i, file[i])
           \/ \E i, j \in DOMAIN file : file' = [file EXCEPT ![i] = file[j], ![j] = file[i]]
           \/ file' = file \o all
    BY <1>5 DEF Damage
  <2>2. file \in Seq(S) /\ DOMAIN file = 1 .. Len(file) /\ damages \in Nat /\ full \in BOOLEAN
    BY <2>1, LenProperties DEF FileInv
  <2>3. all \in Seq(S)
    BY <2>1, <2>2, LookOK, LinesShape
  <2>4. file' \in Seq(S)
    <3> HIDE DEF all, S
    <3>1. file \o all \in Seq(S)
      BY <2>2, <2>3, ConcatProperties
    <3>2. \A i \in DOMAIN file : RemoveAt(file, i) \in Seq(S) /\ InsertAt(file, i, file[i]) \in Seq(S)
      BY <2>2, DamagedLines
    <3>3. \A i, j \in DOMAIN file : [file EXCEPT ![i] = file[j], ![j] = file[i]] \in Seq(S)
      BY <2>2, DamagedLines
    <3> QED BY <2>1, <3>1, <3>2, <3>3, Zenon
  <2>5. damages' \in Nat /\ damages' # 0 /\ full' \in BOOLEAN
    BY <2>1, <2>2
  <2> QED BY <2>1, <2>4, <2>5 DEF FileInv
<1>6. CASE Finished \/ UNCHANGED vars
  <2>1. UNCHANGED <<pc, report, full, file, damages>>
    BY <1>6 DEF Finished, vars
  <2> QED BY <2>1 DEF FileInv
<1> QED BY <1>1, <1>2, <1>3, <1>4, <1>5, <1>6 DEF Next

\* A file of records is accepted if it is whole, and read as all that was written if
\* it is accepted, for captures, limits and files of every length and any number of
\* damages to the file (print_jsonl, parse_saved_capture_jsonl).
THEOREM AcceptedFilesAreWhole == Spec => []StreamsRoundTrip
<1>1. LookInv /\ FileInv => StreamsRoundTrip
  <2> SUFFICES ASSUME LookInv, FileInv PROVE StreamsRoundTrip
    OBVIOUS
  <2>1. ASSUME pc = "returned", damages = 0 PROVE Accepted(file)
    <3>1. ReportOK(report) /\ full \in BOOLEAN /\ file = Lines(report, full)
      BY <2>1, LookOK DEF FileInv
    <3> QED BY <3>1, LinesAreAccepted
  <2>2. ASSUME report # None, Accepted(file)
        PROVE  LET read == ParseStream(file)
               IN  /\ read.manifest = report.manifest
                   /\ read.packets = report.packets
                   /\ read.quarantines = report.quarantines
                   /\ read.receipt \in {None, report.receipt}
    <3>1. ReportOK(report) /\ file \in Seq(LineSet(report))
      BY <2>2, LookOK DEF FileInv
    <3> QED BY <2>2, <3>1, AcceptedIsWhole
  <2> QED BY <2>1, <2>2 DEF StreamsRoundTrip
<1>2. Init => LookInv /\ FileInv
  BY InitLook, InitFile
<1>3. LookInv /\ FileInv /\ [Next]_vars => (LookInv /\ FileInv)'
  BY NextLook, NextFile
<1> QED BY <1>1, <1>2, <1>3, PTL DEF Spec


----------------------------------------------------------------------------
(* What triage denies.                                                     *)

\* Some element of a finite sequence of numbers is least, and some is greatest.
LEMMA Extremes ==
  ASSUME NEW n \in Nat \ {0}, NEW f, \A i \in 1 .. n : f[i] \in Int
  PROVE  /\ \E i \in 1 .. n : \A j \in 1 .. n : f[i] <= f[j]
         /\ \E i \in 1 .. n : \A j \in 1 .. n : f[i] >= f[j]
<1> DEFINE Has(k) == /\ \E i \in 1 .. k : \A j \in 1 .. k : f[i] <= f[j]
                     /\ \E i \in 1 .. k : \A j \in 1 .. k : f[i] >= f[j]
           Bad == {k \in 1 .. n : ~Has(k)}
<1>1. Bad \subseteq Nat
  OBVIOUS
<1>2. Has(1)
  OBVIOUS
<1>3. ASSUME NEW k \in 1 .. n, k - 1 \in 1 .. n, Has(k - 1) PROVE Has(k)
  <2>0. \A j \in 1 .. k : j \in 1 .. k - 1 \/ j = k
    OBVIOUS
  <2>1. PICK i \in 1 .. k - 1 : \A j \in 1 .. k - 1 : f[i] <= f[j]
    BY <1>3
  <2>2. PICK l \in 1 .. k - 1 : \A j \in 1 .. k - 1 : f[l] >= f[j]
    BY <1>3
  <2>3. f[i] \in Int /\ f[l] \in Int /\ f[k] \in Int /\ \A j \in 1 .. k - 1 : f[j] \in Int
    BY <1>3
  <2>4. \E x \in 1 .. k : \A j \in 1 .. k : f[x] <= f[j]
    <3>1. CASE f[k] <= f[i]
      BY <2>0, <2>1, <2>3, <3>1
    <3>2. CASE ~(f[k] <= f[i])
      BY <2>0, <2>1, <2>3, <3>2
    <3> QED BY <3>1, <3>2
  <2>5. \E x \in 1 .. k : \A j \in 1 .. k : f[x] >= f[j]
    <3>1. CASE f[k] >= f[l]
      BY <2>0, <2>2, <2>3, <3>1
    <3>2. CASE ~(f[k] >= f[l])
      BY <2>0, <2>2, <2>3, <3>2
    <3> QED BY <3>1, <3>2
  <2> QED BY <2>4, <2>5
<1> HIDE DEF Has
<1>4. ASSUME Bad # {} PROVE FALSE
  <2>1. PICK k \in Bad : \A m \in Bad : k <= m
    <3> HIDE DEF Bad
    <3> QED BY <1>1, <1>4, LeastNatural, Zenon
  <2>2. k \in 1 .. n /\ k - 1 \in 1 .. n /\ k - 1 \notin Bad
    BY <1>2, <2>1
  <2> QED BY <1>3, <2>1, <2>2
<1>5. Has(n)
  BY <1>4
<1> QED BY <1>5 DEF Has

LEMMA EarliestLatest ==
  ASSUME NEW s \in Seq(Row), s # <<>>
  PROVE  /\ Earliest(s) \in Int /\ Latest(s) \in Int
         /\ \A i \in DOMAIN s : Earliest(s) <= s[i].time /\ s[i].time <= Latest(s)
<1> DEFINE n == Len(s)
           f == [i \in 1 .. n |-> s[i].time]
           T == {s[i].time : i \in DOMAIN s}
<1>1. n \in Nat \ {0} /\ DOMAIN s = 1 .. n
  BY EmptySeq
<1>2. \A i \in 1 .. n : s[i].time \in Int
  <2>1. \A r \in Row : r.time \in Int
    BY DEF Row
  <2> QED BY <2>1, ElementOfSeq
<1>3. \A i \in 1 .. n : f[i] = s[i].time /\ f[i] \in Int
  BY <1>2
<1>4. /\ \E i \in 1 .. n : \A j \in 1 .. n : f[i] <= f[j]
      /\ \E i \in 1 .. n : \A j \in 1 .. n : f[i] >= f[j]
  <2> HIDE DEF f, n
  <2> QED BY <1>1, <1>3, Extremes
<1>5. \E t \in T : \A i \in DOMAIN s : t <= s[i].time
  <2>1. PICK i \in 1 .. n : \A j \in 1 .. n : f[i] <= f[j]
    BY <1>4
  <2>2. s[i].time \in T /\ \A j \in DOMAIN s : s[i].time <= s[j].time
    BY <1>1, <1>3, <2>1
  <2> QED BY <2>2
<1>6. \E t \in T : \A i \in DOMAIN s : t >= s[i].time
  <2>1. PICK i \in 1 .. n : \A j \in 1 .. n : f[i] >= f[j]
    BY <1>4
  <2>2. s[i].time \in T /\ \A j \in DOMAIN s : s[i].time >= s[j].time
    BY <1>1, <1>3, <2>1
  <2> QED BY <2>2
<1>7. Earliest(s) \in T /\ \A i \in DOMAIN s : Earliest(s) <= s[i].time
  BY <1>5 DEF Earliest
<1>8. Latest(s) \in T /\ \A i \in DOMAIN s : Latest(s) >= s[i].time
  BY <1>6 DEF Latest
<1>9. T \subseteq Int
  BY <1>1, <1>2
<1>10. \A i \in DOMAIN s : s[i].time \in Int
  BY <1>1, <1>2
<1> HIDE DEF T
<1> QED BY <1>7, <1>8, <1>9, <1>10


LEMMA EmptyIsRefused == ~Accepted(<<>>)
<1>1. <<>> \in Seq({}) /\ Len(<<>>) = 0
  BY EmptySeq
<1>2. FoldLeft(ReadLine, ReadStart, <<>>) = ReadStart
  BY <1>1, ReadRun
<1>3. "MissingManifest" # None
  BY NoneAssumption
<1>4. ReadStart.error = None /\ ReadStart.manifest = None
  BY DEF ReadStart
<1>5. CheckStream(ReadStart) = "MissingManifest"
  BY <1>4 DEF CheckStream
<1>6. ParseStream(<<>>) = ReadFailed("MissingManifest")
  BY <1>2, <1>3, <1>4, <1>5 DEF ParseStream
<1> QED BY <1>3, <1>6 DEF Accepted, ReadFailed

\* An accepted stream that is complete holds every row of the capture.
LEMMA CompleteIsWhole ==
  ASSUME LookInv, FileInv, Accepted(file), NEW read, read = ParseStream(file)
  PROVE  /\ artifact \in Seq(Row) /\ read.manifest.capture = artifact
         /\ Complete(read) => /\ read.packets = artifact
                              /\ \A i \in DOMAIN artifact : artifact[i].shape # "broken"
         /\ read.receipt = None \/ read.receipt.extent = EventWindow(artifact)
<1>1. pc \in {"write", "returned"}
  BY EmptyIsRefused DEF FileInv
<1>2. ReportOK(report) /\ file \in Seq(LineSet(report))
  BY <1>1, LookOK DEF FileInv
<1>3. /\ read.manifest = report.manifest /\ read.packets = report.packets
      /\ read.receipt \in {None, report.receipt}
  BY <1>2, AcceptedIsWhole
<1> DEFINE n == Len(artifact)
           parsed == ParseRows(RowsOf(artifact))
<1>4. /\ report = Report(artifact, RowsOf(artifact), InfoOf(artifact), limit)
      /\ artifact \in Seq(Row) /\ limit \in Nat \ {0}
  BY <1>1 DEF LookInv, Remains
<1>5. /\ report.manifest = Manifest(artifact, parsed, n, limit)
      /\ report.packets = parsed.packets /\ report.receipt.extent = EventWindow(artifact)
  BY <1>4 DEF Report, InfoOf
<1>6. /\ report.manifest.capture = artifact
      /\ report.manifest.state = IF n > limit \/ parsed.quarantines # <<>>
                                 THEN "partial" ELSE "complete"
  BY <1>5 DEF Manifest
<1>7. ASSUME Complete(read)
      PROVE  read.packets = artifact /\ \A i \in DOMAIN artifact : artifact[i].shape # "broken"
  <2>1. ~(n > limit) /\ parsed.quarantines = <<>>
    BY <1>3, <1>6, <1>7 DEF Complete
  <2>2. n \in Nat /\ DOMAIN artifact = 1 .. n
    BY <1>4, LenProperties
  <2>3. Minimum(limit, n) = n
    BY <1>4, <2>1, <2>2 DEF Minimum
  <2>4. RowsOf(artifact) = artifact
    BY <1>4, <2>3, SubSeqFull DEF RowsOf
  <2>5. ParseRows(artifact).quarantines = <<>>
    BY <2>1, <2>4
  <2>6. /\ ParseRows(artifact).packets = artifact
        /\ \A i \in 1 .. n : artifact[i].shape # "broken"
    BY <1>4, <2>5, ParsedWhole
  <2> QED BY <1>3, <1>5, <2>2, <2>4, <2>6
<1> QED BY <1>3, <1>4, <1>5, <1>6, <1>7

LEMMA NoConversation ==
  ASSUME NEW P, DOMAIN Conversations(P) = {}
  PROVE  \A p \in P : ~Candidate(p)
  BY DEF Conversations

LEMMA NoAbstention ==
  ASSUME NEW stream, NEW d, AbstentionReasons(stream, d) = {}
  PROVE  /\ stream.packets # <<>> /\ Complete(stream) /\ stream.receipt # None
         /\ ReceiptExtent(stream) # None
         /\ ~(ReceiptExtent(stream).earliest > Anchor(stream) - d)
<1>1. stream.packets # <<>>
  BY DEF AbstentionReasons
<1>2. Complete(stream)
  BY DEF AbstentionReasons
<1>3. stream.receipt # None
  BY DEF AbstentionReasons
<1>4. ReceiptExtent(stream) # None
  BY <1>3 DEF AbstentionReasons
<1>5. ~(ReceiptExtent(stream).earliest > Anchor(stream) - d)
  BY <1>4 DEF AbstentionReasons
<1> QED BY <1>1, <1>2, <1>3, <1>4, <1>5

----------------------------------------------------------------------------
(* Sorting.                                                                *)

LEMMA OneToOne ==
  ASSUME NEW S, IsFiniteSet(S), NEW T, NEW f \in [S -> T],
         \A x, y \in S : f[x] = f[y] => x = y,
         \A t \in T : \E x \in S : f[x] = t
  PROVE  IsFiniteSet(T) /\ Cardinality(T) = Cardinality(S)
<1>1. f \in Bijection(S, T)
  BY DEF Bijection, Injection, Surjection, IsInjective
<1>2. ExistsBijection(S, T)
  BY <1>1 DEF ExistsBijection
<1> QED BY <1>2, FS_Bijection

\* In a strict total order an element is where the number before it says.
LEMMA Ranks ==
  ASSUME NEW P, IsFiniteSet(P), NEW B,
         \A i \in P : B[i] \subseteq P /\ i \notin B[i],
         \A i, j \in P : j \in B[i] => B[j] \subseteq B[i],
         \A i, j \in P : i # j => i \in B[j] \/ j \in B[i]
  PROVE  /\ Cardinality(P) \in Nat
         /\ \A i \in P : Cardinality(B[i]) \in 0 .. Cardinality(P) - 1
         /\ \A i, j \in P : j \in B[i] <=> Cardinality(B[j]) < Cardinality(B[i])
         /\ \A i, j \in P : Cardinality(B[i]) = Cardinality(B[j]) => i = j
         /\ \A k \in 1 .. Cardinality(P) : \E i \in P : Cardinality(B[i]) = k - 1
<1> DEFINE n == Cardinality(P)
<1>1. n \in Nat
  BY FS_CardinalityType
<1>2. ASSUME NEW i \in P
      PROVE  IsFiniteSet(B[i]) /\ Cardinality(B[i]) \in 0 .. n - 1
  <2>1. IsFiniteSet(B[i]) /\ Cardinality(B[i]) <= n /\ Cardinality(B[i]) # n
    BY FS_Subset
  <2>2. Cardinality(B[i]) \in Nat
    BY <2>1, FS_CardinalityType
  <2> QED BY <1>1, <2>1, <2>2
<1>3. ASSUME NEW i \in P, NEW j \in P, j \in B[i]
      PROVE  Cardinality(B[j]) < Cardinality(B[i])
  <2>1. B[j] \subseteq B[i] /\ B[j] # B[i]
    BY <1>3
  <2>2. Cardinality(B[j]) <= Cardinality(B[i]) /\ Cardinality(B[i]) # Cardinality(B[j])
    BY <1>2, <2>1, FS_Subset
  <2>3. Cardinality(B[j]) \in Int /\ Cardinality(B[i]) \in Int
    BY <1>2
  <2> QED BY <2>2, <2>3
<1>4. \A i, j \in P : Cardinality(B[i]) = Cardinality(B[j]) => i = j
  <2> SUFFICES ASSUME NEW i \in P, NEW j \in P, Cardinality(B[i]) = Cardinality(B[j]), i # j
               PROVE  FALSE
    OBVIOUS
  <2>1. Cardinality(B[i]) \in Int
    BY <1>2
  <2> QED BY <1>3, <2>1
<1>5. \A i, j \in P : j \in B[i] <=> Cardinality(B[j]) < Cardinality(B[i])
  <2> SUFFICES ASSUME NEW i \in P, NEW j \in P, Cardinality(B[j]) < Cardinality(B[i]),
                      j \notin B[i]
               PROVE  FALSE
    BY <1>3
  <2>1. Cardinality(B[i]) \in Int /\ Cardinality(B[j]) \in Int
    BY <1>2
  <2>2. i # j
    BY <2>1
  <2>3. Cardinality(B[i]) < Cardinality(B[j])
    BY <1>3, <2>2
  <2> QED BY <2>1, <2>3
<1>6. \A k \in 1 .. n : \E i \in P : Cardinality(B[i]) = k - 1
  <2> DEFINE f == [i \in P |-> Cardinality(B[i])]
  <2>1. f \in Injection(P, 0 .. n - 1)
    <3>1. f \in [P -> 0 .. n - 1]
      BY <1>2
    <3>2. \A i, j \in P : f[i] = f[j] => i = j
      BY <1>4
    <3> HIDE DEF f
    <3> QED BY <3>1, <3>2 DEF Injection, IsInjective
  <2>2. IsFiniteSet(0 .. n - 1) /\ Cardinality(0 .. n - 1) = IF 0 > n - 1 THEN 0 ELSE n - 1 - 0 + 1
    BY <1>1, FS_Interval
  <2>3. Cardinality(0 .. n - 1) = n
    BY <1>1, <2>2
  <2> HIDE DEF f
  <2>4. f \in Surjection(P, 0 .. n - 1)
    BY <2>1, <2>2, <2>3, FS_Injection
  <2>5. \A k \in 0 .. n - 1 : \E i \in P : f[i] = k
    BY <2>4 DEF Surjection
  <2>6. \A k \in 1 .. n : k - 1 \in 0 .. n - 1
    BY <1>1
  <2> QED BY <2>5, <2>6 DEF f
<1> QED BY <1>1, <1>2, <1>4, <1>5, <1>6

\* Rows that differ have frame numbers that differ.
Framed(A) == \A p, q \in A : p # q => p.frame # q.frame

Earlier(A, p) == {q \in A : Before(q, p)}

\* Rows in their order.
Ranked(A) == [k \in 1 .. Cardinality(A) |-> CHOOSE p \in A : Cardinality(Earlier(A, p)) = k - 1]

LEMMA BeforeIsAnOrder ==
  ASSUME NEW p \in Row, NEW q \in Row
  PROVE  /\ ~Before(p, p)
         /\ \A r \in Row : Before(p, q) /\ Before(q, r) => Before(p, r)
         /\ p.frame # q.frame => Before(p, q) \/ Before(q, p)
         /\ Before(p, q) => p.time <= q.time
<1>1. \A r \in Row : r.time \in Int /\ r.frame \in Int
  BY DEF Row
<1> QED BY <1>1 DEF Before

LEMMA RankedIs ==
  ASSUME NEW A, A \subseteq Row, IsFiniteSet(A), Framed(A), NEW s, s = Ranked(A)
  PROVE  /\ Cardinality(A) \in Nat /\ s \in Seq(A) /\ Len(s) = Cardinality(A)
         /\ \A k \in 1 .. Len(s) : s[k] \in A /\ Cardinality(Earlier(A, s[k])) = k - 1
         /\ \A p \in A : \E k \in 1 .. Len(s) : s[k] = p
         /\ \A k, l \in 1 .. Len(s) : k < l => Before(s[k], s[l]) /\ s[k].time <= s[l].time
         /\ \A k, l \in 1 .. Len(s) : s[k] = s[l] => k = l
<1> DEFINE m == Cardinality(A)
           B == [p \in A |-> Earlier(A, p)]
<1>1. /\ \A p \in A : B[p] \subseteq A /\ p \notin B[p]
      /\ \A p, q \in A : q \in B[p] => B[q] \subseteq B[p]
      /\ \A p, q \in A : p # q => p \in B[q] \/ q \in B[p]
  BY BeforeIsAnOrder DEF Earlier, Framed
<1>2. \A p \in A : B[p] = Earlier(A, p)
  OBVIOUS
<1> HIDE DEF B
<1>3. /\ m \in Nat
      /\ \A p \in A : Cardinality(B[p]) \in 0 .. m - 1
      /\ \A p, q \in A : q \in B[p] <=> Cardinality(B[q]) < Cardinality(B[p])
      /\ \A p, q \in A : Cardinality(B[p]) = Cardinality(B[q]) => p = q
      /\ \A k \in 1 .. m : \E p \in A : Cardinality(B[p]) = k - 1
  BY <1>1, Ranks
<1>4. s = [k \in 1 .. m |-> CHOOSE p \in A : Cardinality(Earlier(A, p)) = k - 1]
  BY DEF Ranked
<1>5. ASSUME NEW k \in 1 .. m
      PROVE  s[k] \in A /\ Cardinality(Earlier(A, s[k])) = k - 1
  <2>1. \E p \in A : Cardinality(Earlier(A, p)) = k - 1
    BY <1>2, <1>3
  <2>2. s[k] = CHOOSE p \in A : Cardinality(Earlier(A, p)) = k - 1
    BY <1>4
  <2> QED BY <2>1, <2>2
<1>6. s \in Seq(A) /\ Len(s) = m
  <2>1. s = [k \in 1 .. m |-> s[k]]
    BY <1>4
  <2>2. s \in [1 .. m -> A]
    BY <1>5, <2>1
  <2> QED BY <1>3, <2>2
<1>7. ASSUME NEW p \in A PROVE \E k \in 1 .. m : s[k] = p
  <2> DEFINE k == Cardinality(Earlier(A, p)) + 1
  <2>1. k \in 1 .. m /\ k - 1 = Cardinality(Earlier(A, p))
    BY <1>2, <1>3
  <2>2. s[k] \in A /\ Cardinality(Earlier(A, s[k])) = k - 1
    BY <1>5, <2>1
  <2>3. s[k] = p
    BY <1>2, <1>3, <2>1, <2>2
  <2> QED BY <2>1, <2>3
<1>8. ASSUME NEW k \in 1 .. m, NEW l \in 1 .. m, k < l
      PROVE  Before(s[k], s[l]) /\ s[k].time <= s[l].time
  <2>1. /\ s[k] \in A /\ Cardinality(B[s[k]]) = k - 1
        /\ s[l] \in A /\ Cardinality(B[s[l]]) = l - 1
    BY <1>2, <1>5
  <2>2. s[k] \in B[s[l]]
    BY <1>3, <1>8, <2>1
  <2>3. Before(s[k], s[l])
    BY <1>2, <2>1, <2>2 DEF Earlier
  <2> QED BY <2>1, <2>3, BeforeIsAnOrder
<1>9. ASSUME NEW k \in 1 .. m, NEW l \in 1 .. m, s[k] = s[l] PROVE k = l
  BY <1>5, <1>9
<1> QED BY <1>3, <1>5, <1>6, <1>7, <1>8, <1>9

\* What is sorted is a set of rows: the places it comes from do not matter.
LEMMA SortedIsRanked ==
  ASSUME NEW packets, NEW P, IsFiniteSet(P), \A i \in P : packets[i] \in Row,
         \A i, j \in P : i # j => packets[i].frame # packets[j].frame
  PROVE  LET A == {packets[i] : i \in P}
         IN  /\ A \subseteq Row /\ IsFiniteSet(A) /\ Framed(A) /\ Cardinality(A) = Cardinality(P)
             /\ Sorted(packets, P) = Ranked(A)
<1> DEFINE A == {packets[i] : i \in P}
           earlier(i) == {j \in P : Before(packets[j], packets[i])}
<1>0. \A i, j \in P : packets[i] = packets[j] => i = j
  OBVIOUS
<1>1. A \subseteq Row /\ Framed(A)
  BY DEF Framed
<1>2. IsFiniteSet(A) /\ Cardinality(A) = Cardinality(P)
  <2> DEFINE f == [i \in P |-> packets[i]]
  <2>1. /\ f \in [P -> A] /\ \A x, y \in P : f[x] = f[y] => x = y
        /\ \A t \in A : \E x \in P : f[x] = t
    BY <1>0
  <2> HIDE DEF f, A
  <2> QED BY <2>1, OneToOne
<1>3. ASSUME NEW i \in P PROVE Cardinality(earlier(i)) = Cardinality(Earlier(A, packets[i]))
  <2> DEFINE S == earlier(i)
             T == Earlier(A, packets[i])
             f == [j \in S |-> packets[j]]
  <2>1. IsFiniteSet(S)
    <3>1. S \in SUBSET P
      OBVIOUS
    <3> HIDE DEF S
    <3> QED BY <3>1, FS_Subset
  <2>2. /\ f \in [S -> T] /\ \A x, y \in S : f[x] = f[y] => x = y
        /\ \A t \in T : \E x \in S : f[x] = t
    BY <1>0 DEF Earlier
  <2> HIDE DEF f, S, T
  <2>3. Cardinality(T) = Cardinality(S)
    BY <2>1, <2>2, OneToOne
  <2> QED BY <2>3 DEF S, T
<1>4. ASSUME NEW k \in 1 .. Cardinality(P)
      PROVE  packets[CHOOSE i \in P : Cardinality(earlier(i)) = k - 1]
               = CHOOSE p \in A : Cardinality(Earlier(A, p)) = k - 1
  <2> DEFINE s == Ranked(A)
  <2>1. /\ Len(s) = Cardinality(A)
        /\ \A l \in 1 .. Len(s) : s[l] \in A /\ Cardinality(Earlier(A, s[l])) = l - 1
        /\ \A p \in A : \E l \in 1 .. Len(s) : s[l] = p
    <3> HIDE DEF A
    <3> QED BY <1>1, <1>2, RankedIs
  <2>2. k \in 1 .. Len(s)
    BY <1>2, <2>1
  <2>3. \A p \in A : Cardinality(Earlier(A, p)) = k - 1 => p = s[k]
    <3> HIDE DEF A, s
    <3> TAKE p \in A
    <3> HAVE Cardinality(Earlier(A, p)) = k - 1
    <3>1. PICK l \in 1 .. Len(s) : s[l] = p
      BY <2>1
    <3>2. l - 1 = k - 1 /\ l \in Int /\ k \in Int
      BY <2>1, <2>2, <3>1
    <3> QED BY <3>1, <3>2
  <2>4. PICK i \in P : packets[i] = s[k]
    BY <2>1, <2>2
  <2>5. Cardinality(earlier(i)) = k - 1
    BY <1>3, <2>1, <2>2, <2>4
  <2> DEFINE c == CHOOSE j \in P : Cardinality(earlier(j)) = k - 1
             d == CHOOSE p \in A : Cardinality(Earlier(A, p)) = k - 1
  <2>6. c \in P /\ Cardinality(earlier(c)) = k - 1
    BY <2>5
  <2>7. packets[c] \in A /\ Cardinality(Earlier(A, packets[c])) = k - 1
    BY <1>3, <2>6
  <2>8. d \in A /\ Cardinality(Earlier(A, d)) = k - 1
    BY <2>7
  <2> QED BY <2>3, <2>7, <2>8
<1>5. Sorted(packets, P) = Ranked(A)
  BY <1>2, <1>4 DEF Sorted, Ranked
<1> QED BY <1>1, <1>2, <1>5

----------------------------------------------------------------------------
(* Cutting a sorted partition.                                             *)

Cut(s, i) == GapExceeds(s[i].time, s[i + 1].time)

EndsOf(s) == {i \in 1 .. Len(s) : i = Len(s) \/ Cut(s, i)}

FromOf(s, e) ==
  LET before == {i \in EndsOf(s) : i < e}
  IN  IF before = {} THEN 1 ELSE 1 + CHOOSE i \in before : \A j \in before : j <= i

Unbroken(s, k, l) == \A i \in k .. l - 1 : ~Cut(s, i)

InOrder(s) == /\ Len(s) \in Nat
              /\ \A k \in 1 .. Len(s) : s[k].time \in Int
              /\ \A k, l \in 1 .. Len(s) : k < l => s[k].time <= s[l].time

LEMMA Greatest ==
  ASSUME NEW n \in Nat, NEW T, T \subseteq 1 .. n, T # {}
  PROVE  \E i \in T : \A j \in T : j <= i
<1> DEFINE U == {n - i : i \in T}
<1>1. U \subseteq Nat /\ U # {}
  <2>1. ASSUME NEW i \in T PROVE n - i \in Nat
    <3>1. i \in 1 .. n
      OBVIOUS
    <3> QED BY <3>1
  <2>2. PICK i : i \in T
    OBVIOUS
  <2>3. n - i \in U
    BY <2>2
  <2> QED BY <2>1, <2>3
<1> HIDE DEF U
<1>2. PICK u \in U : \A v \in U : u <= v
  BY <1>1, LeastNatural
<1>3. PICK i \in T : u = n - i
  BY DEF U
<1>4. ASSUME NEW j \in T PROVE j <= i
  <2>1. n - j \in U
    BY DEF U
  <2>2. u <= n - j /\ j \in Int /\ i \in Int
    BY <1>2, <2>1
  <2> QED BY <1>3, <2>2
<1> QED BY <1>4

LEMMA Segment ==
  ASSUME NEW s, Len(s) \in Nat, NEW e \in EndsOf(s)
  PROVE  /\ FromOf(s, e) \in 1 .. e
         /\ \A i \in EndsOf(s) : i < e => i < FromOf(s, e)
         /\ FromOf(s, e) = 1 \/ FromOf(s, e) - 1 \in EndsOf(s)
<1> DEFINE before == {i \in EndsOf(s) : i < e}
<1>1. EndsOf(s) \subseteq 1 .. Len(s)
  BY DEF EndsOf
<1>2. CASE before = {}
  BY <1>1, <1>2 DEF FromOf
<1>3. CASE before # {}
  <2> DEFINE c == CHOOSE i \in before : \A j \in before : j <= i
  <2>1. before \subseteq 1 .. Len(s)
    BY <1>1
  <2>2. FromOf(s, e) = 1 + c
    BY <1>3 DEF FromOf
  <2>3. c \in before /\ \A j \in before : j <= c
    <3> HIDE DEF before
    <3>1. \E i \in before : \A j \in before : j <= i
      BY <1>3, <2>1, Greatest
    <3> QED BY <3>1
  <2> HIDE DEF c
  <2>4. c \in Int /\ c >= 1 /\ c < e /\ e \in Int /\ c \in EndsOf(s)
    BY <1>1, <2>3
  <2>5. \A i \in EndsOf(s) : i < e => i < 1 + c
    BY <1>1, <2>3, <2>4
  <2> QED BY <2>2, <2>4, <2>5
<1> QED BY <1>2, <1>3

\* Every place is in a segment.
LEMMA InSegment ==
  ASSUME NEW s, Len(s) \in Nat, NEW k \in 1 .. Len(s)
  PROVE  \E e \in EndsOf(s) : k \in FromOf(s, e) .. e
<1> DEFINE later == {e \in EndsOf(s) : k <= e}
<1>1. later \subseteq Nat /\ Len(s) \in later
  BY DEF EndsOf
<1>2. PICK e \in later : \A f \in later : e <= f
  <2> HIDE DEF later
  <2> QED BY <1>1, LeastNatural
<1>3. /\ FromOf(s, e) \in 1 .. e
      /\ FromOf(s, e) = 1 \/ FromOf(s, e) - 1 \in EndsOf(s)
  BY Segment
<1>4. e \in EndsOf(s) /\ e \in Int /\ k <= e
  BY <1>1
<1>5. ASSUME FromOf(s, e) > k PROVE FALSE
  <2>1. FromOf(s, e) - 1 \in EndsOf(s) /\ k <= FromOf(s, e) - 1
    BY <1>3, <1>4, <1>5
  <2>2. e <= FromOf(s, e) - 1
    BY <1>2, <2>1
  <2> QED BY <1>3, <1>4, <2>2
<1> QED BY <1>3, <1>4, <1>5

\* Two places are in one segment when nothing is cut between them.
LEMMA OneSegment ==
  ASSUME NEW s, Len(s) \in Nat, NEW d \in EndsOf(s), NEW e \in EndsOf(s),
         NEW k \in FromOf(s, d) .. d, NEW l \in FromOf(s, e) .. e, k <= l
  PROVE  Unbroken(s, k, l) <=> d = e
<1>1. /\ FromOf(s, d) \in 1 .. d /\ \A i \in EndsOf(s) : i < d => i < FromOf(s, d)
      /\ FromOf(s, e) \in 1 .. e /\ \A i \in EndsOf(s) : i < e => i < FromOf(s, e)
  BY Segment
<1>2. d \in 1 .. Len(s) /\ e \in 1 .. Len(s)
  BY DEF EndsOf
<1>3. ASSUME d = e, NEW i \in k .. l - 1 PROVE ~Cut(s, i)
  <2>1. i \in 1 .. Len(s) /\ i < e /\ ~(i < FromOf(s, e))
    BY <1>1, <1>2, <1>3
  <2>2. i \notin EndsOf(s)
    BY <1>1, <2>1
  <2> QED BY <2>1, <2>2 DEF EndsOf
<1>4. ASSUME Unbroken(s, k, l), d # e PROVE FALSE
  <2>1. CASE d < l
    <3>1. d \in k .. l - 1 /\ d # Len(s)
      BY <1>1, <1>2, <2>1
    <3>2. Cut(s, d)
      BY <3>1 DEF EndsOf
    <3> QED BY <1>4, <3>1, <3>2 DEF Unbroken
  <2>2. CASE l <= d
    <3>1. CASE d < e
      <4>1. d < FromOf(s, e)
        BY <1>1, <3>1
      <4> QED BY <1>1, <1>2, <2>2, <4>1
    <3>2. CASE e < d
      <4>1. e < FromOf(s, d)
        BY <1>1, <3>2
      <4> QED BY <1>1, <1>2, <2>2, <4>1
    <3> QED BY <1>2, <1>4, <3>1, <3>2
  <2> QED BY <1>1, <1>2, <2>1, <2>2
<1> QED BY <1>3, <1>4 DEF Unbroken

LEMMA GapIs ==
  ASSUME NEW a \in Int, NEW b \in Int, a <= b
  PROVE  /\ GapExceeds(a, b) => a < b
         /\ ~GapExceeds(a, b) <=> Inactivity = None \/ b - a <= Inactivity \/ b - a > I64Max
<1>1. b - a \in Int /\ I64Max \in Int /\ 0 <= b - a
  BY I64MaxAssumption
<1>2. CASE Inactivity = None
  BY <1>2 DEF GapExceeds
<1>3. CASE Inactivity # None
  <2>1. Inactivity \in Nat
    BY <1>3, InactivityAssumption
  <2> QED BY <1>1, <1>3, <2>1 DEF GapExceeds
<1> QED BY <1>2, <1>3

\* Between a moment and a later one there is a last place of the earlier.
LEMMA LastOfTime ==
  ASSUME NEW s, InOrder(s), NEW k \in 1 .. Len(s), NEW l \in 1 .. Len(s),
         s[k].time < s[l].time
  PROVE  \E i \in k .. l - 1 : s[i].time = s[k].time /\ s[k].time < s[i + 1].time
<1> DEFINE later == {j \in k .. l : s[k].time < s[j].time}
<1>1. Len(s) \in Nat /\ s[k].time \in Int /\ s[l].time \in Int
  BY DEF InOrder
<1>2. k < l
  BY <1>1 DEF InOrder
<1>3. later \subseteq Nat /\ l \in later
  BY <1>1, <1>2
<1>4. PICK j \in later : \A i \in later : j <= i
  <2> HIDE DEF later
  <2> QED BY <1>3, LeastNatural
<1>5. j \in k .. l /\ s[k].time < s[j].time /\ j # k
  BY <1>1
<1>6. j - 1 \in k .. l - 1 /\ j - 1 \notin later /\ j - 1 \in 1 .. Len(s) /\ j - 1 + 1 = j
  BY <1>1, <1>4, <1>5
<1>7. ~(s[k].time < s[j - 1].time) /\ s[j - 1].time \in Int
  BY <1>2, <1>6 DEF InOrder
<1>8. s[k].time <= s[j - 1].time
  BY <1>1, <1>6 DEF InOrder
<1> QED BY <1>1, <1>5, <1>6, <1>7, <1>8

\* What SameSession says of two packets of one partition.
Linked(A, lo, hi) ==
  LET times == {r.time : r \in {r \in A : r.time \in lo .. hi}}
  IN  \A t \in times \ {hi} :
        LET next == CHOOSE u \in times : u > t /\ \A v \in times : v > t => u <= v
        IN  Inactivity = None \/ next - t <= Inactivity \/ next - t > I64Max

LEMMA LinkedIs ==
  ASSUME NEW A, NEW s, InOrder(s), A = {s[i] : i \in 1 .. Len(s)},
         NEW k \in 1 .. Len(s), NEW l \in 1 .. Len(s), k <= l
  PROVE  Linked(A, s[k].time, s[l].time) <=> Unbroken(s, k, l)
<1> DEFINE lo == s[k].time
           hi == s[l].time
           times == {r.time : r \in {r \in A : r.time \in lo .. hi}}
           next(t) == CHOOSE u \in times : u > t /\ \A v \in times : v > t => u <= v
<1>1. /\ Len(s) \in Nat /\ lo \in Int /\ hi \in Int
      /\ \A i \in 1 .. Len(s) : s[i].time \in Int
      /\ \A i, j \in 1 .. Len(s) : i <= j => s[i].time <= s[j].time
  BY DEF InOrder
<1>2. times \subseteq Int /\ \A i \in 1 .. Len(s) : s[i].time \in lo .. hi => s[i].time \in times
  BY <1>1
<1>3. \A t \in times : t \in lo .. hi /\ \E i \in 1 .. Len(s) : s[i].time = t
  OBVIOUS
\* Where the time changes, the next time is the next place's.
<1>4. ASSUME NEW i \in k .. l - 1, s[i].time < s[i + 1].time
      PROVE  /\ s[i].time \in times \ {hi}
             /\ next(s[i].time) = s[i + 1].time
  <2>1. i \in 1 .. Len(s) /\ i + 1 \in 1 .. Len(s)
    BY <1>1
  <2>2. s[i].time \in lo .. hi /\ s[i + 1].time \in lo .. hi /\ s[i].time # hi
    BY <1>1, <1>4, <2>1
  <2>3. s[i].time \in times /\ s[i + 1].time \in times
    BY <1>2, <2>1, <2>2
  <2>4. ASSUME NEW v \in times, v > s[i].time PROVE s[i + 1].time <= v
    <3>1. PICK j \in 1 .. Len(s) : s[j].time = v
      BY <1>3
    <3>2. i + 1 <= j
      BY <1>1, <2>1, <2>4, <3>1
    <3> QED BY <1>1, <2>1, <3>1, <3>2
  <2>5. \A u \in times : u > s[i].time /\ (\A v \in times : v > s[i].time => u <= v)
                           => u = s[i + 1].time
    <3> HIDE DEF times
    <3>1. s[i + 1].time > s[i].time /\ s[i + 1].time \in Int
      BY <1>1, <1>4, <2>1
    <3> QED BY <1>2, <2>3, <2>4, <3>1
  <2>6. s[i + 1].time > s[i].time
    BY <1>1, <1>4, <2>1
  <2> HIDE DEF times
  <2> QED BY <2>2, <2>3, <2>4, <2>5, <2>6
<1> HIDE DEF times, next
<1>5. ASSUME Unbroken(s, k, l), NEW t \in times \ {hi}
      PROVE  Inactivity = None \/ next(t) - t <= Inactivity \/ next(t) - t > I64Max
  <2>1. PICK j \in 1 .. Len(s) : s[j].time = t
    BY <1>3
  <2>2. t \in Int /\ lo <= t /\ t < hi
    BY <1>1, <1>3
  <2>3. PICK a \in 1 .. Len(s) : s[a].time = t /\ a >= k
    <3>1. CASE j >= k
      BY <2>1, <3>1
    <3>2. CASE j < k
      <4>1. s[k].time = t
        BY <1>1, <2>1, <2>2, <3>2
      <4> QED BY <1>1, <4>1
    <3> QED BY <3>1, <3>2
  <2>4. PICK i \in a .. l - 1 : s[i].time = s[a].time /\ s[a].time < s[i + 1].time
    BY <2>2, <2>3, LastOfTime
  <2>5. i \in k .. l - 1
    BY <2>3, <2>4
  <2>6. next(t) = s[i + 1].time
    BY <1>4, <2>3, <2>4, <2>5
  <2>7. ~GapExceeds(s[i].time, s[i + 1].time)
    BY <1>5, <2>5 DEF Unbroken, Cut
  <2>8. s[i].time \in Int /\ s[i + 1].time \in Int /\ s[i].time <= s[i + 1].time
    BY <1>1, <2>5
  <2> QED BY <2>3, <2>4, <2>6, <2>7, <2>8, GapIs
<1>6. ASSUME NEW i \in k .. l - 1, Cut(s, i)
      PROVE  \E t \in times \ {hi} :
               ~(Inactivity = None \/ next(t) - t <= Inactivity \/ next(t) - t > I64Max)
  <2>1. s[i].time \in Int /\ s[i + 1].time \in Int /\ s[i].time <= s[i + 1].time
    BY <1>1
  <2>2. /\ s[i].time < s[i + 1].time
        /\ ~(Inactivity = None \/ s[i + 1].time - s[i].time <= Inactivity
             \/ s[i + 1].time - s[i].time > I64Max)
    BY <1>6, <2>1, GapIs DEF Cut
  <2>3. s[i].time \in times \ {hi} /\ next(s[i].time) = s[i + 1].time
    BY <1>4, <2>2
  <2> QED BY <2>2, <2>3
<1> QED BY <1>5, <1>6 DEF Linked, Unbroken, times, next

----------------------------------------------------------------------------
(* Flows of a set of rows.                                                 *)

Distinct(packets) == \A i, j \in DOMAIN packets : i # j => packets[i].frame # packets[j].frame

EligibleOf(packets) == {packets[i] : i \in {j \in DOMAIN packets : Eligible(packets[j])}}

Peers(E, key) == {p \in E : PartitionKey(p) = key}

\* The flow that ends at a place of a sorted partition.
FlowAt(key, s, e, partial, quarantined) ==
  ProjectSegment(key, SubSeq(s, FromOf(s, e), e), e < Len(s), partial, quarantined)

FlowsOfSet(E, partial, quarantined) ==
  UNION {{FlowAt(key, Ranked(Peers(E, key)), e, partial, quarantined) :
             e \in EndsOf(Ranked(Peers(E, key)))} : key \in {PartitionKey(p) : p \in E}}

LEMMA FlowsOfRanked ==
  ASSUME NEW key, NEW s, NEW partial, NEW quarantined
  PROVE  FlowsOfPartition(key, s, partial, quarantined)
           = {FlowAt(key, s, e, partial, quarantined) : e \in EndsOf(s)}
  BY DEF FlowsOfPartition, FlowAt, EndsOf, FromOf, Cut

\* The flows of a stream are those of the set of its rows.
LEMMA FlowsAreOfSet ==
  ASSUME NEW packets \in Seq(Row), Distinct(packets), NEW partial, NEW quarantined
  PROVE  LET E == EligibleOf(packets)
         IN  /\ E \subseteq Row /\ IsFiniteSet(E) /\ Framed(E)
             /\ ProjectFlows(packets, partial, quarantined)
                  = [seen |-> Len(packets), grouped |-> Cardinality(E),
                     flows |-> FlowsOfSet(E, partial, quarantined)]
<1> DEFINE eligible == {i \in DOMAIN packets : Eligible(packets[i])}
           partition(key) == {i \in eligible : PartitionKey(packets[i]) = key}
           E == EligibleOf(packets)
<1>1. Len(packets) \in Nat /\ DOMAIN packets = 1 .. Len(packets)
  BY LenProperties
<1>2. \A i \in DOMAIN packets : packets[i] \in Row
  BY <1>1, ElementOfSeq
<1>3. IsFiniteSet(DOMAIN packets)
  BY <1>1, FS_Interval
<1>4. ASSUME NEW P, P \subseteq DOMAIN packets
      PROVE  LET A == {packets[i] : i \in P}
             IN  /\ A \subseteq Row /\ IsFiniteSet(A) /\ Framed(A)
                 /\ Cardinality(A) = Cardinality(P) /\ Sorted(packets, P) = Ranked(A)
  <2>1. IsFiniteSet(P)
    BY <1>3, <1>4, FS_Subset
  <2>2. /\ \A i \in P : packets[i] \in Row
        /\ \A i, j \in P : i # j => packets[i].frame # packets[j].frame
    BY <1>2, <1>4 DEF Distinct
  <2> QED BY <2>1, <2>2, SortedIsRanked
<1>5. eligible \subseteq DOMAIN packets /\ E = {packets[i] : i \in eligible}
  BY DEF EligibleOf
<1>6. E \subseteq Row /\ IsFiniteSet(E) /\ Framed(E) /\ Cardinality(E) = Cardinality(eligible)
  <2> HIDE DEF eligible, E
  <2> QED BY <1>4, <1>5
<1>7. ASSUME NEW key
      PROVE  Sorted(packets, partition(key)) = Ranked(Peers(E, key))
  <2>1. partition(key) \subseteq DOMAIN packets
    OBVIOUS
  <2>2. Peers(E, key) = {packets[i] : i \in partition(key)}
    BY <1>5 DEF Peers
  <2> HIDE DEF partition, E
  <2> QED BY <1>4, <2>1, <2>2
<1>8. {PartitionKey(packets[i]) : i \in eligible} = {PartitionKey(p) : p \in E}
  <2> HIDE DEF eligible, E
  <2> QED BY <1>5
<1>9. UNION {FlowsOfPartition(key, Sorted(packets, partition(key)), partial, quarantined) :
                key \in {PartitionKey(packets[i]) : i \in eligible}}
        = FlowsOfSet(E, partial, quarantined)
  <2> HIDE DEF eligible, partition, E
  <2>1. \A key : FlowsOfPartition(key, Sorted(packets, partition(key)), partial, quarantined)
                   = {FlowAt(key, Ranked(Peers(E, key)), e, partial, quarantined) :
                         e \in EndsOf(Ranked(Peers(E, key)))}
    <3> TAKE key
    <3>1. PICK s : s = Ranked(Peers(E, key))
      OBVIOUS
    <3>2. Sorted(packets, partition(key)) = s
      BY <1>7, <3>1
    <3>3. FlowsOfPartition(key, s, partial, quarantined)
            = {FlowAt(key, s, e, partial, quarantined) : e \in EndsOf(s)}
      BY FlowsOfRanked
    <3> QED BY <3>1, <3>2, <3>3
  <2> DEFINE here(key) == FlowsOfPartition(key, Sorted(packets, partition(key)), partial,
                                            quarantined)
             there(key) == {FlowAt(key, Ranked(Peers(E, key)), e, partial, quarantined) :
                               e \in EndsOf(Ranked(Peers(E, key)))}
             keys == {PartitionKey(packets[i]) : i \in eligible}
             others == {PartitionKey(p) : p \in E}
  <2>2. \A key : here(key) = there(key)
    BY <2>1
  <2>3. keys = others
    BY <1>8
  <2>4. FlowsOfSet(E, partial, quarantined) = UNION {there(key) : key \in others}
    BY DEF FlowsOfSet
  <2>5. UNION {here(key) : key \in keys} = UNION {there(key) : key \in others}
    <3> HIDE DEF here, there, keys, others
    <3> QED BY <2>2, <2>3
  <2> QED BY <2>4, <2>5
<1>10. ProjectFlows(packets, partial, quarantined)
         = [seen |-> Len(packets), grouped |-> Cardinality(eligible),
            flows |-> UNION {FlowsOfPartition(key, Sorted(packets, partition(key)),
                                              partial, quarantined) :
                                key \in {PartitionKey(packets[i]) : i \in eligible}}]
  BY DEF ProjectFlows
<1> QED BY <1>6, <1>9, <1>10

\* Reading packets backwards changes nothing of the set.
LEMMA BackwardsTheSame ==
  ASSUME NEW packets \in Seq(Row), Distinct(packets)
  PROVE  LET r == Reverse(packets)
         IN  /\ r \in Seq(Row) /\ Distinct(r) /\ Len(r) = Len(packets)
             /\ EligibleOf(r) = EligibleOf(packets)
<1> DEFINE n == Len(packets)
           r == Reverse(packets)
<1>1. n \in Nat /\ DOMAIN packets = 1 .. n
  BY LenProperties
<1>2. \A i \in 1 .. n : packets[i] \in Row
  BY <1>1, ElementOfSeq
<1>3. r = [i \in 1 .. n |-> packets[(n - i) + 1]]
  BY DEF Reverse
<1>4. \A i \in 1 .. n : (n - i) + 1 \in 1 .. n /\ n - ((n - i) + 1) + 1 = i
  BY <1>1
<1>5. \A i \in 1 .. n : r[i] = packets[(n - i) + 1] /\ r[(n - i) + 1] = packets[i]
  BY <1>3, <1>4
<1>6. r \in [1 .. n -> Row]
  BY <1>2, <1>3, <1>4
<1>7. r \in Seq(Row) /\ Len(r) = n /\ DOMAIN r = 1 .. n
  BY <1>1, <1>6
<1> HIDE DEF r, n
<1>8. Distinct(r)
  <2> SUFFICES ASSUME NEW i \in 1 .. n, NEW j \in 1 .. n, i # j
               PROVE  r[i].frame # r[j].frame
    BY <1>7 DEF Distinct
  <2>1. (n - i) + 1 # (n - j) + 1
    BY <1>1
  <2> QED BY <1>1, <1>4, <1>5, <2>1 DEF Distinct
<1>9. EligibleOf(r) = EligibleOf(packets)
  <2>1. \A p : p \in EligibleOf(r) <=> \E i \in 1 .. n : p = r[i] /\ Eligible(r[i])
    BY <1>7 DEF EligibleOf
  <2>2. \A p : p \in EligibleOf(packets) <=> \E i \in 1 .. n : p = packets[i] /\ Eligible(packets[i])
    BY <1>1 DEF EligibleOf
  <2>3. \A i \in 1 .. n : \E j \in 1 .. n : r[j] = packets[i]
    <3> TAKE i \in 1 .. n
    <3>1. (n - i) + 1 \in 1 .. n
      BY <1>4
    <3> WITNESS (n - i) + 1 \in 1 .. n
    <3> QED BY <1>5
  <2>4. \A i \in 1 .. n : \E j \in 1 .. n : packets[j] = r[i]
    <3> TAKE i \in 1 .. n
    <3>1. (n - i) + 1 \in 1 .. n
      BY <1>4
    <3> WITNESS (n - i) + 1 \in 1 .. n
    <3> QED BY <1>5
  <2>5. ASSUME NEW p \in EligibleOf(r) PROVE p \in EligibleOf(packets)
    BY <2>1, <2>2, <2>4
  <2>6. ASSUME NEW p \in EligibleOf(packets) PROVE p \in EligibleOf(r)
    BY <2>1, <2>2, <2>3
  <2> QED BY <2>5, <2>6
<1> QED BY <1>7, <1>8, <1>9 DEF r, n

\* SameSession of the packets of a set.
Joined(E, p, q) ==
  /\ PartitionKey(p) = PartitionKey(q)
  /\ Linked(Peers(E, PartitionKey(p)), IF p.time <= q.time THEN p.time ELSE q.time,
            IF p.time <= q.time THEN q.time ELSE p.time)

LEMMA SessionsOfSet ==
  ASSUME NEW packets, NEW p, NEW q
  PROVE  SameSession(packets, p, q) <=> Joined(EligibleOf(packets), p, q)
<1>1. {packets[i] : i \in {j \in DOMAIN packets :
           Eligible(packets[j]) /\ PartitionKey(packets[j]) = PartitionKey(p)}}
        = Peers(EligibleOf(packets), PartitionKey(p))
  BY DEF Peers, EligibleOf
<1> QED BY <1>1 DEF SameSession, Joined, Linked

\* What a sorted partition is.
LEMMA PartitionIs ==
  ASSUME NEW E, E \subseteq Row, IsFiniteSet(E), Framed(E), NEW key, NEW s,
         s = Ranked(Peers(E, key))
  PROVE  /\ s \in Seq(Row) /\ InOrder(s) /\ Peers(E, key) = {s[i] : i \in 1 .. Len(s)}
         /\ \A i \in 1 .. Len(s) : s[i] \in E /\ PartitionKey(s[i]) = key
         /\ \A i, j \in 1 .. Len(s) : s[i] = s[j] => i = j
<1> DEFINE A == Peers(E, key)
<1>1. A \subseteq E
  BY DEF Peers
<1>2. A \subseteq Row /\ IsFiniteSet(A) /\ Framed(A)
  <2>1. A \in SUBSET E
    BY <1>1
  <2>2. IsFiniteSet(A)
    BY <2>1, FS_Subset
  <2> QED BY <1>1, <2>2 DEF Framed
<1>8. s = Ranked(A)
  OBVIOUS
<1> HIDE DEF A
<1>3. /\ s \in Seq(A) /\ Len(s) = Cardinality(A) /\ Cardinality(A) \in Nat
      /\ \A k \in 1 .. Len(s) : s[k] \in A
      /\ \A p \in A : \E k \in 1 .. Len(s) : s[k] = p
      /\ \A k, l \in 1 .. Len(s) : k < l => s[k].time <= s[l].time
      /\ \A k, l \in 1 .. Len(s) : s[k] = s[l] => k = l
  <2>1. /\ Cardinality(A) \in Nat /\ s \in Seq(A) /\ Len(s) = Cardinality(A)
        /\ \A k \in 1 .. Len(s) : s[k] \in A /\ Cardinality(Earlier(A, s[k])) = k - 1
        /\ \A p \in A : \E k \in 1 .. Len(s) : s[k] = p
        /\ \A k, l \in 1 .. Len(s) : k < l => Before(s[k], s[l]) /\ s[k].time <= s[l].time
        /\ \A k, l \in 1 .. Len(s) : s[k] = s[l] => k = l
    BY <1>2, <1>8, RankedIs
  <2> QED BY <2>1
<1>4. \A k \in 1 .. Len(s) : s[k] \in Row /\ s[k].time \in Int
  BY <1>2, <1>3 DEF Row
<1>5. InOrder(s)
  BY <1>3, <1>4 DEF InOrder
<1>6. s \in Seq(Row)
  BY <1>2, <1>3
<1>7. \A k \in 1 .. Len(s) : s[k] \in E /\ PartitionKey(s[k]) = key
  BY <1>3 DEF A, Peers
<1> QED BY <1>3, <1>5, <1>6, <1>7 DEF A

LEMMA NotLater ==
  ASSUME NEW s, InOrder(s), NEW k \in 1 .. Len(s), NEW l \in 1 .. Len(s), k <= l
  PROVE  s[k].time \in Int /\ s[l].time \in Int /\ s[k].time <= s[l].time
  BY DEF InOrder

\* The session of a packet is the segment that it is in.
LEMMA SessionIsSegment ==
  ASSUME NEW E, E \subseteq Row, IsFiniteSet(E), Framed(E), NEW key, NEW s,
         s = Ranked(Peers(E, key)), NEW e \in EndsOf(s), NEW k \in FromOf(s, e) .. e
  PROVE  {q \in E : Joined(E, s[k], q)} = {s[j] : j \in FromOf(s, e) .. e}
<1>1. /\ InOrder(s) /\ Len(s) \in Nat /\ Peers(E, key) = {s[i] : i \in 1 .. Len(s)}
      /\ \A i \in 1 .. Len(s) : s[i] \in E /\ PartitionKey(s[i]) = key
  BY PartitionIs, LenProperties
<1> DEFINE A == Peers(E, key)
<1>0. InOrder(s) /\ A = {s[i] : i \in 1 .. Len(s)}
  BY <1>1
<1> HIDE DEF A
<1>2. FromOf(s, e) \in 1 .. e /\ e \in 1 .. Len(s)
  BY <1>1, Segment DEF EndsOf
<1>3. k \in 1 .. Len(s) /\ PartitionKey(s[k]) = key
  BY <1>1, <1>2
<1>4. ASSUME NEW j \in 1 .. Len(s)
      PROVE  Joined(E, s[k], s[j]) <=> j \in FromOf(s, e) .. e
  <2>1. PICK d \in EndsOf(s) : j \in FromOf(s, d) .. d
    BY <1>1, InSegment
  <2>2. FromOf(s, d) \in 1 .. d /\ d \in 1 .. Len(s)
    BY <1>1, Segment DEF EndsOf
  <2>3. CASE k <= j
    <3>1. Linked(A, s[k].time, s[j].time) <=> Unbroken(s, k, j)
      BY <1>0, <1>3, <2>3, LinkedIs
    <3>2. Unbroken(s, k, j) <=> e = d
      BY <1>1, <2>1, <2>3, OneSegment
    <3>3. Joined(E, s[k], s[j]) <=> e = d
      <4>1. s[k].time <= s[j].time
        BY <1>0, <1>3, <2>3, NotLater
      <4> QED BY <1>1, <1>3, <3>1, <3>2, <4>1 DEF Joined, A
    <3>4. j \in FromOf(s, e) .. e => Unbroken(s, k, j)
      BY <1>1, <2>3, OneSegment
    <3> QED BY <2>1, <3>2, <3>3, <3>4
  <2>4. CASE j <= k
    <3>1. Linked(A, s[j].time, s[k].time) <=> Unbroken(s, j, k)
      BY <1>0, <1>3, <2>4, LinkedIs
    <3>2. Unbroken(s, j, k) <=> d = e
      BY <1>1, <2>1, <2>4, OneSegment
    <3>3. s[j].time \in Int /\ s[k].time \in Int /\ s[j].time <= s[k].time
      BY <1>1, <1>3, <2>4, NotLater
    <3>4. /\ s[k].time <= s[j].time => s[k].time = s[j].time
          /\ Joined(E, s[k], s[j]) <=> Linked(A, s[j].time, s[k].time)
      <4>1. CASE s[k].time <= s[j].time
        <5>1. s[k].time = s[j].time
          BY <3>3, <4>1
        <5> QED BY <1>1, <1>3, <5>1 DEF Joined, A
      <4>2. CASE ~(s[k].time <= s[j].time)
        BY <1>1, <1>3, <4>2 DEF Joined, A
      <4> QED BY <4>1, <4>2
    <3>5. j \in FromOf(s, e) .. e => Unbroken(s, j, k)
      BY <1>1, <2>4, OneSegment
    <3> QED BY <2>1, <3>1, <3>2, <3>4, <3>5
  <2> QED BY <1>3, <2>3, <2>4
<1>5. ASSUME NEW q \in E, Joined(E, s[k], q)
      PROVE  \E j \in 1 .. Len(s) : q = s[j]
  <2>1. q \in Peers(E, key)
    BY <1>3, <1>5 DEF Joined, Peers
  <2> QED BY <1>1, <2>1
<1>6. ASSUME NEW j \in FromOf(s, e) .. e PROVE j \in 1 .. Len(s)
  <2>1. Len(s) \in Int /\ e \in Int /\ FromOf(s, e) \in Int /\ e <= Len(s) /\ 1 <= FromOf(s, e)
    BY <1>1, <1>2
  <2> QED BY <2>1
<1>7. ASSUME NEW q \in E, Joined(E, s[k], q) PROVE q \in {s[j] : j \in FromOf(s, e) .. e}
  <2>1. PICK j \in 1 .. Len(s) : q = s[j]
    BY <1>5, <1>7
  <2> QED BY <1>4, <1>7, <2>1
<1>8. ASSUME NEW j \in FromOf(s, e) .. e PROVE s[j] \in E /\ Joined(E, s[k], s[j])
  BY <1>1, <1>4, <1>6
<1> QED BY <1>7, <1>8

\* The times of a segment are those of no other packet of its partition.
LEMMA SegmentByTime ==
  ASSUME NEW s, InOrder(s), NEW e \in EndsOf(s), NEW j \in 1 .. Len(s)
  PROVE  /\ j \in FromOf(s, e) .. e
              <=> s[FromOf(s, e)].time <= s[j].time /\ s[j].time <= s[e].time
         /\ e < Len(s) <=> \E i \in 1 .. Len(s) : s[i].time > s[e].time
<1> DEFINE f == FromOf(s, e)
<1>1. /\ Len(s) \in Nat /\ f \in 1 .. e /\ e \in 1 .. Len(s) /\ f \in 1 .. Len(s)
      /\ f = 1 \/ f - 1 \in EndsOf(s)
  <2>1. Len(s) \in Nat
    BY DEF InOrder
  <2> QED BY <2>1, Segment DEF EndsOf
<1>2. ASSUME NEW i \in 1 .. Len(s) - 1, Cut(s, i) PROVE s[i].time < s[i + 1].time
  <2>1. i \in 1 .. Len(s) /\ i + 1 \in 1 .. Len(s) /\ i <= i + 1
    BY <1>1
  <2>2. s[i].time \in Int /\ s[i + 1].time \in Int /\ s[i].time <= s[i + 1].time
    BY <2>1, NotLater
  <2> QED BY <1>2, <2>2, GapIs DEF Cut
<1>3. ASSUME j \in f .. e PROVE s[f].time <= s[j].time /\ s[j].time <= s[e].time
  BY <1>1, <1>3, NotLater
<1>4. ASSUME e < j PROVE s[e].time < s[j].time
  <2>1. e \in 1 .. Len(s) - 1 /\ e + 1 \in 1 .. Len(s) /\ e + 1 <= j
    BY <1>1, <1>4
  <2>2. s[e].time < s[e + 1].time
    BY <1>1, <1>2, <2>1 DEF EndsOf
  <2>3. s[e + 1].time \in Int /\ s[j].time \in Int /\ s[e + 1].time <= s[j].time
    BY <2>1, NotLater
  <2>4. s[e].time \in Int
    BY <1>1, NotLater
  <2> QED BY <2>2, <2>3, <2>4
<1>5. ASSUME j < f PROVE s[j].time < s[f].time
  <2>1. f - 1 \in 1 .. Len(s) - 1 /\ f - 1 \in 1 .. Len(s) /\ j <= f - 1 /\ f - 1 + 1 = f
    BY <1>1, <1>5
  <2>2. f - 1 \in EndsOf(s) /\ f - 1 # Len(s)
    BY <1>1, <2>1
  <2>3. s[f - 1].time < s[f].time
    BY <1>2, <2>1, <2>2 DEF EndsOf
  <2>4. s[j].time \in Int /\ s[f - 1].time \in Int /\ s[j].time <= s[f - 1].time
    BY <2>1, NotLater
  <2>5. s[f].time \in Int
    BY <1>1, NotLater
  <2> QED BY <2>3, <2>4, <2>5
<1>6. s[f].time \in Int /\ s[j].time \in Int /\ s[e].time \in Int
  BY <1>1, NotLater
<1>7. ASSUME e < Len(s) PROVE \E i \in 1 .. Len(s) : s[i].time > s[e].time
  <2>1. e \in 1 .. Len(s) - 1 /\ e + 1 \in 1 .. Len(s)
    BY <1>1, <1>7
  <2>2. s[e].time < s[e + 1].time
    BY <1>1, <1>2, <2>1 DEF EndsOf
  <2>3. s[e + 1].time \in Int
    BY <2>1, NotLater
  <2> QED BY <1>6, <2>1, <2>2, <2>3
<1>8. ASSUME NEW i \in 1 .. Len(s), s[i].time > s[e].time PROVE e < Len(s)
  <2>1. e # Len(s)
    <3>1. SUFFICES ASSUME e = Len(s) PROVE FALSE
      OBVIOUS
    <3>2. s[i].time \in Int /\ s[i].time <= s[e].time
      BY <1>1, <3>1, NotLater
    <3> QED BY <1>6, <1>8, <3>2
  <2> QED BY <1>1, <2>1
<1>9. j \in f .. e <=> s[f].time <= s[j].time /\ s[j].time <= s[e].time
  BY <1>1, <1>3, <1>4, <1>5, <1>6
<1> QED BY <1>7, <1>8, <1>9

LEMMA FramesCounted ==
  ASSUME NEW s \in Seq(Row), NEW end
  PROVE  FramesFrom(s, end) \in Nat
<1>1. IsFiniteSet(DOMAIN s)
  BY LenProperties, FS_Interval
<1>2. {i \in DOMAIN s : s[i].from = end} \in SUBSET DOMAIN s
  OBVIOUS
<1>3. IsFiniteSet({i \in DOMAIN s : s[i].from = end})
  BY <1>1, <1>2, FS_Subset
<1> QED BY <1>3, FS_CardinalityType DEF FramesFrom

\* What the flow of a segment says.
LEMMA FlowOfSegment ==
  ASSUME NEW s \in Seq(Row), NEW key, NEW e \in EndsOf(s), NEW partial, NEW quarantined,
         NEW f, f = FlowAt(key, s, e, partial, quarantined)
  PROVE  /\ f.key = key /\ f.start = s[FromOf(s, e)].time /\ f.end = s[e].time
         /\ f.orig + f.resp = e - FromOf(s, e) + 1
         /\ f.endBasis = "inactivity_gap" <=> e < Len(s)
         /\ f.endBasis \in {"complete_capture_boundary", "tcp_fin_observed",
                            "tcp_reset_observed"} => e = Len(s) /\ ~partial /\ ~quarantined
<1> DEFINE b == FromOf(s, e)
           sub == SubSeq(s, b, e)
<1>1. Len(s) \in Nat /\ DOMAIN s = 1 .. Len(s) /\ e \in 1 .. Len(s) /\ b \in 1 .. e
  <2>1. Len(s) \in Nat /\ DOMAIN s = 1 .. Len(s)
    BY LenProperties
  <2> QED BY <2>1, Segment DEF EndsOf
<1>2. sub \in Seq(Row) /\ Len(sub) = e - b + 1
      /\ \A i \in 1 .. e - b + 1 : sub[i] = s[b + i - 1]
  <2>1. b \in Int /\ e \in Int /\ b <= e + 1 /\ \A i \in b .. e : s[i] \in Row
    BY <1>1, ElementOfSeq
  <2> HIDE DEF b
  <2> QED BY <1>1, <2>1, SubSeqProperties
<1>3. sub[1] = s[b] /\ sub[Len(sub)] = s[e]
  <2>1. 1 \in 1 .. e - b + 1 /\ e - b + 1 \in 1 .. e - b + 1 /\ b + 1 - 1 = b
        /\ b + (e - b + 1) - 1 = e
    BY <1>1
  <2> HIDE DEF b, sub
  <2> QED BY <1>2, <2>1
<1> HIDE DEF b, sub
<1>4. f = ProjectSegment(key, sub, e < Len(s), partial, quarantined)
  BY DEF FlowAt, b, sub
<1>5. /\ f.key = key /\ f.start = sub[1].time /\ f.end = sub[Len(sub)].time
      /\ f.orig = FramesFrom(sub, Orient(sub)[1])
      /\ f.resp = Len(sub) - FramesFrom(sub, Orient(sub)[1])
      /\ f.endBasis = EndBasis(sub, e < Len(s), partial, quarantined)
  BY <1>4 DEF ProjectSegment
<1>6. f.orig + f.resp = Len(sub)
  <2>1. FramesFrom(sub, Orient(sub)[1]) \in Nat
    BY <1>2, FramesCounted
  <2>2. Len(sub) \in Int
    BY <1>1, <1>2
  <2> QED BY <1>5, <2>1, <2>2
<1>7. /\ f.endBasis = "inactivity_gap" <=> e < Len(s)
      /\ f.endBasis \in {"complete_capture_boundary", "tcp_fin_observed",
                         "tcp_reset_observed"} => ~(e < Len(s)) /\ ~partial /\ ~quarantined
  <2> DEFINE seen(flag) == sub[1].transport = "tcp" /\ \E i \in DOMAIN sub : flag \in sub[i].flags
  <2>1. f.endBasis = IF e < Len(s)                 THEN "inactivity_gap"
                     ELSE IF partial /\ quarantined THEN "partial_and_quarantined_boundary"
                     ELSE IF partial               THEN "partial_boundary"
                     ELSE IF quarantined           THEN "quarantined_boundary"
                     ELSE IF seen("rst")           THEN "tcp_reset_observed"
                     ELSE IF seen("fin")           THEN "tcp_fin_observed"
                     ELSE "complete_capture_boundary"
    BY <1>5 DEF EndBasis
  <2> HIDE DEF seen
  <2> QED BY <2>1
<1>8. ~(e < Len(s)) => e = Len(s)
  <2>1. Len(s) \in Int /\ e \in Int /\ e <= Len(s)
    BY <1>1
  <2> QED BY <2>1
<1>9. f.start = s[b].time /\ f.end = s[e].time /\ f.orig + f.resp = e - b + 1
  BY <1>2, <1>3, <1>5, <1>6
<1> QED BY <1>5, <1>7, <1>8, <1>9 DEF b

\* The packets of a flow's partition between its bounds.
SpanOf(E, f) == {q \in E : PartitionKey(q) = f.key /\ f.start <= q.time /\ q.time <= f.end}

\* The session of a packet as its flow tells it.
LEMMA FlowSpans ==
  ASSUME NEW E, E \subseteq Row, IsFiniteSet(E), Framed(E), NEW key, NEW s,
         s = Ranked(Peers(E, key)), NEW e \in EndsOf(s), NEW k \in FromOf(s, e) .. e,
         NEW partial, NEW quarantined, NEW f, f = FlowAt(key, s, e, partial, quarantined)
  PROVE  /\ {q \in E : Joined(E, s[k], q)} = {s[j] : j \in FromOf(s, e) .. e}
         /\ {q \in E : Joined(E, s[k], q)} = SpanOf(E, f)
<1> DEFINE class == {q \in E : Joined(E, s[k], q)}
           b == FromOf(s, e)
<1>1. /\ s \in Seq(Row) /\ InOrder(s) /\ Peers(E, key) = {s[i] : i \in 1 .. Len(s)}
      /\ \A i \in 1 .. Len(s) : s[i] \in E /\ PartitionKey(s[i]) = key
  BY PartitionIs
<1>2. Len(s) \in Nat /\ e \in 1 .. Len(s) /\ b \in 1 .. e
  <2>1. Len(s) \in Nat
    BY <1>1, LenProperties
  <2> QED BY <2>1, Segment DEF EndsOf
<1>3. class = {s[j] : j \in b .. e}
  BY SessionIsSegment
<1>4. f.key = key /\ f.start = s[b].time /\ f.end = s[e].time
  BY <1>1, FlowOfSegment
<1>5. b .. e \subseteq 1 .. Len(s)
  BY <1>2
<1> HIDE DEF class, b
<1>6. \A j \in 1 .. Len(s) : j \in b .. e <=> f.start <= s[j].time /\ s[j].time <= f.end
  BY <1>1, <1>4, SegmentByTime DEF b
<1>7. ASSUME NEW q \in class
      PROVE  q \in E /\ PartitionKey(q) = f.key /\ f.start <= q.time /\ q.time <= f.end
  <2>1. PICK j \in b .. e : q = s[j]
    BY <1>3
  <2>2. j \in 1 .. Len(s)
    BY <1>5
  <2> QED BY <1>1, <1>4, <1>6, <2>1, <2>2
<1>8. ASSUME NEW q \in E, PartitionKey(q) = f.key, f.start <= q.time, q.time <= f.end
      PROVE  q \in class
  <2>1. q \in Peers(E, key)
    BY <1>4, <1>8 DEF Peers
  <2>2. PICK j \in 1 .. Len(s) : q = s[j]
    <3>1. Peers(E, key) = {s[i] : i \in 1 .. Len(s)}
      BY <1>1
    <3> QED BY <2>1, <3>1
  <2>3. j \in b .. e
    BY <1>6, <1>8, <2>2
  <2> QED BY <1>3, <2>2, <2>3
<1>9. class = SpanOf(E, f)
  <2>1. ASSUME NEW q \in class PROVE q \in SpanOf(E, f)
    BY <1>7 DEF SpanOf
  <2>2. ASSUME NEW q \in SpanOf(E, f) PROVE q \in class
    BY <1>8 DEF SpanOf
  <2> QED BY <2>1, <2>2
<1> QED BY <1>3, <1>9 DEF class, b

ClassOf(E, p) == {q \in E : Joined(E, p, q)}

LEMMA ClassIsSpan ==
  ASSUME NEW E, E \subseteq Row, IsFiniteSet(E), Framed(E), NEW key,
         NEW e \in EndsOf(Ranked(Peers(E, key))), NEW k \in FromOf(Ranked(Peers(E, key)), e) .. e,
         NEW partial, NEW quarantined
  PROVE  ClassOf(E, Ranked(Peers(E, key))[k])
           = SpanOf(E, FlowAt(key, Ranked(Peers(E, key)), e, partial, quarantined))
<1>1. PICK s, f : s = Ranked(Peers(E, key)) /\ f = FlowAt(key, s, e, partial, quarantined)
  OBVIOUS
<1>2. e \in EndsOf(s) /\ k \in FromOf(s, e) .. e
  BY <1>1
<1>3. ClassOf(E, s[k]) = SpanOf(E, f)
  BY <1>1, <1>2, FlowSpans DEF ClassOf
<1> QED BY <1>1, <1>3

\* The bounds, the size and the end of that session.
LEMMA FlowIsSession ==
  ASSUME NEW E, E \subseteq Row, IsFiniteSet(E), Framed(E), NEW key, NEW s,
         s = Ranked(Peers(E, key)), NEW e \in EndsOf(s), NEW k \in FromOf(s, e) .. e,
         NEW partial, NEW quarantined, NEW f, f = FlowAt(key, s, e, partial, quarantined),
         NEW class, class = {q \in E : Joined(E, s[k], q)}
  PROVE  /\ f.orig + f.resp = Cardinality(class)
         /\ f.start \in {q.time : q \in class} /\ f.end \in {q.time : q \in class}
         /\ \A t \in {q.time : q \in class} : f.start <= t /\ t <= f.end
         /\ f.endBasis = "inactivity_gap" <=>
                \E q \in E : PartitionKey(q) = key /\ q.time > f.end
<1> DEFINE b == FromOf(s, e)
<1>1. /\ s \in Seq(Row) /\ InOrder(s) /\ Peers(E, key) = {s[i] : i \in 1 .. Len(s)}
      /\ \A i \in 1 .. Len(s) : s[i] \in E /\ PartitionKey(s[i]) = key
      /\ \A i, j \in 1 .. Len(s) : s[i] = s[j] => i = j
  BY PartitionIs
<1>2. Len(s) \in Nat /\ e \in 1 .. Len(s) /\ b \in 1 .. e
  <2>1. Len(s) \in Nat
    BY <1>1, LenProperties
  <2> QED BY <2>1, Segment DEF EndsOf
<1>3. /\ class = {s[j] : j \in b .. e}
      /\ \A q \in class : f.start <= q.time /\ q.time <= f.end
  <2>1. class = {s[j] : j \in b .. e} /\ class = SpanOf(E, f)
    BY FlowSpans
  <2> QED BY <2>1 DEF SpanOf
<1>4. /\ f.key = key /\ f.start = s[b].time /\ f.end = s[e].time
      /\ f.orig + f.resp = e - b + 1
      /\ f.endBasis = "inactivity_gap" <=> e < Len(s)
  BY <1>1, FlowOfSegment
<1>5. b .. e \subseteq 1 .. Len(s)
  BY <1>2
<1> HIDE DEF b
<1>6. Cardinality(class) = e - b + 1
  <2> DEFINE g == [j \in b .. e |-> s[j]]
  <2>1. /\ g \in [b .. e -> class] /\ \A x, y \in b .. e : g[x] = g[y] => x = y
        /\ \A q \in class : \E x \in b .. e : g[x] = q
    BY <1>1, <1>3, <1>5
  <2> HIDE DEF g
  <2>2. b \in Int /\ e \in Int
    BY <1>2
  <2>3. /\ IsFiniteSet(b .. e)
        /\ Cardinality(b .. e) = IF b > e THEN 0 ELSE e - b + 1
    BY <2>2, FS_Interval
  <2>4. Cardinality(class) = Cardinality(b .. e)
    BY <2>1, <2>3, OneToOne
  <2> QED BY <1>2, <2>3, <2>4
<1>7. b \in b .. e /\ e \in b .. e
  BY <1>2
<1>8. f.endBasis = "inactivity_gap" <=> \E q \in E : PartitionKey(q) = key /\ q.time > f.end
  <2>1. e < Len(s) <=> \E i \in 1 .. Len(s) : s[i].time > s[e].time
    BY <1>1, <1>2, SegmentByTime
  <2>2. ASSUME NEW q \in E, PartitionKey(q) = key PROVE \E j \in 1 .. Len(s) : q = s[j]
    <3>1. q \in Peers(E, key)
      BY <2>2 DEF Peers
    <3>2. Peers(E, key) = {s[i] : i \in 1 .. Len(s)}
      BY <1>1
    <3> QED BY <3>1, <3>2
  <2> QED BY <1>1, <1>4, <2>1, <2>2
<1>9. f.start \in {q.time : q \in class} /\ f.end \in {q.time : q \in class}
  BY <1>3, <1>4, <1>7
<1>10. ASSUME NEW q \in class PROVE f.start <= q.time /\ q.time <= f.end
  BY <1>3
<1> QED BY <1>4, <1>6, <1>8, <1>9, <1>10

\* Every packet is in the segment of a flow, and every flow is of a packet's segment.
LEMMA FlowsAndPackets ==
  ASSUME NEW E, E \subseteq Row, IsFiniteSet(E), Framed(E), NEW partial, NEW quarantined
  PROVE  /\ \A p \in E : LET s == Ranked(Peers(E, PartitionKey(p)))
                         IN  \E e \in EndsOf(s) : \E k \in FromOf(s, e) .. e :
                               /\ p = s[k]
                               /\ FlowAt(PartitionKey(p), s, e, partial, quarantined)
                                    \in FlowsOfSet(E, partial, quarantined)
         /\ \A f \in FlowsOfSet(E, partial, quarantined) :
              \E p \in E : LET s == Ranked(Peers(E, PartitionKey(p)))
                           IN  \E e \in EndsOf(s) :
                                 /\ p = s[e] /\ e \in FromOf(s, e) .. e
                                 /\ f = FlowAt(PartitionKey(p), s, e, partial, quarantined)
<1>1. ASSUME NEW p \in E, NEW s, s = Ranked(Peers(E, PartitionKey(p)))
      PROVE  \E e \in EndsOf(s) : \E k \in FromOf(s, e) .. e :
                /\ p = s[k]
                /\ FlowAt(PartitionKey(p), s, e, partial, quarantined)
                     \in FlowsOfSet(E, partial, quarantined)
  <2>1. s \in Seq(Row) /\ Peers(E, PartitionKey(p)) = {s[i] : i \in 1 .. Len(s)}
    BY <1>1, PartitionIs
  <2>2. p \in Peers(E, PartitionKey(p)) /\ Len(s) \in Nat
    BY <2>1, LenProperties DEF Peers
  <2>3. PICK k \in 1 .. Len(s) : p = s[k]
    BY <2>1, <2>2
  <2>4. PICK e \in EndsOf(s) : k \in FromOf(s, e) .. e
    BY <2>2, InSegment
  <2>5. FlowAt(PartitionKey(p), s, e, partial, quarantined) \in FlowsOfSet(E, partial, quarantined)
    BY <1>1 DEF FlowsOfSet
  <2> QED BY <2>3, <2>4, <2>5
<1>2. ASSUME NEW f \in FlowsOfSet(E, partial, quarantined)
      PROVE  \E p \in E : \E e \in EndsOf(Ranked(Peers(E, PartitionKey(p)))) :
                /\ p = Ranked(Peers(E, PartitionKey(p)))[e]
                /\ e \in FromOf(Ranked(Peers(E, PartitionKey(p))), e) .. e
                /\ f = FlowAt(PartitionKey(p), Ranked(Peers(E, PartitionKey(p))), e,
                              partial, quarantined)
  <2>1. PICK r \in E : f \in {FlowAt(PartitionKey(r), Ranked(Peers(E, PartitionKey(r))), e,
                                     partial, quarantined) :
                                 e \in EndsOf(Ranked(Peers(E, PartitionKey(r))))}
    BY DEF FlowsOfSet
  <2>2. PICK key, s : key = PartitionKey(r) /\ s = Ranked(Peers(E, key))
    OBVIOUS
  <2>3. PICK e \in EndsOf(s) : f = FlowAt(key, s, e, partial, quarantined)
    BY <2>1, <2>2
  <2>4. /\ s \in Seq(Row) /\ \A i \in 1 .. Len(s) : s[i] \in E /\ PartitionKey(s[i]) = key
    BY <2>2, PartitionIs
  <2>5. Len(s) \in Nat
    BY <2>4, LenProperties
  <2>6. FromOf(s, e) \in 1 .. e /\ e \in 1 .. Len(s)
    BY <2>5, Segment DEF EndsOf
  <2>7. e \in FromOf(s, e) .. e
    BY <2>6
  <2> QED BY <2>2, <2>3, <2>4, <2>6, <2>7
<1> QED BY <1>1, <1>2

\* There is one flow for every session.
LEMMA FlowsAreCounted ==
  ASSUME NEW E, E \subseteq Row, IsFiniteSet(E), Framed(E), NEW partial, NEW quarantined
  PROVE  Cardinality(FlowsOfSet(E, partial, quarantined))
           = Cardinality({{q \in E : Joined(E, p, q)} : p \in E})
<1> DEFINE class(p) == {q \in E : Joined(E, p, q)}
           flows == FlowsOfSet(E, partial, quarantined)
           classes == {class(p) : p \in E}
           span(f) == SpanOf(E, f)
           g == [f \in flows |-> span(f)]
<1>1. IsFiniteSet(classes)
  <2> DEFINE h == [p \in E |-> class(p)]
  <2>1. h \in Surjection(E, classes)
    BY DEF Surjection
  <2> HIDE DEF h, classes
  <2> QED BY <2>1, FS_Surjection
<1>2. ASSUME NEW f \in flows
      PROVE  \E p \in E : LET s == Ranked(Peers(E, PartitionKey(p)))
                          IN  \E e \in EndsOf(s) :
                                /\ p = s[e] /\ e \in FromOf(s, e) .. e
                                /\ f = FlowAt(PartitionKey(p), s, e, partial, quarantined)
                                /\ class(p) = span(f) /\ p \in span(f) /\ f.key = PartitionKey(p)
  <2>1. PICK p \in E : \E e \in EndsOf(Ranked(Peers(E, PartitionKey(p)))) :
                /\ p = Ranked(Peers(E, PartitionKey(p)))[e]
                /\ e \in FromOf(Ranked(Peers(E, PartitionKey(p))), e) .. e
                /\ f = FlowAt(PartitionKey(p), Ranked(Peers(E, PartitionKey(p))), e,
                              partial, quarantined)
    BY FlowsAndPackets
  <2>2. PICK key, s : key = PartitionKey(p) /\ s = Ranked(Peers(E, key))
    OBVIOUS
  <2>3. PICK e \in EndsOf(s) : /\ p = s[e] /\ e \in FromOf(s, e) .. e
                               /\ f = FlowAt(key, s, e, partial, quarantined)
    BY <2>1, <2>2
  <2>4. class(p) = span(f)
    <3> HIDE DEF flows, g
    <3>1. ClassOf(E, s[e]) = SpanOf(E, f)
      <4> HIDE DEF class, classes, span
      <4> QED BY <2>2, <2>3, ClassIsSpan
    <3> QED BY <2>3, <3>1 DEF ClassOf
  <2>5. s \in Seq(Row)
    BY <2>2, PartitionIs
  <2>8. f.key = key
    BY <2>3, <2>5, FlowOfSegment
  <2>6. p \in class(p)
    <3>1. {q \in E : Joined(E, s[e], q)} = {s[j] : j \in FromOf(s, e) .. e}
      BY <2>2, <2>3, SessionIsSegment
    <3> QED BY <2>3, <3>1
  <2>7. p \in span(f)
    BY <2>4, <2>6
  <2> HIDE DEF class, span
  <2> QED BY <2>2, <2>3, <2>4, <2>7, <2>8
<1>3. \A f \in flows : g[f] = span(f)
  OBVIOUS
<1>4. g \in [flows -> classes]
  <2>1. \A f \in flows : span(f) \in classes
    <3> TAKE f \in flows
    <3>1. PICK p \in E : class(p) = span(f)
      <4> HIDE DEF class, span
      <4> QED BY <1>2
    <3> HIDE DEF span
    <3> QED BY <3>1
  <2> HIDE DEF classes, span, flows
  <2> QED BY <2>1
<1>5. ASSUME NEW p \in E PROVE \E f \in flows : g[f] = class(p)
  <2>1. PICK key, s : key = PartitionKey(p) /\ s = Ranked(Peers(E, key))
    OBVIOUS
  <2>2. PICK e \in EndsOf(s) : \E k \in FromOf(s, e) .. e :
                p = s[k] /\ FlowAt(key, s, e, partial, quarantined) \in flows
    BY <2>1, FlowsAndPackets
  <2>3. PICK k \in FromOf(s, e) .. e :
                p = s[k] /\ FlowAt(key, s, e, partial, quarantined) \in flows
    BY <2>2
  <2>4. PICK f \in flows : f = FlowAt(key, s, e, partial, quarantined)
    BY <2>3
  <2>5. class(p) = span(f)
    <3> HIDE DEF flows, g
    <3>1. ClassOf(E, s[k]) = SpanOf(E, f)
      <4> HIDE DEF class, classes, span
      <4> QED BY <2>1, <2>3, <2>4, ClassIsSpan
    <3> QED BY <2>3, <3>1 DEF ClassOf
  <2> HIDE DEF class, span, g
  <2> QED BY <1>3, <2>5
<1>6. ASSUME NEW f \in flows, NEW h \in flows, g[f] = g[h] PROVE f = h
  <2>1. PICK p \in E : \E e \in EndsOf(Ranked(Peers(E, PartitionKey(p)))) :
                /\ p = Ranked(Peers(E, PartitionKey(p)))[e]
                /\ e \in FromOf(Ranked(Peers(E, PartitionKey(p))), e) .. e
                /\ f = FlowAt(PartitionKey(p), Ranked(Peers(E, PartitionKey(p))), e,
                              partial, quarantined)
                /\ class(p) = span(f) /\ p \in span(f) /\ f.key = PartitionKey(p)
    <3> HIDE DEF class, span, flows, g
    <3> QED BY <1>2
  <2>2. PICK r \in E : \E e \in EndsOf(Ranked(Peers(E, PartitionKey(r)))) :
                /\ r = Ranked(Peers(E, PartitionKey(r)))[e]
                /\ e \in FromOf(Ranked(Peers(E, PartitionKey(r))), e) .. e
                /\ h = FlowAt(PartitionKey(r), Ranked(Peers(E, PartitionKey(r))), e,
                              partial, quarantined)
                /\ class(r) = span(h) /\ r \in span(h) /\ h.key = PartitionKey(r)
    <3> HIDE DEF class, span, flows, g
    <3> QED BY <1>2
  <2>3. PICK key, s : key = PartitionKey(p) /\ s = Ranked(Peers(E, key))
    OBVIOUS
  <2>4. PartitionKey(r) = key /\ span(f) = span(h)
    <3>1. span(f) = span(h)
      BY <1>3, <1>6
    <3>2. p \in span(h)
      BY <2>1, <3>1
    <3>3. PartitionKey(p) = h.key
      BY <3>2 DEF SpanOf
    <3>4. h.key = PartitionKey(r)
      BY <2>2
    <3> QED BY <2>3, <3>1, <3>3, <3>4
  <2> HIDE DEF flows, g
  <2>5. PICK d \in EndsOf(s) : /\ p = s[d] /\ d \in FromOf(s, d) .. d
                               /\ f = FlowAt(key, s, d, partial, quarantined)
    BY <2>1, <2>3
  <2>6. PICK e \in EndsOf(s) : /\ r = s[e] /\ e \in FromOf(s, e) .. e
                               /\ h = FlowAt(key, s, e, partial, quarantined)
    BY <2>2, <2>3, <2>4
  <2>7. class(p) = {s[j] : j \in FromOf(s, d) .. d}
    BY <2>3, <2>5, SessionIsSegment
  <2>8. PICK j \in FromOf(s, d) .. d : r = s[j]
    BY <2>1, <2>2, <2>4, <2>7
  <2>9. /\ s \in Seq(Row) /\ \A x, y \in 1 .. Len(s) : s[x] = s[y] => x = y
    BY <2>3, PartitionIs
  <2>10. Len(s) \in Nat /\ d \in 1 .. Len(s) /\ e \in 1 .. Len(s) /\ FromOf(s, d) \in 1 .. d
    <3>1. Len(s) \in Nat
      BY <2>9, LenProperties
    <3> QED BY <3>1, Segment DEF EndsOf
  <2>11. j \in 1 .. Len(s)
    BY <2>10
  <2>12. j = e
    BY <2>6, <2>8, <2>9, <2>10, <2>11
  <2>13. Unbroken(s, e, e) <=> d = e
    <3>1. e \in FromOf(s, d) .. d /\ e <= e
      BY <2>10, <2>12
    <3> QED BY <2>6, <2>10, <3>1, OneSegment
  <2>14. Unbroken(s, e, e)
    BY <2>10 DEF Unbroken
  <2> QED BY <2>5, <2>6, <2>13, <2>14
<1> HIDE DEF g, flows, classes
<1>7. g \in Bijection(flows, classes)
  <2>1. \A t \in classes : \E f \in flows : g[f] = t
    BY <1>5 DEF classes
  <2>2. \A f, h \in flows : g[f] = g[h] => f = h
    <3> HIDE DEF class
    <3> QED BY <1>6
  <2> HIDE DEF class
  <2> QED BY <1>4, <2>1, <2>2 DEF Bijection, Injection, Surjection, IsInjective
<1>8. ExistsBijection(classes, flows)
  <2>1. ExistsBijection(flows, classes)
    BY <1>7 DEF ExistsBijection
  <2> QED BY <2>1, Fun_ExistsBijSymmetric
<1>9. Cardinality(flows) = Cardinality(classes)
  BY <1>1, <1>8, FS_Bijection
<1> QED BY <1>9 DEF flows, classes

\* The flows of any stream of rows that have their own frame numbers.
LEMMA FlowsMatch ==
  ASSUME NEW packets \in Seq(Row), Distinct(packets), NEW partial, NEW quarantined
  PROVE  MatchesReference(packets, partial, quarantined)
<1> DEFINE answer   == ProjectFlows(packets, partial, quarantined)
           eligible == {packets[i] : i \in {j \in DOMAIN packets : Eligible(packets[j])}}
           class(p) == {q \in eligible : SameSession(packets, p, q)}
           times(p) == {q.time : q \in class(p)}
<1>0. PICK E : E = EligibleOf(packets)
  OBVIOUS
<1>1. /\ E \subseteq Row /\ IsFiniteSet(E) /\ Framed(E)
      /\ answer = [seen |-> Len(packets), grouped |-> Cardinality(E),
                   flows |-> FlowsOfSet(E, partial, quarantined)]
  BY <1>0, FlowsAreOfSet
<1>2. eligible = E
  BY <1>0 DEF EligibleOf
<1>3. ProjectFlows(Reverse(packets), partial, quarantined) = answer
  <2>1. PICK r : r = Reverse(packets)
    OBVIOUS
  <2>2. /\ r \in Seq(Row) /\ Distinct(r) /\ Len(r) = Len(packets) /\ EligibleOf(r) = E
    BY <1>0, <2>1, BackwardsTheSame
  <2>3. ProjectFlows(r, partial, quarantined)
          = [seen |-> Len(r), grouped |-> Cardinality(E),
             flows |-> FlowsOfSet(E, partial, quarantined)]
    BY <2>2, FlowsAreOfSet
  <2> HIDE DEF answer
  <2> QED BY <1>1, <2>1, <2>2, <2>3
<1>4. ASSUME NEW p PROVE class(p) = {q \in E : Joined(E, p, q)}
  BY <1>0, <1>2, SessionsOfSet
<1> HIDE DEF answer, eligible, class
<1>5. answer.flows = FlowsOfSet(E, partial, quarantined)
  BY <1>1
<1>6. Cardinality(answer.flows) = Cardinality({class(p) : p \in eligible})
  <2>1. {class(p) : p \in eligible} = {{q \in E : Joined(E, p, q)} : p \in E}
    BY <1>2, <1>4
  <2> QED BY <1>1, <1>5, <2>1, FlowsAreCounted
<1>7. ASSUME NEW p \in eligible
      PROVE  \E f \in answer.flows :
              /\ f.key = PartitionKey(p)
              /\ f.orig + f.resp = Cardinality(class(p))
              /\ f.start \in times(p) /\ f.end \in times(p)
              /\ \A t \in times(p) : f.start <= t /\ t <= f.end
              /\ f.endBasis = "inactivity_gap" <=>
                     \E q \in eligible : /\ PartitionKey(q) = PartitionKey(p)
                                         /\ q.time > f.end
  <2>1. PICK key, s : key = PartitionKey(p) /\ s = Ranked(Peers(E, key))
    OBVIOUS
  <2>2. PICK e \in EndsOf(s) : \E k \in FromOf(s, e) .. e :
              p = s[k] /\ FlowAt(key, s, e, partial, quarantined) \in answer.flows
    BY <1>1, <1>2, <1>5, <1>7, <2>1, FlowsAndPackets
  <2>3. PICK k \in FromOf(s, e) .. e :
              p = s[k] /\ FlowAt(key, s, e, partial, quarantined) \in answer.flows
    BY <2>2
  <2>4. PICK f \in answer.flows : f = FlowAt(key, s, e, partial, quarantined)
    BY <2>3
  <2>5. /\ f.orig + f.resp = Cardinality({q \in E : Joined(E, s[k], q)})
        /\ f.start \in {q.time : q \in {q \in E : Joined(E, s[k], q)}}
        /\ f.end \in {q.time : q \in {q \in E : Joined(E, s[k], q)}}
        /\ \A t \in {q.time : q \in {q \in E : Joined(E, s[k], q)}} : f.start <= t /\ t <= f.end
        /\ f.endBasis = "inactivity_gap" <=> \E q \in E : PartitionKey(q) = key /\ q.time > f.end
    <3>1. PICK c : c = {q \in E : Joined(E, s[k], q)}
      OBVIOUS
    <3>2. /\ f.orig + f.resp = Cardinality(c)
          /\ f.start \in {q.time : q \in c} /\ f.end \in {q.time : q \in c}
          /\ \A t \in {q.time : q \in c} : f.start <= t /\ t <= f.end
          /\ f.endBasis = "inactivity_gap" <=> \E q \in E : PartitionKey(q) = key /\ q.time > f.end
      BY <1>1, <2>1, <2>4, <3>1, FlowIsSession
    <3> QED BY <3>1, <3>2
  <2>6. f.key = key
    <3>1. s \in Seq(Row)
      BY <1>1, <2>1, PartitionIs
    <3> QED BY <2>4, <3>1, FlowOfSegment
  <2>7. class(p) = {q \in E : Joined(E, s[k], q)}
    BY <1>4, <2>3
  <2> QED BY <1>2, <2>1, <2>5, <2>6, <2>7
<1> QED BY <1>3, <1>6, <1>7 DEF MatchesReference, answer, eligible, class

\* The packets of an accepted stream.
LEMMA AcceptedPackets ==
  ASSUME LookInv, FileInv, Accepted(file), NEW read, read = ParseStream(file)
  PROVE  read.packets \in Seq(Row) /\ Distinct(read.packets)
<1>1. pc \in {"write", "returned"}
  BY EmptyIsRefused DEF FileInv
<1>2. ReportOK(report) /\ file \in Seq(LineSet(report))
  BY <1>1, LookOK DEF FileInv
<1>3. read.packets = report.packets
  BY <1>2, AcceptedIsWhole
<1>4. report.packets \in Seq(Row) /\ ByFrame(report.packets)
  BY <1>2 DEF ReportOK
<1>5. Len(report.packets) \in Nat /\ DOMAIN report.packets = 1 .. Len(report.packets)
  BY <1>4, LenProperties
<1>6. ASSUME NEW i \in 1 .. Len(report.packets) PROVE report.packets[i].frame \in Int
  <2>1. report.packets[i] \in Row
    BY <1>4, ElementOfSeq
  <2> QED BY <2>1 DEF Row
<1>7. Distinct(report.packets)
  BY <1>4, <1>5, <1>6 DEF ByFrame, Distinct
<1> QED BY <1>3, <1>4, <1>7

\* The flows of an accepted stream are its sessions, for captures of any length, all
\* inactivity limits and every width of the times.
THEOREM FlowsAreTheSessions == Spec => []FlowsAreSessions
<1>1. LookInv /\ FileInv => FlowsAreSessions
  <2> SUFFICES ASSUME LookInv, FileInv, Accepted(file) PROVE FlowsAreSessions
    BY DEF FlowsAreSessions
  <2>1. PICK read : read = ParseStream(file)
    OBVIOUS
  <2>2. MatchesReference(read.packets, ~Complete(read), read.quarantines # <<>>)
    BY <2>1, AcceptedPackets, FlowsMatch
  <2> QED BY <2>1, <2>2 DEF FlowsAreSessions
<1>2. Init => LookInv /\ FileInv
  BY InitLook, InitFile
<1>3. LookInv /\ FileInv /\ [Next]_vars => (LookInv /\ FileInv)'
  BY NextLook, NextFile
<1> QED BY <1>1, <1>2, <1>3, PTL DEF Spec

\* A flow that is not said to be cut off has nothing of its partition after it.
LEMMA LastOfFlow ==
  ASSUME NEW packets \in Seq(Row), Distinct(packets), NEW partial, NEW quarantined,
         NEW f \in ProjectFlows(packets, partial, quarantined).flows,
         f.endBasis \in {"complete_capture_boundary", "tcp_fin_observed",
                         "tcp_reset_observed"}
  PROVE  /\ ~partial /\ ~quarantined
         /\ \A p \in EligibleOf(packets) : PartitionKey(p) = f.key => p.time <= f.end
<1>0. PICK E : E = EligibleOf(packets)
  OBVIOUS
<1>1. E \subseteq Row /\ IsFiniteSet(E) /\ Framed(E) /\ f \in FlowsOfSet(E, partial, quarantined)
  BY <1>0, FlowsAreOfSet
<1>2. PICK r \in E : \E e \in EndsOf(Ranked(Peers(E, PartitionKey(r)))) :
          f = FlowAt(PartitionKey(r), Ranked(Peers(E, PartitionKey(r))), e, partial, quarantined)
  BY <1>1, FlowsAndPackets
<1>3. PICK key, s : key = PartitionKey(r) /\ s = Ranked(Peers(E, key))
  OBVIOUS
<1>4. PICK e \in EndsOf(s) : f = FlowAt(key, s, e, partial, quarantined)
  BY <1>2, <1>3
<1>5. s \in Seq(Row) /\ InOrder(s) /\ Peers(E, key) = {s[i] : i \in 1 .. Len(s)}
  BY <1>1, <1>3, PartitionIs
<1>6. f.key = key /\ f.end = s[e].time /\ e = Len(s) /\ ~partial /\ ~quarantined
  BY <1>4, <1>5, FlowOfSegment
<1>7. ASSUME NEW p \in E, PartitionKey(p) = f.key PROVE p.time <= f.end
  <2>1. PICK i \in 1 .. Len(s) : p = s[i]
    BY <1>5, <1>6, <1>7 DEF Peers
  <2>2. e \in 1 .. Len(s) /\ i <= e
    BY <1>6 DEF EndsOf
  <2> QED BY <1>5, <1>6, <2>1, <2>2, NotLater
<1> QED BY <1>0, <1>6, <1>7

\* An absence that triage claims of a stream is one of the capture, for captures of
\* any length, all packet limits and trailing windows, whether or not the receipt
\* was kept and whatever happened to the file before it was accepted; and a flow that
\* is said to end with the capture ends in all of it.
THEOREM AbsencesAreOfCaptures == Spec => []ClaimsHoldOfCapture
<1>1. LookInv /\ FileInv => ClaimsHoldOfCapture
  <2> SUFFICES ASSUME LookInv, FileInv, Accepted(file) PROVE ClaimsHoldOfCapture
    BY DEF ClaimsHoldOfCapture
  <2>0. PICK read : read = ParseStream(file)
    OBVIOUS
  <2> DEFINE all == {artifact[i] : i \in DOMAIN artifact}
  <2>1. /\ artifact \in Seq(Row) /\ read.manifest.capture = artifact
        /\ Complete(read) => /\ read.packets = artifact
                             /\ \A i \in DOMAIN artifact : artifact[i].shape # "broken"
        /\ read.receipt = None \/ read.receipt.extent = EventWindow(artifact)
    BY <2>0, CompleteIsWhole
  <2>2. ASSUME Complete(read) PROVE Range(read.packets) = all
    BY <2>1, <2>2 DEF Range
  <2>3. ASSUME NEW row \in all
        PROVE  /\ row \in Row
               /\ Complete(read) => row.shape # "broken"
    <3>1. PICK i \in DOMAIN artifact : row = artifact[i]
      OBVIOUS
    <3>2. i \in 1 .. Len(artifact)
      BY <2>1, LenProperties
    <3>3. artifact[i] \in Row
      BY <2>1, <3>2, ElementOfSeq
    <3> QED BY <2>1, <3>1, <3>3
  <2> HIDE DEF all
  <2>4. ASSUME ClaimScope(read) = "complete_capture", WlanTriage(read) # "observed",
               NEW row \in all
        PROVE  row.shape # "broken" /\ "disconnect" \notin row.flags
    <3>1. Complete(read)
      BY <2>4 DEF ClaimScope
    <3>2. ~(row.shape = "wlan" /\ "disconnect" \in row.flags)
      BY <2>2, <2>4, <3>1 DEF WlanTriage
    <3>3. row.shape \in {"ip", "wlan", "broken"} /\ (row.shape = "ip" => "disconnect" \notin row.flags)
      BY <2>3, <2>4 DEF Row
    <3> QED BY <2>3, <2>4, <3>1, <3>2, <3>3
  <2>5. ASSUME ConversationTriage(read) = "unsupported", NEW row \in all
        PROVE  row.shape # "broken" /\ ~Candidate(row)
    <3>1. Complete(read) /\ DOMAIN Conversations(Range(read.packets)) = {}
      BY <2>5 DEF ConversationTriage
    <3>2. row \in Range(read.packets)
      BY <2>2, <2>5, <3>1
    <3> QED BY <2>3, <2>5, <3>1, <3>2, NoConversation
  <2>6. ASSUME NEW d \in Durations, TrailingTriage(read, d) = "not_observed"
        PROVE  /\ Earliest(artifact) <= Latest(artifact) - d
               /\ \A row \in all : row.time \in Latest(artifact) - d .. Latest(artifact) =>
                     row.shape # "broken" /\ ~Candidate(row)
    <3> DEFINE anchor   == Anchor(read)
               selected == {p \in Range(read.packets) :
                               anchor # None /\ p.time \in anchor - d .. anchor}
    <3>1. DOMAIN Conversations(selected) = {} /\ AbstentionReasons(read, d) = {}
      BY <2>6 DEF TrailingTriage
    <3>2. /\ read.packets # <<>> /\ Complete(read) /\ read.receipt # None
          /\ ReceiptExtent(read) # None
          /\ ~(ReceiptExtent(read).earliest > Anchor(read) - d)
      BY <3>1, NoAbstention
    <3>3. artifact # <<>>
      BY <2>1, <3>2
    <3>4. ReceiptExtent(read) = [earliest |-> Earliest(artifact), latest |-> Latest(artifact)]
      BY <2>1, <3>2, <3>3 DEF ReceiptExtent, EventWindow
    <3>5. Anchor(read) = Latest(artifact) /\ ReceiptExtent(read).earliest = Earliest(artifact)
      BY <3>2, <3>4 DEF Anchor
    <3>6. Earliest(artifact) \in Int /\ Latest(artifact) \in Int /\ d \in Int
      BY <2>1, <3>3, EarliestLatest, BoundsAssumption
    <3>7. Earliest(artifact) <= Latest(artifact) - d
      BY <3>2, <3>5, <3>6
    <3>8. ASSUME NEW row \in all, row.time \in Latest(artifact) - d .. Latest(artifact)
          PROVE  row.shape # "broken" /\ ~Candidate(row)
      <4>1. row \in Range(read.packets)
        BY <2>2, <3>2, <3>8
      <4>2. Latest(artifact) # None
        BY <3>6, NoneAssumption
      <4>3. row \in selected
        BY <3>5, <3>8, <4>1, <4>2
      <4> QED BY <2>3, <3>1, <3>2, <3>8, <4>3, NoConversation
    <3> QED BY <3>7, <3>8
  <2>7. ASSUME NEW f \in ProjectFlows(read.packets, ~Complete(read),
                                      read.quarantines # <<>>).flows,
               f.endBasis \in {"complete_capture_boundary", "tcp_fin_observed",
                               "tcp_reset_observed"},
               NEW row \in all
        PROVE  /\ row.shape # "broken"
               /\ Eligible(row) /\ PartitionKey(row) = f.key => row.time <= f.end
    <3>1. /\ Complete(read)
          /\ \A p \in EligibleOf(read.packets) : PartitionKey(p) = f.key => p.time <= f.end
      BY <2>0, <2>7, AcceptedPackets, LastOfFlow
    <3>2. Eligible(row) => row \in EligibleOf(read.packets)
      BY <2>1, <3>1 DEF EligibleOf, all
    <3> QED BY <2>3, <2>7, <3>1, <3>2
  <2> QED BY <2>0, <2>1, <2>4, <2>5, <2>6, <2>7 DEF ClaimsHoldOfCapture, all
<1>2. Init => LookInv /\ FileInv
  BY InitLook, InitFile
<1>3. LookInv /\ FileInv /\ [Next]_vars => (LookInv /\ FileInv)'
  BY NextLook, NextFile
<1> QED BY <1>1, <1>2, <1>3, PTL DEF Spec
=============================================================================
