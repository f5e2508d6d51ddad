--------------------------- MODULE ScenarioProofs ---------------------------
(***************************************************************************)
(* What the receipts of a loaded scenario rest on, for every manifest,     *)
(* whatever the files are and however often they are replaced while the    *)
(* directory is read.                                                      *)
(*                                                                         *)
(* The inductive invariant is short: a bundle is loaded only with the very *)
(* files that its manifest declares, and only when the shape and the       *)
(* closure of the manifest hold.  That the receipts and the inputs are     *)
(* then right is a matter of the folds that make them.                     *)
(***************************************************************************)
EXTENDS ScenarioReplay, TLAPS, WellFoundedInduction, SequenceTheorems, FiniteSetTheorems

----------------------------------------------------------------------------
(* Numbers and folds.                                                      *)

LEMMA UpTo ==
  ASSUME NEW n \in Nat, NEW T, 0 \in T, \A k \in 1 .. n : k - 1 \in T => k \in T
  PROVE  \A k \in 0 .. n : k \in T
<1> DEFINE Bad == {k \in 0 .. n : k \notin T}
<1>1. ASSUME Bad # {} PROVE FALSE
  <2>0. Bad \subseteq Nat
    OBVIOUS
  <2> HIDE DEF Bad
  <2>1. IsWellFoundedOn(OpToRel(<, Nat), Nat)
    BY NatLessThanWellFounded, Zenon
  <2>2. PICK k \in Bad : \A m \in Bad : ~ (<<m, k>> \in OpToRel(<, Nat))
    BY <1>1, <2>0, <2>1, WFMin, Zenon
  <2>3. \A m \in Bad : ~ (m < k)
    BY <2>0, <2>2 DEF OpToRel
  <2> USE DEF Bad
  <2>4. k # 0 /\ k \in 1 .. n /\ k - 1 \in 0 .. n
    OBVIOUS
  <2>5. k - 1 \in T
    BY <2>3, <2>4
  <2> QED BY <2>4, <2>5
<1> QED BY <1>1

LEMMA MaxOfPrefix ==
  ASSUME NEW k \in Nat, NEW s, s \subseteq 1 .. k + 1, k + 1 \in s
  PROVE  Max(s) = k + 1
<1>1. \A y \in s : k + 1 >= y
  OBVIOUS
<1>2. \A x \in s : (\A y \in s : x >= y) => x = k + 1
  BY <1>1
<1> QED BY <1>1, <1>2 DEF Max

----------------------------------------------------------------------------
(* The references up to a checkpoint.                                      *)

LEMMA FlattenRun ==
  ASSUME NEW S, NEW seqs \in Seq(S), Len(seqs) # 0
  PROVE  \E h : /\ h[1] = seqs[1]
                /\ \A i \in 2 .. Len(seqs) : h[i] = h[i - 1] \o seqs[i]
                /\ FlattenSeq(seqs) = h[Len(seqs)]
<1> DEFINE n == Len(seqs)
           Of(f, i) == IF i = 1 THEN seqs[i] ELSE f[i - 1] \o seqs[i]
           Runs(k) == \E f : f = [i \in 1 .. k |-> Of(f, i)]
           T == {k \in Nat : Runs(k)}
<1>0. n \in Nat
  OBVIOUS
<1>1. Runs(0)
  <2> DEFINE e == [i \in 1 .. 0 |-> 0]
  <2>1. e = [i \in 1 .. 0 |-> Of(e, i)]
    OBVIOUS
  <2> QED BY <2>1
<1>2. ASSUME NEW k \in 1 .. n, Runs(k - 1) PROVE Runs(k)
  <2>1. PICK f : f = [i \in 1 .. k - 1 |-> Of(f, i)]
    BY <1>2
  <2> DEFINE g == [i \in 1 .. k |-> IF i = k THEN Of(f, k) ELSE f[i]]
  <2>2. ASSUME NEW i \in 1 .. k PROVE g[i] = Of(g, i)
    <3>1. CASE i = 1
      <4>1. CASE k = 1
        BY <3>1, <4>1
      <4>2. CASE k # 1
        <5>1. i \in 1 .. k - 1
          BY <3>1, <4>2
        <5>2. g[i] = f[i] /\ f[i] = seqs[i]
          BY <2>1, <3>1, <4>2, <5>1
        <5> QED BY <3>1, <5>2
      <4> QED BY <4>1, <4>2
    <3>2. CASE i # 1
      <4>1. i - 1 \in 1 .. k /\ i - 1 # k
        BY <3>2
      <4>2. g[i - 1] = f[i - 1]
        BY <4>1
      <4>3. i # k => i \in 1 .. k - 1
        OBVIOUS
      <4>4. g[i] = Of(f, i)
        BY <2>1, <4>3
      <4> HIDE DEF g
      <4> QED BY <3>2, <4>2, <4>4
    <3> QED BY <3>1, <3>2
  <2>3. g = [i \in 1 .. k |-> g[i]]
    OBVIOUS
  <2> HIDE DEF g, Of
  <2>4. g = [i \in 1 .. k |-> Of(g, i)]
    BY <2>2, <2>3
  <2> QED BY <2>4
<1>3. Runs(n)
  <2> HIDE DEF Runs
  <2>1. \A k \in 1 .. n : k - 1 \in T => k \in T
    BY <1>0, <1>2
  <2>2. 0 \in T
    BY <1>1
  <2> HIDE DEF T
  <2>3. \A k \in 0 .. n : k \in T
    BY <1>0, <2>1, <2>2, UpTo
  <2> USE DEF T
  <2> QED BY <1>0, <2>3
<1> DEFINE h == CHOOSE f : f = [i \in 1 .. n |-> Of(f, i)]
<1>4. h = [i \in 1 .. n |-> Of(h, i)]
  BY <1>3
<1>5. FlattenSeq(seqs) = h[n]
  BY DEF FlattenSeq
<1> HIDE DEF h
<1>6. \A i \in 1 .. n : h[i] = Of(h, i)
  BY <1>4
<1>7. h[1] = seqs[1] /\ \A i \in 2 .. n : h[i] = h[i - 1] \o seqs[i]
  <2>1. 1 \in 1 .. n /\ \A i \in 2 .. n : i \in 1 .. n /\ i # 1
    BY <1>0
  <2> QED BY <1>6, <2>1, Zenon
<1> QED BY <1>5, <1>7

LEMMA ConcatParts ==
  ASSUME NEW S, NEW s \in Seq(S), NEW t \in Seq(S)
  PROVE  /\ s \o t \in Seq(S) /\ Range(s \o t) = Range(s) \cup Range(t)
         /\ Distinct(s \o t) => Distinct(s) /\ Range(s) \cap Range(t) = {}
<1> DEFINE u == s \o t
           a == Len(s)
           b == Len(t)
<1>1. /\ u \in Seq(S) /\ a \in Nat /\ b \in Nat /\ Len(u) = a + b
      /\ DOMAIN u = 1 .. a + b /\ DOMAIN s = 1 .. a /\ DOMAIN t = 1 .. b
      /\ \A i \in 1 .. a : u[i] = s[i]
      /\ \A i \in 1 .. b : u[a + i] = t[i]
  OBVIOUS
<1> HIDE DEF u, a, b
<1>2. \A i \in 1 .. a + b : i \in 1 .. a \/ (i - a \in 1 .. b /\ i = a + (i - a))
  BY <1>1
<1>3. /\ \A i \in 1 .. a : i \in 1 .. a + b
      /\ \A i \in 1 .. b : a + i \in 1 .. a + b
      /\ \A i \in 1 .. a : \A j \in 1 .. b : i # a + j
  BY <1>1
<1>4. Range(u) = Range(s) \cup Range(t)
  <2>1. ASSUME NEW x \in Range(u) PROVE x \in Range(s) \cup Range(t)
    <3>1. PICK i \in 1 .. a + b : x = u[i]
      BY <1>1, <2>1 DEF Range
    <3>2. CASE i \in 1 .. a
      BY <1>1, <3>1, <3>2 DEF Range
    <3>3. CASE i - a \in 1 .. b /\ i = a + (i - a)
      <4>1. x = t[i - a]
        BY <1>1, <3>1, <3>3
      <4> QED BY <1>1, <3>3, <4>1 DEF Range
    <3> QED BY <1>2, <3>2, <3>3
  <2>2. ASSUME NEW x \in Range(s) \cup Range(t) PROVE x \in Range(u)
    BY <1>1, <1>3, <2>2 DEF Range
  <2> QED BY <2>1, <2>2
<1>5. ASSUME Distinct(u) PROVE Distinct(s) /\ Range(s) \cap Range(t) = {}
  <2>1. Distinct(s)
    BY <1>1, <1>3, <1>5 DEF Distinct
  <2>2. ASSUME NEW i \in 1 .. a, NEW j \in 1 .. b, s[i] = t[j] PROVE FALSE
    BY <1>1, <1>3, <1>5, <2>2 DEF Distinct
  <2> QED BY <1>1, <2>1, <2>2 DEF Range
<1> QED BY <1>1, <1>4, <1>5 DEF u

\* Flattening keeps the elements of every sequence and no others.
LEMMA FlattenIs ==
  ASSUME NEW S, NEW seqs \in Seq(Seq(S))
  PROVE  /\ FlattenSeq(seqs) \in Seq(S)
         /\ \A x : x \in Range(FlattenSeq(seqs)) <=>
                     \E i \in DOMAIN seqs : x \in Range(seqs[i])
         /\ Distinct(FlattenSeq(seqs)) =>
              \A i, j \in DOMAIN seqs : i # j => Range(seqs[i]) \cap Range(seqs[j]) = {}
<1> DEFINE n == Len(seqs)
<1>0. n \in Nat /\ DOMAIN seqs = 1 .. n /\ \A i \in 1 .. n : seqs[i] \in Seq(S)
  OBVIOUS
<1>1. CASE n = 0
  <2>1. seqs = <<>> /\ FlattenSeq(seqs) = seqs
    BY <1>1 DEF FlattenSeq
  <2>2. Range(FlattenSeq(seqs)) = {} /\ DOMAIN seqs = {}
    BY <2>1 DEF Range
  <2>3. FlattenSeq(seqs) \in Seq(S)
    <3>1. <<>> \in Seq(S)
      OBVIOUS
    <3> QED BY <2>1, <3>1, Zenon
  <2> QED BY <2>2, <2>3, Zenon
<1>2. CASE n # 0
  <2>1. PICK h : /\ h[1] = seqs[1]
                 /\ \A i \in 2 .. n : h[i] = h[i - 1] \o seqs[i]
                 /\ FlattenSeq(seqs) = h[n]
    BY <1>2, FlattenRun
  <2> DEFINE Good(i) ==
               /\ h[i] \in Seq(S)
               /\ \A x : x \in Range(h[i]) <=> \E j \in 1 .. i : x \in Range(seqs[j])
               /\ Distinct(h[i]) =>
                    \A a, b \in 1 .. i : a # b => Range(seqs[a]) \cap Range(seqs[b]) = {}
             T == {k \in Nat : k = 0 \/ Good(k)}
  <2>2. Good(1)
    BY <1>0, <1>2, <2>1
  <2>3. ASSUME NEW k \in 2 .. n, Good(k - 1) PROVE Good(k)
    <3> HIDE DEF n
    <3>0. k \in 1 .. n /\ k \in Nat
      BY <1>0
    <3>1. /\ h[k] = h[k - 1] \o seqs[k] /\ seqs[k] \in Seq(S)
          /\ \A j \in 1 .. k : j = k \/ j \in 1 .. k - 1
          /\ \A j \in 1 .. k - 1 : j \in 1 .. k
      <4> HIDE DEF Good
      <4>1. h[k] = h[k - 1] \o seqs[k] /\ seqs[k] \in Seq(S)
        BY <1>0, <2>1, <3>0
      <4> QED BY <3>0, <4>1
    <3>2. /\ h[k] \in Seq(S)
          /\ Range(h[k]) = Range(h[k - 1]) \cup Range(seqs[k])
          /\ Distinct(h[k]) => /\ Distinct(h[k - 1])
                               /\ Range(h[k - 1]) \cap Range(seqs[k]) = {}
      BY <2>3, <3>1, ConcatParts
    <3>3. ASSUME NEW x PROVE x \in Range(h[k]) <=> \E j \in 1 .. k : x \in Range(seqs[j])
      <4>1. (\E j \in 1 .. k : x \in Range(seqs[j])) <=>
              (x \in Range(seqs[k]) \/ \E j \in 1 .. k - 1 : x \in Range(seqs[j]))
        BY <3>1
      <4> QED BY <2>3, <3>2, <4>1
    <3>4. ASSUME Distinct(h[k]), NEW a \in 1 .. k, NEW b \in 1 .. k, a # b
          PROVE  Range(seqs[a]) \cap Range(seqs[b]) = {}
      <4>1. CASE a \in 1 .. k - 1 /\ b \in 1 .. k - 1
        BY <2>3, <3>2, <3>4, <4>1
      <4>2. CASE a = k \/ b = k
        BY <2>3, <3>1, <3>2, <3>4, <4>2
      <4> QED BY <3>1, <4>1, <4>2
    <3> QED BY <3>2, <3>3, <3>4
  <2>4. Good(n)
    <3> HIDE DEF Good
    <3>1. ASSUME NEW k \in 1 .. n, k - 1 \in T PROVE k \in T
      <4>1. CASE k = 1
        BY <2>2, <4>1
      <4>2. CASE k # 1
        <5>1. k \in 2 .. n /\ k - 1 # 0
          BY <4>2, <1>0
        <5> QED BY <2>3, <3>1, <5>1, <1>0
      <4> QED BY <4>1, <4>2
    <3>2. 0 \in T
      OBVIOUS
    <3>3. \A k \in 1 .. n : k - 1 \in T => k \in T
      BY <3>1
    <3> HIDE DEF T, n
    <3>4. \A k \in 0 .. n : k \in T
      BY <1>0, <3>2, <3>3, UpTo
    <3>5. n \in T
      BY <1>0, <3>4
    <3> USE DEF T
    <3> QED BY <1>2, <3>5
  <2> QED BY <1>0, <2>1, <2>4
<1> QED BY <1>1, <1>2

References(m) == UNION {Range(m.timeline[i].ingest) : i \in DOMAIN m.timeline}

LEMMA SeqIn ==
  ASSUME NEW s, NEW S, s \in Seq(Range(s)), Range(s) \subseteq S PROVE s \in Seq(S)
<1>1. DOMAIN s = 1 .. Len(s) /\ Len(s) \in Nat /\ s = [i \in 1 .. Len(s) |-> s[i]]
  OBVIOUS
<1>2. \A i \in 1 .. Len(s) : s[i] \in S
  BY <1>1 DEF Range
<1> QED BY <1>1, <1>2

LEMMA TimelineTypes ==
  ASSUME NEW m \in Manifests
  PROVE  /\ Len(m.timeline) \in Nat /\ DOMAIN m.timeline = 1 .. Len(m.timeline)
         /\ Len(m.artifacts) \in Nat /\ DOMAIN m.artifacts = 1 .. Len(m.artifacts)
         /\ \A i \in DOMAIN m.timeline : m.timeline[i].ingest \in Seq(References(m))
<1>1. IsTuple(m.artifacts) /\ IsTuple(m.timeline)
  BY ManifestsAssumption
<1>2. ASSUME NEW i \in DOMAIN m.timeline PROVE m.timeline[i].ingest \in Seq(References(m))
  <2>1. m.timeline[i].ingest \in Seq(Range(m.timeline[i].ingest))
    BY ManifestsAssumption DEF IsTuple
  <2>2. Range(m.timeline[i].ingest) \subseteq References(m)
    BY DEF References
  <2> QED BY <2>1, <2>2, SeqIn
<1> QED BY <1>1, <1>2 DEF IsTuple

\* What has been ingested by a checkpoint is what the checkpoints up to it bring.
LEMMA IngestedByIs ==
  ASSUME NEW m \in Manifests, NEW k \in 0 .. Len(m.timeline)
  PROVE  /\ IngestedBy(m, k) \in Seq(References(m))
         /\ \A x : x \in Range(IngestedBy(m, k)) <=>
                     \E i \in 1 .. k : x \in Range(m.timeline[i].ingest)
         /\ Distinct(IngestedBy(m, k)) =>
              \A i, j \in 1 .. k :
                 i # j => Range(m.timeline[i].ingest) \cap Range(m.timeline[j].ingest) = {}
<1> DEFINE seqs == [i \in 1 .. k |-> m.timeline[i].ingest]
<1>1. k \in Nat /\ \A i \in 1 .. k : i \in DOMAIN m.timeline
  BY TimelineTypes
<1>2. /\ seqs \in Seq(Seq(References(m))) /\ DOMAIN seqs = 1 .. k
      /\ \A i \in 1 .. k : seqs[i] = m.timeline[i].ingest
  <2>1. \A i \in 1 .. k : m.timeline[i].ingest \in Seq(References(m))
    BY <1>1, TimelineTypes
  <2> QED BY <1>1, <2>1
<1>3. IngestedBy(m, k) = FlattenSeq(seqs)
  BY DEF IngestedBy
<1> HIDE DEF seqs
<1>4. /\ FlattenSeq(seqs) \in Seq(References(m))
      /\ \A x : x \in Range(FlattenSeq(seqs)) <=>
                  \E i \in DOMAIN seqs : x \in Range(seqs[i])
      /\ Distinct(FlattenSeq(seqs)) =>
           \A i, j \in DOMAIN seqs : i # j => Range(seqs[i]) \cap Range(seqs[j]) = {}
  BY <1>2, FlattenIs
<1>5. ASSUME NEW x
      PROVE  x \in Range(IngestedBy(m, k)) <=>
               \E i \in 1 .. k : x \in Range(m.timeline[i].ingest)
  <2>1. x \in Range(IngestedBy(m, k)) <=> \E i \in 1 .. k : x \in Range(seqs[i])
    BY <1>2, <1>3, <1>4
  <2> QED BY <1>2, <2>1
<1>6. ASSUME Distinct(IngestedBy(m, k)), NEW i \in 1 .. k, NEW j \in 1 .. k, i # j
      PROVE  Range(m.timeline[i].ingest) \cap Range(m.timeline[j].ingest) = {}
  <2>1. Range(seqs[i]) \cap Range(seqs[j]) = {}
    BY <1>2, <1>3, <1>4, <1>6
  <2> QED BY <1>2, <2>1
<1> QED BY <1>3, <1>4, <1>5, <1>6

\* The prefix that a checkpoint has seen, by the checkpoints its references arrive at.
LEMMA ArrivesOnce ==
  ASSUME NEW m \in Manifests, Distinct(Ingested(m)), NEW r
  PROVE  /\ \A i \in DOMAIN m.timeline :
              r \in Range(m.timeline[i].ingest) => ArrivesAt(m, r) = i
         /\ r \in Range(Ingested(m)) =>
              /\ ArrivesAt(m, r) \in DOMAIN m.timeline
              /\ \A k \in DOMAIN m.timeline :
                    r \in Range(IngestedBy(m, k)) <=> ArrivesAt(m, r) <= k
<1> DEFINE n == Len(m.timeline)
<1>0. n \in Nat /\ DOMAIN m.timeline = 1 .. n /\ Ingested(m) = IngestedBy(m, n) /\ n \in 0 .. n
  BY TimelineTypes DEF Ingested
<1> HIDE DEF n
<1>1. \A i, j \in 1 .. n :
        i # j => Range(m.timeline[i].ingest) \cap Range(m.timeline[j].ingest) = {}
  <2>1. Distinct(IngestedBy(m, n))
    BY <1>0
  <2> QED BY <1>0, <2>1, IngestedByIs DEF n
<1>2. ASSUME NEW i \in 1 .. n, r \in Range(m.timeline[i].ingest) PROVE ArrivesAt(m, r) = i
  <2>1. \A j \in 1 .. n : r \in Range(m.timeline[j].ingest) => j = i
    BY <1>1, <1>2
  <2> QED BY <1>0, <1>2, <2>1 DEF ArrivesAt
<1>3. ASSUME r \in Range(Ingested(m))
      PROVE  /\ ArrivesAt(m, r) \in 1 .. n
             /\ \A k \in 1 .. n : r \in Range(IngestedBy(m, k)) <=> ArrivesAt(m, r) <= k
  <2>1. PICK i \in 1 .. n : r \in Range(m.timeline[i].ingest)
    BY <1>0, <1>3, IngestedByIs DEF n
  <2>2. ArrivesAt(m, r) = i
    BY <1>2, <2>1
  <2>3. ASSUME NEW k \in 1 .. n PROVE r \in Range(IngestedBy(m, k)) <=> i <= k
    <3>1. r \in Range(IngestedBy(m, k)) <=> \E j \in 1 .. k : r \in Range(m.timeline[j].ingest)
      <4>1. k \in 0 .. n
        BY <1>0
      <4> QED BY <4>1, IngestedByIs DEF n
    <3>2. \A j \in 1 .. n : r \in Range(m.timeline[j].ingest) => j = i
      BY <1>2, <2>2
    <3>3. \A j \in 1 .. k : j \in 1 .. n
      BY <1>0
    <3>4. i <= k <=> i \in 1 .. k
      BY <1>0
    <3> QED BY <2>1, <3>1, <3>2, <3>3, <3>4
  <2> QED BY <2>2, <2>3
<1> QED BY <1>0, <1>2, <1>3

----------------------------------------------------------------------------
(* Loading.                                                                *)

Digests(m) == {a.digest : a \in Range(m.artifacts)}

\* What has been read is what the manifest declares, from the first artifact on.
AsDeclared(m, arts) ==
  /\ arts \in Seq(Digests(m)) /\ Len(arts) <= Len(m.artifacts)
  /\ \A i \in 1 .. Len(arts) :
        arts[i] = m.artifacts[i].digest /\ arts[i].kind = m.artifacts[i].kind

LoadInv ==
  /\ manifest \in Manifests
  /\ AsDeclared(manifest, loaded)
  /\ pc \in {"list", "read", "loaded"} => ShapeHolds(manifest)
  /\ pc = "loaded" => /\ Len(loaded) = Len(manifest.artifacts)
                      /\ ClosureHolds(manifest, loaded)

LEMMA InitLoad == Init => LoadInv
<1> SUFFICES ASSUME Init PROVE LoadInv
  OBVIOUS
<1>1. manifest \in Manifests /\ loaded = <<>> /\ pc = "manifest"
  BY DEF Init
<1>2. Len(manifest.artifacts) \in Nat
  BY <1>1, TimelineTypes
<1>3. loaded \in Seq(Digests(manifest)) /\ Len(loaded) = 0
  BY <1>1
<1>4. AsDeclared(manifest, loaded)
  BY <1>2, <1>3 DEF AsDeclared
<1> QED BY <1>1, <1>4 DEF LoadInv

LEMMA NextLoad == LoadInv /\ [Next]_vars => LoadInv'
<1> SUFFICES ASSUME LoadInv, [Next]_vars PROVE LoadInv'
  OBVIOUS
<1>1. CASE ReadManifest
  BY <1>1 DEF ReadManifest, LoadInv
<1>2. CASE ListFiles
  BY <1>2 DEF ListFiles, LoadInv
<1>3. CASE ReadArtifact
  <2> DEFINE a == manifest.artifacts[Len(loaded) + 1]
             new == Append(loaded, a.digest)
             n == Len(manifest.artifacts)
  <2>1. manifest \in Manifests /\ UNCHANGED manifest /\ pc = "read" /\ ShapeHolds(manifest)
    BY <1>3 DEF ReadArtifact, LoadInv
  <2>2. /\ n \in Nat /\ DOMAIN manifest.artifacts = 1 .. n
        /\ loaded \in Seq(Digests(manifest)) /\ Len(loaded) \in Nat /\ Len(loaded) < n
        /\ \A i \in 1 .. Len(loaded) : /\ loaded[i] = manifest.artifacts[i].digest
                                       /\ loaded[i].kind = manifest.artifacts[i].kind
    <3>1. AsDeclared(manifest, loaded) /\ Len(loaded) < n
      BY <1>3 DEF ReadArtifact, LoadInv
    <3> QED BY <2>1, <3>1, TimelineTypes DEF AsDeclared
  <2>3. CASE UNCHANGED loaded /\ pc' = "refused"
    BY <2>1, <2>3 DEF LoadInv
  <2>4. CASE loaded' = new /\ a.digest.kind = a.kind /\ pc' = pc
    <3> HIDE DEF n
    <3>1. Len(loaded) + 1 \in 1 .. n
      BY <2>2
    <3>2. a.digest \in Digests(manifest)
      BY <2>2, <3>1 DEF Digests, Range
    <3> HIDE DEF a
    <3>3. /\ new \in Seq(Digests(manifest)) /\ Len(new) = Len(loaded) + 1
          /\ \A i \in 1 .. Len(loaded) : new[i] = loaded[i]
          /\ new[Len(loaded) + 1] = a.digest
      BY <2>2, <3>2, AppendProperties
    <3> HIDE DEF new
    <3>4. ASSUME NEW i \in 1 .. Len(new)
          PROVE  /\ new[i] = manifest.artifacts[i].digest
                 /\ new[i].kind = manifest.artifacts[i].kind
      <4>1. CASE i = Len(loaded) + 1
        BY <2>4, <3>3, <4>1 DEF a
      <4>2. CASE i # Len(loaded) + 1
        BY <2>2, <3>3, <4>2
      <4> QED BY <4>1, <4>2
    <3>5. AsDeclared(manifest, new)
      BY <2>2, <3>1, <3>3, <3>4 DEF AsDeclared, n
    <3> QED BY <2>1, <2>4, <3>5 DEF LoadInv
  <2> QED BY <1>3, <2>3, <2>4 DEF ReadArtifact
<1>4. CASE Close
  BY <1>4 DEF Close, LoadInv
<1>5. CASE Swap
  BY <1>5 DEF Swap, LoadInv
<1>6. CASE Finished \/ UNCHANGED vars
  BY <1>6 DEF Finished, vars, LoadInv
<1> QED BY <1>1, <1>2, <1>3, <1>4, <1>5, <1>6 DEF Next

LEMMA LoadInvariance == Spec => []LoadInv
BY InitLoad, NextLoad, PTL DEF Spec

----------------------------------------------------------------------------
(* Receipts.                                                               *)

LEMMA ShapeFacts ==
  ASSUME NEW m \in Manifests, ShapeHolds(m)
  PROVE  /\ Distinct(Ingested(m))
         /\ \A i, j \in DOMAIN m.artifacts : m.artifacts[i].id = m.artifacts[j].id => i = j
         /\ \A c \in m.coverage \cup m.conclusions :
              CheckpointIndex(m, c.checkpoint) \in DOMAIN m.timeline
         /\ \A c \in m.conclusions : \A id \in c.coverage : \E d \in m.coverage : d.id = id
<1> DEFINE ids   == [i \in DOMAIN m.artifacts |-> m.artifacts[i].id]
           names == [i \in DOMAIN m.timeline |-> m.timeline[i].name]
<1>1. /\ Distinct(Ingested(m)) /\ Distinct(ids)
      /\ \A c \in m.coverage \cup m.conclusions : c.checkpoint \in Range(names)
      /\ \A c \in m.conclusions : \A id \in c.coverage : \E d \in m.coverage : d.id = id
  BY DEF ShapeHolds
<1>2. \A i, j \in DOMAIN m.artifacts : m.artifacts[i].id = m.artifacts[j].id => i = j
  BY <1>1 DEF Distinct
<1>3. ASSUME NEW name \in Range(names) PROVE CheckpointIndex(m, name) \in DOMAIN m.timeline
  BY <1>3 DEF CheckpointIndex, Range
<1> QED BY <1>1, <1>2, <1>3

\* A set of one number has no second.
LEMMA OnlyOne ==
  ASSUME NEW n \in Nat, NEW S \in SUBSET (1 .. n), Cardinality(S) = 1,
         NEW x \in S, NEW y \in S
  PROVE  x = y
<1>1. 1 \in Int /\ n \in Int
  OBVIOUS
<1>2. IsFiniteSet(1 .. n)
  BY <1>1, FS_Interval
<1>3. IsFiniteSet(S)
  BY <1>2, FS_Subset
<1>4. PICK z : S = {z}
  BY <1>3, FS_Singleton
<1> QED BY <1>4

ConclusionsAt(m, k) == {c \in m.conclusions : CheckpointIndex(m, c.checkpoint) = k}

CapturesBy(m, k) ==
  {r[1] : r \in {f \in Range(IngestedBy(m, k)) : OfKind(m, f, "capture")}}

LEMMA PastOnly ==
  ASSUME NEW m \in Manifests, ShapeHolds(m),
         NEW arts, DOMAIN arts = DOMAIN m.artifacts, ClosureHolds(m, arts),
         NEW k \in DOMAIN m.timeline
  PROVE  /\ \A c \in ConclusionsAt(m, k) \cup CoverageAt(m, k) :
               c.evidence \subseteq Range(IngestedBy(m, k))
         /\ \A c \in ConclusionsAt(m, k) : c.coverage \subseteq {d.id : d \in CoverageAt(m, k)}
         /\ \A a \in CapturesBy(m, k) :
               {r \in Available(m, arts) : r[1] = a} \subseteq Range(IngestedBy(m, k))
<1> DEFINE n == Len(m.timeline)
<1>0. n \in Nat /\ DOMAIN m.timeline = 1 .. n
  BY TimelineTypes
<1>1. /\ Available(m, arts) = Range(Ingested(m))
      /\ \A i \in DOMAIN arts : m.artifacts[i].kind = "capture" => ArrivesWhole(m, arts, i)
      /\ \A c \in m.coverage \cup m.conclusions :
            EvidenceAvailable(m, c.evidence, CheckpointIndex(m, c.checkpoint))
      /\ \A c \in m.conclusions : \A d \in m.coverage :
            d.id \in c.coverage =>
              CheckpointIndex(m, d.checkpoint) <= CheckpointIndex(m, c.checkpoint)
  BY DEF ClosureHolds
<1>2. \A r \in Range(Ingested(m)) :
        /\ ArrivesAt(m, r) \in 1 .. n
        /\ r \in Range(IngestedBy(m, k)) <=> ArrivesAt(m, r) <= k
  BY <1>0, ShapeFacts, ArrivesOnce
<1> HIDE DEF n
<1>3. ASSUME NEW c \in ConclusionsAt(m, k) \cup CoverageAt(m, k)
      PROVE  c.evidence \subseteq Range(IngestedBy(m, k))
  <2> DEFINE at == CheckpointIndex(m, c.checkpoint)
  <2>1. c \in m.coverage \cup m.conclusions /\ at <= k
    BY <1>0 DEF CoverageAt, ConclusionsAt
  <2>2. at \in 1 .. n
    BY <1>0, <2>1, ShapeFacts
  <2>3. ASSUME NEW r \in c.evidence PROVE r \in Range(IngestedBy(m, k))
    <3>1. r \in Range(Ingested(m)) /\ ArrivesAt(m, r) <= at
      BY <1>1, <2>1 DEF EvidenceAvailable
    <3> HIDE DEF at
    <3>2. ArrivesAt(m, r) <= k
      BY <1>0, <1>2, <2>1, <2>2, <3>1
    <3> QED BY <1>2, <3>1, <3>2
  <2> QED BY <2>3
<1>4. ASSUME NEW c \in ConclusionsAt(m, k)
      PROVE  c.coverage \subseteq {d.id : d \in CoverageAt(m, k)}
  <2>0. c \in m.conclusions /\ CheckpointIndex(m, c.checkpoint) = k
    BY DEF ConclusionsAt
  <2>1. ASSUME NEW id \in c.coverage PROVE id \in {d.id : d \in CoverageAt(m, k)}
    <3>1. PICK d \in m.coverage : d.id = id
      BY <2>0, ShapeFacts
    <3>2. CheckpointIndex(m, d.checkpoint) <= k
      BY <1>1, <2>0, <2>1, <3>1
    <3> QED BY <3>1, <3>2 DEF CoverageAt
  <2> QED BY <2>1
<1>5. ASSUME NEW a \in CapturesBy(m, k), NEW r \in Available(m, arts), r[1] = a
      PROVE  r \in Range(IngestedBy(m, k))
  <2>1. PICK f \in Range(IngestedBy(m, k)) : f[1] = a /\ OfKind(m, f, "capture")
    BY DEF CapturesBy
  <2>2. PICK i \in DOMAIN m.artifacts : m.artifacts[i].id = a /\ m.artifacts[i].kind = "capture"
    BY <2>1 DEF OfKind
  <2>3. f \in Range(Ingested(m))
    <3>1. \A x \in 1 .. k : x \in 1 .. n
      BY <1>0
    <3>2. k \in 0 .. n /\ n \in 0 .. n
      BY <1>0
    <3> QED BY <1>0, <2>1, <3>1, <3>2, IngestedByIs DEF Ingested, n
  <2>4. ASSUME NEW s \in Available(m, arts), s[1] = a
        PROVE  \E q \in DOMAIN arts[i].records : s = <<m.artifacts[i].id, q>>
    <3>1. PICK j \in DOMAIN arts : \E q \in DOMAIN arts[j].records : s = <<m.artifacts[j].id, q>>
      BY DEF Available
    <3>2. m.artifacts[j].id = a
      BY <2>4, <3>1
    <3>3. j = i
      BY <2>2, <3>2, ShapeFacts
    <3> QED BY <3>1, <3>3
  <2> DEFINE times == {ArrivesAt(m, <<m.artifacts[i].id, q>>) : q \in DOMAIN arts[i].records}
  <2>5. Cardinality(times) = 1
    BY <1>1, <2>2 DEF ArrivesWhole
  <2>6. times \in SUBSET (1 .. n)
    <3>1. ASSUME NEW q \in DOMAIN arts[i].records
          PROVE  <<m.artifacts[i].id, q>> \in Range(Ingested(m))
      BY <1>1, <2>2 DEF Available
    <3> QED BY <1>2, <3>1
  <2>7. ArrivesAt(m, f) \in times /\ ArrivesAt(m, r) \in times
    BY <1>1, <1>5, <2>1, <2>3, <2>4
  <2> HIDE DEF times
  <2>8. ArrivesAt(m, f) = ArrivesAt(m, r)
    BY <1>0, <2>5, <2>6, <2>7, OnlyOne
  <2> QED BY <1>1, <1>2, <2>1, <2>3, <2>8
<1> QED BY <1>3, <1>4, <1>5

\* A receipt rests on the past and on nothing else, for every manifest and however
\* files are replaced while they are read: its conclusions and its coverage cite
\* what has been ingested, and a capture is there with all of its records.
THEOREM ReceiptsRestOnThePast == Spec => []ReceiptsCiteThePast
<1>1. LoadInv => ReceiptsCiteThePast
  <2> SUFFICES ASSUME LoadInv, pc = "loaded", NEW k \in DOMAIN manifest.timeline,
                      Receipt(manifest, loaded, k).status = "ok"
               PROVE  LET m       == manifest
                          receipt == Receipt(m, loaded, k)
                          shown   == {c.id : c \in receipt.coverage}
                      IN  /\ \A c \in receipt.conclusions \cup receipt.coverage :
                                c.evidence \subseteq Range(receipt.ingested)
                          /\ \A c \in receipt.conclusions : c.coverage \subseteq shown
                          /\ \A a \in receipt.captures :
                                {r \in Available(m, loaded) : r[1] = a}
                                  \subseteq Range(receipt.ingested)
    BY DEF ReceiptsCiteThePast
  <2> DEFINE receipt == Receipt(manifest, loaded, k)
  <2>1. /\ receipt.ingested = IngestedBy(manifest, k)
        /\ receipt.coverage = CoverageAt(manifest, k)
        /\ receipt.conclusions = ConclusionsAt(manifest, k)
        /\ receipt.captures = CapturesBy(manifest, k)
    BY DEF Receipt, ConclusionsAt, CapturesBy
  <2>2. /\ manifest \in Manifests /\ ShapeHolds(manifest) /\ ClosureHolds(manifest, loaded)
        /\ DOMAIN loaded = DOMAIN manifest.artifacts
    BY TimelineTypes DEF LoadInv, AsDeclared
  <2> HIDE DEF receipt
  <2>3. /\ \A c \in receipt.conclusions \cup receipt.coverage :
              c.evidence \subseteq Range(receipt.ingested)
        /\ \A c \in receipt.conclusions : c.coverage \subseteq {d.id : d \in receipt.coverage}
        /\ \A a \in receipt.captures :
              {r \in Available(manifest, loaded) : r[1] = a} \subseteq Range(receipt.ingested)
    BY <2>1, <2>2, PastOnly
  <2> QED BY <2>3 DEF receipt
<1> QED BY <1>1, LoadInvariance, PTL
----------------------------------------------------------------------------
(* The folds of a replay.                                                  *)

\* The records of some references are taken one reference after the other.
LEMMA RecordsRun ==
  ASSUME NEW m, NEW arts, NEW S, NEW given \in Seq(S)
  PROVE  \E h : /\ h[0] = <<>>
                /\ \A i \in 1 .. Len(given) : h[i] = AddRecord(m, arts, h[i - 1], given[i])
                /\ HostRecords(m, arts, given) = h[Len(given)]
<1> DEFINE n == Len(given)
           Of(it, s) == IF s = {} THEN <<>>
                        ELSE AddRecord(m, arts, it[s \ {Max(s)}], given[Max(s)])
           Runs(k) == \E it : it = [s \in SUBSET (1 .. k) |-> Of(it, s)]
           T == {k \in Nat : Runs(k)}
<1>0. n \in Nat /\ DOMAIN given = 1 .. n
  BY LenProperties
<1>1. Runs(0)
  <2> DEFINE it == [s \in SUBSET (1 .. 0) |-> <<>>]
  <2>1. \A s \in SUBSET (1 .. 0) : s = {}
    OBVIOUS
  <2>2. it = [s \in SUBSET (1 .. 0) |-> Of(it, s)]
    BY <2>1
  <2> HIDE DEF it
  <2> QED BY <2>2
<1>2. ASSUME NEW k \in Nat, Runs(k) PROVE Runs(k + 1)
  <2>1. PICK f : f = [s \in SUBSET (1 .. k) |-> Of(f, s)]
    BY <1>2
  <2> DEFINE g == [s \in SUBSET (1 .. k + 1) |->
                     IF k + 1 \in s THEN AddRecord(m, arts, f[s \ {k + 1}], given[k + 1]) ELSE f[s]]
  <2>2. ASSUME NEW s \in SUBSET (1 .. k + 1) PROVE g[s] = Of(g, s)
    <3>1. CASE k + 1 \in s
      <4>1. s \ {k + 1} \in SUBSET (1 .. k + 1) /\ k + 1 \notin s \ {k + 1}
        OBVIOUS
      <4>2. g[s \ {k + 1}] = f[s \ {k + 1}]
        BY <4>1
      <4>3. Max(s) = k + 1 /\ s # {}
        BY <3>1, MaxOfPrefix
      <4> HIDE DEF g
      <4>4. g[s] = AddRecord(m, arts, f[s \ {k + 1}], given[k + 1])
        BY <3>1 DEF g
      <4> QED BY <4>2, <4>3, <4>4
    <3>2. CASE k + 1 \notin s
      <4>1. s \in SUBSET (1 .. k)
        BY <3>2
      <4>2. g[s] = f[s] /\ f[s] = Of(f, s)
        BY <2>1, <3>2, <4>1
      <4>3. s \ {Max(s)} \in SUBSET (1 .. k + 1) /\ k + 1 \notin s \ {Max(s)}
        BY <3>2
      <4>4. g[s \ {Max(s)}] = f[s \ {Max(s)}]
        BY <4>3
      <4> HIDE DEF g
      <4> QED BY <4>2, <4>4
    <3> QED BY <3>1, <3>2
  <2>3. g = [s \in SUBSET (1 .. k + 1) |-> g[s]]
    OBVIOUS
  <2> HIDE DEF g, Of
  <2>4. g = [s \in SUBSET (1 .. k + 1) |-> Of(g, s)]
    BY <2>2, <2>3
  <2> QED BY <2>4
<1>3. Runs(n)
  <2> HIDE DEF Runs
  <2>1. 0 \in T
    BY <1>1
  <2>2. ASSUME NEW k \in 1 .. n, k - 1 \in T PROVE k \in T
    <3>1. Runs((k - 1) + 1)
      BY <1>2, <2>2
    <3>2. (k - 1) + 1 = k /\ k \in Nat
      BY <1>0
    <3> QED BY <3>1, <3>2
  <2> HIDE DEF T
  <2>3. \A k \in 0 .. n : k \in T
    BY <1>0, <2>1, <2>2, UpTo
  <2> USE DEF T
  <2> QED BY <1>0, <2>3
<1> DEFINE it == CHOOSE it : it = [s \in SUBSET (1 .. n) |-> Of(it, s)]
<1>4. it = [s \in SUBSET (1 .. n) |-> Of(it, s)]
  BY <1>3
<1>5. HostRecords(m, arts, given) = it[1 .. n]
  BY <1>0 DEF HostRecords, FoldLeft, MapThenFoldSet
<1> HIDE DEF it
<1> DEFINE h == [i \in 0 .. n |-> it[1 .. i]]
<1>6. h[0] = <<>>
  <2>1. 1 .. 0 = {}
    OBVIOUS
  <2> QED BY <1>0, <1>4, <2>1
<1>7. ASSUME NEW i \in 1 .. n PROVE h[i] = AddRecord(m, arts, h[i - 1], given[i])
  <2>0. i - 1 \in Nat /\ i = (i - 1) + 1 /\ 1 .. i \subseteq 1 .. (i - 1) + 1 /\ i \in 1 .. i
    BY <1>0
  <2>1. Max(1 .. i) = i /\ 1 .. i # {}
    BY <2>0, MaxOfPrefix
  <2>2. (1 .. i) \ {i} = 1 .. i - 1
    BY <1>0
  <2>3. 1 .. i \in SUBSET (1 .. n)
    BY <1>0
  <2>4. it[1 .. i] = Of(it, 1 .. i)
    BY <1>4, <2>3
  <2>5. h[i] = it[1 .. i] /\ h[i - 1] = it[1 .. i - 1]
    BY <1>0
  <2> HIDE DEF h
  <2> QED BY <2>1, <2>2, <2>4, <2>5
<1>8. h[n] = it[1 .. n]
  BY <1>0
<1> HIDE DEF h
<1> QED BY <1>5, <1>6, <1>7, <1>8

NoInputs == [hosts |-> <<>>, captures |-> <<>>]

\* So are the inputs of a receipt.
LEMMA InputsRun ==
  ASSUME NEW m, NEW arts, NEW S, NEW receipt, receipt.ingested \in Seq(S)
  PROVE  \E h : /\ h[0] = NoInputs
                /\ \A i \in 1 .. Len(receipt.ingested) :
                      h[i] = AddInput(m, arts, h[i - 1], receipt.ingested[i])
                /\ CheckpointInputs(m, arts, receipt) = h[Len(receipt.ingested)]
<1> DEFINE n == Len(receipt.ingested)
           Of(it, s) == IF s = {} THEN NoInputs
                        ELSE AddInput(m, arts, it[s \ {Max(s)}], receipt.ingested[Max(s)])
           Runs(k) == \E it : it = [s \in SUBSET (1 .. k) |-> Of(it, s)]
           T == {k \in Nat : Runs(k)}
<1>0. n \in Nat /\ DOMAIN receipt.ingested = 1 .. n
  BY LenProperties
<1>1. Runs(0)
  <2> DEFINE it == [s \in SUBSET (1 .. 0) |-> NoInputs]
  <2>1. \A s \in SUBSET (1 .. 0) : s = {}
    OBVIOUS
  <2>2. it = [s \in SUBSET (1 .. 0) |-> Of(it, s)]
    BY <2>1
  <2> HIDE DEF it
  <2> QED BY <2>2
<1>2. ASSUME NEW k \in Nat, Runs(k) PROVE Runs(k + 1)
  <2>1. PICK f : f = [s \in SUBSET (1 .. k) |-> Of(f, s)]
    BY <1>2
  <2> DEFINE g == [s \in SUBSET (1 .. k + 1) |->
                     IF k + 1 \in s THEN AddInput(m, arts, f[s \ {k + 1}], receipt.ingested[k + 1]) ELSE f[s]]
  <2>2. ASSUME NEW s \in SUBSET (1 .. k + 1) PROVE g[s] = Of(g, s)
    <3>1. CASE k + 1 \in s
      <4>1. s \ {k + 1} \in SUBSET (1 .. k + 1) /\ k + 1 \notin s \ {k + 1}
        OBVIOUS
      <4>2. g[s \ {k + 1}] = f[s \ {k + 1}]
        BY <4>1
      <4>3. Max(s) = k + 1 /\ s # {}
        BY <3>1, MaxOfPrefix
      <4> HIDE DEF g
      <4>4. g[s] = AddInput(m, arts, f[s \ {k + 1}], receipt.ingested[k + 1])
        BY <3>1 DEF g
      <4> QED BY <4>2, <4>3, <4>4
    <3>2. CASE k + 1 \notin s
      <4>1. s \in SUBSET (1 .. k)
        BY <3>2
      <4>2. g[s] = f[s] /\ f[s] = Of(f, s)
        BY <2>1, <3>2, <4>1
      <4>3. s \ {Max(s)} \in SUBSET (1 .. k + 1) /\ k + 1 \notin s \ {Max(s)}
        BY <3>2
      <4>4. g[s \ {Max(s)}] = f[s \ {Max(s)}]
        BY <4>3
      <4> HIDE DEF g
      <4> QED BY <4>2, <4>4
    <3> QED BY <3>1, <3>2
  <2>3. g = [s \in SUBSET (1 .. k + 1) |-> g[s]]
    OBVIOUS
  <2> HIDE DEF g, Of
  <2>4. g = [s \in SUBSET (1 .. k + 1) |-> Of(g, s)]
    BY <2>2, <2>3
  <2> QED BY <2>4
<1>3. Runs(n)
  <2> HIDE DEF Runs
  <2>1. 0 \in T
    BY <1>1
  <2>2. ASSUME NEW k \in 1 .. n, k - 1 \in T PROVE k \in T
    <3>1. Runs((k - 1) + 1)
      BY <1>2, <2>2
    <3>2. (k - 1) + 1 = k /\ k \in Nat
      BY <1>0
    <3> QED BY <3>1, <3>2
  <2> HIDE DEF T
  <2>3. \A k \in 0 .. n : k \in T
    BY <1>0, <2>1, <2>2, UpTo
  <2> USE DEF T
  <2> QED BY <1>0, <2>3
<1> DEFINE it == CHOOSE it : it = [s \in SUBSET (1 .. n) |-> Of(it, s)]
<1>4. it = [s \in SUBSET (1 .. n) |-> Of(it, s)]
  BY <1>3
<1>5. CheckpointInputs(m, arts, receipt) = it[1 .. n]
  BY <1>0 DEF CheckpointInputs, FoldLeft, MapThenFoldSet, NoInputs
<1> HIDE DEF it
<1> DEFINE h == [i \in 0 .. n |-> it[1 .. i]]
<1>6. h[0] = NoInputs
  <2>1. 1 .. 0 = {}
    OBVIOUS
  <2> QED BY <1>0, <1>4, <2>1
<1>7. ASSUME NEW i \in 1 .. n PROVE h[i] = AddInput(m, arts, h[i - 1], receipt.ingested[i])
  <2>0. i - 1 \in Nat /\ i = (i - 1) + 1 /\ 1 .. i \subseteq 1 .. (i - 1) + 1 /\ i \in 1 .. i
    BY <1>0
  <2>1. Max(1 .. i) = i /\ 1 .. i # {}
    BY <2>0, MaxOfPrefix
  <2>2. (1 .. i) \ {i} = 1 .. i - 1
    BY <1>0
  <2>3. 1 .. i \in SUBSET (1 .. n)
    BY <1>0
  <2>4. it[1 .. i] = Of(it, 1 .. i)
    BY <1>4, <2>3
  <2>5. h[i] = it[1 .. i] /\ h[i - 1] = it[1 .. i - 1]
    BY <1>0
  <2> HIDE DEF h
  <2> QED BY <2>1, <2>2, <2>4, <2>5
<1>8. h[n] = it[1 .. n]
  BY <1>0
<1> HIDE DEF h
<1> QED BY <1>5, <1>6, <1>7, <1>8

LEMMA AppendIs ==
  ASSUME NEW S, NEW s \in Seq(S), NEW e \in S
  PROVE  /\ Append(s, e) \in Seq(S) /\ Range(Append(s, e)) = Range(s) \cup {e}
         /\ DOMAIN Append(s, e) = 1 .. Len(s) + 1 /\ DOMAIN s = 1 .. Len(s) /\ Len(s) \in Nat
         /\ \A i \in DOMAIN s : Append(s, e)[i] = s[i]
         /\ Append(s, e)[Len(s) + 1] = e
<1> DEFINE u == Append(s, e)
           a == Len(s)
<1>1. /\ u \in Seq(S) /\ a \in Nat /\ Len(u) = a + 1
      /\ DOMAIN u = 1 .. a + 1 /\ DOMAIN s = 1 .. a
      /\ \A i \in 1 .. a : u[i] = s[i]
      /\ u[a + 1] = e
  BY AppendProperties
<1> HIDE DEF u, a
<1>2. \A i \in 1 .. a + 1 : i \in 1 .. a \/ i = a + 1
  BY <1>1
<1>3. a + 1 \in 1 .. a + 1 /\ \A i \in 1 .. a : i \in 1 .. a + 1
  BY <1>1
<1>4. Range(u) = Range(s) \cup {e}
  <2>1. ASSUME NEW x \in Range(u) PROVE x \in Range(s) \cup {e}
    <3>1. PICK i \in 1 .. a + 1 : x = u[i]
      BY <1>1, <2>1 DEF Range
    <3> QED BY <1>1, <1>2, <3>1 DEF Range
  <2>2. ASSUME NEW x \in Range(s) \cup {e} PROVE x \in Range(u)
    BY <1>1, <1>3, <2>2 DEF Range
  <2> QED BY <2>1, <2>2
<1> QED BY <1>1, <1>4 DEF u, a

RecordOf(m, arts, f) == Artifact(m, arts, f[1]).records[f[2]]
CaptureOf(m, arts, f) == <<f[1], Artifact(m, arts, f[1])>>
HostsOf(m, F) == {f \in F : OfKind(m, f, "host")}

\* Of the references F: their records and their captures, each capture once.
InputsOK(m, arts, inputs, F) ==
  LET R == {RecordOf(m, arts, f) : f \in HostsOf(m, F)}
      C == {CaptureOf(m, arts, f) : f \in F \ HostsOf(m, F)}
  IN  /\ inputs = [hosts |-> inputs.hosts, captures |-> inputs.captures]
      /\ inputs.hosts \in Seq(R) /\ Range(inputs.hosts) = R
      /\ inputs.captures \in Seq(C) /\ Range(inputs.captures) = C
      /\ \A i, j \in DOMAIN inputs.captures :
            i # j => inputs.captures[i][1] # inputs.captures[j][1]

LEMMA SeqGrows ==
  ASSUME NEW A, NEW B, A \subseteq B, NEW s \in Seq(A) PROVE s \in Seq(B)
OBVIOUS

LEMMA AddKeeps ==
  ASSUME NEW m, NEW arts, NEW inputs, NEW F, NEW f, InputsOK(m, arts, inputs, F)
  PROVE  /\ InputsOK(m, arts, AddInput(m, arts, inputs, f), F \cup {f})
         /\ AddInput(m, arts, inputs, f).hosts = AddRecord(m, arts, inputs.hosts, f)
<1> DEFINE hosts == inputs.hosts
           caps == inputs.captures
           R == {RecordOf(m, arts, g) : g \in HostsOf(m, F)}
           C == {CaptureOf(m, arts, g) : g \in F \ HostsOf(m, F)}
           G == F \cup {f}
           R2 == {RecordOf(m, arts, g) : g \in HostsOf(m, G)}
           C2 == {CaptureOf(m, arts, g) : g \in G \ HostsOf(m, G)}
           new == AddInput(m, arts, inputs, f)
<1>1. /\ inputs = [hosts |-> hosts, captures |-> caps]
      /\ hosts \in Seq(R) /\ Range(hosts) = R /\ caps \in Seq(C) /\ Range(caps) = C
      /\ \A i, j \in DOMAIN caps : i # j => caps[i][1] # caps[j][1]
  BY DEF InputsOK
<1>2. CASE OfKind(m, f, "host")
  <2> DEFINE r == RecordOf(m, arts, f)
  <2>1. R2 = R \cup {r} /\ C2 = C
    BY <1>2 DEF HostsOf
  <2>2. /\ new.hosts = Append(hosts, r) /\ new.captures = caps
        /\ new = [hosts |-> new.hosts, captures |-> new.captures]
        /\ AddRecord(m, arts, hosts, f) = Append(hosts, r)
    BY <1>1, <1>2 DEF AddInput, AddRecord, RecordOf
  <2> HIDE DEF r, R, C, R2, C2, hosts, caps, new
  <2>3. hosts \in Seq(R \cup {r})
    <3>1. R \subseteq R \cup {r}
      OBVIOUS
    <3> QED BY <1>1, <3>1, SeqGrows
  <2>4. Append(hosts, r) \in Seq(R2) /\ Range(Append(hosts, r)) = R2
    BY <1>1, <2>1, <2>3, AppendIs
  <2>5. /\ new = [hosts |-> new.hosts, captures |-> new.captures]
        /\ new.hosts \in Seq(R2) /\ Range(new.hosts) = R2
        /\ new.captures \in Seq(C2) /\ Range(new.captures) = C2
        /\ \A i, j \in DOMAIN new.captures : i # j => new.captures[i][1] # new.captures[j][1]
    BY <1>1, <2>1, <2>2, <2>4
  <2>6. InputsOK(m, arts, new, G)
    BY <2>5 DEF InputsOK, R2, C2
  <2> QED BY <2>2, <2>6 DEF hosts, new
<1>3. CASE ~OfKind(m, f, "host")
  <2> DEFINE c == CaptureOf(m, arts, f)
  <2>1. R2 = R /\ C2 = C \cup {c}
    BY <1>3 DEF HostsOf
  <2>2. AddRecord(m, arts, hosts, f) = hosts
    BY <1>3 DEF AddRecord
  <2>3. CASE \E i \in DOMAIN caps : caps[i][1] = f[1]
    <3>1. new = inputs
      BY <1>3, <2>3 DEF AddInput
    <3>2. c \in C
      <4>1. PICK i \in DOMAIN caps : caps[i][1] = f[1]
        BY <2>3
      <4>2. caps[i] \in C
        BY <1>1, <4>1 DEF Range
      <4>3. PICK g \in F : caps[i] = CaptureOf(m, arts, g)
        BY <4>2
      <4>4. g[1] = f[1]
        BY <4>1, <4>3 DEF CaptureOf
      <4>5. CaptureOf(m, arts, g) = c
        BY <4>4 DEF CaptureOf
      <4> QED BY <4>2, <4>3, <4>5
    <3>3. C2 = C
      BY <2>1, <3>2
    <3> HIDE DEF c, R, C, R2, C2, hosts, caps
    <3>4. InputsOK(m, arts, inputs, G)
      <4>1. /\ inputs = [hosts |-> hosts, captures |-> caps]
            /\ hosts \in Seq(R2) /\ Range(hosts) = R2 /\ caps \in Seq(C2) /\ Range(caps) = C2
            /\ \A i, j \in DOMAIN caps : i # j => caps[i][1] # caps[j][1]
        BY <1>1, <2>1, <3>3
      <4> QED BY <4>1 DEF InputsOK, R2, C2, hosts, caps
    <3> QED BY <2>2, <3>1, <3>4 DEF hosts
  <2>4. CASE \A i \in DOMAIN caps : caps[i][1] # f[1]
    <3>1. /\ new.captures = Append(caps, c) /\ new.hosts = hosts
          /\ new = [hosts |-> new.hosts, captures |-> new.captures]
      BY <1>1, <1>3, <2>4 DEF AddInput, CaptureOf
    <3>2. c[1] = f[1]
      BY DEF CaptureOf
    <3> HIDE DEF c, R, C, R2, C2, hosts, caps, new
    <3>3. caps \in Seq(C \cup {c})
      <4>1. C \subseteq C \cup {c}
        OBVIOUS
      <4> QED BY <1>1, <4>1, SeqGrows
    <3>4. /\ Append(caps, c) \in Seq(C2) /\ Range(Append(caps, c)) = C2
          /\ DOMAIN Append(caps, c) = 1 .. Len(caps) + 1
          /\ DOMAIN caps = 1 .. Len(caps) /\ Len(caps) \in Nat
          /\ \A i \in DOMAIN caps : Append(caps, c)[i] = caps[i]
          /\ Append(caps, c)[Len(caps) + 1] = c
      BY <1>1, <2>1, <3>3, AppendIs
    <3>5. ASSUME NEW i \in DOMAIN new.captures, NEW j \in DOMAIN new.captures, i # j
          PROVE  new.captures[i][1] # new.captures[j][1]
      <4>1. /\ i \in DOMAIN caps \/ i = Len(caps) + 1
            /\ j \in DOMAIN caps \/ j = Len(caps) + 1
        BY <3>1, <3>4
      <4>2. CASE i \in DOMAIN caps /\ j \in DOMAIN caps
        BY <1>1, <3>1, <3>4, <3>5, <4>2
      <4>3. CASE i \in DOMAIN caps /\ j = Len(caps) + 1
        BY <2>4, <3>1, <3>2, <3>4, <4>3
      <4>4. CASE i = Len(caps) + 1 /\ j \in DOMAIN caps
        BY <2>4, <3>1, <3>2, <3>4, <4>4
      <4> QED BY <3>5, <4>1, <4>2, <4>3, <4>4
    <3>6. /\ new = [hosts |-> new.hosts, captures |-> new.captures]
          /\ new.hosts \in Seq(R2) /\ Range(new.hosts) = R2
          /\ new.captures \in Seq(C2) /\ Range(new.captures) = C2
      BY <1>1, <2>1, <3>1, <3>4
    <3>7. InputsOK(m, arts, new, G)
      BY <3>5, <3>6 DEF InputsOK, R2, C2
    <3> QED BY <2>2, <3>1, <3>7 DEF hosts, new
  <2> QED BY <2>3, <2>4
<1> QED BY <1>2, <1>3

\* The inputs of a receipt are those of its references, and the records among them
\* are the records that it projects.
LEMMA InputsAre ==
  ASSUME NEW m, NEW arts, NEW S, NEW receipt, receipt.ingested \in Seq(S)
  PROVE  /\ InputsOK(m, arts, CheckpointInputs(m, arts, receipt), Range(receipt.ingested))
         /\ CheckpointInputs(m, arts, receipt).hosts = HostRecords(m, arts, receipt.ingested)
<1> DEFINE refs == receipt.ingested
           n == Len(refs)
           Seen(k) == {refs[i] : i \in 1 .. k}
<1>0. n \in Nat /\ DOMAIN refs = 1 .. n
  OBVIOUS
<1>1. PICK h : /\ h[0] = <<>>
               /\ \A i \in 1 .. n : h[i] = AddRecord(m, arts, h[i - 1], refs[i])
               /\ HostRecords(m, arts, refs) = h[n]
  BY RecordsRun
<1>2. PICK g : /\ g[0] = NoInputs
               /\ \A i \in 1 .. n : g[i] = AddInput(m, arts, g[i - 1], refs[i])
               /\ CheckpointInputs(m, arts, receipt) = g[n]
  BY InputsRun
<1> DEFINE Good(k) == InputsOK(m, arts, g[k], Seen(k)) /\ g[k].hosts = h[k]
           T == {k \in Nat : Good(k)}
<1>3. Good(0)
  <2>1. Seen(0) = {}
    OBVIOUS
  <2>2. /\ NoInputs.hosts = <<>> /\ NoInputs.captures = <<>>
        /\ NoInputs = [hosts |-> NoInputs.hosts, captures |-> NoInputs.captures]
    BY DEF NoInputs
  <2>3. Range(<<>>) = {} /\ DOMAIN <<>> = {} /\ HostsOf(m, {}) = {}
    BY DEF Range, HostsOf
  <2>4. <<>> \in Seq({})
    OBVIOUS
  <2>5. InputsOK(m, arts, NoInputs, {})
    BY <2>2, <2>3, <2>4 DEF InputsOK
  <2> QED BY <1>1, <1>2, <2>1, <2>2, <2>5
<1>4. ASSUME NEW k \in 1 .. n, Good(k - 1) PROVE Good(k)
  <2>1. Seen(k) = Seen(k - 1) \cup {refs[k]}
    <3>1. k \in 1 .. k /\ \A i \in 1 .. k : i = k \/ i \in 1 .. k - 1
      BY <1>0
    <3>2. \A i \in 1 .. k - 1 : i \in 1 .. k
      BY <1>0
    <3> QED BY <3>1, <3>2
  <2> HIDE DEF Seen, refs
  <2>2. g[k] = AddInput(m, arts, g[k - 1], refs[k])
        /\ h[k] = AddRecord(m, arts, g[k - 1].hosts, refs[k])
    BY <1>1, <1>2, <1>4
  <2> QED BY <1>4, <2>1, <2>2, AddKeeps
<1>5. Good(n)
  <2> HIDE DEF Good, n
  <2>1. 0 \in T
    BY <1>3
  <2>2. ASSUME NEW k \in 1 .. n, k - 1 \in T PROVE k \in T
    BY <1>0, <1>4, <2>2
  <2> HIDE DEF T
  <2>3. \A k \in 0 .. n : k \in T
    BY <1>0, <2>1, <2>2, UpTo
  <2> USE DEF T
  <2> QED BY <1>0, <2>3
<1>6. Seen(n) = Range(refs)
  BY <1>0 DEF Range
<1> QED BY <1>1, <1>2, <1>5, <1>6

----------------------------------------------------------------------------
(* The references of a loaded bundle.                                      *)

LoadedAs(m, arts) ==
  /\ m \in Manifests /\ ShapeHolds(m) /\ ClosureHolds(m, arts)
  /\ AsDeclared(m, arts) /\ Len(arts) = Len(m.artifacts)

\* A reference is to a record of one artifact, of observations or a capture, and
\* that artifact is the declared one.
LEMMA ReferenceIs ==
  ASSUME NEW m, NEW arts, LoadedAs(m, arts), NEW k \in DOMAIN m.timeline,
         NEW f \in Range(IngestedBy(m, k))
  PROVE  \E i \in DOMAIN m.artifacts :
            /\ i \in DOMAIN arts /\ f[1] = m.artifacts[i].id /\ f[2] \in DOMAIN arts[i].records
            /\ \A j \in DOMAIN m.artifacts : m.artifacts[j].id = f[1] => j = i
            /\ arts[i] = m.artifacts[i].digest /\ arts[i].kind = m.artifacts[i].kind
            /\ Artifact(m, arts, f[1]) = arts[i]
            /\ OfKind(m, f, "host") <=> arts[i].kind = "host"
            /\ OfKind(m, f, "capture") <=> arts[i].kind # "host"
<1>1. /\ m \in Manifests /\ ShapeHolds(m) /\ Available(m, arts) = Range(Ingested(m))
      /\ Len(arts) \in Nat /\ DOMAIN arts = 1 .. Len(arts) /\ DOMAIN m.artifacts = DOMAIN arts
      /\ \A i \in DOMAIN arts : /\ arts[i] = m.artifacts[i].digest
                                /\ arts[i].kind = m.artifacts[i].kind
  BY TimelineTypes DEF LoadedAs, AsDeclared, ClosureHolds
<1>2. f \in Range(Ingested(m))
  <2> DEFINE n == Len(m.timeline)
  <2>1. n \in Nat /\ k \in 1 .. n
    BY <1>1, TimelineTypes
  <2>2. k \in 0 .. n /\ n \in 0 .. n /\ \A x \in 1 .. k : x \in 1 .. n
    BY <2>1
  <2> QED BY <1>1, <2>2, IngestedByIs DEF Ingested
<1>3. PICK i \in DOMAIN arts : \E q \in DOMAIN arts[i].records : f = <<m.artifacts[i].id, q>>
  BY <1>1, <1>2 DEF Available
<1>4. f[1] = m.artifacts[i].id /\ f[2] \in DOMAIN arts[i].records
  BY <1>3
<1>5. \A j \in DOMAIN m.artifacts : m.artifacts[j].id = f[1] => j = i
  BY <1>1, <1>4, ShapeFacts
<1>6. Artifact(m, arts, f[1]) = arts[i]
  <2>1. (CHOOSE j \in DOMAIN arts : m.artifacts[j].id = f[1]) = i
    BY <1>1, <1>4, <1>5
  <2> QED BY <2>1 DEF Artifact
<1>7. arts[i].kind \in {"host", "capture"}
  <2>1. m.artifacts[i] \in Range(m.artifacts)
    BY <1>1 DEF Range
  <2>2. DOMAIN m.artifacts[i].digest.records # {}
    BY <1>1, <1>4
  <2>3. m.artifacts[i].digest.kind \in {"host", "capture"}
    BY <1>1, <2>1, <2>2, ManifestsAssumption
  <2> QED BY <1>1, <2>3
<1>8. \A kind : OfKind(m, f, kind) <=> arts[i].kind = kind
  BY <1>1, <1>4, <1>5 DEF OfKind
<1> QED BY <1>1, <1>4, <1>5, <1>6, <1>7, <1>8

DeclaredOf(m, id) == m.artifacts[CHOOSE i \in DOMAIN m.artifacts : m.artifacts[i].id = id].digest

\* What a replayed receipt hands out.
LEMMA HandsOutDeclared ==
  ASSUME NEW m, NEW arts, LoadedAs(m, arts), NEW k \in DOMAIN m.timeline,
         NEW inputs, InputsOK(m, arts, inputs, Range(IngestedBy(m, k)))
  PROVE  /\ Distinct(inputs.captures)
         /\ {c[1] : c \in Range(inputs.captures)} = CapturesBy(m, k)
         /\ \A c \in Range(inputs.captures) : c[2] = DeclaredOf(m, c[1])
         /\ \A r \in Range(inputs.hosts) : \E f \in Range(IngestedBy(m, k)) :
               OfKind(m, f, "host") /\ DeclaredOf(m, f[1]).records[f[2]] = r
<1> DEFINE F == Range(IngestedBy(m, k))
<1>1. /\ Range(inputs.hosts) = {RecordOf(m, arts, f) : f \in HostsOf(m, F)}
      /\ Range(inputs.captures) = {CaptureOf(m, arts, f) : f \in F \ HostsOf(m, F)}
      /\ \A i, j \in DOMAIN inputs.captures :
            i # j => inputs.captures[i][1] # inputs.captures[j][1]
  BY DEF InputsOK
<1>2. ASSUME NEW f \in F
      PROVE  /\ Artifact(m, arts, f[1]) = DeclaredOf(m, f[1])
             /\ f \in HostsOf(m, F) <=> ~OfKind(m, f, "capture")
  <2>1. PICK i \in DOMAIN m.artifacts :
               /\ f[1] = m.artifacts[i].id
               /\ \A j \in DOMAIN m.artifacts : m.artifacts[j].id = f[1] => j = i
               /\ arts[i] = m.artifacts[i].digest
               /\ Artifact(m, arts, f[1]) = arts[i]
               /\ OfKind(m, f, "host") <=> arts[i].kind = "host"
               /\ OfKind(m, f, "capture") <=> arts[i].kind # "host"
    BY ReferenceIs
  <2>2. (CHOOSE j \in DOMAIN m.artifacts : m.artifacts[j].id = f[1]) = i
    BY <2>1
  <2>3. f \in HostsOf(m, F) <=> OfKind(m, f, "host")
    BY DEF HostsOf
  <2> QED BY <2>1, <2>2, <2>3 DEF DeclaredOf
<1>3. CapturesBy(m, k) = {f[1] : f \in F \ HostsOf(m, F)}
  BY <1>2 DEF CapturesBy
<1> HIDE DEF F
<1>4. Distinct(inputs.captures)
  BY <1>1 DEF Distinct
<1>5. {c[1] : c \in Range(inputs.captures)} = {f[1] : f \in F \ HostsOf(m, F)}
  <2>1. \A f : CaptureOf(m, arts, f)[1] = f[1]
    BY DEF CaptureOf
  <2> QED BY <1>1, <2>1
<1>6. ASSUME NEW c \in Range(inputs.captures) PROVE c[2] = DeclaredOf(m, c[1])
  <2>1. PICK f \in F : c = CaptureOf(m, arts, f)
    BY <1>1
  <2>2. c[1] = f[1] /\ c[2] = Artifact(m, arts, f[1])
    BY <2>1 DEF CaptureOf
  <2> QED BY <1>2, <2>2
<1>7. ASSUME NEW r \in Range(inputs.hosts)
      PROVE  \E f \in F : OfKind(m, f, "host") /\ DeclaredOf(m, f[1]).records[f[2]] = r
  <2>1. PICK f \in HostsOf(m, F) : r = RecordOf(m, arts, f)
    BY <1>1
  <2>2. f \in F /\ OfKind(m, f, "host")
    BY <2>1 DEF HostsOf
  <2> QED BY <1>2, <2>1, <2>2 DEF RecordOf
<1> QED BY <1>3, <1>4, <1>5, <1>6, <1>7 DEF F

\* Two contents under one id are of two artifacts.
LEMMA ConflictIsOfTwo ==
  ASSUME NEW m, NEW arts, LoadedAs(m, arts), NEW k \in DOMAIN m.timeline,
         NEW records,
         Range(records) = {RecordOf(m, arts, f) : f \in HostsOf(m, Range(IngestedBy(m, k)))},
         Conflict(records)
  PROVE  \E a, b \in DOMAIN m.artifacts :
            /\ a # b
            /\ \E r \in DOMAIN arts[a].records \cap DOMAIN arts[b].records :
                  arts[a].records[r] # arts[b].records[r]
<1>1. ASSUME NEW x \in Range(records)
      PROVE  \E i \in DOMAIN m.artifacts : \E q \in DOMAIN arts[i].records :
                /\ x = arts[i].records[q] /\ arts[i] = m.artifacts[i].digest
                /\ arts[i].kind = "host"
  <2>1. PICK f \in HostsOf(m, Range(IngestedBy(m, k))) : x = RecordOf(m, arts, f)
    BY <1>1
  <2>2. f \in Range(IngestedBy(m, k)) /\ OfKind(m, f, "host")
    BY <2>1 DEF HostsOf
  <2>3. PICK i \in DOMAIN m.artifacts :
               /\ f[2] \in DOMAIN arts[i].records
               /\ arts[i] = m.artifacts[i].digest
               /\ Artifact(m, arts, f[1]) = arts[i]
               /\ OfKind(m, f, "host") <=> arts[i].kind = "host"
    BY <2>2, ReferenceIs
  <2> QED BY <2>1, <2>2, <2>3 DEF RecordOf
<1>2. PICK x \in Range(records), y \in Range(records) : x.id = y.id /\ x # y
  BY DEF Conflict, Range
<1>3. PICK a \in DOMAIN m.artifacts : \E q \in DOMAIN arts[a].records :
             x = arts[a].records[q] /\ arts[a] = m.artifacts[a].digest /\ arts[a].kind = "host"
  BY <1>1
<1>3a. PICK q \in DOMAIN arts[a].records :
             x = arts[a].records[q] /\ arts[a] = m.artifacts[a].digest /\ arts[a].kind = "host"
  BY <1>3
<1>4. PICK b \in DOMAIN m.artifacts : \E s \in DOMAIN arts[b].records :
             y = arts[b].records[s] /\ arts[b] = m.artifacts[b].digest /\ arts[b].kind = "host"
  BY <1>1
<1>4a. PICK s \in DOMAIN arts[b].records :
             y = arts[b].records[s] /\ arts[b] = m.artifacts[b].digest /\ arts[b].kind = "host"
  BY <1>4
<1>5. q = s
  <2>1. m \in Manifests
    BY DEF LoadedAs
  <2>2. m.artifacts[a] \in Range(m.artifacts) /\ m.artifacts[b] \in Range(m.artifacts)
    BY DEF Range
  <2> DEFINE H == {g \in Range(m.artifacts) : g.digest.kind = "host"}
  <2>3. m.artifacts[a] \in H /\ m.artifacts[b] \in H
    BY <1>3a, <1>4a, <2>2
  <2>4. \A c, d \in H : \A u \in DOMAIN c.digest.records, v \in DOMAIN d.digest.records :
           c.digest.records[u].id = d.digest.records[v].id => u = v
    BY <2>1, ManifestsAssumption
  <2> HIDE DEF H
  <2> QED BY <1>2, <1>3a, <1>4a, <2>3, <2>4
<1>6. a # b
  BY <1>2, <1>3a, <1>4a, <1>5
<1> QED BY <1>2, <1>3a, <1>4a, <1>5, <1>6

\* What a consumer is handed for a receipt is the evidence that the manifest
\* declares, and replaying it gives the receipt's own projection; a bundle that does
\* not replay has two artifacts that contradict each other.
THEOREM InputsReplay == Spec => []InputsReplayToReceipt
<1>1. LoadInv => InputsReplayToReceipt
  <2> SUFFICES ASSUME LoadInv, pc = "loaded", NEW k \in DOMAIN manifest.timeline
               PROVE  LET m == manifest
                          declared(id) ==
                             m.artifacts[CHOOSE i \in DOMAIN m.artifacts : m.artifacts[i].id = id].digest
                          receipt == Receipt(m, loaded, k)
                          inputs  == CheckpointInputs(m, loaded, receipt)
                      IN  IF receipt.status = "ok"
                          THEN /\ ProjectHostPath(inputs.hosts) = receipt.hostPath
                               /\ Distinct(inputs.captures)
                               /\ {c[1] : c \in Range(inputs.captures)} = receipt.captures
                               /\ \A c \in Range(inputs.captures) : c[2] = declared(c[1])
                               /\ \A r \in Range(inputs.hosts) :
                                     \E f \in Range(receipt.ingested) :
                                        OfKind(m, f, "host") /\ declared(f[1]).records[f[2]] = r
                          ELSE \E a, b \in DOMAIN m.artifacts :
                                  /\ a # b
                                  /\ \E r \in DOMAIN loaded[a].records \cap DOMAIN loaded[b].records :
                                        loaded[a].records[r] # loaded[b].records[r]
    BY DEF InputsReplayToReceipt
  <2> DEFINE refs == IngestedBy(manifest, k)
             hosts == HostRecords(manifest, loaded, refs)
             receipt == Receipt(manifest, loaded, k)
             inputs == CheckpointInputs(manifest, loaded, receipt)
  <2>1. LoadedAs(manifest, loaded)
    BY DEF LoadInv, LoadedAs
  <2>2. refs \in Seq(References(manifest))
    <3>1. manifest \in Manifests /\ k \in 0 .. Len(manifest.timeline)
      BY <2>1, TimelineTypes DEF LoadedAs
    <3> QED BY <3>1, IngestedByIs
  <2>3. ~Conflict(hosts) => /\ receipt.status = "ok" /\ receipt.ingested = refs
                            /\ receipt.hostPath = ProjectHostPath(hosts)
                            /\ receipt.captures = CapturesBy(manifest, k)
    BY DEF Receipt, CapturesBy
  <2>4. Conflict(hosts) => receipt.status = "conflict"
    BY DEF Receipt
  <2>5. \A id : manifest.artifacts[CHOOSE i \in DOMAIN manifest.artifacts :
                                       manifest.artifacts[i].id = id].digest
                  = DeclaredOf(manifest, id)
    BY DEF DeclaredOf
  <2> HIDE DEF receipt, hosts
  <2>6. CASE ~Conflict(hosts)
    <3>0. receipt.ingested \in Seq(References(manifest))
      BY <2>2, <2>3, <2>6
    <3>1. InputsOK(manifest, loaded, inputs, Range(refs)) /\ inputs.hosts = hosts
      BY <2>3, <2>6, <3>0, InputsAre DEF hosts
    <3> HIDE DEF inputs
    <3>2. /\ Distinct(inputs.captures)
          /\ {c[1] : c \in Range(inputs.captures)} = CapturesBy(manifest, k)
          /\ \A c \in Range(inputs.captures) : c[2] = DeclaredOf(manifest, c[1])
          /\ \A r \in Range(inputs.hosts) : \E f \in Range(refs) :
                OfKind(manifest, f, "host") /\ DeclaredOf(manifest, f[1]).records[f[2]] = r
      BY <2>1, <3>1, HandsOutDeclared
    <3> HIDE DEF refs
    <3> QED BY <2>3, <2>5, <2>6, <3>1, <3>2 DEF receipt, inputs, DeclaredOf
  <2>7. CASE Conflict(hosts)
    <3> DEFINE any == [ingested |-> refs]
               given == CheckpointInputs(manifest, loaded, any)
    <3>1. any.ingested = refs /\ any.ingested \in Seq(References(manifest))
      BY <2>2
    <3> HIDE DEF any
    <3>2. InputsOK(manifest, loaded, given, Range(refs)) /\ given.hosts = hosts
      BY <3>1, InputsAre DEF hosts
    <3> HIDE DEF given
    <3>3. Range(hosts) = {RecordOf(manifest, loaded, f) : f \in HostsOf(manifest, Range(refs))}
      BY <3>2 DEF InputsOK
    <3>4. \E a, b \in DOMAIN manifest.artifacts :
             /\ a # b
             /\ \E r \in DOMAIN loaded[a].records \cap DOMAIN loaded[b].records :
                   loaded[a].records[r] # loaded[b].records[r]
      BY <2>1, <2>7, <3>3, ConflictIsOfTwo
    <3> QED BY <2>4, <2>7, <3>4 DEF receipt
  <2> QED BY <2>6, <2>7
<1> QED BY <1>1, LoadInvariance, PTL
=============================================================================
