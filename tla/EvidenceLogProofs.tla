-------------------------- MODULE EvidenceLogProofs --------------------------
(***************************************************************************)
(* What holds of the evidence log for every set of records and any number  *)
(* of appends, deaths in mid append and repairs, and of the history that   *)
(* is read from it.                                                        *)
(***************************************************************************)
EXTENDS HostPathHistory, TLAPS, FunctionTheorems, SequenceTheorems, FiniteSetTheorems

USE EvidenceLogAssumption

-----------------------------------------------------------------------------
(* The bytes of a log, token by token.                                     *)

\* What stands before the next byte: the start of a file is that of a line.
LastOf(f) == IF f = <<>> THEN NL ELSE f[Len(f)]

\* Token y may come after token x.
Fits(x, y) ==
  /\ x.half = "opening" => y = Half("closing", x.rec)
  /\ x.half = "closing" => y = NL
  /\ x = NL => y.half # "closing"

\* Each record is its two halves and a newline, which may be missing at the end.
Shape(f) == \A i \in DOMAIN f : Fits(IF i = 1 THEN NL ELSE f[i - 1], f[i])

\* The records that are on the log, all of them.
Logged(f) == {r \in Records : \E i \in DOMAIN f : f[i] = Half("closing", r)}

LEMMA TokenType ==
  ASSUME NEW t \in Tokens
  PROVE  \/ t = NL /\ t.half = "newline"
         \/ \E r \in Records : t = Half("opening", r) /\ t.half = "opening" /\ t.rec = r
         \/ \E r \in Records : t = Half("closing", r) /\ t.half = "closing" /\ t.rec = r
BY DEF Tokens, NL, Half

LEMMA HalfTypes ==
  ASSUME NEW r \in Records
  PROVE  /\ Half("opening", r) \in Tokens /\ Half("opening", r).half = "opening"
         /\ Half("opening", r).rec = r
         /\ Half("closing", r) \in Tokens /\ Half("closing", r).half = "closing"
         /\ Half("closing", r).rec = r
         /\ NL \in Tokens /\ NL.half = "newline"
BY DEF Tokens, NL, Half

LEMMA MinIs ==
  ASSUME NEW S \in SUBSET Int, NEW m \in S, \A x \in S : m <= x PROVE Min(S) = m
<1>1. \E x \in S : \A y \in S : x <= y
  OBVIOUS
<1>2. Min(S) \in S /\ \A y \in S : Min(S) <= y
  BY <1>1 DEF Min
<1>3. PICK c : c = Min(S)
  OBVIOUS
<1>4. c \in Int /\ m \in Int /\ c <= m /\ m <= c
  BY <1>2, <1>3
<1> QED BY <1>3, <1>4

LEMMA MaxIs ==
  ASSUME NEW S \in SUBSET Int, NEW m \in S, \A x \in S : x <= m PROVE Max(S) = m
<1>1. \E x \in S : \A y \in S : x >= y
  OBVIOUS
<1>2. Max(S) \in S /\ \A y \in S : Max(S) >= y
  BY <1>1 DEF Max
<1>3. PICK c : c = Max(S)
  OBVIOUS
<1>4. c \in Int /\ m \in Int /\ c <= m /\ m <= c
  BY <1>2, <1>3
<1> QED BY <1>3, <1>4

\* A line ends before the next newline, or with the file.
LEMMA LineEnds ==
  ASSUME NEW f \in Seq(Tokens), NEW s \in 1 .. (Len(f) + 1),
         NEW e \in s .. (Len(f) + 1),
         e = Len(f) + 1 \/ f[e] = NL,
         \A i \in s .. (e - 1) : f[i] # NL
  PROVE  LineEnd(f, s) = e - 1
<1> DEFINE S == {i \in DOMAIN f : i >= s /\ f[i] = NL} \cup {Len(f) + 1}
<1>1. Len(f) \in Nat /\ DOMAIN f = 1 .. Len(f)
  OBVIOUS
<1>2. S \in SUBSET Int /\ e \in S
  BY <1>1
<1>3. \A x \in S : e <= x
  BY <1>1
<1>4. Min(S) = e
  BY <1>2, <1>3, MinIs
<1> QED BY <1>4 DEF LineEnd

-----------------------------------------------------------------------------
(* The lines of a log of that shape.                                       *)

\* What stands at a place, given what stands before it.
LEMMA ShapeAt ==
  ASSUME NEW f \in Seq(Tokens), Shape(f), NEW i \in 1 .. Len(f)
  PROVE  /\ f[i] \in Tokens
         /\ f[i].half = "opening" => i = 1 \/ f[i - 1] = NL
         /\ f[i].half = "closing" =>
              i > 1 /\ f[i - 1] = Half("opening", f[i].rec)
         /\ i < Len(f) /\ f[i].half = "opening" =>
              f[i + 1] = Half("closing", f[i].rec)
         /\ i < Len(f) /\ f[i].half = "closing" => f[i + 1] = NL
<1>1. Len(f) \in Nat /\ DOMAIN f = 1 .. Len(f) /\ f[i] \in Tokens
  OBVIOUS
<1>2. i < Len(f) => Fits(f[i], f[i + 1])
  <2> SUFFICES ASSUME i < Len(f) PROVE Fits(f[i], f[i + 1])
    OBVIOUS
  <2>1. i + 1 \in DOMAIN f /\ i + 1 # 1 /\ (i + 1) - 1 = i
    BY <1>1
  <2> QED BY <2>1 DEF Shape
<1>3. i = 1 => f[i].half # "closing"
  BY <1>1 DEF Shape, Fits
<1>4. i # 1 => Fits(f[i - 1], f[i]) /\ f[i - 1] \in Tokens
  <2> SUFFICES ASSUME i # 1 PROVE Fits(f[i - 1], f[i]) /\ f[i - 1] \in Tokens
    OBVIOUS
  <2>1. i \in DOMAIN f /\ i - 1 \in DOMAIN f
    BY <1>1
  <2> QED BY <1>1, <2>1 DEF Shape
<1>5. f[i].half = "opening" => i = 1 \/ f[i - 1] = NL
  <2> SUFFICES ASSUME f[i].half = "opening", i # 1 PROVE f[i - 1] = NL
    OBVIOUS
  <2>1. f[i - 1].half \notin {"opening", "closing"}
    BY <1>4 DEF Fits, Half, NL
  <2> QED BY <1>4, <2>1, TokenType
<1>6. f[i].half = "closing" => i > 1 /\ f[i - 1] = Half("opening", f[i].rec)
  <2> SUFFICES ASSUME f[i].half = "closing" 
               PROVE  i > 1 /\ f[i - 1] = Half("opening", f[i].rec)
    OBVIOUS
  <2>1. i # 1 /\ i > 1
    BY <1>1, <1>3
  <2>2. f[i - 1].half # "closing" /\ f[i - 1] # NL
    BY <1>4, <2>1 DEF Fits, NL
  <2>3. PICK r \in Records : f[i - 1] = Half("opening", r) /\ f[i - 1].half = "opening"
                             /\ f[i - 1].rec = r
    BY <1>4, <2>1, <2>2, TokenType
  <2>4. f[i] = Half("closing", r)
    BY <1>4, <2>1, <2>3 DEF Fits
  <2> QED BY <2>1, <2>3, <2>4, HalfTypes
<1> QED BY <1>1, <1>2, <1>5, <1>6 DEF Fits

LEMMA Pieces ==
  ASSUME NEW f \in Seq(Tokens), NEW s \in 1 .. Len(f)
  PROVE  /\ SubSeq(f, s, s) = <<f[s]>>
         /\ s < Len(f) => SubSeq(f, s, s + 1) = <<f[s], f[s + 1]>>
<1>1. Len(f) \in Nat /\ \A i \in 1 .. Len(f) : f[i] \in Tokens
  OBVIOUS
<1>2. SubSeq(f, s, s) = <<f[s]>>
  <2> DEFINE a == SubSeq(f, s, s)
             b == <<f[s]>>
  <2>1. a \in Seq(Tokens) /\ Len(a) = 1 /\ a[1] = f[s]
    BY <1>1, SubSeqProperties
  <2>2. b \in Seq(Tokens) /\ Len(b) = 1 /\ b[1] = f[s]
    BY <1>1
  <2> HIDE DEF a, b
  <2>3. a = b
    BY <2>1, <2>2, SeqEqual
  <2> QED BY <2>3 DEF a, b
<1>3. ASSUME s < Len(f) PROVE SubSeq(f, s, s + 1) = <<f[s], f[s + 1]>>
  <2> DEFINE a == SubSeq(f, s, s + 1)
             b == <<f[s], f[s + 1]>>
  <2>0. s + 1 \in 1 .. Len(f)
    BY <1>1, <1>3
  <2>1. a \in Seq(Tokens) /\ Len(a) = 2 /\ a[1] = f[s] /\ a[2] = f[s + 1]
    <3>1. \A i \in s .. (s + 1) : f[i] \in Tokens
      BY <1>1, <2>0
    <3>2. /\ a \in Seq(Tokens) /\ Len(a) = (s + 1) - s + 1
          /\ \A i \in 1 .. ((s + 1) - s + 1) : a[i] = f[s + i - 1]
      BY <3>1, SubSeqProperties
    <3>3. a[1] = f[s + 1 - 1] /\ a[2] = f[s + 2 - 1] /\ Len(a) = 2
      BY <3>2
    <3> QED BY <3>2, <3>3
  <2>2. b \in Seq(Tokens) /\ Len(b) = 2 /\ b[1] = f[s] /\ b[2] = f[s + 1]
    BY <1>1, <2>0
  <2> HIDE DEF a, b
  <2>3. \A i \in 1 .. Len(a) : a[i] = b[i]
    BY <2>1, <2>2
  <2>4. a = b
    BY <2>1, <2>2, <2>3, SeqEqual
  <2> QED BY <2>4 DEF a, b
<1> QED BY <1>2, <1>3

LEMMA StartsAre ==
  ASSUME NEW f \in Seq(Tokens), NEW s
  PROVE  s \in Starts(f) <=>
           s \in 1 .. (Len(f) + 1) /\ (s = 1 \/ f[s - 1] = NL)
<1>1. Len(f) \in Nat /\ DOMAIN f = 1 .. Len(f)
  OBVIOUS
<1>2. ASSUME s \in Starts(f)
      PROVE  s \in 1 .. (Len(f) + 1) /\ (s = 1 \/ f[s - 1] = NL)
  <2>1. CASE s = 1
    BY <1>1, <2>1
  <2>2. CASE s # 1
    <3>1. PICK i \in 1 .. Len(f) : f[i] = NL /\ s = i + 1
      BY <1>1, <1>2, <2>2 DEF Starts
    <3>2. s - 1 = i
      BY <3>1
    <3> QED BY <1>1, <3>1, <3>2
  <2> QED BY <2>1, <2>2
<1>3. ASSUME s \in 1 .. (Len(f) + 1), s # 1, f[s - 1] = NL
      PROVE  s \in Starts(f)
  <2>1. s - 1 \in DOMAIN f /\ s = (s - 1) + 1
    BY <1>1, <1>3
  <2> QED BY <1>3, <2>1 DEF Starts
<1>4. 1 \in Starts(f)
  BY DEF Starts
<1> QED BY <1>2, <1>3, <1>4

\* A line is blank, or a torn half at the end, or a record.
LEMMA LineAt ==
  ASSUME NEW f \in Seq(Tokens), Shape(f), NEW s \in Starts(f)
  PROVE  \/ Line(f, s) = <<>> /\ (s = Len(f) + 1 \/ f[s] = NL)
         \/ s = Len(f) /\ f[s].half = "opening" /\ Line(f, s) = <<f[s]>>
         \/ /\ s < Len(f) /\ f[s].half = "opening" /\ f[s].rec \in Records
            /\ f[s + 1] = Half("closing", f[s].rec)
            /\ Line(f, s) = Json(f[s].rec)
<1>1. Len(f) \in Nat /\ DOMAIN f = 1 .. Len(f) /\ s \in 1 .. (Len(f) + 1)
  BY StartsAre
<1>2. CASE s = Len(f) + 1
  <2>1. LineEnd(f, s) = Len(f)
    BY <1>1, <1>2, LineEnds
  <2>2. SubSeq(f, s, Len(f)) = <<>>
    BY <1>1, <1>2, SubSeqEmpty
  <2> QED BY <1>2, <2>1, <2>2 DEF Line
<1>3. CASE s # Len(f) + 1 /\ f[s] = NL
  <2>1. LineEnd(f, s) = s - 1
    BY <1>1, <1>3, LineEnds
  <2> QED BY <1>1, <1>3, <2>1 DEF Line
<1>4. CASE s # Len(f) + 1 /\ f[s] # NL
  <2>1. s \in 1 .. Len(f) /\ f[s] \in Tokens
    BY <1>1, <1>4
  <2>2. f[s].half # "closing"
    <3> SUFFICES ASSUME f[s].half = "closing" PROVE FALSE
      OBVIOUS
    <3>1. s > 1 /\ f[s - 1] = Half("opening", f[s].rec)
      BY <2>1, ShapeAt
    <3>2. f[s - 1] = NL
      BY <3>1, StartsAre
    <3> QED BY <3>1, <3>2 DEF NL, Half
  <2>3. PICK r \in Records : f[s] = Half("opening", r) /\ f[s].half = "opening"
                             /\ f[s].rec = r
    BY <1>4, <2>1, <2>2, TokenType
  <2>4. CASE s = Len(f)
    <3>1. LineEnd(f, s) = Len(f)
      <4> DEFINE e == Len(f) + 1
      <4>1. e \in s .. (Len(f) + 1) /\ e - 1 = s
        BY <1>1, <2>4
      <4>2. \A i \in s .. (e - 1) : f[i] # NL
        BY <1>4, <2>1, <4>1
      <4>3. LineEnd(f, s) = e - 1
        BY <1>1, <4>1, <4>2, LineEnds
      <4> QED BY <2>4, <4>1, <4>3
    <3>2. SubSeq(f, s, s) = <<f[s]>>
      BY <2>1, Pieces
    <3> QED BY <2>3, <2>4, <3>1, <3>2 DEF Line
  <2>5. CASE s < Len(f)
    <3>1. f[s + 1] = Half("closing", r) /\ f[s + 1] # NL /\ s + 1 \in 1 .. Len(f)
      BY <1>1, <2>1, <2>3, <2>5, ShapeAt DEF NL, Half
    <3>2. s + 2 <= Len(f) => f[s + 2] = NL
      <4> SUFFICES ASSUME s + 2 <= Len(f) PROVE f[s + 2] = NL
        OBVIOUS
      <4>1. s + 1 < Len(f) /\ (s + 1) + 1 = s + 2 /\ f[s + 1].half = "closing"
        BY <1>1, <3>1 DEF Half
      <4> QED BY <3>1, <4>1, ShapeAt
    <3>3. LineEnd(f, s) = s + 1
      <4>1. s + 2 \in s .. (Len(f) + 1) /\ (s + 2 = Len(f) + 1 \/ f[s + 2] = NL)
        BY <1>1, <2>5, <3>2
      <4>2. \A i \in s .. (s + 2 - 1) : f[i] # NL
        BY <1>1, <1>4, <3>1
      <4>3. LineEnd(f, s) = s + 2 - 1
        BY <1>1, <4>1, <4>2, LineEnds
      <4> QED BY <1>1, <4>3
    <3>4. SubSeq(f, s, s + 1) = <<f[s], f[s + 1]>>
      BY <2>1, <2>5, Pieces
    <3> QED BY <2>3, <2>5, <3>1, <3>3, <3>4 DEF Line, Json
  <2> QED BY <2>1, <2>4, <2>5
<1> QED BY <1>2, <1>3, <1>4

-----------------------------------------------------------------------------
(* What a read of a log of that shape returns.                             *)

LEMMA JsonIs ==
  ASSUME NEW r \in Records
  PROVE  /\ Json(r) # <<>> /\ Len(Json(r)) = 2
         /\ \A t : Json(r) # <<t>>
         /\ \A q \in Records : Json(q) = Json(r) => q = r
BY DEF Json, Half

LEMMA ParsedIsLogged ==
  ASSUME NEW f \in Seq(Tokens), Shape(f) PROVE Parsed(f) = Logged(f)
<1>1. Len(f) \in Nat /\ DOMAIN f = 1 .. Len(f)
  OBVIOUS
<1>2. ASSUME NEW r \in Records, NEW s \in Starts(f), Line(f, s) = Json(r)
      PROVE  \E i \in DOMAIN f : f[i] = Half("closing", r)
  <2>1. /\ s < Len(f) /\ f[s].rec \in Records
        /\ f[s + 1] = Half("closing", f[s].rec)
        /\ Line(f, s) = Json(f[s].rec)
    BY <1>2, LineAt, JsonIs
  <2>2. f[s].rec = r
    BY <1>2, <2>1, JsonIs
  <2>3. s + 1 \in DOMAIN f
    BY <1>1, <2>1, StartsAre
  <2> QED BY <2>1, <2>2, <2>3
<1>3. ASSUME NEW r \in Records, NEW i \in DOMAIN f, f[i] = Half("closing", r)
      PROVE  \E s \in Starts(f) : Line(f, s) = Json(r)
  <2>1. i > 1 /\ f[i - 1] = Half("opening", r)
    BY <1>1, <1>3, ShapeAt, HalfTypes
  <2>2. i - 1 \in 1 .. Len(f) /\ f[i - 1].half = "opening" /\ f[i - 1].rec = r
    BY <1>1, <2>1, HalfTypes
  <2>3. i - 1 \in Starts(f)
    BY <1>1, <2>2, ShapeAt, StartsAre
  <2>4. Line(f, i - 1) = Json(r)
    <3>1. i - 1 # Len(f) /\ i - 1 # Len(f) + 1
      BY <1>1
    <3>2. f[i - 1] # NL
      BY <2>1 DEF NL, Half
    <3> QED BY <2>2, <2>3, <3>1, <3>2, LineAt
  <2> QED BY <2>3, <2>4
<1> QED BY <1>2, <1>3 DEF Parsed, Logged

LEMMA MalformedIs ==
  ASSUME NEW f \in Seq(Tokens), Shape(f)
  PROVE  /\ LastOf(f).half # "opening" => Malformed(f) = {}
         /\ LastOf(f).half = "opening" =>
              /\ Malformed(f) = {LastStart(f)} /\ LastStart(f) = Len(f)
              /\ ~ Terminated(f) /\ Len(f) \in Nat \ {0}
<1>1. Len(f) \in Nat /\ DOMAIN f = 1 .. Len(f)
  OBVIOUS
<1>2. ASSUME NEW s \in Malformed(f)
      PROVE  s = Len(f) /\ LastOf(f).half = "opening"
  <2>1. s \in Starts(f) /\ Line(f, s) # <<>> /\ \A r \in Records : Line(f, s) # Json(r)
    BY DEF Malformed
  <2>2. s = Len(f) /\ f[s].half = "opening"
    BY <2>1, LineAt
  <2>3. f # <<>>
    BY <2>1, <2>2, StartsAre
  <2> QED BY <2>2, <2>3 DEF LastOf
<1>3. ASSUME LastOf(f).half = "opening"
      PROVE  /\ Malformed(f) = {LastStart(f)} /\ LastStart(f) = Len(f)
             /\ ~ Terminated(f) /\ Len(f) \in Nat \ {0}
  <2>1. f # <<>> /\ f[Len(f)].half = "opening" /\ f[Len(f)] # NL
    BY <1>3 DEF LastOf, NL
  <2>2. Len(f) \in 1 .. Len(f)
    BY <1>1, <2>1
  <2>3. Len(f) \in Starts(f)
    BY <1>1, <2>1, <2>2, ShapeAt, StartsAre
  <2>4. \A s \in Starts(f) : s \in Int /\ s <= Len(f)
    <3> SUFFICES ASSUME NEW s \in Starts(f) PROVE s \in Int /\ s <= Len(f)
      OBVIOUS
    <3>1. s \in 1 .. (Len(f) + 1) /\ (s = 1 \/ f[s - 1] = NL)
      BY StartsAre
    <3>2. s # Len(f) + 1
      BY <1>1, <2>1, <2>2, <3>1
    <3> QED BY <1>1, <3>1, <3>2
  <2>5. LastStart(f) = Len(f)
    BY <2>3, <2>4, MaxIs DEF LastStart
  <2>6. Line(f, Len(f)) = <<f[Len(f)]>>
    BY <1>1, <2>1, <2>3, LineAt
  <2>7. Len(f) \in Malformed(f)
    BY <2>3, <2>6, JsonIs DEF Malformed
  <2>8. Malformed(f) = {Len(f)}
    BY <1>2, <2>7
  <2>9. ~ Terminated(f)
    BY <2>1 DEF Terminated
  <2> QED BY <1>1, <2>2, <2>5, <2>8, <2>9
<1> QED BY <1>2, <1>3

\* A strict read is refused only for a torn half or a conflict; a recovering
\* read forgives the half and says where it begins.
LEMMA ReadIs ==
  ASSUME NEW f \in Seq(Tokens), Shape(f)
  PROVE  /\ ReadJsonl(f, FALSE).status = "ok" => LastOf(f).half # "opening"
         /\ ~ Conflicting(Logged(f)) =>
              /\ ReadJsonl(f, TRUE).status = "ok"
              /\ ReadJsonl(f, TRUE).records = Logged(f)
         /\ ReadJsonl(f, TRUE).warning # NoWarning =>
              /\ LastOf(f).half = "opening" /\ Len(f) \in Nat \ {0}
              /\ ReadJsonl(f, TRUE).warning = Len(f) - 1
<1>1. Parsed(f) = Logged(f)
  BY ParsedIsLogged
<1>2. CASE LastOf(f).half # "opening"
  <2>1. Malformed(f) = {}
    BY <1>2, MalformedIs
  <2> QED BY <1>1, <1>2, <2>1 DEF ReadJsonl, Failure
<1>3. CASE LastOf(f).half = "opening"
  <2>1. /\ Malformed(f) = {LastStart(f)} /\ LastStart(f) = Len(f)
        /\ ~ Terminated(f) /\ Len(f) \in Nat \ {0}
    BY <1>3, MalformedIs
  <2>2. Forgiven(f, TRUE) /\ ~ Forgiven(f, FALSE) /\ Malformed(f) # {}
    BY <2>1 DEF Forgiven
  <2>3. Offset(f, LastStart(f)) = Len(f) - 1
    BY <2>1 DEF Offset
  <2>4. ReadJsonl(f, FALSE).status = "json"
    BY <2>2 DEF ReadJsonl, Failure
  <2>5. ReadJsonl(f, TRUE) =
          IF Conflicting(Parsed(f)) THEN Failure("conflict")
          ELSE [status |-> "ok", records |-> Parsed(f), warning |-> Len(f) - 1]
    BY <2>2, <2>3 DEF ReadJsonl
  <2>6. ReadJsonl(f, FALSE).status # "ok"
    BY <2>4
  <2>7. CASE Conflicting(Parsed(f))
    <3>1. PICK c : c = ReadJsonl(f, TRUE)
      OBVIOUS
    <3>2. c = [status |-> "conflict", records |-> {}, warning |-> NoWarning]
      BY <2>5, <2>7, <3>1 DEF Failure
    <3>3. c.warning = NoWarning
      BY <3>2
    <3> QED BY <1>1, <2>6, <2>7, <3>1, <3>3
  <2>8. CASE ~ Conflicting(Parsed(f))
    <3>1. PICK c : c = ReadJsonl(f, TRUE)
      OBVIOUS
    <3>2. c = [status |-> "ok", records |-> Parsed(f), warning |-> Len(f) - 1]
      BY <2>5, <2>8, <3>1
    <3>3. c.status = "ok" /\ c.records = Parsed(f) /\ c.warning = Len(f) - 1
      BY <3>2
    <3> QED BY <1>1, <1>3, <2>1, <2>6, <3>1, <3>3
  <2> QED BY <2>7, <2>8
<1> QED BY <1>2, <1>3

-----------------------------------------------------------------------------
(* One byte more, and the torn tail cut off.                               *)

\* A fitting token keeps the shape, and adds a record if it closes one.
LEMMA Appended ==
  ASSUME NEW f \in Seq(Tokens), Shape(f), NEW t \in Tokens, Fits(LastOf(f), t)
  PROVE  /\ Append(f, t) \in Seq(Tokens) /\ LastOf(Append(f, t)) = t
         /\ Shape(Append(f, t))
         /\ Logged(Append(f, t)) =
              Logged(f) \cup {r \in Records : t = Half("closing", r)}
<1> DEFINE g == Append(f, t)
           n == Len(f)
<1>1. /\ n \in Nat /\ DOMAIN f = 1 .. n /\ g \in Seq(Tokens)
      /\ DOMAIN g = 1 .. (n + 1) /\ Len(g) = n + 1 /\ g[n + 1] = t
      /\ \A i \in 1 .. n : g[i] = f[i]
  OBVIOUS
<1>2. g # <<>> /\ LastOf(g) = t
  BY <1>1 DEF LastOf
<1>3. ASSUME NEW i \in DOMAIN g
      PROVE  Fits(IF i = 1 THEN NL ELSE g[i - 1], g[i])
  <2>1. CASE i \in 1 .. n
    <3>1. g[i] = f[i] /\ (i # 1 => g[i - 1] = f[i - 1])
      BY <1>1, <2>1
    <3>2. Fits(IF i = 1 THEN NL ELSE f[i - 1], f[i])
      BY <1>1, <2>1 DEF Shape
    <3>3. CASE i = 1
      BY <3>1, <3>2, <3>3
    <3>4. CASE i # 1
      BY <3>1, <3>2, <3>4
    <3> QED BY <3>3, <3>4
  <2>2. CASE i = n + 1
    <3>1. CASE n = 0
      <4>1. f = <<>> /\ LastOf(f) = NL
        BY <1>1, <3>1 DEF LastOf
      <4>2. i = 1 /\ g[i] = t
        BY <1>1, <2>2, <3>1
      <4> QED BY <4>1, <4>2
    <3>2. CASE n # 0
      <4>1. f # <<>> /\ LastOf(f) = f[n]
        BY <1>1, <3>2 DEF LastOf
      <4>2. n \in 1 .. n /\ i # 1 /\ i - 1 = n
        BY <1>1, <2>2, <3>2
      <4>3. g[i] = t /\ g[n] = f[n]
        BY <1>1, <2>2, <4>2

      <4> QED BY <4>1, <4>2, <4>3
    <3> QED BY <3>1, <3>2
  <2> QED BY <1>1, <2>1, <2>2
<1>4. Shape(g)
  BY <1>3 DEF Shape
<1>5. Logged(g) = Logged(f) \cup {r \in Records : t = Half("closing", r)}
  <2>1. ASSUME NEW r \in Records
        PROVE  (\E i \in DOMAIN g : g[i] = Half("closing", r)) <=>
                 \/ \E i \in DOMAIN f : f[i] = Half("closing", r)
                 \/ t = Half("closing", r)
    <3>1. \A i \in DOMAIN g : i \in DOMAIN f \/ i = n + 1
      BY <1>1
    <3>2. n + 1 \in DOMAIN g /\ \A i \in DOMAIN f : i \in DOMAIN g
      BY <1>1
    <3> HIDE DEF g, n
    <3> QED BY <1>1, <3>1, <3>2
  <2> HIDE DEF g
  <2> QED BY <2>1 DEF Logged
<1> QED BY <1>1, <1>2, <1>4, <1>5

\* Cutting the log before a torn half loses no record.
LEMMA TailCut ==
  ASSUME NEW f \in Seq(Tokens), Shape(f), LastOf(f).half = "opening",
         Len(f) \in Nat \ {0}
  PROVE  LET g == SubSeq(f, 1, Len(f) - 1) IN
           /\ g \in Seq(Tokens) /\ Shape(g) /\ Logged(g) = Logged(f)
<1> DEFINE n == Len(f) - 1
           g == SubSeq(f, 1, n)
<1>1. n \in Nat /\ DOMAIN f = 1 .. (n + 1) /\ f # <<>> /\ Len(f) = n + 1
  OBVIOUS
<1>2. \A i \in 1 .. n : f[i] \in Tokens
  BY <1>1
<1>3. g \in Seq(Tokens) /\ Len(g) = n /\ \A i \in 1 .. n : g[i] = f[i]
  <2>1. /\ g \in Seq(Tokens)
        /\ Len(g) = IF 1 <= n THEN n - 1 + 1 ELSE 0
        /\ \A i \in 1 .. (n - 1 + 1) : g[i] = f[1 + i - 1]
    BY <1>1, <1>2, SubSeqProperties
  <2>2. n - 1 + 1 = n /\ \A i \in 1 .. n : 1 + i - 1 = i
    BY <1>1
  <2>3. Len(g) = n
    BY <1>1, <2>1, <2>2
  <2>4. \A i \in 1 .. n : g[i] = f[i]
    <3> HIDE DEF g
    <3> QED BY <2>1, <2>2
  <2> QED BY <2>1, <2>3, <2>4
<1>4. DOMAIN g = 1 .. n
  BY <1>3
<1> HIDE DEF g
<1>5. ASSUME NEW i \in DOMAIN g
      PROVE  Fits(IF i = 1 THEN NL ELSE g[i - 1], g[i])
  <2>1. g[i] = f[i] /\ (i # 1 => g[i - 1] = f[i - 1]) /\ i \in DOMAIN f
    BY <1>1, <1>3, <1>4
  <2>2. Fits(IF i = 1 THEN NL ELSE f[i - 1], f[i])
    BY <2>1 DEF Shape
  <2>3. CASE i = 1
    BY <2>1, <2>2, <2>3
  <2>4. CASE i # 1
    BY <2>1, <2>2, <2>4
  <2> QED BY <2>3, <2>4
<1>6. ASSUME NEW r \in Records, NEW i \in DOMAIN f, f[i] = Half("closing", r)
      PROVE  i \in DOMAIN g /\ g[i] = Half("closing", r)
  <2>1. f[n + 1].half = "opening"
    BY <1>1 DEF LastOf
  <2>2. i # n + 1
    BY <1>6, <2>1 DEF Half
  <2> QED BY <1>1, <1>3, <1>4, <1>6, <2>2
<1>7. Logged(g) = Logged(f)
  BY <1>1, <1>3, <1>4, <1>6 DEF Logged
<1>8. Shape(g)
  BY <1>5 DEF Shape
<1> QED BY <1>3, <1>7, <1>8 DEF g

-----------------------------------------------------------------------------
(* The inductive invariant.                                                *)

\* What is still to write takes up where the log ends.
Ready ==
  \/ buffer = <<NL>> \o Json(rec) \o <<NL>> /\ LastOf(file).half = "closing"
  \/ buffer = Json(rec) \o <<NL>> /\ LastOf(file) = NL
  \/ buffer = <<Half("closing", rec), NL>> /\ LastOf(file) = Half("opening", rec)
  \/ buffer = <<NL>> /\ LastOf(file) = Half("closing", rec)
  \/ buffer = <<>> /\ rec \in Logged(file)

LogInv ==
  /\ Shape(file)
  /\ pc # "idle" => rec \in offered
  /\ pc = "write" => Ready
  /\ acked \subseteq Logged(file)
  /\ Logged(file) \subseteq offered

\* Every piece of what an append writes, laid out token by token.
LEMMA Layouts ==
  ASSUME NEW r \in Records
  PROVE  /\ <<>> \o Json(r) \o <<NL>> = <<Half("opening", r), Half("closing", r), NL>>
         /\ Json(r) \o <<NL>> = <<Half("opening", r), Half("closing", r), NL>>
         /\ <<NL>> \o Json(r) \o <<NL>> =
              <<NL, Half("opening", r), Half("closing", r), NL>>
<1> DEFINE a == Half("opening", r)
           b == Half("closing", r)
<1>1. a \in Tokens /\ b \in Tokens /\ NL \in Tokens /\ Json(r) = <<a, b>>
  BY HalfTypes DEF Json
<1> HIDE DEF a, b
<1>2. <<a, b>> \in Seq(Tokens) /\ <<NL>> \in Seq(Tokens)
  BY <1>1
<1>3. PICK s : s = <<a, b>> \o <<NL>>
  OBVIOUS
<1>4. s \in Seq(Tokens) /\ Len(s) = 3 /\ s[1] = a /\ s[2] = b /\ s[3] = NL
  BY <1>2, <1>3
<1>5. <<a, b, NL>> \in Seq(Tokens) /\ Len(<<a, b, NL>>) = 3
  BY <1>1
<1>6. s = <<a, b, NL>>
  BY <1>4, <1>5, SeqEqual
<1>7. <<>> \o <<a, b>> = <<a, b>>
  BY <1>2, ConcatEmptySeq
<1>8. PICK u : u = <<NL>> \o <<a, b>>
  OBVIOUS
<1>9. u \in Seq(Tokens) /\ Len(u) = 3 /\ u[1] = NL /\ u[2] = a /\ u[3] = b
  BY <1>2, <1>8
<1>10. PICK w : w = u \o <<NL>>
  OBVIOUS
<1>11. /\ w \in Seq(Tokens) /\ Len(w) = 4
       /\ w[1] = NL /\ w[2] = a /\ w[3] = b /\ w[4] = NL
  <2>1. PICK z : z = <<NL>>
    OBVIOUS
  <2>2. z \in Seq(Tokens) /\ Len(z) = 1 /\ z[1] = NL /\ w = u \o z
    BY <1>2, <1>10, <2>1
  <2>3. /\ u \o z \in Seq(Tokens) /\ Len(u \o z) = Len(u) + Len(z)
        /\ \A i \in 1 .. (Len(u) + Len(z)) :
             (u \o z)[i] = IF i <= Len(u) THEN u[i] ELSE z[i - Len(u)]
    BY <1>9, <2>2, ConcatProperties
  <2>4. w \in Seq(Tokens) /\ Len(w) = 4
    BY <1>9, <2>2, <2>3
  <2>5. \A i \in 1 .. 4 : w[i] = IF i <= 3 THEN u[i] ELSE z[i - 3]
    BY <1>9, <2>2, <2>3
  <2>6. w[1] = u[1] /\ w[2] = u[2] /\ w[3] = u[3] /\ w[4] = z[1]
    BY <2>5
  <2> QED BY <1>9, <2>2, <2>4, <2>6
<1>12. <<NL, a, b, NL>> \in Seq(Tokens) /\ Len(<<NL, a, b, NL>>) = 4
  BY <1>1
<1>13. w = <<NL, a, b, NL>>
  BY <1>11, <1>12, SeqEqual
<1> QED BY <1>1, <1>3, <1>6, <1>7, <1>8, <1>10, <1>13 DEF a, b

LEMMA EndIs ==
  ASSUME NEW f \in Seq(Tokens)
  PROVE  /\ Terminated(f) <=> LastOf(f) = NL
         /\ LastOf(f) \in Tokens
         /\ LastOf(f).half \in {"newline", "opening", "closing"}
         /\ LastOf(f).half = "newline" => LastOf(f) = NL
<1>1. LastOf(f) \in Tokens
  <2>1. CASE f = <<>>
    BY <2>1 DEF LastOf, Tokens
  <2>2. CASE f # <<>>
    <3>1. Len(f) \in 1 .. Len(f)
      BY <2>2
    <3>2. f[Len(f)] \in Tokens
      BY <3>1
    <3> QED BY <2>2, <3>2 DEF LastOf
  <2> QED BY <2>1, <2>2
<1>2. /\ LastOf(f).half \in {"newline", "opening", "closing"}
      /\ LastOf(f).half = "newline" => LastOf(f) = NL
  BY <1>1, TokenType
<1>3. Terminated(f) <=> LastOf(f) = NL
  <2>1. CASE f = <<>>
    BY <2>1 DEF LastOf, Terminated
  <2>2. CASE f # <<>>
    BY <2>2 DEF LastOf, Terminated
  <2> QED BY <2>1, <2>2
<1> QED BY <1>1, <1>2, <1>3

-----------------------------------------------------------------------------
(* Every step keeps it.                                                    *)

Inv == TypeOK /\ LogInv

LEMMA LogStarts == Init => Inv
<1> SUFFICES ASSUME Init PROVE Inv
  OBVIOUS
<1>1. PICK r \in Records : \/ file = <<>> /\ offered = {}
                           \/ file = Json(r) /\ offered = {r}
  BY DEF Init
<1>2. r # NoRecord /\ Half("opening", r) \in Tokens /\ Half("closing", r) \in Tokens
  BY HalfTypes
<1>3. file \in Seq(Tokens) /\ Shape(file) /\ Logged(file) = offered
  <2>1. CASE file = <<>> /\ offered = {}
    BY <2>1 DEF Shape, Logged
  <2>2. CASE file = Json(r) /\ offered = {r}
    <3> DEFINE a == Half("opening", r)
               b == Half("closing", r)
    <3>1. file = <<a, b>>
      BY <2>2 DEF Json
    <3>2. file \in Seq(Tokens) /\ DOMAIN file = {1, 2} /\ file[1] = a /\ file[2] = b
      BY <1>2, <3>1
    <3>3. Fits(NL, a) /\ Fits(a, b)
      BY DEF Fits, NL, Half
    <3>4. Shape(file)
      BY <3>2, <3>3 DEF Shape
    <3>5. \A q \in Records : (a = Half("closing", q) <=> FALSE)
                             /\ (b = Half("closing", q) <=> q = r)
      BY DEF Half
    <3> HIDE DEF a, b
    <3>6. Logged(file) = {r}
      BY <3>2, <3>5 DEF Logged
    <3> QED BY <2>2, <3>2, <3>4, <3>6
  <2> QED BY <1>1, <2>1, <2>2
<1>4. offered \subseteq Records
  BY <1>1
<1> QED BY <1>3, <1>4 DEF Inv, TypeOK, LogInv, Init

\* A strict read came before: there is no torn half to extend.
LEMMA PreflightKeeps == Inv /\ Preflight => Inv'
<1> SUFFICES ASSUME Inv, Preflight PROVE Inv'
  OBVIOUS
<1> USE DEF Inv
<1>1. rec \in Records /\ file \in Seq(Tokens) /\ Shape(file)
  BY DEF Preflight, TypeOK, LogInv
<1>2. UNCHANGED <<file, rec, offered, acked, appends, stops>>
  BY DEF Preflight
<1>3. CASE ReadJsonl(file, FALSE).status = "ok"
  <2>1. pc' = "write" /\ buffer' = Separator \o Json(rec) \o <<NL>>
    BY <1>3 DEF Preflight
  <2>2. LastOf(file).half # "opening"
    BY <1>1, <1>3, ReadIs
  <2>3. Ready' /\ buffer' \in Seq(Tokens)
    <3>1. /\ NL \in Tokens /\ Half("opening", rec) \in Tokens
          /\ Half("closing", rec) \in Tokens
      BY <1>1, HalfTypes
    <3>2. CASE LastOf(file) = NL
      <4>1. Separator = <<>>
        BY <1>1, <3>2, EndIs DEF Separator
      <4>2. buffer' = Json(rec) \o <<NL>>
        BY <1>1, <2>1, <4>1, Layouts
      <4>3. buffer' = <<Half("opening", rec), Half("closing", rec), NL>>
        BY <1>1, <4>2, Layouts
      <4>4. buffer' \in Seq(Tokens)
        BY <3>1, <4>3
      <4> QED BY <1>2, <3>2, <4>2, <4>4 DEF Ready
    <3>3. CASE LastOf(file) # NL
      <4>1. Separator = <<NL>> /\ LastOf(file).half = "closing"
        BY <1>1, <2>2, <3>3, EndIs DEF Separator
      <4>2. buffer' = <<NL>> \o Json(rec) \o <<NL>>
        BY <2>1, <4>1
      <4>3. buffer' = <<NL, Half("opening", rec), Half("closing", rec), NL>>
        BY <1>1, <4>2, Layouts
      <4>4. buffer' \in Seq(Tokens)
        BY <3>1, <4>3
      <4> QED BY <1>2, <4>1, <4>2, <4>4 DEF Ready
    <3> QED BY <3>2, <3>3
  <2> QED BY <1>2, <2>1, <2>3 DEF TypeOK, LogInv, Preflight
<1>4. CASE ReadJsonl(file, FALSE).status # "ok"
  BY <1>2, <1>4 DEF TypeOK, LogInv, Preflight
<1> QED BY <1>3, <1>4

\* The next byte fits where the log ends, whichever it is.
LEMMA WriteKeeps == Inv /\ Write => Inv'
<1> SUFFICES ASSUME Inv, Write PROVE Inv'
  OBVIOUS
<1> USE DEF Inv
<1>1. /\ rec \in Records /\ file \in Seq(Tokens) /\ Shape(file) /\ Ready
      /\ buffer # <<>>
  BY DEF Write, TypeOK, LogInv
<1>2. UNCHANGED <<pc, rec, offered, acked, appends, stops>> /\ pc = "write"
  BY DEF Write
<1> DEFINE a == Half("opening", rec)
           b == Half("closing", rec)
<1>3. /\ NL \in Tokens /\ a \in Tokens /\ b \in Tokens
      /\ a.half = "opening" /\ b.half = "closing" /\ NL.half = "newline"
      /\ a.rec = rec /\ b.rec = rec
  BY <1>1, HalfTypes
<1>4. PICK t : t = Head(buffer)
  OBVIOUS
<1>5. PICK s : s = Tail(buffer)
  OBVIOUS
<1>6. file' = Append(file, t) /\ buffer' = s
  BY <1>4, <1>5 DEF Write
<1>7. /\ t \in Tokens /\ s \in Seq(Tokens) /\ Fits(LastOf(file), t)
      /\ \/ t = NL /\ s = Json(rec) \o <<NL>>
         \/ t = a /\ s = <<b, NL>>
         \/ t = b /\ s = <<NL>>
         \/ t = NL /\ s = <<>> /\ rec \in Logged(file)
  <2> HIDE DEF a, b
  <2>1. CASE buffer = <<NL>> \o Json(rec) \o <<NL>> /\ LastOf(file).half = "closing"
    <3>1. buffer = <<NL, a, b, NL>>
      BY <1>1, <2>1, Layouts DEF a, b
    <3>2. t = NL /\ s = <<a, b, NL>>
      BY <1>4, <1>5, <3>1
    <3>3. s = Json(rec) \o <<NL>>
      BY <1>1, <3>2, Layouts DEF a, b
    <3>4. s \in Seq(Tokens)
      BY <1>3, <3>2
    <3>5. LastOf(file) # NL
      BY <1>3, <2>1
    <3>6. Fits(LastOf(file), t)
      BY <2>1, <3>2, <3>5 DEF Fits
    <3> QED BY <1>3, <3>2, <3>3, <3>4, <3>6
  <2>2. CASE buffer = Json(rec) \o <<NL>> /\ LastOf(file) = NL
    <3>1. buffer = <<a, b, NL>>
      BY <1>1, <2>2, Layouts DEF a, b
    <3>2. t = a /\ s = <<b, NL>>
      BY <1>4, <1>5, <3>1
    <3>3. s \in Seq(Tokens)
      BY <1>3, <3>2
    <3>4. Fits(LastOf(file), t)
      BY <1>3, <2>2, <3>2 DEF Fits
    <3> QED BY <1>3, <3>2, <3>3, <3>4
  <2>3. CASE buffer = <<b, NL>> /\ LastOf(file) = a
    <3>1. t = b /\ s = <<NL>>
      BY <1>4, <1>5, <2>3
    <3>2. s \in Seq(Tokens)
      BY <1>3, <3>1
    <3>3. Fits(LastOf(file), t)
      <4>1. b = Half("closing", a.rec)
        BY <1>3 DEF b
      <4> QED BY <1>3, <2>3, <3>1, <4>1 DEF Fits
    <3> QED BY <1>3, <3>1, <3>2, <3>3
  <2>4. CASE buffer = <<NL>> /\ LastOf(file) = b
    <3>1. t = NL /\ s = <<>>
      BY <1>4, <1>5, <2>4
    <3>2. Fits(LastOf(file), t)
      BY <1>3, <2>4, <3>1 DEF Fits
    <3>3. rec \in Logged(file)
      <4>1. CASE file = <<>>
        BY <1>3, <2>4, <4>1 DEF LastOf
      <4>2. CASE file # <<>>
        <5>1. Len(file) \in DOMAIN file /\ file[Len(file)] = b
          BY <1>1, <2>4, <4>2 DEF LastOf
        <5> QED BY <1>1, <5>1 DEF Logged, b
      <4> QED BY <4>1, <4>2
    <3> QED BY <1>3, <3>1, <3>2, <3>3
  <2> QED BY <1>1, <2>1, <2>2, <2>3, <2>4 DEF Ready, a, b
<1>8. /\ Append(file, t) \in Seq(Tokens) /\ LastOf(Append(file, t)) = t
      /\ Shape(Append(file, t))
      /\ Logged(Append(file, t)) =
           Logged(file) \cup {r \in Records : t = Half("closing", r)}
  BY <1>1, <1>7, Appended
<1>9. PICK g : g = Append(file, t)
  OBVIOUS
<1>10. /\ file' = g /\ g \in Seq(Tokens) /\ LastOf(g) = t /\ Shape(g)
       /\ Logged(g) = Logged(file) \cup {r \in Records : t = Half("closing", r)}
  BY <1>6, <1>8, <1>9
<1>11. \A r \in Records : t = Half("closing", r) => r = rec
  BY <1>7 DEF Half, NL
<1>12. Logged(file) \subseteq Logged(g) /\ Logged(g) \subseteq Logged(file) \cup {rec}
  BY <1>10, <1>11
<1>13. \/ s = Json(rec) \o <<NL>> /\ LastOf(g) = NL
       \/ s = <<b, NL>> /\ LastOf(g) = a
       \/ s = <<NL>> /\ LastOf(g) = b
       \/ s = <<>> /\ rec \in Logged(g)
  BY <1>7, <1>10, <1>12
<1>14. Ready'
  BY <1>2, <1>6, <1>10, <1>13 DEF Ready
<1>15. Shape(file') /\ Logged(file') = Logged(g)
  BY <1>10
<1>16. acked' \subseteq Logged(file') /\ Logged(file') \subseteq offered'
  BY <1>2, <1>12, <1>15 DEF LogInv
<1> QED BY <1>2, <1>6, <1>7, <1>10, <1>14, <1>15, <1>16 DEF TypeOK, LogInv

LEMMA RepairKeeps ==
  Inv /\ Repair => Inv' /\ Logged(file') = Logged(file)
<1> SUFFICES ASSUME Inv, Repair PROVE Inv' /\ Logged(file') = Logged(file)
  OBVIOUS
<1> USE DEF Inv
<1>1. file \in Seq(Tokens) /\ Shape(file)
  BY DEF TypeOK, LogInv
<1>2. /\ LastOf(file).half = "opening" /\ Len(file) \in Nat \ {0}
      /\ ReadJsonl(file, TRUE).warning = Len(file) - 1
  BY <1>1, ReadIs DEF Repair
<1>3. file' = SubSeq(file, 1, Len(file) - 1)
  BY <1>2 DEF Repair
<1>4. PICK g : g = SubSeq(file, 1, Len(file) - 1)
  OBVIOUS
<1>5. g \in Seq(Tokens) /\ Shape(g) /\ Logged(g) = Logged(file)
  BY <1>1, <1>2, <1>4, TailCut
<1>6. file' = g /\ Shape(file') /\ Logged(file') = Logged(file)
  BY <1>3, <1>4, <1>5
<1>7. pc = "idle" /\ UNCHANGED <<pc, rec, buffer, offered, acked, appends, stops>>
  BY DEF Repair
<1> QED BY <1>5, <1>6, <1>7 DEF TypeOK, LogInv

LEMMA LogSteps ==
  Inv /\ [Next]_vars => Inv' /\ Logged(file) \subseteq Logged(file')
<1> SUFFICES ASSUME Inv, [Next]_vars
             PROVE  Inv' /\ Logged(file) \subseteq Logged(file')
  OBVIOUS
<1>1. ASSUME NEW r \in Records, Begin(r)
      PROVE  Inv' /\ Logged(file) \subseteq Logged(file')
  BY <1>1 DEF Inv, TypeOK, LogInv, Begin
<1>2. CASE Preflight
  <2>1. file' = file
    BY <1>2 DEF Preflight
  <2> QED BY <1>2, <2>1, PreflightKeeps
<1>3. CASE Write
  <2>1. Inv'
    BY <1>3, WriteKeeps
  <2>2. PICK t : t = Head(buffer)
    OBVIOUS
  <2>3. file' = Append(file, t) /\ file \in Seq(Tokens)
    BY <1>3, <2>2 DEF Write, Inv, TypeOK
  <2>4. \A i \in DOMAIN file : i \in DOMAIN Append(file, t) /\ Append(file, t)[i] = file[i]
    BY <2>3
  <2>5. Logged(file) \subseteq Logged(Append(file, t))
    BY <2>4 DEF Logged
  <2> QED BY <2>1, <2>3, <2>5
<1>4. CASE Acknowledge
  <2>1. file' = file /\ rec \in Logged(file) /\ acked' = acked \cup {rec}
    BY <1>4 DEF Acknowledge, Inv, LogInv, Ready, Json
  <2> QED BY <1>4, <2>1 DEF Inv, TypeOK, LogInv, Acknowledge
<1>5. CASE Stop
  BY <1>5 DEF Inv, TypeOK, LogInv, Stop
<1>6. CASE Repair
  BY <1>6, RepairKeeps
<1>7. CASE UNCHANGED vars
  BY <1>7 DEF vars, Inv, TypeOK, LogInv, Ready
<1> QED BY <1>1, <1>2, <1>3, <1>4, <1>5, <1>6, <1>7 DEF Next

-----------------------------------------------------------------------------
(* The theorems.                                                           *)

\* Inv holds of every state of append_jsonl's log.
THEOREM LogIsWhole == Spec => []Inv
<1>1. Inv /\ [Next]_vars => Inv'
  BY LogSteps
<1> QED BY <1>1, LogStarts, PTL DEF Spec

\* Every variable of append_jsonl keeps its shape.
THEOREM TypeCorrect == Spec => []TypeOK
<1>1. Inv => TypeOK
  BY DEF Inv
<1> QED BY <1>1, LogIsWhole, PTL

LEMMA ConflictsGrow ==
  ASSUME NEW R, NEW S, R \subseteq S, Conflicting(R) PROVE Conflicting(S)
BY DEF Conflicting

\* At every moment, in mid append and after a death too, a recovering read
\* succeeds with every acknowledged record and none that was not offered.
THEOREM AcknowledgedStays == Spec => []AckedIsReadable
<1>1. Inv => AckedIsReadable
  <2> SUFFICES ASSUME Inv, ~ Conflicting(offered)
               PROVE  /\ ReadJsonl(file, TRUE).status = "ok"
                      /\ acked \subseteq ReadJsonl(file, TRUE).records
                      /\ ReadJsonl(file, TRUE).records \subseteq offered
    BY DEF AckedIsReadable
  <2>1. /\ file \in Seq(Tokens) /\ Shape(file) /\ acked \subseteq Logged(file)
        /\ Logged(file) \subseteq offered
    BY DEF Inv, TypeOK, LogInv
  <2>2. ~ Conflicting(Logged(file))
    BY <2>1, ConflictsGrow
  <2> QED BY <2>1, <2>2, ReadIs
<1> QED BY <1>1, LogIsWhole, PTL

\* What one recovering read returns, every later one does, across appends,
\* deaths and repairs.
THEOREM NoRecordIsLost == Spec => ReadsAreMonotone
<1>1. Inv /\ Inv' /\ [Next]_vars =>
        [~ Conflicting(offered') =>
           ReadJsonl(file, TRUE).records \subseteq ReadJsonl(file', TRUE).records]_vars
  <2> SUFFICES ASSUME Inv, Inv', [Next]_vars, ~ Conflicting(offered')
               PROVE  ReadJsonl(file, TRUE).records
                        \subseteq ReadJsonl(file', TRUE).records
    OBVIOUS
  <2>1. PICK f : f = file
    OBVIOUS
  <2>2. PICK g : g = file'
    OBVIOUS
  <2>3. /\ f \in Seq(Tokens) /\ Shape(f) /\ Logged(f) \subseteq Logged(g)
    BY <2>1, <2>2, LogSteps DEF Inv, TypeOK, LogInv
  <2>4. /\ g \in Seq(Tokens) /\ Shape(g) /\ Logged(g) \subseteq offered'
    BY <2>2 DEF Inv, TypeOK, LogInv
  <2>5. ~ Conflicting(Logged(g))
    BY <2>4, ConflictsGrow
  <2>6. ~ Conflicting(Logged(f))
    BY <2>3, <2>5, ConflictsGrow
  <2>7. ReadJsonl(f, TRUE).records = Logged(f) /\ ReadJsonl(g, TRUE).records = Logged(g)
    BY <2>3, <2>4, <2>5, <2>6, ReadIs
  <2> QED BY <2>1, <2>2, <2>3, <2>7
<1> QED BY <1>1, LogIsWhole, PTL DEF Spec, ReadsAreMonotone

-----------------------------------------------------------------------------
(* The history of a set of records.                                        *)

\* In a strict total order an element is where the number before it says.
LEMMA Ranks ==
  ASSUME NEW P, IsFiniteSet(P), NEW B,
         \A i \in P : B[i] \subseteq P /\ i \notin B[i],
         \A i, j \in P : j \in B[i] => B[j] \subseteq B[i],
         \A i, j \in P : i # j => i \in B[j] \/ j \in B[i]
  PROVE  /\ Cardinality(P) \in Nat
         /\ \A i \in P : Cardinality(B[i]) \in 0 .. Cardinality(P) - 1
         /\ \A i, j \in P : j \in B[i] <=> Cardinality(B[j]) < Cardinality(B[i])
         /\ \A i, j \in P : Cardinality(B[i]) = Cardinality(B[j]) => i = j
         /\ \A k \in 1 .. Cardinality(P) : \E i \in P : Cardinality(B[i]) = k - 1
<1> DEFINE n == Cardinality(P)
<1>1. n \in Nat
  BY FS_CardinalityType
<1>2. ASSUME NEW i \in P
      PROVE  IsFiniteSet(B[i]) /\ Cardinality(B[i]) \in 0 .. n - 1
  <2>1. IsFiniteSet(B[i]) /\ Cardinality(B[i]) <= n /\ Cardinality(B[i]) # n
    BY FS_Subset
  <2>2. Cardinality(B[i]) \in Nat
    BY <2>1, FS_CardinalityType
  <2> QED BY <1>1, <2>1, <2>2
<1>3. ASSUME NEW i \in P, NEW j \in P, j \in B[i]
      PROVE  Cardinality(B[j]) < Cardinality(B[i])
  <2>1. B[j] \subseteq B[i] /\ B[j] # B[i]
    BY <1>3
  <2>2. Cardinality(B[j]) <= Cardinality(B[i]) /\ Cardinality(B[i]) # Cardinality(B[j])
    BY <1>2, <2>1, FS_Subset
  <2>3. Cardinality(B[j]) \in Int /\ Cardinality(B[i]) \in Int
    BY <1>2
  <2> QED BY <2>2, <2>3
<1>4. \A i, j \in P : Cardinality(B[i]) = Cardinality(B[j]) => i = j
  <2> SUFFICES ASSUME NEW i \in P, NEW j \in P, Cardinality(B[i]) = Cardinality(B[j]), i # j
               PROVE  FALSE
    OBVIOUS
  <2>1. Cardinality(B[i]) \in Int
    BY <1>2
  <2> QED BY <1>3, <2>1
<1>5. \A i, j \in P : j \in B[i] <=> Cardinality(B[j]) < Cardinality(B[i])
  <2> SUFFICES ASSUME NEW i \in P, NEW j \in P, Cardinality(B[j]) < Cardinality(B[i]),
                      j \notin B[i]
               PROVE  FALSE
    BY <1>3
  <2>1. Cardinality(B[i]) \in Int /\ Cardinality(B[j]) \in Int
    BY <1>2
  <2>2. i # j
    BY <2>1
  <2>3. Cardinality(B[i]) < Cardinality(B[j])
    BY <1>3, <2>2
  <2> QED BY <2>1, <2>3
<1>6. \A k \in 1 .. n : \E i \in P : Cardinality(B[i]) = k - 1
  <2> DEFINE f == [i \in P |-> Cardinality(B[i])]
  <2>1. f \in Injection(P, 0 .. n - 1)
    <3>1. f \in [P -> 0 .. n - 1]
      BY <1>2
    <3>2. \A i, j \in P : f[i] = f[j] => i = j
      BY <1>4
    <3> HIDE DEF f
    <3> QED BY <3>1, <3>2 DEF Injection, IsInjective
  <2>2. IsFiniteSet(0 .. n - 1) /\ Cardinality(0 .. n - 1) = IF 0 > n - 1 THEN 0 ELSE n - 1 - 0 + 1
    BY <1>1, FS_Interval
  <2>3. Cardinality(0 .. n - 1) = n
    BY <1>1, <2>2
  <2> HIDE DEF f
  <2>4. f \in Surjection(P, 0 .. n - 1)
    BY <2>1, <2>2, <2>3, FS_Injection
  <2>5. \A k \in 0 .. n - 1 : \E i \in P : f[i] = k
    BY <2>4 DEF Surjection
  <2>6. \A k \in 1 .. n : k - 1 \in 0 .. n - 1
    BY <1>1
  <2> QED BY <2>5, <2>6 DEF f
<1> QED BY <1>1, <1>2, <1>4, <1>5, <1>6

\* Records that can be replayed: their ids differ.
Known(R) == R \subseteq Records /\ IsFiniteSet(R) /\ ~ Conflicting(R)

LEMMA RecordTypes ==
  ASSUME NEW r \in Records
  PROVE  r.id \in Int /\ r.observer \in Int /\ r.order \in Int
<1>1. {r.id, r.observer, r.order} \subseteq Int
  BY RecordsAssumption
<1> QED BY <1>1

LEMMA PrecedesIsAnOrder ==
  ASSUME NEW a \in Records, NEW b \in Records
  PROVE  /\ ~ Precedes(a, a)
         /\ \A c \in Records : Precedes(a, b) /\ Precedes(b, c) => Precedes(a, c)
         /\ ~ (Precedes(a, b) /\ Precedes(b, a))
         /\ a.id # b.id => Precedes(a, b) \/ Precedes(b, a)
  BY RecordTypes DEF Precedes

\* The timeline of records has each of them once, in their order.
LEMMA TimelineIs ==
  ASSUME NEW R, Known(R), NEW s, s = Timeline(R)
  PROVE  /\ Cardinality(R) \in Nat /\ DOMAIN s = 1 .. Cardinality(R)
         /\ \A i \in DOMAIN s : s[i] \in R
         /\ \A r \in R : \E i \in DOMAIN s : s[i] = r
         /\ \A i, j \in DOMAIN s : i < j <=> Precedes(s[i], s[j])
         /\ \A i, j \in DOMAIN s : s[i] = s[j] => i = j
<1> DEFINE earlier(r) == {q \in R : Precedes(q, r)}
           B == [r \in R |-> earlier(r)]
           m == Cardinality(R)
<1>0. R \subseteq Records /\ IsFiniteSet(R) /\ \A a, b \in R : a # b => a.id # b.id
  BY DEF Known, Conflicting
<1>1. /\ \A i \in R : B[i] \subseteq R /\ i \notin B[i]
      /\ \A i, j \in R : j \in B[i] => B[j] \subseteq B[i]
      /\ \A i, j \in R : i # j => i \in B[j] \/ j \in B[i]
  BY <1>0, PrecedesIsAnOrder
<1>2. \A r \in R : B[r] = earlier(r)
  OBVIOUS
<1> HIDE DEF B
<1>3. /\ m \in Nat
      /\ \A i \in R : Cardinality(B[i]) \in 0 .. m - 1
      /\ \A i, j \in R : j \in B[i] <=> Cardinality(B[j]) < Cardinality(B[i])
      /\ \A i, j \in R : Cardinality(B[i]) = Cardinality(B[j]) => i = j
      /\ \A k \in 1 .. m : \E i \in R : Cardinality(B[i]) = k - 1
  BY <1>0, <1>1, Ranks
<1>4. s = [k \in 1 .. m |-> CHOOSE r \in R : Cardinality(earlier(r)) = k - 1]
  BY DEF Timeline
<1>5. ASSUME NEW k \in 1 .. m PROVE s[k] \in R /\ Cardinality(B[s[k]]) = k - 1
  <2>1. \E r \in R : Cardinality(earlier(r)) = k - 1
    BY <1>2, <1>3
  <2>2. s[k] = CHOOSE r \in R : Cardinality(earlier(r)) = k - 1
    BY <1>4
  <2>3. s[k] \in R /\ Cardinality(earlier(s[k])) = k - 1
    BY <2>1, <2>2
  <2> QED BY <1>2, <2>3
<1>6. DOMAIN s = 1 .. m
  BY <1>4
<1> HIDE DEF m
<1>7. ASSUME NEW r \in R PROVE \E k \in 1 .. m : s[k] = r
  <2> DEFINE k == Cardinality(B[r]) + 1
  <2>1. k \in 1 .. m /\ k - 1 = Cardinality(B[r])
    BY <1>3
  <2>2. s[k] \in R /\ Cardinality(B[s[k]]) = k - 1
    BY <1>5, <2>1
  <2>3. s[k] = r
    BY <1>3, <2>1, <2>2
  <2> QED BY <2>1, <2>3
<1>8. ASSUME NEW i \in 1 .. m, NEW j \in 1 .. m PROVE i < j <=> Precedes(s[i], s[j])
  <2>1. /\ s[i] \in R /\ Cardinality(B[s[i]]) = i - 1
        /\ s[j] \in R /\ Cardinality(B[s[j]]) = j - 1
    BY <1>5
  <2>2. s[i] \in B[s[j]] <=> i < j
    BY <1>3, <2>1
  <2> QED BY <1>2, <2>1, <2>2
<1>9. ASSUME NEW i \in 1 .. m, NEW j \in 1 .. m, s[i] = s[j] PROVE i = j
  BY <1>5, <1>9
<1> QED BY <1>3, <1>5, <1>6, <1>7, <1>8, <1>9 DEF m

\* Some numbers have a greatest.
LEMMA GreatestOf ==
  ASSUME NEW S, IsFiniteSet(S), S # {}, S \subseteq Int
  PROVE  \E i \in S : \A j \in S : j <= i
<1> DEFINE B == [i \in S |-> {j \in S : j < i}]
<1>0. \A i \in S : i \in Int
  OBVIOUS
<1>2. /\ \A i, j \in S : j \in B[i] <=> j < i
      /\ \A i \in S : B[i] \subseteq S
  OBVIOUS
<1> HIDE DEF B
<1>1. /\ \A i \in S : B[i] \subseteq S /\ i \notin B[i]
      /\ \A i, j \in S : j \in B[i] => B[j] \subseteq B[i]
      /\ \A i, j \in S : i # j => i \in B[j] \/ j \in B[i]
  <2>1. ASSUME NEW i \in S PROVE B[i] \subseteq S /\ i \notin B[i]
    <3>1. i \in Int /\ ~ (i < i)
      BY <1>0
    <3>2. B[i] \subseteq S
      BY <1>2
    <3>3. i \notin B[i]
      BY <1>2, <3>1
    <3> QED BY <3>2, <3>3
  <2>2. ASSUME NEW i \in S, NEW j \in S, j \in B[i] PROVE B[j] \subseteq B[i]
    <3> SUFFICES ASSUME NEW k \in B[j] PROVE k \in B[i]
      OBVIOUS
    <3>1. k \in S /\ k < j /\ j < i /\ {i, j, k} \subseteq Int
      BY <1>0, <1>2, <2>2
    <3> QED BY <1>2, <3>1
  <2>3. ASSUME NEW i \in S, NEW j \in S, i # j PROVE i \in B[j] \/ j \in B[i]
    <3>1. i < j \/ j < i
      BY <1>0, <2>3
    <3> QED BY <1>2, <3>1
  <2> QED BY <2>1, <2>2, <2>3
<1>3. /\ Cardinality(S) \in Nat
      /\ \A i \in S : Cardinality(B[i]) \in 0 .. Cardinality(S) - 1
      /\ \A i, j \in S : j \in B[i] <=> Cardinality(B[j]) < Cardinality(B[i])
      /\ \A k \in 1 .. Cardinality(S) : \E i \in S : Cardinality(B[i]) = k - 1
  BY <1>1, Ranks
<1>4. Cardinality(S) # 0
  BY FS_EmptySet
<1>5. PICK i \in S : Cardinality(B[i]) = Cardinality(S) - 1
  BY <1>3, <1>4
<1>6. ASSUME NEW j \in S PROVE j <= i
  <2>1. ~ (i \in B[j])
    BY <1>3, <1>5
  <2> QED BY <1>2, <2>1
<1> QED BY <1>6

\* What its observer saw before a record.
Past(R, r) == {q \in R : q.observer = r.observer /\ Precedes(q, r)}

IsLast(p, B) == p \in B /\ \A q \in B : q = p \/ Precedes(q, p)

\* replay and summarize_context_recurrence take the same records for earlier ones.
LEMMA PreviousIs ==
  ASSUME NEW R, Known(R), NEW s, s = Timeline(R), NEW i \in DOMAIN s
  PROVE  /\ PreviousOf(s, i) \subseteq DOMAIN s /\ DOMAIN s \subseteq Int
         /\ IsFiniteSet(PreviousOf(s, i))
         /\ {s[j] : j \in PreviousOf(s, i)} = Past(R, s[i])
         /\ Prior(s, s[i]) = PreviousOf(s, i)
<1>1. /\ Cardinality(R) \in Nat /\ DOMAIN s = 1 .. Cardinality(R)
      /\ \A j \in DOMAIN s : s[j] \in R
      /\ \A r \in R : \E j \in DOMAIN s : s[j] = r
      /\ \A j, k \in DOMAIN s : j < k <=> Precedes(s[j], s[k])
      /\ \A j, k \in DOMAIN s : s[j] = s[k] => j = k
  BY TimelineIs
<1>2. R \subseteq Records /\ \A a, b \in R : a # b => a.id # b.id
  BY DEF Known, Conflicting
<1>3. IsFiniteSet(DOMAIN s)
  BY <1>1, FS_Interval
<1>4. IsFiniteSet(PreviousOf(s, i))
  <2>1. PreviousOf(s, i) \in SUBSET DOMAIN s
    BY DEF PreviousOf
  <2> QED BY <1>3, <2>1, FS_Subset
<1>5. {s[j] : j \in PreviousOf(s, i)} = Past(R, s[i])
  BY <1>1 DEF PreviousOf, Past
<1>6. ASSUME NEW j \in DOMAIN s, s[j].observer = s[i].observer
      PROVE  j < i <=> /\ s[j].id # s[i].id
                       /\ \/ s[j].order < s[i].order
                          \/ s[j].order = s[i].order /\ s[j].id < s[i].id
  <2>1. PICK a, b : a = s[j] /\ b = s[i]
    OBVIOUS
  <2>2. a \in Records /\ b \in Records /\ (a # b => a.id # b.id) /\ a.observer = b.observer
    BY <1>1, <1>2, <1>6, <2>1
  <2>3. a.id \in Int /\ b.id \in Int /\ a.order \in Int /\ b.order \in Int /\ a.observer \in Int
    BY <2>2, RecordTypes
  <2>4. j < i => a # b
    BY <1>1, <2>1
  <2>5. Precedes(a, b) <=> (a.order < b.order \/ (a.order = b.order /\ a.id < b.id))
    BY <2>2, <2>3 DEF Precedes
  <2>6. j < i <=> Precedes(a, b)
    BY <1>1, <2>1
  <2> QED BY <2>1, <2>2, <2>4, <2>5, <2>6
<1>7. Prior(s, s[i]) = PreviousOf(s, i)
  BY <1>6 DEF Prior, PreviousOf
<1> QED BY <1>1, <1>4, <1>5, <1>7 DEF PreviousOf

\* A record's transition is from the last of its observer's past.
LEMMA TransitionIs ==
  ASSUME NEW R, Known(R), NEW r \in R
  PROVE  /\ Past(R, r) = {} => TransitionOf(Replay(R), r) = First
         /\ Past(R, r) # {} =>
              \E p \in Past(R, r) : /\ IsLast(p, Past(R, r))
                                    /\ TransitionOf(Replay(R), r) = Compare(p, r)
<1>1. PICK s : s = Timeline(R)
  OBVIOUS
<1>2. /\ Cardinality(R) \in Nat /\ DOMAIN s = 1 .. Cardinality(R)
      /\ \A j \in DOMAIN s : s[j] \in R
      /\ \A q \in R : \E j \in DOMAIN s : s[j] = q
      /\ \A j, k \in DOMAIN s : j < k <=> Precedes(s[j], s[k])
      /\ \A j, k \in DOMAIN s : s[j] = s[k] => j = k
  BY <1>1, TimelineIs
<1> DEFINE before(i) == PreviousOf(s, i)
           shown(i)  == IF before(i) = {} THEN First
                        ELSE Compare(s[CHOOSE j \in before(i) : \A h \in before(i) : h <= j], s[i])
<1>3. Replay(R) = [records |-> s, transitions |-> [i \in DOMAIN s |-> shown(i)]]
  BY <1>1 DEF Replay
<1>4. PICK i \in DOMAIN s : s[i] = r
  BY <1>2
<1>5. TransitionOf(Replay(R), r) = shown(i)
  <2>1. (CHOOSE j \in DOMAIN s : s[j] = r) = i
    BY <1>2, <1>4
  <2> HIDE DEF shown
  <2>2. PICK h : h = Replay(R)
    OBVIOUS
  <2>3. h.records = s /\ h.transitions[i] = shown(i)
    BY <1>3, <1>4, <2>2
  <2> QED BY <2>1, <2>2, <2>3 DEF TransitionOf
<1>6. /\ before(i) \subseteq DOMAIN s /\ DOMAIN s \subseteq Int /\ IsFiniteSet(before(i))
      /\ {s[j] : j \in before(i)} = Past(R, r)
  BY <1>1, <1>4, PreviousIs
<1> HIDE DEF before
<1>7. CASE before(i) = {}
  BY <1>5, <1>6, <1>7
<1>8. CASE before(i) # {}
  <2> DEFINE c == CHOOSE j \in before(i) : \A h \in before(i) : h <= j
  <2>1. \E j \in before(i) : \A h \in before(i) : h <= j
    BY <1>6, <1>8, GreatestOf
  <2>2. c \in before(i) /\ \A h \in before(i) : h <= c
    BY <2>1
  <2>3. shown(i) = Compare(s[c], r)
    BY <1>4, <1>8
  <2> HIDE DEF c, shown
  <2>4. s[c] \in Past(R, r)
    BY <1>6, <2>2
  <2>5. IsLast(s[c], Past(R, r))
    <3> SUFFICES ASSUME NEW q \in Past(R, r) PROVE q = s[c] \/ Precedes(q, s[c])
      BY <2>4 DEF IsLast
    <3>1. PICK j \in before(i) : q = s[j]
      BY <1>6
    <3>2. j \in DOMAIN s /\ c \in DOMAIN s /\ j \in Int /\ c \in Int /\ j <= c
      BY <1>6, <2>2
    <3>3. j = c \/ j < c
      BY <3>2
    <3> QED BY <1>2, <3>1, <3>2, <3>3
  <2> QED BY <1>5, <2>3, <2>4, <2>5
<1> QED BY <1>7, <1>8

LEMMA OneLast ==
  ASSUME NEW B, B \subseteq Records, NEW p, NEW q, IsLast(p, B), IsLast(q, B)
  PROVE  p = q
  BY PrecedesIsAnOrder DEF IsLast

\* Records that arrive change the transition only of what comes right after them.
LEMMA NewcomersDisturb ==
  ASSUME NEW R, NEW S, Known(R), Known(S), R \subseteq S, NEW r \in R,
         TransitionOf(Replay(S), r) # TransitionOf(Replay(R), r)
  PROVE  \E c \in S \ R :
            /\ c.observer = r.observer /\ Precedes(c, r)
            /\ ~ \E between \in R : /\ between.observer = r.observer
                                   /\ Precedes(c, between) /\ Precedes(between, r)
<1>1. R \subseteq Records /\ S \subseteq Records /\ r \in S
  BY DEF Known
<1>2. Past(R, r) = Past(S, r) \cap R /\ Past(S, r) \subseteq Records
  BY <1>1 DEF Past
<1>3. Past(S, r) # {}
  <2> SUFFICES ASSUME Past(S, r) = {} PROVE FALSE
    OBVIOUS
  <2>1. Past(R, r) = {}
    BY <1>2
  <2> QED BY <1>1, <2>1, TransitionIs
<1>4. PICK c \in Past(S, r) : /\ IsLast(c, Past(S, r))
                              /\ TransitionOf(Replay(S), r) = Compare(c, r)
  BY <1>1, <1>3, TransitionIs
<1>5. c \notin R
  <2> SUFFICES ASSUME c \in R PROVE FALSE
    OBVIOUS
  <2>1. c \in Past(R, r) /\ IsLast(c, Past(R, r))
    BY <1>2, <1>4 DEF IsLast
  <2>2. PICK p \in Past(R, r) : /\ IsLast(p, Past(R, r))
                                /\ TransitionOf(Replay(R), r) = Compare(p, r)
    BY <2>1, TransitionIs
  <2>3. p = c
    BY <1>2, <2>1, <2>2, OneLast
  <2> QED BY <1>4, <2>2, <2>3
<1>6. c \in S /\ c.observer = r.observer /\ Precedes(c, r)
  BY <1>4 DEF Past
<1>7. ASSUME NEW between \in R, between.observer = r.observer,
             Precedes(c, between), Precedes(between, r)
      PROVE  FALSE
  <2>1. between \in Past(S, r) /\ between \in Records /\ c \in Records
    BY <1>1, <1>6, <1>7 DEF Past
  <2>2. between = c \/ Precedes(between, c)
    BY <1>4, <2>1 DEF IsLast
  <2> QED BY <1>7, <2>1, <2>2, PrecedesIsAnOrder
<1> QED BY <1>5, <1>6, <1>7

\* What a recurrence summary says, of a timeline.
LEMMA SummaryMatches ==
  ASSUME NEW R, Known(R), NEW history, history = Replay(R),
         NEW i \in DOMAIN history.records
  PROVE  LET r      == history.records[i]
             past   == Recurrence(history.records, r)
             before == PreviousOf(history.records, i)
             shown  == history.transitions[i].relation
         IN  /\ shown = "first" <=> before = {}
             /\ shown = "same" => past.exact > 0
             /\ shown = "compatible" => past.compatible > 0
             /\ past.exact + past.compatible
                  = Cardinality({j \in before : Compatible(history.records[j], r)})
             /\ past.match = "anchored" =>
                  \E j \in before : /\ history.records[j].path["next_hop_link_address"]
                                          = r.path["next_hop_link_address"]
                                    /\ r.path["next_hop_link_address"] \notin Blank
<1>1. PICK s : s = Timeline(R)
  OBVIOUS
<1> DEFINE B        == PreviousOf(s, i)
           r        == s[i]
           relation == history.transitions[i].relation
           past     == Recurrence(s, r)
           exact      == {j \in B : ContextKey(s[j]) = ContextKey(r)}
           compatible == {j \in B \ exact : Compatible(s[j], r)}
<1>2. /\ history.records = s
      /\ history.transitions = [k \in DOMAIN s |->
             LET before == PreviousOf(s, k)
             IN  IF before = {} THEN First
                 ELSE Compare(s[CHOOSE j \in before : \A h \in before : h <= j], s[k])]
  BY <1>1 DEF Replay
<1>3. i \in DOMAIN s
  BY <1>2
<1>4. B \subseteq DOMAIN s /\ DOMAIN s \subseteq Int /\ IsFiniteSet(B) /\ Prior(s, r) = B
  BY <1>1, <1>3, PreviousIs
<1>5. /\ past.exact = Cardinality(exact) /\ past.compatible = Cardinality(compatible)
      /\ past.match = CASE exact = {} -> "none"
                        [] exact # {} /\ r.path["next_hop_link_address"] \in Blank -> "unanchored"
                        [] OTHER -> "anchored"
  <2> HIDE DEF B, r
  <2> QED BY <1>4 DEF Recurrence
<1>6. history.transitions[i] = IF B = {} THEN First
                               ELSE Compare(s[CHOOSE j \in B : \A h \in B : h <= j], r)
  BY <1>2, <1>3
<1> HIDE DEF B, r, past
<1>7. IsFiniteSet(exact) /\ IsFiniteSet(compatible) /\ exact \cap compatible = {}
      /\ Cardinality(exact) \in Nat /\ Cardinality(compatible) \in Nat
  <2>1. exact \in SUBSET B /\ compatible \in SUBSET B /\ exact \cap compatible = {}
    OBVIOUS
  <2> HIDE DEF exact, compatible
  <2>2. IsFiniteSet(exact) /\ IsFiniteSet(compatible)
    BY <1>4, <2>1, FS_Subset
  <2> QED BY <2>1, <2>2, FS_CardinalityType
\* What was observed under the same key is compatible.
<1>8. ASSUME NEW a, NEW b, ContextKey(a) = ContextKey(b)
      PROVE  /\ Compatible(a, b)
             /\ a.path["next_hop_link_address"] = b.path["next_hop_link_address"]
  <2>1. ASSUME NEW d \in KeyDimensions PROVE a.path[d] = b.path[d]
    <3>1. ContextKey(a)[d] = a.path[d] /\ ContextKey(b)[d] = b.path[d]
      BY DEF ContextKey
    <3> QED BY <1>8, <3>1
  <2> QED BY <2>1 DEF Compatible, KeyDimensions
<1>9. past.exact + past.compatible = Cardinality({j \in B : Compatible(s[j], r)})
  <2>1. {j \in B : Compatible(s[j], r)} = exact \cup compatible
    BY <1>8
  <2> HIDE DEF exact, compatible
  <2>2. Cardinality(exact \cup compatible)
          = Cardinality(exact) + Cardinality(compatible) - Cardinality(exact \cap compatible)
    BY <1>7, FS_Union
  <2>3. Cardinality(exact \cap compatible) = 0
    BY <1>7, FS_EmptySet
  <2> QED BY <1>5, <1>7, <2>1, <2>2, <2>3
<1>10. CASE B = {}
  <2>1. history.transitions[i].relation = "first"
    BY <1>6, <1>10 DEF First
  <2>2. past.match = "none"
    BY <1>5, <1>10
  <2> QED BY <1>2, <1>9, <1>10, <2>1, <2>2 DEF B, r, past
<1>11. CASE B # {}
  <2> DEFINE c == CHOOSE j \in B : \A h \in B : h <= j
  <2>1. c \in B
    <3>1. \E j \in B : \A h \in B : h <= j
      BY <1>4, <1>11, GreatestOf
    <3> QED BY <3>1
  <2>2. history.transitions[i] = Compare(s[c], r)
    BY <1>6, <1>11
  <2> HIDE DEF c
  <2>3. relation = CASE ContextKey(s[c]) = ContextKey(r) -> "same"
                     [] ContextKey(s[c]) # ContextKey(r) /\ Compatible(s[c], r) -> "compatible"
                     [] OTHER -> "changed"
    BY <2>2 DEF Compare
  <2>4. relation # "first"
    BY <2>3
  <2>5. relation = "same" => c \in exact
    BY <2>1, <2>3
  <2>6. relation = "compatible" => c \in compatible
    BY <2>1, <2>3
  <2>7. ASSUME past.match = "anchored"
        PROVE  \E j \in B : /\ s[j].path["next_hop_link_address"]
                                   = r.path["next_hop_link_address"]
                            /\ r.path["next_hop_link_address"] \notin Blank
    <3>1. exact # {} /\ r.path["next_hop_link_address"] \notin Blank
      BY <1>5, <2>7
    <3> QED BY <1>8, <3>1
  <2> HIDE DEF exact, compatible, relation
  <2>8. (relation = "same" => past.exact > 0) /\ (relation = "compatible" => past.compatible > 0)
    <3>1. \A S : IsFiniteSet(S) => (Cardinality(S) = 0 <=> S = {})
      BY FS_EmptySet
    <3>2. relation = "same" => past.exact # 0
      BY <1>5, <1>7, <2>5, <3>1
    <3>3. relation = "compatible" => past.compatible # 0
      BY <1>5, <1>7, <2>6, <3>1
    <3> QED BY <1>5, <1>7, <3>2, <3>3
  <2> QED BY <1>2, <1>9, <1>11, <2>4, <2>7, <2>8 DEF B, r, past, relation
<1> QED BY <1>10, <1>11

-----------------------------------------------------------------------------
(* The history of a log.                                                   *)

LEMMA LoggedIsFinite ==
  ASSUME NEW f \in Seq(Tokens)
  PROVE  IsFiniteSet(Logged(f))
<1> DEFINE S == {i \in DOMAIN f : \E r \in Records : f[i] = Half("closing", r)}
           g == [i \in S |-> f[i].rec]
<1>1. IsFiniteSet(DOMAIN f)
  BY LenProperties, FS_Interval
<1>2. S \in SUBSET DOMAIN f
  OBVIOUS
<1>3. IsFiniteSet(S)
  <2> HIDE DEF S
  <2> QED BY <1>1, <1>2, FS_Subset
<1>4. g \in Surjection(S, Logged(f))
  <2>1. \A i \in S : g[i] \in Logged(f)
    BY HalfTypes DEF Logged
  <2>2. \A r \in Logged(f) : \E i \in S : g[i] = r
    BY HalfTypes DEF Logged
  <2> QED BY <2>1, <2>2 DEF Surjection
<1> HIDE DEF g, S
<1> QED BY <1>3, <1>4, FS_Surjection

\* A log that can be read has records that can be replayed.
LEMMA ReadableIsKnown ==
  ASSUME NEW f \in Seq(Tokens), Shape(f), Readable(f)
  PROVE  Known(Parsed(f)) /\ Parsed(f) = Logged(f) /\ Range(History(f).records) = Parsed(f)
<1>1. Parsed(f) = Logged(f) /\ Parsed(f) \subseteq Records
  BY ParsedIsLogged DEF Logged
<1>2. ~ Conflicting(Parsed(f))
  BY DEF Readable, ReadJsonl, Failure
<1>3. Known(Parsed(f))
  BY <1>1, <1>2, LoggedIsFinite DEF Known
<1>4. PICK s : s = Timeline(Parsed(f))
  OBVIOUS
<1>5. /\ \A i \in DOMAIN s : s[i] \in Parsed(f)
      /\ \A r \in Parsed(f) : \E i \in DOMAIN s : s[i] = r
  BY <1>3, <1>4, TimelineIs
<1>6. History(f).records = s
  BY <1>4 DEF History, Replay
<1>7. Range(s) = Parsed(f)
  BY <1>5 DEF Range
<1> QED BY <1>1, <1>3, <1>6, <1>7

\* In every history that a log can show, for all records and observers, the summary
\* and the transitions agree on what came before.
THEOREM SummariesMatchHistory == Spec => []RecurrenceMatchesHistory
<1>1. Inv => RecurrenceMatchesHistory
  <2> SUFFICES ASSUME Inv, Readable(file) PROVE RecurrenceMatchesHistory
    BY DEF RecurrenceMatchesHistory
  <2>1. Known(Parsed(file))
    BY ReadableIsKnown DEF Inv, TypeOK, LogInv
  <2>2. History(file) = Replay(Parsed(file))
    BY DEF History
  <2> QED BY <2>1, <2>2, SummaryMatches DEF RecurrenceMatchesHistory
<1> QED BY <1>1, LogIsWhole, PTL

\* However late an observation comes, and whatever happened to the log, it changes
\* only the transition of the one right after it on its observer's timeline.
THEOREM HistoryStaysStable == Spec => HistoryIsStable
<1>1. Inv /\ Inv' /\ [Next]_vars =>
        [Parsed(file') # Parsed(file) /\ Readable(file) /\ Readable(file') =>
         LET old  == History(file)
             new  == History(file')
             came == Range(new.records) \ Range(old.records)
         IN  \A r \in Range(old.records) :
                r \in Range(new.records) /\ TransitionOf(new, r) # TransitionOf(old, r) =>
                    \E c \in came :
                        /\ c.observer = r.observer /\ Precedes(c, r)
                        /\ ~\E between \in Range(old.records) :
                              /\ between.observer = r.observer
                              /\ Precedes(c, between) /\ Precedes(between, r)]_vars
  <2> SUFFICES ASSUME Inv, Inv', [Next]_vars, Readable(file), Readable(file'),
                      NEW r \in Range(History(file).records),
                      TransitionOf(History(file'), r) # TransitionOf(History(file), r)
               PROVE  \E c \in Range(History(file').records) \ Range(History(file).records) :
                        /\ c.observer = r.observer /\ Precedes(c, r)
                        /\ ~\E between \in Range(History(file).records) :
                              /\ between.observer = r.observer
                              /\ Precedes(c, between) /\ Precedes(between, r)
    OBVIOUS
  <2>1. PICK f : f = file
    OBVIOUS
  <2>2. PICK g : g = file'
    OBVIOUS
  <2>3. /\ f \in Seq(Tokens) /\ Shape(f) /\ Logged(f) \subseteq Logged(g)
    BY <2>1, <2>2, LogSteps DEF Inv, TypeOK, LogInv
  <2>4. g \in Seq(Tokens) /\ Shape(g)
    BY <2>2 DEF Inv, TypeOK, LogInv
  <2>5. PICK R, S : R = Parsed(f) /\ S = Parsed(g)
    OBVIOUS
  <2>6. Known(R) /\ R = Logged(f) /\ Range(History(f).records) = R
    BY <2>1, <2>3, <2>5, ReadableIsKnown
  <2>7. Known(S) /\ S = Logged(g) /\ Range(History(g).records) = S
    BY <2>2, <2>4, <2>5, ReadableIsKnown
  <2>8. History(f) = Replay(R) /\ History(g) = Replay(S)
    BY <2>5 DEF History
  <2>9. r \in R /\ TransitionOf(Replay(S), r) # TransitionOf(Replay(R), r)
    BY <2>1, <2>2, <2>6, <2>8
  <2>10. \E c \in S \ R :
            /\ c.observer = r.observer /\ Precedes(c, r)
            /\ ~ \E between \in R : /\ between.observer = r.observer
                                   /\ Precedes(c, between) /\ Precedes(between, r)
    BY <2>3, <2>6, <2>7, <2>9, NewcomersDisturb
  <2> QED BY <2>1, <2>2, <2>6, <2>7, <2>10
<1> QED BY <1>1, LogIsWhole, PTL DEF Spec, HistoryIsStable

=============================================================================
