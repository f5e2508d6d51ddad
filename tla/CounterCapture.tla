--------------------------- MODULE CounterCapture ---------------------------
(***************************************************************************)
(* rust/src/infer/counter_capture.rs: does a capture account for what the  *)
(* counters of an interface say of the same time?  Ten features of both    *)
(* windows are compared in exact fractions of numbers of fixed width;      *)
(* whatever does not fit is reported as not representable, never rounded.  *)
(* A window has rb, tb bytes and rp, tp packets, received and transmitted, *)
(* in ms milliseconds.                                                     *)
(***************************************************************************)
EXTENDS Integers, Sequences, SequencesExt

CONSTANTS
    Width,        \* the bits of a number: 128 in the code
    PPB,          \* what a fraction is a multiple of when written: 10^9
    RateFactor,   \* bits per byte and milliseconds per second: 8000
    ScaleFloor    \* the least scale of a profile: 5 * 10^7

Limit == 2^Width

----------------------------------------------------------------------------
\* ExactRatio.

gcd[left \in Nat, right \in Nat] == IF right = 0 THEN left ELSE gcd[right, left % right]

Ratio(n, d) == [num |-> n, den |-> d]
Zero        == Ratio(0, 1)
One         == Ratio(1, 1)
Overflow    == Ratio(0, 0)   \* stands for the error ArithmeticOverflow

Reduced(n, d) ==
    CASE d = 0 -> Overflow
      [] d # 0 /\ n = 0 -> Zero
      [] OTHER -> Ratio(n \div gcd[n, d], d \div gcd[n, d])

\* A fraction whose parts were computed with checked operations.
Checked(n, d) == IF n < Limit /\ d < Limit THEN Reduced(n, d) ELSE Overflow

\* Two fractions over their least common denominator.
Aligned(a, b) ==
    LET common == gcd[a.den, b.den]
    IN  [left |-> a.num * (b.den \div common), right |-> b.num * (a.den \div common),
         den |-> a.den * (b.den \div common)]

\* checked_abs_diff
AbsDiff(a, b) ==
    IF a = b THEN Zero
    ELSE IF a.num = 0 THEN b
    ELSE IF b.num = 0 THEN a
    ELSE LET x == Aligned(a, b)
         IN  IF x.left < Limit /\ x.right < Limit
             THEN Checked(IF x.left > x.right THEN x.left - x.right ELSE x.right - x.left, x.den)
             ELSE Overflow

\* checked_mul, checked_div
Times(a, b) ==
    IF a.num = 0 \/ b.num = 0 THEN Zero
    ELSE LET l == gcd[a.num, b.den]
             r == gcd[b.num, a.den]
         IN  Checked((a.num \div l) * (b.num \div r), (a.den \div r) * (b.den \div l))

Over(a, b) == IF b.num = 0 THEN Overflow ELSE Times(a, Ratio(b.den, b.num))

\* checked_add: the products fit when their sum does.
Plus(a, b) ==
    IF Overflow \in {a, b} THEN Overflow
    ELSE IF a.num = 0 THEN b
    ELSE IF b.num = 0 THEN a
    ELSE LET x == Aligned(a, b) IN Checked(x.left + x.right, x.den)

\* Mutant: a sum that is the modulus itself is not carried.
AddRemaindersLate(left, right, m) ==
    IF left > m - right THEN <<left - (m - right), 1>> ELSE <<left + right, 0>>

\* add_remainders_mod: the sum modulo m and its carry, without going past m.
AddRemainders(left, right, m) ==
    IF left >= m - right THEN <<left - (m - right), 1>> ELSE <<left + right, 0>>

\* checked_mul_div_floor: the multiplier bit by bit from the highest, so that only
\* a quotient that does not fit overflows; <<>> then.
MulDivFloor(multiplicand, multiplier, divisor) ==
    LET Fit(q, r) == IF q < Limit THEN <<q, r>> ELSE <<>>
        Twice(at) == LET sum == AddRemainders(at[2], at[2], divisor)
                     IN  Fit(2 * at[1] + sum[2], sum[1])
        Once(at)  == LET sum == AddRemainders(at[2], multiplicand % divisor, divisor)
                     IN  Fit(at[1] + (multiplicand \div divisor) + sum[2], sum[1])
        Bit(at, bit) == LET doubled == IF at = <<>> THEN <<>> ELSE Twice(at)
                        IN  IF doubled = <<>> \/ (multiplier \div 2^bit) % 2 = 0 THEN doubled
                            ELSE Once(doubled)
        end == FoldLeft(Bit, <<0, 0>>, [i \in 1 .. Width |-> Width - i])
    IN  IF divisor = 0 \/ end = <<>> THEN <<>> ELSE <<end[1]>>

\* floor_scaled
InPPB(a) == MulDivFloor(a.num, PPB, a.den)

----------------------------------------------------------------------------
\* Features, residuals and their sum.

\* optional_ratio: <<>> when there is nothing to divide by.
OptionalRatio(n, d) == IF d = 0 THEN <<>> ELSE <<Reduced(n, d)>>

\* derive_exact_features: bytes and packets, the shares of the packets, the mean
\* sizes, the rates.
Features(w) ==
    <<<<Ratio(w.rb, 1)>>, <<Ratio(w.tb, 1)>>, <<Ratio(w.rp, 1)>>, <<Ratio(w.tp, 1)>>,
      OptionalRatio(w.rp, w.rp + w.tp), OptionalRatio(w.tp, w.rp + w.tp),
      OptionalRatio(w.rb, w.rp), OptionalRatio(w.tb, w.tp),
      <<Reduced(w.rb * RateFactor, w.ms)>>, <<Reduced(w.tb * RateFactor, w.ms)>>>>

\* serialize_features_ppb: "overflow", or what is written of every feature.
WrittenFeatures(features) ==
    LET written == [i \in DOMAIN features |->
                       IF features[i] = <<>> THEN <<>> ELSE <<InPPB(features[i][1])>>]
    IN  [fits |-> \A i \in DOMAIN written : written[i] # <<<<>>>>, written |-> written]

\* exact_residuals: a residual is relative to what was expected, unless that is
\* less than one.
Residual(expected, observed) ==
    LET difference == AbsDiff(expected, observed)
    IN  IF difference = Overflow THEN Overflow
        ELSE Over(difference, IF expected.num >= expected.den THEN expected ELSE One)

Incompatible(counter, capture, i) == (counter[i] = <<>>) # (capture[i] = <<>>)

Residuals(counter, capture) ==
    [i \in DOMAIN counter |->
        IF Incompatible(counter, capture, i) \/ counter[i] = <<>> THEN Zero
        ELSE Residual(counter[i][1], capture[i][1])]

\* The features that the computation stops at, in the order of the features.
Obstacles(counter, capture, residuals) ==
    {i \in DOMAIN counter : Incompatible(counter, capture, i) \/ residuals[i] = Overflow}

\* exact_scaled_residual_sum_ppb: <<>> when a number on the way does not fit.
ScaledSum(residuals, scales) ==
    LET Add(sum, i) == Plus(sum, Over(residuals[i], Reduced(scales[i], PPB)))
        sum == FoldLeft(Add, Zero, [i \in DOMAIN residuals |-> i])
    IN  IF sum = Overflow THEN <<>> ELSE InPPB(sum)

----------------------------------------------------------------------------
\* The assessment.

\* TrafficWindowEvidenceV0::validate, CounterCaptureProfileV0::validate: evidence
\* has a window when and only when it is declared complete.
ValidEvidence(e) ==
    /\ (e.coverage = "declared_complete") = (e.window # <<>>)
    /\ e.window # <<>> => e.window[1].ms # 0

ValidProfile(p) ==
    /\ \A i \in DOMAIN p.scales : p.scales[i] >= ScaleFloor
    /\ p.support < p.contradiction

UnknownFor(reason) == <<"unknown", reason>>
Unrepresentable    == UnknownFor(<<"arithmetic_unrepresentable">>)

\* coverage_gate: the counter's coverage before the capture's.
CoverageGate(counter, capture) ==
    CASE counter # "declared_complete" -> <<"counter", counter>>
      [] counter = "declared_complete" /\ capture # "declared_complete" -> <<"capture", capture>>
      [] OTHER -> <<>>

Basis(counter, capture, residuals, score) ==
    [counter |-> counter, capture |-> capture, residuals |-> residuals, score |-> score]

Empty == Basis(<<>>, <<>>, <<>>, <<>>)

Verdict(score, profile) ==
    CASE score <= profile.support -> <<"accounts">>
      [] score > profile.support /\ score >= profile.contradiction -> <<"does_not_account">>
      [] OTHER -> UnknownFor(<<"score_between_thresholds">>)

\* What is found of two complete windows.
Scored(counter, capture, profile) ==
    LET expected  == Features(counter)
        observed  == Features(capture)
        written   == <<WrittenFeatures(expected), WrittenFeatures(observed)>>
        residuals == Residuals(expected, observed)
        obstacles == Obstacles(expected, observed, residuals)
        inPPB     == [i \in DOMAIN residuals |-> InPPB(residuals[i])]
        score     == ScaledSum(residuals, profile.scales)
        Found(reference, basis) == [reference |-> reference, basis |-> basis]
        First == CHOOSE i \in obstacles : \A j \in obstacles : i <= j
    IN  IF ~written[1].fits \/ ~written[2].fits THEN Found(Unrepresentable, Empty)
        ELSE IF obstacles # {} /\ Incompatible(expected, observed, First)
        THEN Found(UnknownFor(<<"incompatible", First>>),
                   Basis(<<written[1].written>>, <<written[2].written>>, <<>>, <<>>))
        ELSE IF obstacles # {} \/ (\E i \in DOMAIN inPPB : inPPB[i] = <<>>) \/ score = <<>>
        THEN Found(Unrepresentable, Empty)
        ELSE Found(Verdict(score[1], profile),
                   Basis(<<written[1].written>>, <<written[2].written>>,
                         <<[i \in DOMAIN inPPB |-> inPPB[i][1]]>>, score))

\* unknown_basis_valid, complete_score, incompatible_basis_feature: what a reader
\* requires of an assessment that it has not computed.
ValidStructure(a, counter, capture, profile) ==
    LET gate     == CoverageGate(counter.coverage, capture.coverage)
        complete == gate = <<>> /\ <<>> \notin {a.basis.counter, a.basis.capture,
                                                a.basis.residuals, a.basis.score}
        differ   == {i \in DOMAIN a.basis.counter[1] :
                        Incompatible(a.basis.counter[1], a.basis.capture[1], i)}
    IN  CASE a.reference = <<"accounts">> -> complete /\ a.basis.score[1] <= profile.support
          [] a.reference = <<"does_not_account">> ->
                 complete /\ a.basis.score[1] >= profile.contradiction
          [] a.reference = UnknownFor(<<"score_between_thresholds">>) ->
                 complete /\ a.basis.score[1] > profile.support
                          /\ a.basis.score[1] < profile.contradiction
          [] a.reference = Unrepresentable -> gate = <<>> /\ a.basis = Empty
          [] a.reference[1] = "unknown" /\ a.reference[2][1] = "incompatible" ->
                 /\ gate = <<>> /\ a.basis.residuals = <<>> /\ a.basis.score = <<>>
                 /\ a.basis.counter # <<>> /\ a.basis.capture # <<>>
                 /\ a.reference[2][2] \in differ
                 /\ \A i \in differ : a.reference[2][2] <= i
          [] OTHER -> a.reference = UnknownFor(gate) /\ a.basis = Empty

\* assess_counter_capture_v0, finish_assessment.
AssessCounter(counter, capture, profile) ==
    LET gate  == CoverageGate(counter.coverage, capture.coverage)
        found == IF gate # <<>> THEN [reference |-> UnknownFor(gate), basis |-> Empty]
                 ELSE Scored(counter.window[1], capture.window[1], profile)
    IN  IF ~ValidEvidence(counter) \/ ~ValidEvidence(capture) \/ ~ValidProfile(profile)
        THEN [status |-> "refused"]
        ELSE IF ~ValidStructure(found, counter, capture, profile)
        THEN [status |-> "internal_invariant"]
        ELSE [status |-> "ok", reference |-> found.reference, basis |-> found.basis]

=============================================================================
