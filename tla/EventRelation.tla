---------------------------- MODULE EventRelation ----------------------------
(***************************************************************************)
(* The assessments of rust/src/infer and rust/src/replay/same_event.rs     *)
(* that say whether two observations are of one event, and the claims they *)
(* are projected to (calibrated_event_relation.rs, same_event.rs,          *)
(* content_relation.rs, hypothesis.rs).                                    *)
(*                                                                         *)
(* A reference to an observation or a document is [id, digest], two        *)
(* numbers that order references as their strings do; the digest stands    *)
(* for the content.  A claim is [family, supported, inputs]: the family of *)
(* its hypotheses, the only alternative it supports, and the sequence of   *)
(* [role, ref] that it rests on, in the order of the roles.                *)
(***************************************************************************)
EXTENDS Naturals, Sequences

Ref(id, digest) == [id |-> id, digest |-> digest]

RefBefore(a, b) == a.id < b.id \/ (a.id = b.id /\ a.digest < b.digest)

\* Both kinds of assessment put their two observations into canonical order.
Canonical(a, b) == IF RefBefore(b, a) THEN <<b, a>> ELSE <<a, b>>

Refused(why) == [status |-> why]

----------------------------------------------------------------------------
\* calibrated_event_relation.rs.  A profile is [ref, forward, reverse] with the
\* two thresholds [same, different] of each direction; a prediction is [ref,
\* profile, pair, forward, reverse, decision], where `profile' is the digest of
\* the profile that it cites, `pair' the two observations its frame is named
\* after, and a decision is <<"same">>, <<"different">> or <<"abstain", reason>>;
\* a receipt is [ref, profile, gate].

ProfileValid(p) == p.forward.same < p.forward.different /\ p.reverse.same < p.reverse.different

DirectionState(score, thresholds) ==
    IF score <= thresholds.same THEN "same"
    ELSE IF score >= thresholds.different THEN "different" ELSE "gap"

ExpectedDecision(p, forward, reverse) ==
    LET f == DirectionState(forward, p.forward)
        r == DirectionState(reverse, p.reverse)
    IN  CASE f = r /\ f # "gap" -> <<f>>
          [] f # r /\ "gap" \notin {f, r} -> <<"abstain", "direction_disagreement">>
          [] OTHER -> <<"abstain", "score_gap">>

PredictionValid(q, p) ==
    /\ q.profile = p.ref.digest
    /\ q.decision = ExpectedDecision(p, q.forward, q.reverse)

ReceiptValid(r, p) == r.profile = p.ref.digest

\* assess_calibrated_event_relation_v0: an assessment, or the reason of the refusal.
AssessCalibrated(left, right, p, q, r) ==
    CASE left = right -> Refused("identical_observations")
      [] ~ProfileValid(p) -> Refused("invalid_profile")
      [] ~PredictionValid(q, p) -> Refused("invalid_prediction")
      [] ~ReceiptValid(r, p) -> Refused("invalid_receipt")
      [] q.pair # Canonical(left, right) -> Refused("prediction_observation_mismatch")
      [] r.gate # "passed" -> Refused("heldout_gate_not_passed")
      [] OTHER -> [status |-> "ok", observations |-> Canonical(left, right),
                   profile |-> p.ref, prediction |-> q.ref, receipt |-> r.ref,
                   supported |-> IF q.decision[1] = "abstain" THEN "unknown" ELSE q.decision[1]]

\* project_finite_hypothesis_claim_v0 of a calibrated assessment.
CalibratedClaim(a) ==
    [family |-> "calibrated", supported |-> a.supported,
     inputs |-> <<[role |-> "calibration_profile", ref |-> a.profile],
                  [role |-> "heldout_evaluation_receipt", ref |-> a.receipt],
                  [role |-> "left_observation", ref |-> a.observations[1]],
                  [role |-> "prediction", ref |-> a.prediction],
                  [role |-> "right_observation", ref |-> a.observations[2]]>>]

----------------------------------------------------------------------------
\* replay/same_event.rs.  A packet is [ref, capture, whole, wlan], `wlan' its
\* frame type and subtype, <<>> when no IEEE 802.11 layer was read.

\* assess_packet_same_event_v0: packets are never said to be of the same event.
AssessPackets(left, right) ==
    LET comparable == /\ left.capture # right.capture
                      /\ left.whole /\ right.whole
                      /\ left.wlan # <<>> /\ right.wlan # <<>>
    IN  [status |-> "ok", observations |-> Canonical(left.ref, right.ref),
         supported |-> IF comparable /\ left.wlan # right.wlan THEN "different" ELSE "unknown"]

PacketClaim(a) ==
    [family |-> "packet", supported |-> a.supported,
     inputs |-> <<[role |-> "left_packet", ref |-> a.observations[1]],
                  [role |-> "right_packet", ref |-> a.observations[2]]>>]

----------------------------------------------------------------------------
\* content_relation.rs.  Evidence of content is [ref, observed]: the digest of
\* some bytes, 0 when it is unavailable.

AssessContents(left, right) ==
    [status |-> "ok", observations |-> Canonical(left.ref, right.ref),
     supported |-> IF 0 \in {left.observed, right.observed} THEN "unknown"
                   ELSE IF left.observed = right.observed THEN "same" ELSE "different"]

ContentClaim(a) ==
    [family |-> "content", supported |-> a.supported,
     inputs |-> <<[role |-> "left_content_evidence", ref |-> a.observations[1]],
                  [role |-> "right_content_evidence", ref |-> a.observations[2]]>>]

----------------------------------------------------------------------------
\* A request asks for one assessment and its claim, or gives a claim that was
\* written down before; the answer is a claim with status "ok", or a refusal.
AssessedClaim(request) ==
    LET answer == CASE request.kind = "calibrated" ->
                         AssessCalibrated(request.left, request.right, request.profile,
                                          request.prediction, request.receipt)
                    [] request.kind = "packet" -> AssessPackets(request.left, request.right)
                    [] request.kind = "content" -> AssessContents(request.left, request.right)
        claim  == CASE request.kind = "calibrated" -> CalibratedClaim(answer)
                    [] request.kind = "packet" -> PacketClaim(answer)
                    [] request.kind = "content" -> ContentClaim(answer)
    IN  IF request.kind = "given" THEN [status |-> "ok", claim |-> request.claim]
        ELSE IF answer.status = "ok" THEN [status |-> "ok", claim |-> claim] ELSE answer
=============================================================================
