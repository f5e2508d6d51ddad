-------------------------- MODULE ClaimComposition --------------------------
(***************************************************************************)
(* What rust/src/infer makes of many claims: lineage.rs (records of what   *)
(* came of what), composition.rs (claims in canonical order, one to a      *)
(* slot), qualified_composition.rs (which of them share declared lineage)  *)
(* and fusion_target.rs (what the claims on one pair of participants say). *)
(*                                                                         *)
(* A provenance record is [output, kind, inputs], the inputs a sequence of *)
(* references.                                                             *)
(***************************************************************************)
EXTENDS EventRelation, FiniteSets, FiniteSetsExt, SequencesExt

CONSTANTS
    MaxRecords, \* PROVENANCE_GRAPH_MAX_RECORDS_V0
    MaxClaims   \* PROVENANCE_QUALIFIED_..._MAX_CLAIMS_V0

RootKinds  == {"direct_observation", "authored_assertion"}
UnaryKinds == {"quotation", "repetition"}

\* ProvenanceRecordV0::try_new.
RecordValid(r) ==
    /\ Cardinality(ToSet(r.inputs)) = Len(r.inputs)
    /\ r.output \notin ToSet(r.inputs)
    /\ r.kind \in RootKinds => r.inputs = <<>>
    /\ r.kind \in UnaryKinds => Len(r.inputs) = 1
    /\ r.kind \notin RootKinds \cup UnaryKinds => r.inputs # <<>>

\* ProvenanceGraphV0::ancestors: the artifact itself, and what is found from it
\* through the records; an artifact that no record has as output is a leaf.
Ancestors(records, artifact) ==
    LET CitedBy(found) == UNION {ToSet(r.inputs) : r \in {q \in records : q.output \in found}}
        Search(found, i) == found \cup CitedBy(found)
    IN  FoldLeft(Search, {artifact}, [i \in 1 .. Cardinality(records) + 1 |-> i])

\* ensure_acyclic.
Cyclic(records) ==
    \E r \in records : \E i \in ToSet(r.inputs) : r.output \in Ancestors(records, i)

\* ProvenanceGraphV0::try_new, of records that were each made by their own try_new.
GraphOf(records) ==
    CASE \E r \in ToSet(records) : ~RecordValid(r) -> Refused("invalid_record")
      [] Len(records) > MaxRecords -> Refused("record_limit_exceeded")
      [] Cardinality({r.output : r \in ToSet(records)}) # Len(records) -> Refused("duplicate_output")
      [] Cyclic(ToSet(records)) -> Refused("cycle")
      [] OTHER -> [status |-> "ok", records |-> ToSet(records)]

\* ProvenanceGraphV0::compare.
LineageRelation(records, a, b) ==
    LET left == Ancestors(records, a)
        right == Ancestors(records, b)
    IN  CASE a = b -> "same_reference"
          [] b \in left -> "left_descends_from_right"
          [] a \in right -> "right_descends_from_left"
          [] left \cap right # {} -> "shared_ancestor"
          [] OTHER -> "no_shared_ancestry_found"

----------------------------------------------------------------------------
\* compare_claim_slots: family, reducer (one for each family), then the inputs.

FamilyRank == [calibrated |-> 1, content |-> 2, packet |-> 3]

Slot(c) == <<c.family, c.inputs>>

\* The parts of a slot that are compared in turn; claims of one family have the
\* same input roles.
SlotKey(c) == <<FamilyRank[c.family]>> \o
              FlattenSeq([i \in DOMAIN c.inputs |-> <<c.inputs[i].ref.id, c.inputs[i].ref.digest>>])

\* A mutant: claims are sorted by their family alone.
SlotBeforeByFamily(c, d) == FamilyRank[c.family] < FamilyRank[d.family]

SlotBefore(c, d) ==
    LET k == SlotKey(c)
        l == SlotKey(d)
    IN  \E i \in DOMAIN k \cap DOMAIN l : k[i] < l[i] /\ \A j \in 1 .. i - 1 : k[j] = l[j]

\* FiniteHypothesisCompositionV0::try_new: sorted, and one claim kept of each slot.
Compose(claims) ==
    LET Keep(kept, c) ==
            IF kept.status # "ok" THEN kept
            ELSE IF kept.claims = <<>> \/ Slot(Last(kept.claims)) # Slot(c)
                 THEN [kept EXCEPT !.claims = Append(@, c)]
            ELSE IF Last(kept.claims) = c THEN kept
            ELSE Refused("divergent_slot")
    IN  FoldLeft(Keep, [status |-> "ok", claims |-> <<>>], SortSeq(claims, SlotBefore))

----------------------------------------------------------------------------
\* ProvenanceQualifiedFiniteHypothesisCompositionV0::try_new: the pairs of claims
\* that have inputs of shared lineage.
ClaimPairs(claims) == {p \in (DOMAIN claims) \X (DOMAIN claims) : p[1] < p[2]}

SharedLineagePairs(claims, records) ==
    {p \in ClaimPairs(claims) :
        \E a \in ToSet(claims[p[1]].inputs), b \in ToSet(claims[p[2]].inputs) :
            LineageRelation(records, a.ref, b.ref) # "no_shared_ancestry_found"}

\* relation_contract and relation_target: what a claim is about.
Axis         == [calibrated |-> "event", packet |-> "event", content |-> "content"]
Participants == [calibrated |-> {"left_observation", "right_observation"},
                 packet     |-> {"left_packet", "right_packet"},
                 content    |-> {"left_content_evidence", "right_content_evidence"}]

TargetOf(c) ==
    LET refs == SelectSeq(c.inputs, LAMBDA i : i.role \in Participants[c.family])
    IN  <<Axis[c.family], Canonical(refs[1].ref, refs[2].ref)>>

\* summarize_group.
Summary(target, claims, shared) ==
    LET group       == {i \in DOMAIN claims : TargetOf(claims[i]) = target}
        substantive == {i \in group : claims[i].supported # "unknown"}
        roles       == {claims[i].supported : i \in substantive}
    IN  [target |-> target, claims |-> group, substantive |-> substantive,
         abstaining |-> group \ substantive,
         shared |-> {p \in shared : p[1] \in group /\ p[2] \in group},
         resolution |-> CASE roles = {} -> <<"unresolved">>
                          [] Cardinality(roles) = 1 -> <<"single_alternative", roles>>
                          [] OTHER -> <<"conflict", roles>>]

\* The whole chain, from submitted claims and records to the summaries.
Summarize(claims, records) ==
    LET composed == Compose(claims)
        graph    == GraphOf(records)
    IN  IF composed.status # "ok" THEN composed
        ELSE IF graph.status # "ok" THEN graph
        ELSE IF Len(composed.claims) > MaxClaims THEN Refused("claim_limit_exceeded")
        ELSE LET shared == SharedLineagePairs(composed.claims, graph.records)
             IN  [status |-> "ok", claims |-> composed.claims, shared |-> shared,
                  summaries |-> {Summary(t, composed.claims, shared) :
                                    t \in {TargetOf(c) : c \in ToSet(composed.claims)}}]
=============================================================================
