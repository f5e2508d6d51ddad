----------------------------- MODULE RssiShift -----------------------------
(***************************************************************************)
(* Radio links between observers and sources whose signal strength has     *)
(* changed: rust/src/infer/rssi_reference_frame.rs says which links are    *)
(* shifted and whether a source or an observer may be the cause,           *)
(* rssi_shift_explanation.rs weighs the causes in a factor graph.          *)
(*                                                                         *)
(* A link is [observer, source, baseline, recent], the baseline a sequence *)
(* of readings, `recent' <<>> when there is no recent one.  Observers and  *)
(* sources are numbers in the order of their names.  Medians are counted   *)
(* in quarters of a reading's unit.                                        *)
(***************************************************************************)
EXTENDS FactorGraph, Integers

CONSTANT MaxLinkEvidence   \* RSSI_REFERENCE_FRAME_MAX_LINK_EVIDENCE_V0

\* profile: [readings, shift, mad, steady, fraction], the last but one a count, mad
\* and fraction multiples of the scale.
FrameProfileValid(p) ==
    /\ \A n \in {p.readings, p.shift, p.mad, p.steady} : n # 0
    /\ p.fraction \in 1 .. Scale

Magnitude(n) == IF n < 0 THEN -n ELSE n

Ascending(readings) == SortSeq(readings, <)

\* median_quarter_milli_db, mad_quarter_milli_db.
MedianQuarters(sorted) ==
    LET middle == Len(sorted) \div 2
    IN  IF Len(sorted) % 2 = 1 THEN sorted[middle + 1] * 4
        ELSE (sorted[middle] + sorted[middle + 1]) * 2

MadQuarters(sorted, median) ==
    LET deviations == Ascending([i \in DOMAIN sorted |-> Magnitude(sorted[i] * 4 - median)])
        middle     == Len(sorted) \div 2
    IN  IF Len(sorted) % 2 = 1 THEN deviations[middle + 1]
        ELSE (deviations[middle] + deviations[middle + 1]) \div 2

\* exceeds_shift_threshold.
ExceedsThreshold(delta, mad, p) ==
    /\ Magnitude(delta) >= p.shift * 4
    /\ Magnitude(delta) * Scale >= mad * p.mad

Key(link) == <<link.observer, link.source>>

\* classify_rssi_reference_frame_links_v0: of every link with enough readings,
\* whether it is shifted, and by how much; a link that is not heard any more has
\* vanished when its observer hears another.
Classify(links, p) ==
    LET canonical == {[l EXCEPT !.baseline = Ascending(@)] : l \in ToSet(links)}
        alive     == {l.observer : l \in {k \in canonical : k.recent # <<>>}}
        eligible  == {l \in canonical : /\ Len(l.baseline) >= p.readings
                                        /\ l.recent # <<>> \/ l.observer \in alive}
        Delta(l)  == l.recent[1] * 4 - MedianQuarters(l.baseline)
        Mad(l)    == MadQuarters(l.baseline, MedianQuarters(l.baseline))
        Assessed(l) ==
            IF l.recent = <<>> THEN [shifted |-> TRUE, delta |-> <<>>]
            ELSE [shifted |-> ExceedsThreshold(Delta(l), Mad(l), p), delta |-> <<Delta(l)>>]
    IN  CASE ~FrameProfileValid(p) -> Failed("invalid_profile")
          [] \E k, l \in canonical : k # l /\ Key(k) = Key(l) -> Failed("conflicting_link")
          [] OTHER -> [status |-> "ok",
                       links |-> [key \in {Key(l) : l \in eligible} |->
                                      Assessed(CHOOSE l \in eligible : Key(l) = key)]]

----------------------------------------------------------------------------
\* assess_rssi_reference_frame_v0.

\* Mutant: halves are rounded upwards.
RoundHalvesUp(n) == (n + 1) \div 2

\* round_quarter_milli_db, and round_half_away_from_zero of a sum of two.
RoundQuarters(n) == IF n >= 0 THEN (n + 2) \div 4 ELSE -((-n + 2) \div 4)
RoundHalves(n) == IF n >= 0 THEN (n + 1) \div 2 ELSE -((-n + 1) \div 2)

\* median_i64.
MedianOf(values) ==
    LET sorted == Ascending(values)
        middle == Len(values) \div 2
    IN  CASE values = <<>> -> <<>>
          [] values # <<>> /\ Len(values) % 2 = 1 -> <<sorted[middle + 1]>>
          [] OTHER -> <<RoundHalves(sorted[middle] + sorted[middle + 1])>>

\* The sources that every observer, of two or more, finds shifted.
SourceWide(links) ==
    {s \in {key[2] : key \in DOMAIN links} :
        LET of == {key \in DOMAIN links : key[2] = s}
        IN  Cardinality(of) >= 2 /\ \A key \in of : links[key].shifted}

\* compare_link_evidence: the largest shift first, the vanished last.
EvidenceBefore(a, b) ==
    CASE a.delta # <<>> /\ b.delta # <<>> ->
             \/ Magnitude(a.delta[1]) > Magnitude(b.delta[1])
             \/ Magnitude(a.delta[1]) = Magnitude(b.delta[1]) /\ a.source < b.source
      [] a.delta = <<>> /\ b.delta = <<>> -> a.source < b.source
      [] OTHER -> b.delta = <<>>

\* What is said of an observer, once the sources that shifted as such are left out.
ObserverEvidence(o, links, p) ==
    LET kept     == {key \in DOMAIN links : key[1] = o /\ key[2] \notin SourceWide(links)}
        shifted  == {key \in kept : links[key].shifted}
        Shown(key) == [source |-> key[2],
                       delta |-> IF links[key].delta = <<>> THEN <<>>
                                 ELSE <<RoundQuarters(links[key].delta[1])>>]
        evidence == SetToSortSeq({Shown(key) : key \in shifted}, EvidenceBefore)
        measured == SelectSeq(evidence, LAMBDA e : e.delta # <<>>)
    IN  [steady |-> Cardinality(kept), shifted |-> Cardinality(shifted),
         candidate |-> /\ Cardinality(kept) >= p.steady
                       /\ Cardinality(shifted) * Scale >= p.fraction * Cardinality(kept),
         median |-> MedianOf([i \in DOMAIN measured |-> measured[i].delta[1]]),
         evidence |-> IF Len(evidence) <= MaxLinkEvidence THEN evidence
                      ELSE SubSeq(evidence, 1, MaxLinkEvidence)]

AssessFrame(links, p) ==
    LET classified == Classify(links, p)
        found      == classified.links
    IN  IF classified.status # "ok" THEN classified
        ELSE [status |-> "ok",
              observers |-> [o \in {key[1] : key \in DOMAIN found} |-> ObserverEvidence(o, found, p)],
              sources |-> [s \in SourceWide(found) |-> {key[1] : key \in {k \in DOMAIN found : k[2] = s}}]]

\* validate_structure, of what a reader is given; both maps are in canonical order.
FrameStructureValid(frame) ==
    /\ \A s \in DOMAIN frame.sources :
          Cardinality(frame.sources[s]) >= 2 /\ frame.sources[s] \subseteq DOMAIN frame.observers
    /\ \A o \in DOMAIN frame.observers :
          LET e == frame.observers[o]
          IN  /\ e.shifted <= e.steady
              /\ Len(e.evidence) = (IF e.shifted < MaxLinkEvidence THEN e.shifted ELSE MaxLinkEvidence)
              /\ Cardinality({e.evidence[i].source : i \in DOMAIN e.evidence}) = Len(e.evidence)
              /\ e.candidate => e.shifted # 0
              /\ (e.median # <<>>) = (\E i \in DOMAIN e.evidence : e.evidence[i].delta # <<>>)
              /\ \A i \in 1 .. Len(e.evidence) - 1 : EvidenceBefore(e.evidence[i], e.evidence[i + 1])
              /\ \A i \in DOMAIN e.evidence : e.evidence[i].source \notin DOMAIN frame.sources

----------------------------------------------------------------------------
\* infer_rssi_shift_explanations_v0.  options: the potentials, here whole numbers,
\*   [inactive, active, shifted, stable], the last two by the number of active ends,
\* and the limits [maxLinks, maxVariables, maxAssignments, maxWork].

\* The ends of links, which are the variables.
Ends(key)   == {<<"observer", key[1]>>, <<"source", key[2]>>}
EndsOf(set) == UNION {Ends(key) : key \in set}

\* link_components: links that share an end are together.
LinkComponents(keys) ==
    LET Grow(set, i) == set \cup {k \in keys : Ends(k) \cap EndsOf(set) # {}}
    IN  {FoldLeft(Grow, {key}, [i \in 1 .. Cardinality(keys) |-> i]) : key \in keys}

\* explanation_potentials and link_potential: of one assignment of the ends.
Explains(active, component, links, options) ==
    LET Link(key) == LET n == Cardinality(Ends(key) \cap active)
                     IN  IF links[key].shifted THEN options.shifted[n + 1] ELSE options.stable[n + 1]
    IN  options.active ^ Cardinality(active)
        * options.inactive ^ Cardinality(EndsOf(component) \ active)
        * FoldSet(LAMBDA key, w : w * Link(key), 1, component)

\* component_assignment_work_units.
WorkUnits(component, links) ==
    LET n == Cardinality(EndsOf(component))
    IN  2 ^ n * (4 * n + Cardinality(component)
                 + 2 * Cardinality({key \in component : links[key].shifted}) + 1)

\* infer_component, where nothing abstains: a graph of one heuristic factor, and of
\* every shifted link the share of the assignments in which no end explains it.
ExplainComponent(component, links, options) ==
    LET n      == Cardinality(EndsOf(component))
        ends   == SetToSortSeq(EndsOf(component), LAMBDA a, b :
                      IF a[1] = b[1] THEN a[2] < b[2] ELSE a[1] = "observer")
        \* binary_assignment_state
        Active(encoded) == {ends[k] : k \in {j \in 1 .. n : (encoded \div 2 ^ (n - j)) % 2 = 1}}
        table  == [i \in 1 .. 2 ^ n |-> Explains(Active(i - 1), component, links, options)]
        factor == [id |-> 1, scope |-> [k \in 1 .. n |-> k], table |-> table,
                   semantics |-> <<"heuristic">>, atoms |-> component, dependence |-> "joint"]
        infer  == InferExact(GraphFrom([k \in 1 .. n |-> [id |-> k, states |-> 2]], <<factor>>),
                             n, 2 ^ n)
        total  == FoldLeft(+, 0, table)
        Residual(key) ==
            MapThenSumSet(LAMBDA i : table[i], {i \in DOMAIN table : Ends(key) \cap Active(i - 1) = {}})
    IN  [outcome |-> "exact",
         shifted |-> [e \in EndsOf(component) |->
                         infer[1 .. n].beliefs[CHOOSE k \in 1 .. n : ends[k] = e][2]],
         residual |-> [key \in {k \in component : links[k].shifted} |->
                          (2 * Residual(key) * Scale + total) \div (2 * total)]]

ExplainShifts(links, p, options) ==
    LET classified  == Classify(links, p)
        found       == classified.links
        components  == LinkComponents(DOMAIN found)
        admissible  == {c \in components : Cardinality(EndsOf(c)) <= options.maxVariables}
        assignments == MapThenSumSet(LAMBDA c : 2 ^ Cardinality(EndsOf(c)), admissible)
        work        == MapThenSumSet(LAMBDA c : WorkUnits(c, found), admissible)
        Result(c)   == CASE c \notin admissible -> [outcome |-> "too_many_variables"]
                         [] c \in admissible /\ assignments > options.maxAssignments ->
                                [outcome |-> "budget_exceeded"]
                         [] c \in admissible /\ assignments <= options.maxAssignments
                                /\ work > options.maxWork -> [outcome |-> "work_exceeded"]
                         [] OTHER -> ExplainComponent(c, found, options)
    IN  IF Len(links) > options.maxLinks THEN Failed("link_limit_exceeded")
        ELSE IF classified.status # "ok" THEN classified
        ELSE [status |-> "ok", components |-> [c \in components |-> Result(c)]]
=============================================================================
