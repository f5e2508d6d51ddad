------------------------- MODULE FlowCorrespondence -------------------------
(***************************************************************************)
(* rust/src/infer/packet_flow_correspondence.rs: which flows assembled     *)
(* from packets and which flow records of another tool are of one          *)
(* connection.  Every pair that may be is an edge; the edges of one        *)
(* component are the variables of one factor of the factor graph, weighed  *)
(* by how well the counters agree.                                         *)
(*                                                                         *)
(* A packet flow is [key, directed, from, to, counters], `directed' FALSE  *)
(* when its originator was only guessed from the first frame; a flow       *)
(* record is [key, from, to, counters], its key or its end None when it is *)
(* not known, a counter None when it was not exported.                     *)
(***************************************************************************)
EXTENDS FactorGraph

CONSTANTS
    Counters,   \* the four counters of a flow
    None

\* options: the potentials of the profile, here whole multiples of the scale, and
\* the limits,
\*   [tolerance, selected, overlap, exact, near, conflicting, nearTolerance,
\*    maxEdges, maxComponentEdges, maxAssignments]

Overlap(from1, to1, from2, to2) == from1 <= to2 /\ from2 <= to1

\* candidate_edges; an edge is <<packet flow, flow record>>, by their places.
\* The records' interval is widened on both sides, from below in the other's time.
CandidateEdges(packets, records, options) ==
    {e \in (DOMAIN packets) \X (DOMAIN records) :
        LET p == packets[e[1]]
            r == records[e[2]]
        IN  /\ p.directed
            /\ r.key # None /\ r.to # None
            /\ p.key = r.key
            /\ Overlap(p.from + options.tolerance, p.to + options.tolerance,
                       r.from, r.to + 2 * options.tolerance)}

DirectOverlap(e, packets, records) ==
    Overlap(packets[e[1]].from, packets[e[1]].to, records[e[2]].from, records[e[2]].to)

\* A mutant: only edges of one packet flow are together.
CandidateComponentsOfPackets(edges) == {{d \in edges : d[1] = e[1]} : e \in edges}

\* candidate_components: edges that share a packet flow or a record are together.
CandidateComponents(edges) ==
    LET Adjacent(S) == {e \in edges : \E d \in S : d[1] = e[1] \/ d[2] = e[2]}
        From(e)     == FoldLeft(LAMBDA S, i : S \cup Adjacent(S), {e},
                                [i \in 1 .. Cardinality(edges) |-> i])
    IN  {From(e) : e \in edges}

\* compare_counter.
CompareCounter(observed, expected, options) ==
    LET larger  == IF observed > expected THEN observed ELSE expected
        smaller == IF observed > expected THEN expected ELSE observed
    IN  IF observed = expected THEN options.exact
        ELSE IF (larger - smaller) * Scale <= larger * options.nearTolerance THEN options.near
        ELSE options.conflicting

\* The counters of several flows together, None when one of them lacks it.
SumCounter(flows, counter) ==
    IF \E f \in flows : f[2].counters[counter] = None THEN None
    ELSE MapThenSumSet(LAMBDA f : f[2].counters[counter], flows)

Agreement(observed, expected, options) ==
    IF None \in {observed, expected} THEN 1 ELSE CompareCounter(observed, expected, options)

\* counter_potential: a record is compared with the sum of the flows selected for
\* it, when none of them is selected for another record too; and a flow that
\* several records are selected for, with the sum of them, likewise.
CounterPotential(selected, packets, records, options) ==
    LET OfPacket(p) == {e \in selected : e[1] = p}
        OfRecord(r) == {e \in selected : e[2] = r}
        Compare(mine, other) ==
            FoldSet(LAMBDA c, w : w * Agreement(SumCounter(mine, c), other.counters[c], options),
                    1, Counters)
        StarOfRecord(r) == \A e \in OfRecord(r) : Cardinality(OfPacket(e[1])) = 1
        StarOfPacket(p) == \A e \in OfPacket(p) : Cardinality(OfRecord(e[2])) = 1
        recordStars == {r \in {e[2] : e \in selected} : StarOfRecord(r)}
        packetStars == {p \in {e[1] : e \in selected} : Cardinality(OfPacket(p)) > 1 /\ StarOfPacket(p)}
    IN  FoldSet(LAMBDA r, w : w * Compare({<<e[1], packets[e[1]]>> : e \in OfRecord(r)}, records[r]),
                1, recordStars)
        * FoldSet(LAMBDA p, w : w * Compare({<<e[2], records[e[2]]>> : e \in OfPacket(p)}, packets[p]),
                  1, packetStars)

\* component_potentials: the weight of selecting some edges of a component.
Potential(component, selected, packets, records, options) ==
    FoldSet(LAMBDA e, w : w * IF e \notin selected THEN 1
                              ELSE options.selected *
                                   (IF DirectOverlap(e, packets, records) THEN options.overlap ELSE 1),
            1, component)
    * CounterPotential(selected, packets, records, options)

----------------------------------------------------------------------------
\* infer_components for one component: its edges are the variables of a graph of
\* a single heuristic factor, in the order of the edges.
EdgeBefore(d, e) == d[1] < e[1] \/ (d[1] = e[1] /\ d[2] < e[2])

InferEdges(component, packets, records, options) ==
    LET n     == Cardinality(component)
        edge  == [k \in 1 .. n |-> CHOOSE e \in component :
                      Cardinality({d \in component : EdgeBefore(d, e)}) = k - 1]
        \* whether the code's assignment number `encoded' selects the k-th edge
        Selects(encoded, k) == (encoded \div 2 ^ (n - k)) % 2 = 1
        factor == [id |-> 1, scope |-> [k \in 1 .. n |-> k],
                   table |-> [i \in 1 .. 2 ^ n |->
                       Potential(component, {edge[k] : k \in {j \in 1 .. n : Selects(i - 1, j)}},
                                 packets, records, options)],
                   semantics |-> <<"heuristic">>, atoms |-> component, dependence |-> "independent"]
        graph == GraphFrom([k \in 1 .. n |-> [id |-> k, states |-> 2]], <<factor>>)
        infer == InferExact(graph, options.maxComponentEdges, 2 ^ n)
    IN  [e \in component |-> LET k == CHOOSE j \in 1 .. n : edge[j] = e
                             IN  infer[1 .. n].beliefs[k][2]]

Disposition(belief) ==
    IF 2 * belief > Scale THEN "corresponds"
    ELSE IF 2 * belief < Scale THEN "does_not_correspond" ELSE "tied"

\* infer_packet_flow_correspondence_v0: for every component, that it abstains, or
\* the belief in each of its edges.
InferCorrespondence(packets, records, options) ==
    LET edges      == CandidateEdges(packets, records, options)
        components == CandidateComponents(edges)
        admissible == {c \in components : Cardinality(c) <= options.maxComponentEdges}
        required   == MapThenSumSet(LAMBDA c : 2 ^ Cardinality(c), admissible)
        Beliefs(c) == InferEdges(c, packets, records, options)
    IN  IF Cardinality(edges) > options.maxEdges THEN Failed("candidate_edge_limit_exceeded")
        ELSE [status |-> "ok", components |->
                [c \in components |->
                    IF c \notin admissible THEN [outcome |-> "too_many_edges"]
                    ELSE IF required > options.maxAssignments THEN [outcome |-> "budget_exceeded"]
                    ELSE LET beliefs == Beliefs(c)
                         IN  [outcome |-> "exact", beliefs |-> beliefs,
                              dispositions |-> [e \in c |-> Disposition(beliefs[e])]]]]
=============================================================================
