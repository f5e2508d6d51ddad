---------------------------- MODULE FlowSessions ----------------------------
(***************************************************************************)
(* rust/src/replay/flow.rs: packets of a saved capture are partitioned by  *)
(* endpoints, observation point and TCP stream, sorted by time, and cut    *)
(* where the gap is greater than an inactivity limit.                      *)
(*                                                                         *)
(* Times are signed integers of a fixed width in the code (i64).  I64Max   *)
(* is the greatest of them: a difference above it is not representable,    *)
(* and gap_exceeds() then says no.                                         *)
(***************************************************************************)
EXTENDS Packets

CONSTANTS
    Inactivity,   \* tcp_inactivity_ns and udp_inactivity_ns, or None
    I64Max        \* i64::MAX

ASSUME InactivityAssumption == Inactivity \in Nat \cup {None}
ASSUME I64MaxAssumption     == I64Max \in Nat

\* eligible_packet: what keeps a packet out of every flow.
FlowExclusion(p) ==
    LET reason == Exclusion(p)
    IN  CASE p.fragment /\ reason \in {None, "ambiguous_transport_layer"} ->
                 "fragmented_or_incomplete_transport"
          [] reason # None                           -> reason
          [] p.length = None                         -> "missing_ip_total_length"
          [] p.transport = "tcp" /\ p.stream = None  -> "missing_tcp_stream_index"
          [] OTHER                                   -> None

Eligible(p) == FlowExclusion(p) = None

\* PartitionKey: a UDP packet has no stream index.
PartitionKey(p) ==
    <<ConversationKey(p), IF p.transport = "tcp" THEN p.stream ELSE None>>

\* The order of a partition.  Frame numbers are distinct within a stream
\* (ParseRows), so the further keys of the code's sort never decide.
Before(p, q) == p.time < q.time \/ (p.time = q.time /\ p.frame < q.frame)

\* The packets at some positions in their order.
Sorted(packets, positions) ==
    LET earlier(i) == {j \in positions : Before(packets[j], packets[i])}
    IN  [k \in 1 .. Cardinality(positions) |->
            packets[CHOOSE i \in positions : Cardinality(earlier(i)) = k - 1]]

\* Mutant: a gap of exactly the limit cuts.
GapReaches(previous, current) ==
    /\ Inactivity # None
    /\ current - previous <= I64Max
    /\ current - previous >= Inactivity

\* gap_exceeds: checked_sub, then the conversion to u64, then the comparison.
GapExceeds(previous, current) ==
    /\ Inactivity # None
    /\ current - previous \in 0 .. I64Max
    /\ current - previous > Inactivity

IsSynWithoutAck(flags) == "syn" \in flags /\ "ack" \notin flags
IsSynAck(flags)        == {"syn", "ack"} \subseteq flags

\* orient(): who opened a segment, and why we think so.
Orient(s) ==
    LET syn     == {s[i].from : i \in {j \in DOMAIN s : IsSynWithoutAck(s[j].flags)}}
        lowest  == CHOOSE i \in DOMAIN s : \A j \in DOMAIN s : s[i].frame <= s[j].frame
        tcp     == s[1].transport = "tcp"
    IN  CASE tcp /\ Cardinality(syn) = 1 ->
                 <<CHOOSE e \in syn : TRUE, "unique_syn_without_ack">>
          [] tcp /\ Cardinality(syn) # 1 /\ IsSynAck(s[1].flags) ->
                 <<s[1].to, "initial_syn_ack_opposite">>
          [] OTHER -> <<s[lowest].from, "lowest_frame_source">>

\* Mutant: the end of a capture that was normalized up to a limit is its end.
EndBasisUnlimited(s, idleSuccessor, partial, quarantined) ==
    LET seen(flag) == s[1].transport = "tcp" /\ \E i \in DOMAIN s : flag \in s[i].flags
    IN  IF idleSuccessor                     THEN "inactivity_gap"
        ELSE IF quarantined                  THEN "quarantined_boundary"
        ELSE IF seen("rst")                  THEN "tcp_reset_observed"
        ELSE IF seen("fin")                  THEN "tcp_fin_observed"
        ELSE "complete_capture_boundary"

\* end_basis(): why a segment ends where it ends.
EndBasis(s, idleSuccessor, partial, quarantined) ==
    LET seen(flag) == s[1].transport = "tcp" /\ \E i \in DOMAIN s : flag \in s[i].flags
    IN  IF idleSuccessor                     THEN "inactivity_gap"
        ELSE IF partial /\ quarantined       THEN "partial_and_quarantined_boundary"
        ELSE IF partial                      THEN "partial_boundary"
        ELSE IF quarantined                  THEN "quarantined_boundary"
        ELSE IF seen("rst")                  THEN "tcp_reset_observed"
        ELSE IF seen("fin")                  THEN "tcp_fin_observed"
        ELSE "complete_capture_boundary"

\* project_segment: a flow, counted per direction.
ProjectSegment(key, s, idleSuccessor, partial, quarantined) ==
    LET origin == Orient(s)
    IN  [key   |-> key,
         start |-> s[1].time, end |-> s[Len(s)].time,
         orig  |-> FramesFrom(s, origin[1]),
         resp  |-> Len(s) - FramesFrom(s, origin[1]),
         originator |-> origin[1], originBasis |-> origin[2],
         endBasis |-> EndBasis(s, idleSuccessor, partial, quarantined)]

\* The loop over one sorted partition: flows end at each cut and at the end.
FlowsOfPartition(key, sorted, partial, quarantined) ==
    LET n    == Len(sorted)
        ends == {i \in 1 .. n : i = n \/ GapExceeds(sorted[i].time, sorted[i + 1].time)}
        from(e) == LET before == {i \in ends : i < e}
                   IN  IF before = {} THEN 1
                       ELSE 1 + CHOOSE i \in before : \A j \in before : j <= i
    IN  {ProjectSegment(key, SubSeq(sorted, from(e), e), e < n, partial, quarantined) :
            e \in ends}

\* project_saved_capture_flows_v0, with the counters of its report.
ProjectFlows(packets, partial, quarantined) ==
    LET eligible == {i \in DOMAIN packets : Eligible(packets[i])}
        partition(key) == {i \in eligible : PartitionKey(packets[i]) = key}
    IN  [seen |-> Len(packets), grouped |-> Cardinality(eligible),
         flows |-> UNION {FlowsOfPartition(key, Sorted(packets, partition(key)),
                                           partial, quarantined) :
                             key \in {PartitionKey(packets[i]) : i \in eligible}}]

----------------------------------------------------------------------------
\* The reference: sessions are the classes of the packets that an unbroken
\* chain of short gaps connects, whatever order they come in.

\* Two packets are in one session if every point of time between them that
\* separates the partition is a gap that does not cut.
SameSession(packets, p, q) ==
    LET peers == {packets[i] : i \in {j \in DOMAIN packets :
                     Eligible(packets[j]) /\ PartitionKey(packets[j]) = PartitionKey(p)}}
        lo    == IF p.time <= q.time THEN p.time ELSE q.time
        hi    == IF p.time <= q.time THEN q.time ELSE p.time
        times == {r.time : r \in {r \in peers : r.time \in lo .. hi}}
    IN  /\ PartitionKey(p) = PartitionKey(q)
        /\ \A t \in times \ {hi} :
               LET next == CHOOSE u \in times : u > t /\ \A v \in times : v > t => u <= v
               IN  Inactivity = None \/ next - t <= Inactivity \/ next - t > I64Max

\* Each flow is one class of the reference, with its bounds and its size, each
\* class is one flow, and a reader of the packets in reverse finds the same.
MatchesReference(packets, partial, quarantined) ==
    LET report   == ProjectFlows(packets, partial, quarantined)
        eligible == {packets[i] : i \in {j \in DOMAIN packets : Eligible(packets[j])}}
        class(p) == {q \in eligible : SameSession(packets, p, q)}
        times(p) == {q.time : q \in class(p)}
    IN  /\ ProjectFlows(Reverse(packets), partial, quarantined) = report
        /\ Cardinality(report.flows) = Cardinality({class(p) : p \in eligible})
        /\ \A p \in eligible : \E f \in report.flows :
              /\ f.key = PartitionKey(p)
              /\ f.orig + f.resp = Cardinality(class(p))
              /\ f.start \in times(p) /\ f.end \in times(p)
              /\ \A t \in times(p) : f.start <= t /\ t <= f.end
              /\ f.endBasis = "inactivity_gap" <=>
                     \E q \in eligible : /\ PartitionKey(q) = PartitionKey(p)
                                         /\ q.time > f.end
=============================================================================
