------------------------------ MODULE Packets ------------------------------
(***************************************************************************)
(* What one packet is to the replay projections of rust/src/replay: the    *)
(* layers TShark found in it, whether it can stand for a conversation      *)
(* (conversation.rs) or a flow (flow.rs), and how TShark's rows become     *)
(* packets or quarantined rows (adapters/tshark/fields.rs).                *)
(*                                                                         *)
(* A row of TShark's output is a record                                    *)
(*   frame    its frame number, as printed                                 *)
(*   time     event_time_unix_ns                                           *)
(*   shape    "ip" when its field groups are complete, "wlan" for an IEEE  *)
(*            802.11 frame, "broken" when a field is missing, malformed or *)
(*            fails PacketEnvelopeV0::validate                             *)
(*   tunnel, network, transport, from, to, fragment, length, stream, flags *)
(*            what the code reads of an IP packet, below                   *)
(* A packet is a row that was parsed: addresses, names and lengths that    *)
(* nothing here tells apart are left out.                                  *)
(***************************************************************************)
EXTENDS Integers, Sequences, FiniteSets, SequencesExt

CONSTANT None  \* Option::None

----------------------------------------------------------------------------
\* fields.rs: rows to packets and quarantined rows.

\* parse_row with every field parser and the validation at its end: the whole
\* row is an error as soon as one field group is.
ParseRow(row) == row.shape # "broken"

\* One iteration of parse_rows.  `out' holds the packets, the quarantines with
\* their source line, the number of rows and the last accepted frame number.
ParseNext(out, row) ==
    LET line   == out.rows + 1
        parsed == ParseRow(row)
        fresh  == parsed /\ row.frame > out.previous
    IN  [packets     |-> IF fresh THEN Append(out.packets, row) ELSE out.packets,
         quarantines |-> IF fresh THEN out.quarantines
                         ELSE Append(out.quarantines,
                                     [line   |-> line,
                                      reason |-> IF parsed THEN "not_increasing"
                                                 ELSE "invalid"]),
         rows        |-> line,
         previous    |-> IF fresh THEN row.frame ELSE out.previous]

ParseRows(rows) ==
    FoldLeft(ParseNext,
             [packets |-> <<>>, quarantines |-> <<>>, rows |-> 0, previous |-> 0],
             rows)

----------------------------------------------------------------------------
\* conversation.rs: which packets stand for a conversation.

\* candidate(): the reason that keeps a packet out, None for a candidate.  The
\* order of the tests is the code's.
Exclusion(p) ==
    CASE p.tunnel                             -> "unmodeled_encapsulation"
      [] p.shape # "ip" \/ p.network # "once" -> "ambiguous_network_layer"
      [] p.transport \notin {"tcp", "udp"}    -> "ambiguous_transport_layer"
      [] p.from = p.to                        -> "indistinguishable_endpoints"
      [] OTHER                                -> None

Candidate(p) == Exclusion(p) = None

\* CaptureConversationKeyV0: both directions share the unordered pair.
ConversationKey(p) == <<p.point, p.transport, {p.from, p.to}>>

\* reduce_capture_conversations: the packets of each conversation.
Conversations(packets) ==
    LET eligible == {p \in packets : Candidate(p)}
    IN  [key \in {ConversationKey(p) : p \in eligible} |->
            {p \in eligible : ConversationKey(p) = key}]

\* The frames and the time span of a conversation, per sender.
FramesFrom(packets, end) == Cardinality({i \in DOMAIN packets : packets[i].from = end})

Earliest(packets) ==
    CHOOSE t \in {packets[i].time : i \in DOMAIN packets} :
        \A i \in DOMAIN packets : t <= packets[i].time
Latest(packets) ==
    CHOOSE t \in {packets[i].time : i \in DOMAIN packets} :
        \A i \in DOMAIN packets : t >= packets[i].time
=============================================================================
