----------------------------- MODULE PcapTriage -----------------------------
(***************************************************************************)
(* rust/src/replay/triage.rs: what a saved capture is said to contain, and *)
(* above all what it is said NOT to contain.  A projection reads an        *)
(* accepted record stream (SavedCapture), a record with manifest, receipt  *)
(* (or None), packets and quarantines.                                     *)
(***************************************************************************)
EXTENDS FlowSessions

Complete(stream) == stream.manifest.state = "complete"

\* claim_scope
ClaimScope(stream) ==
    IF Complete(stream) THEN "complete_capture" ELSE "normalized_packet_subset"

\* event_window: the extent of some packets, None of none.
EventWindow(packets) ==
    IF packets = <<>> THEN None
    ELSE [earliest |-> Earliest(packets), latest |-> Latest(packets)]

\* wlan_triage: deauthentications and disassociations, or how their absence
\* may be described.
WlanTriage(stream) ==
    LET wlan == {p \in Range(stream.packets) : p.shape = "wlan"}
        disconnects == {p \in wlan : "disconnect" \in p.flags}
    IN  IF wlan = {}
        THEN IF Complete(stream) THEN "unsupported" ELSE "insufficient"
        ELSE IF disconnects = {} THEN "not_observed" ELSE "observed"

\* conversation_triage
ConversationTriage(stream) ==
    IF DOMAIN Conversations(Range(stream.packets)) # {} THEN "observed"
    ELSE IF Complete(stream) THEN "unsupported" ELSE "insufficient"

\* receipt_file_packet_extent: the extent that capinfos reported, if any.
ReceiptExtent(stream) ==
    IF stream.receipt = None THEN None ELSE stream.receipt.extent

\* validate_normalized_extent_against_receipt
ExtentsAgree(stream) ==
    LET normalized == EventWindow(stream.packets)
        receipt    == ReceiptExtent(stream)
    IN  normalized # None /\ receipt # None =>
            /\ normalized.earliest >= receipt.earliest
            /\ normalized.latest <= receipt.latest

\* The interval anchor of trailing_window_triage: the latest packet time of the
\* source artifact, or else of the normalized packets.
Anchor(stream) ==
    LET extent == IF ReceiptExtent(stream) # None THEN ReceiptExtent(stream)
                  ELSE EventWindow(stream.packets)
    IN  IF extent = None THEN None ELSE extent.latest

\* Mutant: an interval that reaches back before the first packet of the file is
\* no reason to abstain.
AbstentionReasonsUnspanned(stream, duration) ==
    {r \in {"no_packets", "partial", "no_receipt", "no_bounds"} :
        CASE r = "no_packets" -> stream.packets = <<>>
          [] r = "partial"    -> ~Complete(stream)
          [] r = "no_receipt" -> stream.receipt = None
          [] r = "no_bounds"  -> stream.receipt # None /\ ReceiptExtent(stream) = None}

\* abstention_reasons of trailing_window_triage.
AbstentionReasons(stream, duration) ==
    {r \in {"no_packets", "partial", "no_receipt", "no_bounds", "not_spanned"} :
        CASE r = "no_packets" -> stream.packets = <<>>
          [] r = "partial"    -> ~Complete(stream)
          [] r = "no_receipt" -> stream.receipt = None
          [] r = "no_bounds"  -> stream.receipt # None /\ ReceiptExtent(stream) = None
          [] r = "not_spanned" ->
                 /\ ReceiptExtent(stream) # None
                 /\ ReceiptExtent(stream).earliest > Anchor(stream) - duration}

\* trailing_window_triage: what is said of the last `duration' before the
\* anchor.  "error" stands for the projection errors of inconsistent extents and
\* of a window that starts before the representable range.
TrailingTriage(stream, duration) ==
    LET anchor   == Anchor(stream)
        selected == {p \in Range(stream.packets) :
                        anchor # None /\ p.time \in anchor - duration .. anchor}
    IN  CASE ~ExtentsAgree(stream) -> "error"
          [] ExtentsAgree(stream) /\ anchor # None /\ anchor - duration < -I64Max - 1 -> "error"
          [] OTHER ->
                 IF DOMAIN Conversations(selected) # {} THEN "observed"
                 ELSE IF AbstentionReasons(stream, duration) = {} THEN "not_observed"
                 ELSE "abstained"
=============================================================================
