---------------------------- MODULE MCEvidenceLog ----------------------------
(***************************************************************************)
(* A few observations of two observers: two of one moment, one that comes  *)
(* late, one without a gateway address, and two contents under one id.     *)
(***************************************************************************)
EXTENDS HostPathHistory

MCBlank == {"none", "restricted"}

MCPath(name, gateway, bssid) ==
    [d \in KeyDimensions \cup OtherDimensions |->
        CASE d = "network_name"          -> name
          [] d = "next_hop_link_address" -> gateway
          [] d = "associated_bssid"      -> bssid
          [] OTHER                       -> "none"]

MCObservation(id, observer, order, path) ==
    [id |-> id, observer |-> observer, order |-> order, path |-> path]

MCRecords ==
    {MCObservation(1, 1, 5, MCPath("lab", "gw", "b1")),
     MCObservation(2, 1, 5, MCPath("restricted", "gw", "b2")),
     MCObservation(3, 1, 3, MCPath("lab", "gw", "b1")),
     MCObservation(4, 2, 4, MCPath("cafe", "none", "none")),
     MCObservation(4, 2, 4, MCPath("lab", "none", "none"))}

\* byte_offset as the code counts it, line by line with its newline, for every
\* file of up to four tokens of one record.
MCCounted(f, s) ==
    MapThenSumSet(LAMBDA t : Len(Line(f, t)) + 1, {t \in Starts(f) : t < s})

MCTokens == {NL} \cup {Half(h, 1) : h \in {"opening", "closing"}}

ASSUME OffsetCountsBytes ==
    \A n \in 0 .. 4 : \A f \in [1 .. n -> MCTokens] :
        \A s \in Starts(f) : Offset(f, s) = MCCounted(f, s)
=============================================================================
