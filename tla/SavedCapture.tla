---------------------------- MODULE SavedCapture ----------------------------
(***************************************************************************)
(* One saved capture on its way through netbraid:                          *)
(*                                                                         *)
(*   capture file --stage--> private copy --capinfos, tshark--> rows       *)
(*     --> report --print_jsonl--> file of records --> reader --> claims   *)
(*                                                                         *)
(* normalize_saved_capture_with_snapshot (adapters/tshark/mod.rs) stages   *)
(* the capture, asks capinfos and TShark about the copy, and builds a      *)
(* manifest, a receipt, packets and quarantines; print_jsonl (pcap.rs)     *)
(* writes them; parse_saved_capture_jsonl (replay/saved_capture.rs) reads  *)
(* them back, maybe much later and from a file that was cut, appended to   *)
(* or shuffled on the way.                                                 *)
(*                                                                         *)
(* The content of a capture file is the sequence of rows TShark prints of  *)
(* it, its digest is the content itself, its size the number of rows.      *)
(***************************************************************************)
EXTENDS PcapTriage, TLC

CONSTANTS
    Captures,     \* the capture files that may be normalized
    PacketLimits, \* packet limits
    Durations,    \* trailing windows that may be asked for
    MaxTampers,   \* bound: changes of the staged copy by others
    MaxDamages    \* bound: damages to the file of records

\* A row that TShark prints.  An IP packet is no IEEE 802.11 management frame.
Row == {row \in [frame : Nat, time : Int, shape : {"ip", "wlan", "broken"},
                 tunnel : BOOLEAN, network : {"once", "other"},
                 transport : {"tcp", "udp", "other"}, from : Nat, to : Nat,
                 fragment : BOOLEAN, length : Nat \cup {None},
                 stream : Nat \cup {None}, point : Nat,
                 flags : SUBSET {"syn", "ack", "fin", "rst", "disconnect"}] :
           row.shape = "ip" => "disconnect" \notin row.flags}

ASSUME CapturesAssumption  == Captures \subseteq Seq(Row)
ASSUME BoundsAssumption    == /\ PacketLimits \subseteq Nat \ {0}
                              /\ Durations \subseteq Nat \ {0}
                              /\ MaxTampers \in Nat /\ MaxDamages \in Nat
\* None is no time, no error of the reader and no manifest.
ASSUME NoneAssumption      ==
    /\ None \notin Int
    /\ None \notin {"Json", "RecordOrder", "CaptureIdMismatch", "DuplicateManifest",
                    "DuplicateReceipt", "PacketFrameOrder", "QuarantineSourceLineOrder",
                    "MissingManifest", "ManifestCountMismatch", "ReceiptFileSizeMismatch",
                    "ReceiptNormalizedCountMismatch", "ReceiptPacketLimitReachedMismatch",
                    "ReceiptDigestMismatch"}
    /\ None \notin [family : {"manifest"}, capture : Seq(Row), limit : Nat,
                     limitReached : BOOLEAN, state : {"partial", "complete"},
                     emitted : Nat, quarantined : Nat]

VARIABLES
    pc,       \* next step of the normalizer, or "returned", "failed"
    limit,    \* NormalizeOptions::packet_limit
    staged,   \* content of the private copy
    artifact, \* CaptureArtifactRefV0, the digest taken while staging
    info,     \* capinfos table
    rows,     \* TShark's output
    report,   \* NormalizationReport
    full,     \* print_jsonl's include_receipt: --jsonl or --records-jsonl
    file,     \* the lines of the file of records
    tampers, damages

vars == <<pc, limit, staged, artifact, info, rows, report, full, file, tampers, damages>>

Minimum(a, b) == IF a < b THEN a ELSE b

----------------------------------------------------------------------------
\* Building a report.

\* The manifest of a report.
Manifest(content, parsed, count, max) ==
    [family |-> "manifest", capture |-> content, limit |-> max,
     limitReached |-> count > max,
     state |-> IF count > max \/ parsed.quarantines # <<>> THEN "partial" ELSE "complete",
     emitted |-> Len(parsed.packets), quarantined |-> Len(parsed.quarantines)]

\* NormalizedRecordsDigest: a digest of all the records in their order.
RecordsDigest(manifest, packets, quarantines) == <<manifest, packets, quarantines>>

\* normalize_saved_capture_with_snapshot after TShark: the report.
Report(content, out, table, max) ==
    LET parsed   == ParseRows(out)
        manifest == Manifest(content, parsed, table.count, max)
    IN  [manifest |-> manifest,
         receipt  |-> [family |-> "receipt", capture |-> content, count |-> table.count,
                       size |-> table.size, extent |-> table.extent,
                       digest |-> RecordsDigest(manifest, parsed.packets, parsed.quarantines)],
         packets  |-> parsed.packets, quarantines |-> parsed.quarantines]

\* print_jsonl: the lines of a report.
Lines(r, withReceipt) ==
    LET id == r.manifest.capture
    IN  <<r.manifest>> \o (IF withReceipt THEN <<r.receipt>> ELSE <<>>)
        \o [i \in DOMAIN r.packets |->
               [family |-> "packet", capture |-> id, packet |-> r.packets[i]]]
        \o [i \in DOMAIN r.quarantines |->
               [family |-> "quarantine", capture |-> id, row |-> r.quarantines[i]]]

----------------------------------------------------------------------------
\* Reading a file of records.

\* The result of a read that failed with an error, and the state it starts in.
ReadFailed(error) == [error |-> error]
ReadStart == [error |-> None, phase |-> "manifest", manifest |-> None, receipt |-> None,
              packets |-> <<>>, quarantines |-> <<>>]

\* check_capture_id: a manifest came first, and it is of the same capture.
SameCapture(read, line) == read.manifest # None /\ line.capture = read.manifest.capture

ReadManifest(read, line) ==
    IF read.manifest # None          THEN ReadFailed("DuplicateManifest")
    ELSE IF read.phase # "manifest"  THEN ReadFailed("RecordOrder")
    ELSE [read EXCEPT !.manifest = line, !.phase = "receipt_or_packet"]

ReadReceipt(read, line) ==
    IF read.receipt # None                   THEN ReadFailed("DuplicateReceipt")
    ELSE IF read.phase # "receipt_or_packet" THEN ReadFailed("RecordOrder")
    ELSE IF ~SameCapture(read, line)         THEN ReadFailed("CaptureIdMismatch")
    ELSE [read EXCEPT !.receipt = line, !.phase = "packet"]

ReadPacket(read, line) ==
    IF read.phase \notin {"receipt_or_packet", "packet"} THEN ReadFailed("RecordOrder")
    ELSE IF ~SameCapture(read, line)                     THEN ReadFailed("CaptureIdMismatch")
    ELSE IF read.packets # <<>> /\ line.packet.frame <= Last(read.packets).frame
         THEN ReadFailed("PacketFrameOrder")
    ELSE [read EXCEPT !.packets = Append(@, line.packet), !.phase = "packet"]

ReadQuarantine(read, line) ==
    IF read.phase = "manifest"       THEN ReadFailed("RecordOrder")
    ELSE IF ~SameCapture(read, line) THEN ReadFailed("CaptureIdMismatch")
    ELSE IF read.quarantines # <<>> /\ line.row.line <= Last(read.quarantines).line
         THEN ReadFailed("QuarantineSourceLineOrder")
    ELSE [read EXCEPT !.quarantines = Append(@, line.row), !.phase = "quarantine"]

\* One fragment between newlines; a torn one is no JSON.
ReadLine(read, line) ==
    IF read.error # None THEN read
    ELSE CASE line.family = "torn"       -> ReadFailed("Json")
           [] line.family = "manifest"   -> ReadManifest(read, line)
           [] line.family = "receipt"    -> ReadReceipt(read, line)
           [] line.family = "packet"     -> ReadPacket(read, line)
           [] line.family = "quarantine" -> ReadQuarantine(read, line)

\* Mutant: the counts of the manifest are not compared with the stream.
CheckReceiptOnly(read) ==
    IF read.manifest = None THEN "MissingManifest"
    ELSE IF read.receipt # None /\ read.receipt.count < read.manifest.emitted
    THEN "ReceiptNormalizedCountMismatch" ELSE None

\* What is checked once the whole file was read, check_manifest_count,
\* check_receipt_manifest_consistency and the digest.
CheckStream(read) ==
    LET m == read.manifest
        r == read.receipt
    IN  CASE m = None                                      -> "MissingManifest"
          [] m # None /\ m.emitted # Len(read.packets)     -> "ManifestCountMismatch"
          [] m # None /\ m.emitted = Len(read.packets)
                /\ m.quarantined # Len(read.quarantines)   -> "ManifestCountMismatch"
          [] OTHER ->
                 IF r = None THEN None
                 ELSE IF r.size # Len(m.capture)           THEN "ReceiptFileSizeMismatch"
                 ELSE IF m.emitted + m.quarantined # Minimum(r.count, m.limit)
                      THEN "ReceiptNormalizedCountMismatch"
                 ELSE IF m.limitReached # (r.count > m.limit)
                      THEN "ReceiptPacketLimitReachedMismatch"
                 ELSE IF r.digest # RecordsDigest(m, read.packets, read.quarantines)
                      THEN "ReceiptDigestMismatch"
                 ELSE None

\* parse_saved_capture_jsonl.
ParseStream(lines) ==
    LET read == FoldLeft(ReadLine, ReadStart, lines)
    IN  IF read.error # None THEN read
        ELSE IF CheckStream(read) # None THEN ReadFailed(CheckStream(read))
        ELSE read

Accepted(lines) == ParseStream(lines).error = None

----------------------------------------------------------------------------
Init == /\ pc = "stage"
        /\ limit \in PacketLimits
        /\ staged \in Captures
        /\ artifact = None /\ info = None /\ rows = None /\ report = None
        /\ full \in BOOLEAN
        /\ file = <<>>
        /\ tampers = 0 /\ damages = 0

\* stage_capture: copied and hashed in one pass.
Stage == /\ pc = "stage"
         /\ artifact' = staged
         /\ pc' = "capinfos"
         /\ UNCHANGED <<limit, staged, info, rows, report, full, file, tampers, damages>>

\* capinfos on the copy: count, size, and the extent of the packet times.  A file
\* size other than the staged one is an error.
RunCapinfos ==
    /\ pc = "capinfos"
    /\ info' = [count |-> Len(staged), size |-> Len(staged), extent |-> EventWindow(staged)]
    /\ pc' = IF Len(staged) = Len(artifact) THEN "tshark" ELSE "failed"
    /\ UNCHANGED <<limit, staged, artifact, rows, report, full, file, tampers, damages>>

\* tshark -c limit on the copy.
RunTshark ==
    /\ pc = "tshark"
    /\ rows' = SubSeq(staged, 1, Minimum(limit, Len(staged)))
    /\ pc' = "rehash"
    /\ UNCHANGED <<limit, staged, artifact, info, report, full, file, tampers, damages>>

\* Mutant: the copy is not hashed again.
RehashNot ==
    /\ pc = "rehash"
    /\ pc' = "report"
    /\ UNCHANGED <<limit, staged, artifact, info, rows, report, full, file, tampers, damages>>

\* hash_capture: the copy must still be what was staged.
Rehash ==
    /\ pc = "rehash"
    /\ pc' = IF staged = artifact THEN "report" ELSE "failed"
    /\ UNCHANGED <<limit, staged, artifact, info, rows, report, full, file, tampers, damages>>

\* The row count must be the one capinfos announced; then the report is built.
BuildReport ==
    /\ pc = "report"
    /\ IF Len(rows) = Minimum(info.count, limit)
       THEN /\ report' = Report(artifact, rows, info, limit)
            /\ pc' = "write"
       ELSE pc' = "failed" /\ UNCHANGED report
    /\ UNCHANGED <<limit, staged, artifact, info, rows, full, file, tampers, damages>>

\* print_jsonl writes one more line, or ends.
WriteLine ==
    /\ pc = "write"
    /\ LET lines == Lines(report, full)
       IN  IF Len(file) < Len(lines)
           THEN file' = Append(file, lines[Len(file) + 1]) /\ UNCHANGED pc
           ELSE pc' = "returned" /\ UNCHANGED file
    /\ UNCHANGED <<limit, staged, artifact, info, rows, report, full, tampers, damages>>

\* Another process changes the private copy: its last row is gone, or a row is
\* overwritten by rubbish of the same length.
Tamper ==
    /\ tampers < MaxTampers /\ staged # <<>> /\ pc \in {"capinfos", "tshark", "rehash"}
    /\ \/ staged' = Front(staged)
       \/ \E i \in DOMAIN staged : staged' = [staged EXCEPT ![i].shape = "broken"]
    /\ tampers' = tampers + 1
    /\ UNCHANGED <<pc, limit, artifact, info, rows, report, full, file, damages>>

\* The writer stops for good, in the middle of a line or between two.
StopWriting ==
    /\ pc = "write" /\ damages < MaxDamages
    /\ \/ UNCHANGED file
       \/ file' = Append(file, [family |-> "torn"])
    /\ pc' = "returned" /\ damages' = damages + 1
    /\ UNCHANGED <<limit, staged, artifact, info, rows, report, full, tampers>>

\* The file of records is damaged before it is read: a line is lost, doubled or
\* moved, or a second run is appended to the first.
Damage ==
    /\ pc = "returned" /\ damages < MaxDamages
    /\ \/ \E i \in DOMAIN file : file' = RemoveAt(file, i)
       \/ \E i \in DOMAIN file : file' = InsertAt(file, i, file[i])
       \/ \E i, j \in DOMAIN file : /\ i < j
                                    /\ file' = [file EXCEPT ![i] = file[j], ![j] = file[i]]
       \/ file' = file \o Lines(report, full)
    /\ damages' = damages + 1
    /\ UNCHANGED <<pc, limit, staged, artifact, info, rows, report, full, tampers>>

\* The end: the records are in their file, or normalization failed.
Finished == pc \in {"returned", "failed"} /\ UNCHANGED vars

Next == \/ Stage \/ RunCapinfos \/ RunTshark \/ Rehash \/ BuildReport \/ WriteLine
        \/ Tamper \/ StopWriting \/ Damage \/ Finished

Spec == Init /\ [][Next]_vars

----------------------------------------------------------------------------
\* A report says of a capture what the capture of that digest contains, although
\* the copy may change between the tools that look at it
\* (normalize_saved_capture_with_snapshot).
ReportIsOfArtifact ==
    report # None =>
        report = Report(artifact, SubSeq(artifact, 1, Minimum(limit, Len(artifact))),
                        [count |-> Len(artifact), size |-> Len(artifact),
                         extent |-> EventWindow(artifact)], limit)

\* Whatever normalization writes, reading accepts: quarantined rows, repeated
\* frame numbers and limits included.  A file that was cut short, appended to, or
\* lost, doubled or moved lines is refused, or is read as all of the records that
\* were written.  The receipt is the only line whose loss cannot be noticed
\* (print_jsonl, parse_saved_capture_jsonl).
StreamsRoundTrip ==
    /\ pc = "returned" /\ damages = 0 => Accepted(file)
    /\ report # None /\ Accepted(file) =>
        LET read == ParseStream(file)
        IN  /\ read.manifest = report.manifest
            /\ read.packets = report.packets
            /\ read.quarantines = report.quarantines
            /\ read.receipt \in {None, report.receipt}

\* What triage denies is not in the capture at all, not only not in the records: no
\* absence is claimed of a capture that was normalized in part, or of a time that
\* the file does not span (wlan_triage, conversation_triage, trailing_window_triage).
\* Nor has a flow that is said to end with the capture, or with a FIN or a reset, a
\* packet after its end in rows that were not normalized (end_basis).
ClaimsHoldOfCapture ==
    Accepted(file) =>
        LET read    == ParseStream(file)
            content == read.manifest.capture
            all     == {content[i] : i \in DOMAIN content}
        IN  /\ ClaimScope(read) = "complete_capture" /\ WlanTriage(read) # "observed" =>
                   \A row \in all : row.shape # "broken" /\ "disconnect" \notin row.flags
            /\ ConversationTriage(read) = "unsupported" =>
                   \A row \in all : row.shape # "broken" /\ ~Candidate(row)
            /\ \A d \in Durations :
                   TrailingTriage(read, d) = "not_observed" =>
                       LET last == Latest(content)
                       IN  /\ Earliest(content) <= last - d
                           /\ \A row \in all : row.time \in last - d .. last =>
                                  row.shape # "broken" /\ ~Candidate(row)
            /\ \A f \in ProjectFlows(read.packets, ~Complete(read),
                                     read.quarantines # <<>>).flows :
                   f.endBasis \in {"complete_capture_boundary", "tcp_fin_observed",
                                   "tcp_reset_observed"} =>
                       \A row \in all :
                           /\ row.shape # "broken"
                           /\ Eligible(row) /\ PartitionKey(row) = f.key => row.time <= f.end

\* The flows of an accepted stream are the sessions that the inactivity limit
\* defines, each packet in exactly one, in whatever order packets are offered
\* (project_saved_capture_flows_v0).
FlowsAreSessions ==
    pc = "returned" /\ Accepted(file) =>
        LET read == ParseStream(file)
        IN  MatchesReference(read.packets, ~Complete(read), read.quarantines # <<>>)
=============================================================================
