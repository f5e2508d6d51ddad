---------------------------- MODULE EvidenceLog ----------------------------
(***************************************************************************)
(* rust/src/replay/mod.rs: the JSONL log of host-path observations.        *)
(* append_jsonl reads the whole log strictly, then appends one record and  *)
(* its newline; the process may die or the disk fill up between any two    *)
(* bytes.  read_jsonl refuses a malformed line; read_jsonl_recovering_tail *)
(* forgives a malformed last line that has no newline, and says where it   *)
(* begins.  The caller keeps one writer per log; readers come at any time. *)
(*                                                                         *)
(* The file is a sequence of newlines and of halves of records: a record   *)
(* on disk is its two halves in a row, and half of one, or more than one   *)
(* record on a line, is not JSON.                                          *)
(***************************************************************************)
EXTENDS Integers, Sequences, FiniteSetsExt

CONSTANTS
  Records,      \* canonical valid records, each with an id
  NoRecord,     \* none of them
  MaxAppends,   \* bound on appends begun
  MaxStops      \* bound on deaths and failed writes in mid append

ASSUME EvidenceLogAssumption ==
  /\ NoRecord \notin Records
  /\ MaxAppends \in Nat
  /\ MaxStops \in Nat

NL == [half |-> "newline", rec |-> NoRecord]
Half(h, r) == [half |-> h, rec |-> r]

\* serialize_jsonl_record, without its newline.
Json(r) == <<Half("opening", r), Half("closing", r)>>

VARIABLES
  file,     \* the bytes of the log
  pc,       \* "idle", "preflight" or "write"
  rec,      \* the record being appended
  buffer,   \* what write_all has still to write
  offered,  \* records whose append was begun or that were there before
  acked,    \* records whose append returned Ok
  appends, stops   \* counters for the bounds

vars == <<file, pc, rec, buffer, offered, acked, appends, stops>>

\* A log that does not exist reads as an empty one; a log may also have come
\* from elsewhere and end in a record without its newline.
Init ==
  /\ \E r \in Records : \/ file = <<>> /\ offered = {}
                        \/ file = Json(r) /\ offered = {r}
  /\ pc = "idle"
  /\ rec = NoRecord
  /\ buffer = <<>>
  /\ acked = {}
  /\ appends = 0
  /\ stops = 0

----------------------------------------------------------------------------
(* read_jsonl_bytes: split at the newlines, parse line by line, replay.    *)

\* bytes.split(b'\n'): one line more than there are newlines.
Starts(f) == {1} \cup {i + 1 : i \in {j \in DOMAIN f : f[j] = NL}}
LastStart(f) == Max(Starts(f))
LineEnd(f, s) == Min({i \in DOMAIN f : i >= s /\ f[i] = NL} \cup {Len(f) + 1}) - 1
Line(f, s) == SubSeq(f, s, LineEnd(f, s))

Terminated(f) == f = <<>> \/ f[Len(f)] = NL

\* The lines that are neither blank nor a record.
Malformed(f) ==
  {s \in Starts(f) : Line(f, s) # <<>> /\ \A r \in Records : Line(f, s) # Json(r)}

Parsed(f) == {r \in Records : \E s \in Starts(f) : Line(f, s) = Json(r)}

\* byte_offset: the lines before, each with its newline, are the bytes before.
Offset(f, s) == s - 1

\* replay: equal records are merged, different ones under one id refused.
Conflicting(R) == \E a, b \in R : a.id = b.id /\ a # b

NoWarning == -1
Failure(why) == [status |-> why, records |-> {}, warning |-> NoWarning]

\* Only a malformed final fragment without a newline is recoverable.
Forgiven(f, recovering) ==
  recovering /\ Malformed(f) = {LastStart(f)} /\ ~Terminated(f)

ReadJsonl(f, recovering) ==
  IF Malformed(f) # {} /\ ~Forgiven(f, recovering) THEN Failure("json")
  ELSE IF Conflicting(Parsed(f)) THEN Failure("conflict")
  ELSE [status |-> "ok", records |-> Parsed(f),
        warning |-> IF Malformed(f) = {} THEN NoWarning
                                         ELSE Offset(f, LastStart(f))]

----------------------------------------------------------------------------
(* append_jsonl.                                                           *)

Begin(r) ==
  /\ pc = "idle" /\ appends < MaxAppends
  /\ appends' = appends + 1
  /\ pc' = "preflight"
  /\ rec' = r
  /\ offered' = offered \cup {r}
  /\ UNCHANGED <<file, buffer, acked, stops>>

\* A log that comes without a final newline is given one first.
Separator == IF Terminated(file) THEN <<>> ELSE <<NL>>

\* Mutant: the log is taken to end in a newline.
PreflightUnseparated ==
  /\ pc = "preflight"
  /\ IF ReadJsonl(file, FALSE).status = "ok"
       THEN pc' = "write" /\ buffer' = Json(rec) \o <<NL>>
       ELSE pc' = "idle" /\ UNCHANGED buffer
  /\ UNCHANGED <<file, rec, offered, acked, appends, stops>>

\* Existing content is parsed strictly; its error is returned.  The new record
\* is not compared with what was read.
Preflight ==
  /\ pc = "preflight"
  /\ IF ReadJsonl(file, FALSE).status = "ok"
       THEN /\ pc' = "write"
            /\ buffer' = Separator \o Json(rec) \o <<NL>>
       ELSE /\ pc' = "idle"
            /\ UNCHANGED buffer
  /\ UNCHANGED <<file, rec, offered, acked, appends, stops>>

\* write_all goes on with part of what is left.
Write ==
  /\ pc = "write" /\ buffer # <<>>
  /\ file' = Append(file, Head(buffer))
  /\ buffer' = Tail(buffer)
  /\ UNCHANGED <<pc, rec, offered, acked, appends, stops>>

\* Mutant: Ok is returned while bytes are still buffered.
AcknowledgeEarly ==
  /\ pc = "write"
  /\ acked' = acked \cup {rec}
  /\ pc' = "idle"
  /\ rec' = NoRecord
  /\ UNCHANGED <<file, buffer, offered, appends, stops>>

Acknowledge ==
  /\ pc = "write" /\ buffer = <<>>
  /\ acked' = acked \cup {rec}
  /\ pc' = "idle"
  /\ rec' = NoRecord
  /\ UNCHANGED <<file, buffer, offered, appends, stops>>

\* The writer dies, or a write fails: what was written stays.
Stop ==
  /\ pc # "idle" /\ stops < MaxStops
  /\ stops' = stops + 1
  /\ pc' = "idle"
  /\ rec' = NoRecord
  /\ buffer' = <<>>
  /\ UNCHANGED <<file, offered, acked, appends>>

\* Somebody cuts the log where a recovering read said its torn tail begins:
\* external, with no writer at work.
Repair ==
  /\ pc = "idle"
  /\ LET read == ReadJsonl(file, TRUE) IN
     /\ read.warning # NoWarning
     /\ file' = SubSeq(file, 1, read.warning)
  /\ UNCHANGED <<pc, rec, buffer, offered, acked, appends, stops>>

Next ==
  \/ \E r \in Records : Begin(r)
  \/ Preflight \/ Write \/ Acknowledge \/ Stop \/ Repair

Spec == Init /\ [][Next]_vars

----------------------------------------------------------------------------
(* Properties.                                                             *)

Tokens == {NL} \cup {Half(h, r) : h \in {"opening", "closing"}, r \in Records}

\* Every variable keeps its shape; something is left to write only while a
\* record is being written.
TypeOK ==
  /\ file \in Seq(Tokens)
  /\ pc \in {"idle", "preflight", "write"}
  /\ rec \in Records \cup {NoRecord}
  /\ buffer \in Seq(Tokens)
  /\ pc # "write" => buffer = <<>>
  /\ offered \subseteq Records /\ acked \subseteq offered
  /\ appends \in 0 .. MaxAppends
  /\ stops \in 0 .. MaxStops

\* Unless two contents were offered under one id, a recovering read succeeds
\* at every moment, in mid append too, returns every record whose append
\* returned Ok, and none that was never offered: "a corrupt tail is never
\* silently extended" (append_jsonl) into a line that no reader forgives.
AckedIsReadable ==
  ~Conflicting(offered) =>
    LET read == ReadJsonl(file, TRUE) IN
    /\ read.status = "ok"
    /\ acked \subseteq read.records
    /\ read.records \subseteq offered

\* A record that one read returned is returned by every later read, although
\* its append may never have returned and its newline may be missing.
ReadsAreMonotone ==
  [][~Conflicting(offered') =>
       ReadJsonl(file, TRUE).records \subseteq ReadJsonl(file', TRUE).records]_vars
=============================================================================
