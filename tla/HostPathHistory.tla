--------------------------- MODULE HostPathHistory ---------------------------
(***************************************************************************)
(* The history that a reader is shown of a log of host-path observations,  *)
(* while observations arrive late, twice, from several observers, and      *)
(* through a log that is torn and repaired.                                *)
(***************************************************************************)
EXTENDS EvidenceLog, HostPathReplay

\* Names are ordered as the numbers that stand for them.
ASSUME RecordsAssumption == \A r \in Records : {r.id, r.observer, r.order} \subseteq Int

\* What `netbraid evidence' is told of a log that reads without a conflict.
History(f) == Replay(Parsed(f))

\* The transition shown for a record.
TransitionOf(history, r) ==
    history.transitions[CHOOSE i \in DOMAIN history.records : history.records[i] = r]

Readable(f) == ReadJsonl(f, TRUE).status = "ok"

\* An observation that arrives changes no more of the history than its own place
\* demands: no transition of another observer, and of its own observer only that
\* of the observation right after it, however late it comes (replay).
HistoryIsStable ==
    [][Parsed(file') # Parsed(file) /\ Readable(file) /\ Readable(file') =>
         LET old  == History(file)
             new  == History(file')
             came == Range(new.records) \ Range(old.records)
         IN  \A r \in Range(old.records) :
                r \in Range(new.records) /\ TransitionOf(new, r) # TransitionOf(old, r) =>
                    \E c \in came :
                        /\ c.observer = r.observer /\ Precedes(c, r)
                        /\ ~\E between \in Range(old.records) :
                              /\ between.observer = r.observer
                              /\ Precedes(c, between) /\ Precedes(between, r)]_vars

\* The recurrence summary and the transitions were written apart and must agree on
\* what came before: the first observation has no past, a record in the context
\* of the one before has recurred, and what the summary counts is the past.
RecurrenceMatchesHistory ==
    Readable(file) =>
        LET history == History(file)
        IN  \A i \in DOMAIN history.records :
                LET r      == history.records[i]
                    past   == Recurrence(history.records, r)
                    before == PreviousOf(history.records, i)
                    shown  == history.transitions[i].relation
                IN  /\ shown = "first" <=> before = {}
                    /\ shown = "same" => past.exact > 0
                    /\ shown = "compatible" => past.compatible > 0
                    /\ past.exact + past.compatible
                         = Cardinality({j \in before : Compatible(history.records[j], r)})
                    /\ past.match = "anchored" =>
                         \E j \in before : /\ history.records[j].path["next_hop_link_address"]
                                                 = r.path["next_hop_link_address"]
                                           /\ r.path["next_hop_link_address"] \notin Blank
=============================================================================
