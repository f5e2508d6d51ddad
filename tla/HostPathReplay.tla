--------------------------- MODULE HostPathReplay ---------------------------
(***************************************************************************)
(* rust/src/replay/mod.rs: replay() orders the observations of a log and   *)
(* says of each how it relates to the one before; a recurrence summary     *)
(* says how often a context was seen before.                               *)
(*                                                                         *)
(* An observation is [id, observer, order, path].  `order' stands for the  *)
(* triple ObservationOrderV0, which the code compares as one value.  A     *)
(* path maps each dimension to a value, or to one of Blank when it was not *)
(* observed: None, an empty set, a restricted or unavailable network name. *)
(***************************************************************************)
EXTENDS Integers, Sequences, FiniteSets, SequencesExt

CONSTANT Blank  \* values that say nothing was observed

KeyDimensions   == {"link_type", "network_name", "next_hop",
                    "next_hop_link_address", "resolvers", "address_prefixes"}
OtherDimensions == {"interface", "association", "associated_bssid"}

\* context_key and the equality of ContextKeyV0.
ContextKey(r) == [d \in KeyDimensions |-> r.path[d]]

\* contexts_are_compatible: nothing observed by both differs.
Compatible(a, b) ==
    \A d \in KeyDimensions : a.path[d] \in Blank \/ b.path[d] \in Blank \/ a.path[d] = b.path[d]

\* compare_contexts, with a previous observation.
Compare(previous, current) ==
    [relation |-> CASE ContextKey(previous) = ContextKey(current) -> "same"
                    [] ContextKey(previous) # ContextKey(current) /\ Compatible(previous, current)
                         -> "compatible"
                    [] OTHER -> "changed",
     changed  |-> {d \in KeyDimensions \cup OtherDimensions : previous.path[d] # current.path[d]}]

First == [relation |-> "first", changed |-> {}]

----------------------------------------------------------------------------
\* Mutant: one timeline for all observers.
PreviousOfAny(timeline, i) == {j \in DOMAIN timeline : j < i}

\* previous_by_observer: the positions before i on its observer's timeline.
PreviousOf(timeline, i) ==
    {j \in DOMAIN timeline : j < i /\ timeline[j].observer = timeline[i].observer}

\* The order of replayed records.
Precedes(a, b) ==
    \/ a.order < b.order
    \/ a.order = b.order /\ a.observer < b.observer
    \/ a.order = b.order /\ a.observer = b.observer /\ a.id < b.id

\* Records in their order.
Timeline(R) ==
    LET earlier(r) == {q \in R : Precedes(q, r)}
    IN  [i \in 1 .. Cardinality(R) |-> CHOOSE r \in R : Cardinality(earlier(r)) = i - 1]

\* replay(), of records that do not conflict: equal ones are one in by_id, however
\* often and in whatever order they come.
Replay(R) ==
    LET timeline == Timeline(R)
    IN  [records     |-> timeline,
         transitions |-> [i \in DOMAIN timeline |->
             LET before == PreviousOf(timeline, i)
             IN  IF before = {} THEN First
                 ELSE Compare(timeline[CHOOSE j \in before : \A h \in before : h <= j],
                              timeline[i])]]

----------------------------------------------------------------------------
\* Mutant: observations of one moment are not ordered by their ids.
PriorByTime(records, current) ==
    {i \in DOMAIN records : /\ records[i].observer = current.observer
                            /\ records[i].order < current.order}

\* The positions that summarize_context_recurrence takes for earlier ones.
Prior(records, current) ==
    {i \in DOMAIN records : /\ records[i].observer = current.observer
                            /\ records[i].id # current.id
                            /\ \/ records[i].order < current.order
                               \/ /\ records[i].order = current.order
                                  /\ records[i].id < current.id}

\* summarize_context_recurrence.
Recurrence(records, current) ==
    LET prior      == Prior(records, current)
        exact      == {i \in prior : ContextKey(records[i]) = ContextKey(current)}
        compatible == {i \in prior \ exact : Compatible(records[i], current)}
        bssids     == {records[i].path["associated_bssid"] : i \in exact} \ Blank
        bssid      == current.path["associated_bssid"]
    IN  [exact        |-> Cardinality(exact),
         compatible   |-> Cardinality(compatible),
         times        |-> {records[i].order : i \in exact},
         match        |-> CASE exact = {} -> "none"
                            [] exact # {} /\ current.path["next_hop_link_address"] \in Blank
                                 -> "unanchored"
                            [] OTHER -> "anchored",
         attachment   |-> CASE bssid \in Blank \/ bssids = {} -> "not_observed"
                            [] bssid \in bssids               -> "seen_before"
                            [] OTHER                          -> "not_seen_before"]
=============================================================================
