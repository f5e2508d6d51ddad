---------------------------- MODULE RelationSplit ----------------------------
(***************************************************************************)
(* The relation splits of src/eval: the audit of a manifest that gives     *)
(* observations to the four roles (relation_split_audit.py), and the two   *)
(* builders that derive such a manifest from an oracle and publish only    *)
(* what the audit passes (build-osu-lora-relation-split.py and             *)
(* build-ruff-uwb-open-set-source-split.py).                               *)
(*                                                                         *)
(* An observation is [id, groups], `groups' giving to every axis a group:  *)
(* Known(g), or a group of state "unknown" or "not_observed".  A partition *)
(* is [id, role, observations] with a sequence of observations, a manifest *)
(* [policies, partitions]; a policy is the sequence of the role pairs that *)
(* may not share a group on its axis.  Identifiers are numbers, in the     *)
(* order of the strings that they stand for.                               *)
(***************************************************************************)
EXTENDS Naturals, FiniteSets, SequencesExt

CONSTANTS
    Axes,            \* AXES
    RoleDeviceCounts \* ROLE_DEVICE_COUNTS, the devices of each role

Mandatory  == {"event", "session"}
DeviceAxes == {"physical_source", "physical_device"}

ASSUME AxesAssumption == Mandatory \cup DeviceAxes \subseteq Axes

Roles     == <<"train", "calibration", "validation", "test">>
RolePairs == {<<Roles[p[1]], Roles[p[2]]>> : p \in {q \in (1 .. 4) \X (1 .. 4) : q[1] < q[2]}}

AllPairs  == SetToSeq(RolePairs)

\* The elements of a set as a sequence sorted by a strict order.
Sorted(S, Before(_, _)) ==
    [k \in 1 .. Cardinality(S) |-> CHOOSE x \in S : Cardinality({y \in S : Before(y, x)}) = k - 1]

Known(g)     == [state |-> "known", group |-> g]
Unknown      == [state |-> "unknown", group |-> 0]
NotObserved  == [state |-> "not_observed", group |-> 0]
IsKnown(grp) == grp.state = "known"

----------------------------------------------------------------------------
\* parse_manifest: the first rule that a manifest breaks, or "ok".

\* A pair is sorted in the order of the roles before it is compared.
SortedPair(pair) == IF pair \in RolePairs THEN pair ELSE <<pair[2], pair[1]>>

ForbiddenPairs(policies, axis) == {SortedPair(p) : p \in ToSet(policies[axis])}

ObservationsOf(m) == FlattenSeq([i \in DOMAIN m.partitions |-> m.partitions[i].observations])

ParseManifest(m) ==
    LET Distinct(s)  == Cardinality(ToSet(s)) = Len(s)
        Ids          == [i \in DOMAIN m.partitions |-> m.partitions[i].id]
        ObsIds       == [i \in DOMAIN ObservationsOf(m) |-> ObservationsOf(m)[i].id]
        PairsOf(a)   == [i \in DOMAIN m.policies[a] |-> SortedPair(m.policies[a][i])]
    IN  CASE \E a \in Axes : ~Distinct(PairsOf(a)) -> "duplicate_forbidden_role_pair"
          [] \E a \in Mandatory : ToSet(PairsOf(a)) # RolePairs
                -> "mandatory_axis_requires_all_role_pairs"
          [] Len(m.partitions) < Len(Roles) -> "invalid_partition_count"
          [] \E i \in DOMAIN m.partitions : m.partitions[i].observations = <<>>
                -> "invalid_partition_observation_count"
          [] ~Distinct(Ids) -> "duplicate_partition_id"
          [] {p.role : p \in ToSet(m.partitions)} # ToSet(Roles) -> "missing_required_role"
          [] ~Distinct(ObsIds) -> "duplicate_observation_id"
          [] OTHER -> "ok"

----------------------------------------------------------------------------
\* _axis_audit and audit_parsed_manifest.

GroupsOfRole(m, role, axis) ==
    {o.groups[axis] : o \in UNION {ToSet(p.observations) :
                                       p \in {q \in ToSet(m.partitions) : q.role = role}}}

\* A mutant: only what is unknown in the first role counts.
PairStatusOneSided(m, axis, pair) ==
    LET left == GroupsOfRole(m, pair[1], axis)
        right == GroupsOfRole(m, pair[2], axis)
    IN  CASE pair \notin ForbiddenPairs(m.policies, axis) -> "allowed"
          [] \E g \in left \cap right : IsKnown(g) -> "fail"
          [] \E g \in left : ~IsKnown(g) -> "unknown"
          [] OTHER -> "pass"

PairStatus(m, axis, pair) ==
    LET left == GroupsOfRole(m, pair[1], axis)
        right == GroupsOfRole(m, pair[2], axis)
    IN  CASE pair \notin ForbiddenPairs(m.policies, axis) -> "allowed"
          [] \E g \in left \cap right : IsKnown(g) -> "fail"
          [] \E g \in left \cup right : ~IsKnown(g) -> "unknown"
          [] OTHER -> "pass"

Worst(statuses) == IF "fail" \in statuses THEN "fail"
                   ELSE IF "unknown" \in statuses THEN "unknown" ELSE "pass"

AxisStatus(m, axis) == Worst({PairStatus(m, axis, pair) : pair \in RolePairs})

AuditManifest(m) == Worst({AxisStatus(m, axis) : axis \in Axes})

----------------------------------------------------------------------------
\* build-osu-lora-relation-split.py: observations that share an event or a
\* session form a component, found by union and find, and every component
\* goes whole to the role with the fewest observations so far.

RootOf(parents, i) ==
    LET root[j \in DOMAIN parents] == IF parents[j] = j THEN j ELSE root[parents[j]]
    IN  root[i]

\* A mutant: the other element is moved, and not the root of its tree.
UniteElements(trees, i, j) ==
    LET l == RootOf(trees.parents, i)
    IN  IF l = RootOf(trees.parents, j) THEN trees
        ELSE [trees EXCEPT !.parents[j] = l, !.sizes[l] = @ + trees.sizes[j]]

\* _Components.union, the smaller tree under the larger one.
Unite(trees, i, j) ==
    LET l == RootOf(trees.parents, i)
        r == RootOf(trees.parents, j)
        over  == IF trees.sizes[l] < trees.sizes[r] THEN r ELSE l
        under == IF over = l THEN r ELSE l
    IN  IF l = r THEN trees
        ELSE [parents |-> [trees.parents EXCEPT ![under] = over],
              sizes   |-> [trees.sizes EXCEPT ![over] = @ + trees.sizes[under]]]

\* The first observation of the group that observation i has on an axis.
FirstOfGroup(obs, axis, i) ==
    CHOOSE j \in 1 .. i : /\ obs[j].groups[axis] = obs[i].groups[axis]
                          /\ \A k \in 1 .. j - 1 : obs[k].groups[axis] # obs[i].groups[axis]

AssignmentComponents(obs) ==
    LET Join(trees, i) == Unite(Unite(trees, i, FirstOfGroup(obs, "event", i)),
                                i, FirstOfGroup(obs, "session", i))
        trees == FoldLeftDomain(Join, [parents |-> [i \in DOMAIN obs |-> i],
                                       sizes   |-> [i \in DOMAIN obs |-> 1]], obs)
        members(r) == {i \in DOMAIN obs : RootOf(trees.parents, i) = r}
        Before(c, d) == \/ Cardinality(c) > Cardinality(d)
                        \/ Cardinality(c) = Cardinality(d) /\ Min(c) < Min(d)
    IN  Sorted({members(RootOf(trees.parents, i)) : i \in DOMAIN obs}, Before)

\* The role with the least load, the first in the order of the roles.
LightestRole(assigned) ==
    CHOOSE r \in 1 .. 4 : /\ \A s \in 1 .. 4 : Cardinality(assigned[r]) <= Cardinality(assigned[s])
                          /\ \A s \in 1 .. r - 1 : Cardinality(assigned[s]) > Cardinality(assigned[r])

AssignComponents(components) ==
    LET Give(assigned, component) == [assigned EXCEPT ![LightestRole(assigned)] = @ \cup component]
    IN  FoldLeft(Give, [r \in 1 .. 4 |-> {}], components)

\* The manifest of the observations that each role was assigned.
ManifestOf(obs, assigned, separated) ==
    [policies   |-> [a \in Axes |-> IF a \in separated THEN AllPairs ELSE <<>>],
     partitions |-> [r \in 1 .. 4 |->
         [id |-> r, role |-> Roles[r],
          observations |-> LET ids == Sorted(assigned[r], <)
                           IN  [k \in DOMAIN ids |-> [id |-> obs[ids[k]].id,
                                                      groups |-> obs[ids[k]].groups]]]]]

\* The last steps of both builders: a manifest is parsed and audited as any other.
Compiled(m) ==
    IF ParseManifest(m) # "ok" THEN [status |-> "invalid_compiled_manifest"]
    ELSE IF AuditManifest(m) # "pass" THEN [status |-> "split_audit_failed"]
    ELSE [status |-> "ok", manifest |-> m]

\* Both builders take the observations in the order of their ids.
OrderedById(obs) == SortSeq(obs, LAMBDA o, p : o.id < p.id)

BuildOsuManifest(given) ==
    LET obs        == OrderedById(given)
        components == AssignmentComponents(obs)
    IN  CASE \E i \in DOMAIN obs : ~IsKnown(obs[i].groups["event"])
                -> [status |-> "unbounded_event_axis"]
          [] \E i \in DOMAIN obs : ~IsKnown(obs[i].groups["session"])
                -> [status |-> "unbounded_session_axis"]
          [] Cardinality({o.id : o \in ToSet(obs)}) # Len(obs)
                -> [status |-> "duplicate_oracle_observation_id"]
          [] Len(components) < Len(Roles) -> [status |-> "insufficient_assignment_components"]
          [] OTHER -> Compiled(ManifestOf(obs, AssignComponents(components), Mandatory))

----------------------------------------------------------------------------
\* build-ruff-uwb-open-set-source-split.py: whole devices go to the roles.
\* Its observations have a campaign too.

\* _role_by_device: the rules the observations keep before a device has a role;
\* which one is named when several are broken depends on the order of reading.
DevicesSeparate(obs) ==
    LET Of(i, axis)     == obs[i].groups[axis]
        Maps(from, to)  == \A i, j \in DOMAIN obs :
                              Of(i, from) = Of(j, from) => Of(i, to) = Of(j, to)
        Devices         == {Of(i, "physical_device") : i \in DOMAIN obs}
        Campaigns(d)    == {obs[i].campaign : i \in {k \in DOMAIN obs : Of(k, "physical_device") = d}}
        AllCampaigns    == UNION {Campaigns(d) : d \in Devices}
        Count           == FoldLeft(+, 0, RoleDeviceCounts)
    IN  CASE ~Maps("physical_source", "physical_device") \/ ~Maps("physical_device", "physical_source")
                -> "physical_source_device_not_bijective"
          [] ~Maps("event", "physical_device") -> "event_crosses_physical_device"
          [] ~Maps("session", "physical_device") -> "session_crosses_physical_device"
          [] Cardinality(Devices) # Count -> "observed_device_count_mismatch"
          [] Cardinality(AllCampaigns) # 2 \/ \E d \in Devices : Campaigns(d) # AllCampaigns
                -> "incomplete_cross_campaign_device"
          [] OTHER -> "ok"

\* The role of each device; `order' ranks devices as the digests of their names do.
RoleOfDevice(devices, order) ==
    LET Through(r) == FoldLeft(+, 0, SubSeq(RoleDeviceCounts, 1, r))
        Rank(d)    == Cardinality({e \in devices : order[e.group] <= order[d.group]})
    IN  [d \in devices |-> CHOOSE r \in 1 .. 4 : Through(r - 1) < Rank(d) /\ Rank(d) <= Through(r)]

BuildRuffManifest(given, order) ==
    LET obs      == OrderedById(given)
        devices  == {obs[i].groups["physical_device"] : i \in DOMAIN obs}
        role     == RoleOfDevice(devices, order)
        assigned == [r \in 1 .. 4 |-> {i \in DOMAIN obs : role[obs[i].groups["physical_device"]] = r}]
    IN  CASE \E i \in DOMAIN obs, a \in Mandatory \cup DeviceAxes : ~IsKnown(obs[i].groups[a])
                -> [status |-> "unbounded_axis"]
          [] Cardinality({o.id : o \in ToSet(obs)}) # Len(obs)
                -> [status |-> "duplicate_oracle_observation_id"]
          [] DevicesSeparate(obs) # "ok" -> [status |-> DevicesSeparate(obs)]
          [] OTHER -> Compiled(ManifestOf(obs, assigned, Mandatory \cup DeviceAxes))
=============================================================================
