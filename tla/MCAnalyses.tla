----------------------------- MODULE MCAnalyses -----------------------------
(***************************************************************************)
(* The jobs on which the analyses are checked.                             *)
(***************************************************************************)
EXTENDS Analyses

MCAxes == {"event", "session", "physical_source", "physical_device"}

MCRoleDeviceCounts == <<1, 1, 1, 1>>

\* The ways to group the numbers 1 .. n: every group is named by a number no
\* larger than the number of groups before it plus one.
Groupings(n) ==
    LET More(gs, i) == UNION {{Append(g, k) : k \in 1 .. Max({0} \cup ToSet(g)) + 1} : g \in gs}
    IN  FoldLeft(More, {<<>>}, [i \in 1 .. n |-> i])

\* At most two of the groups withheld, as unknown or as not observed.
Withheld(groups) ==
    {[i \in DOMAIN groups |-> IF i \notin hidden THEN Known(groups[i])
                              ELSE IF i = Min(hidden) THEN Unknown ELSE NotObserved] :
        hidden \in {S \in SUBSET DOMAIN groups : Cardinality(S) <= 2}}

----------------------------------------------------------------------------
\* Audits: five observations, one to a role and another for one of them.

Devices == {<<1, 1, 1, 1, 1>>, <<1, 2, 2, 2, 2>>, <<1, 2, 3, 4, 1>>}

Manifest(event, device, extra, forbidden) ==
    LET obs(i) == [id |-> i, groups |-> [event |-> event[i], session |-> Known(i),
                                      physical_source |-> NotObserved, physical_device |-> device[i]]]
    IN  [policies |-> [event |-> AllPairs, session |-> AllPairs,
                       physical_source |-> <<>>, physical_device |-> forbidden],
         partitions |-> [r \in 1 .. 4 |->
             [id |-> r, role |-> Roles[r],
              observations |-> IF r = extra THEN <<obs(r), obs(5)>> ELSE <<obs(r)>>]]]

EventManifests ==
    {Manifest(event, [i \in 1 .. 5 |-> Known(1)], 4, <<>>) :
        event \in UNION {Withheld(g) : g \in Groupings(5)}}

DeviceManifests ==
    {Manifest([i \in 1 .. 5 |-> Known(i)], device, extra, forbidden) :
        device \in UNION {Withheld(g) : g \in Devices}, extra \in {1, 4},
        forbidden \in {<<>>, <<<<"train", "calibration">>>>,
                       <<<<"test", "train">>, <<"calibration", "validation">>>>}}

Sound == Manifest([i \in 1 .. 5 |-> Known(i)], [i \in 1 .. 5 |-> Known(1)], 4, <<>>)

UnsoundManifests ==
    {[Sound EXCEPT !.policies["physical_device"] = <<<<"train", "test">>, <<"test", "train">>>>],
     [Sound EXCEPT !.policies["session"] = Tail(@)],
     [Sound EXCEPT !.partitions = Tail(@)],
     [Sound EXCEPT !.partitions[2].observations = <<>>],
     [Sound EXCEPT !.partitions[2].id = 1],
     [Sound EXCEPT !.partitions[2].role = "train"],
     [Sound EXCEPT !.partitions[2].observations[1].id = 5],
     [Sound EXCEPT !.partitions = Append(@, [id |-> 5, role |-> "test",
          observations |-> <<[Sound.partitions[1].observations[1] EXCEPT !.id = 6]>>])]}

AuditJobs == {[kind |-> "audit", manifest |-> m] :
                 m \in EventManifests \cup DeviceManifests \cup UnsoundManifests}

----------------------------------------------------------------------------
\* OSU splits: six observations that share events and sessions in every way that
\* leaves four parts, or too few.

OsuGroups(event, session) ==
    [event |-> event, session |-> session,
     physical_source |-> NotObserved, physical_device |-> Unknown]

OsuJobs ==
    LET Many(n) == {g \in Groupings(6) : Cardinality({g[i] : i \in 1 .. 6}) >= n}
    IN  {[kind |-> "osu", observations |->
             [i \in 1 .. 6 |-> [id |-> 7 - i, groups |-> OsuGroups(Known(event[i]), Known(session[i]))]]] :
            event \in Many(4), session \in Many(5)}
        \cup {[kind |-> "osu", observations |->
                  [i \in 1 .. 4 |-> [id |-> ids[i], groups |->
                      OsuGroups(IF i = 2 THEN event ELSE Known(i), IF i = 3 THEN session ELSE Known(i))]]] :
                 ids \in {<<1, 2, 3, 4>>, <<1, 2, 3, 1>>},
                 event \in {Known(2), Unknown}, session \in {Known(3), NotObserved}}

\* Ruff splits: four devices in two campaigns, and one field of one observation
\* changed to what another has; the devices ranked in some orders.
RuffObservations ==
    [i \in 1 .. 8 |->
        LET device == (i + 1) \div 2
        IN  [id |-> i, campaign |-> i % 2,
             groups |-> [event |-> Known(i), session |-> Known((i + 1) \div 2),
                         physical_source |-> Known(device),
                         physical_device |-> Known(device)]]]

RuffJobs ==
    {[kind |-> "ruff", observations |-> obs, order |-> order] :
        order \in {<<1, 2, 3, 4>>, <<3, 1, 4, 2>>, <<4, 3, 2, 1>>},
        obs \in {[RuffObservations EXCEPT ![k].groups[a] = RuffObservations[j].groups[a]] :
                    k \in {1, 4}, j \in 1 .. 8, a \in MCAxes}
                \cup {[RuffObservations EXCEPT ![3].campaign = 0],
                      [RuffObservations EXCEPT ![3].id = 8],
                      [RuffObservations EXCEPT ![5].groups["session"] = Unknown],
                      [RuffObservations EXCEPT ![5].groups["event"] =
                          RuffObservations[6].groups["event"]],
                      SubSeq(RuffObservations, 1, 6)}}

----------------------------------------------------------------------------
\* Holdouts of phones, and of phones and users together.

TargetSets == {{1}, {2}, {1, 2}, {2, 3}, {1, 3}, {1, 2, 3}}

\* The rows of a phone: most have few, one may have many.
Rows(pattern, p) == CASE pattern = "rising" -> p
                      [] pattern = "heavy" -> IF p = 1 THEN 9 ELSE 1

Edge(user, phone, rows, targets) ==
    [user |-> user, phone |-> phone, rows |-> rows, targets |-> targets]

\* The targets of the phones, up to renaming the phones.
Spread(n, sets) ==
    LET rank == SetToSeq(sets)
    IN  {[p \in 1 .. n |-> rank[f[p]]] :
            f \in {g \in [1 .. n -> DOMAIN rank] : \A p \in 1 .. n - 1 : g[p] <= g[p + 1]}}

PhoneJobs ==
    {[kind |-> "holdout", joint |-> FALSE, roles |-> roles,
      edges |-> {Edge(1, p, Rows(pattern, p), targets[p]) : p \in 1 .. 5}] :
        roles \in {2, 3, 4}, pattern \in {"rising", "heavy"},
        targets \in Spread(5, TargetSets)}

JointJobs ==
    {[kind |-> "holdout", joint |-> TRUE, roles |-> 3,
      edges |-> {Edge(user[p], p, Rows("rising", p), targets[p]) : p \in 1 .. 6}
                \cup {Edge(user[1], 6, 1, {1})}] :
        user \in {g \in Groupings(6) : Cardinality({g[p] : p \in 1 .. 6}) \in 2 .. 5},
        targets \in {<<{1}, {1}, {1, 2}, {2}, {2}, {1, 2}>>, [p \in 1 .. 6 |-> {1, 2}]}}

----------------------------------------------------------------------------
\* Claims: two predictions, packets and contents, and an older claim, with the
\* records of where they came from.

Obs(i) == Ref(i, i)

Profile == [ref |-> Ref(10, 10), forward |-> [same |-> 1, different |-> 3],
            reverse |-> [same |-> 1, different |-> 3]]

Calibrated(left, right, prediction, receipt) ==
    [kind |-> "calibrated", left |-> left, right |-> right, profile |-> Profile,
     prediction |-> prediction, receipt |-> receipt]

Prediction(digest, forward, reverse) ==
    [ref |-> Ref(12, digest), profile |-> 10, pair |-> <<Obs(1), Obs(2)>>, forward |-> forward,
     reverse |-> reverse, decision |-> ExpectedDecision(Profile, forward, reverse)]

Receipt == [ref |-> Ref(11, 11), profile |-> 10, gate |-> "passed"]

Packet(i, wlan) == [ref |-> Obs(i), capture |-> i, whole |-> TRUE, wlan |-> wlan]

Content(i, observed) == [ref |-> Ref(20 + i, 30 + observed), observed |-> observed]

Packets12 == [kind |-> "packet", left |-> Packet(1, <<0, 8>>), right |-> Packet(2, <<0, 4>>)]

ClaimRequests ==
    {Calibrated(Obs(2), Obs(1), Prediction(12, 0, 1), Receipt),
     Calibrated(Obs(1), Obs(2), Prediction(13, 2, 4), Receipt),
     Calibrated(Obs(1), Obs(2), Prediction(14, 4, 4), [Receipt EXCEPT !.gate = "failed"]),
     Calibrated(Obs(1), Obs(1), Prediction(12, 0, 1), Receipt),
     Calibrated(Obs(1), Obs(3), Prediction(12, 0, 1), Receipt),
     Packets12,
     [kind |-> "packet", left |-> Packet(2, <<0, 4>>), right |-> Packet(1, <<>>)],
     [kind |-> "content", left |-> Content(2, 1), right |-> Content(1, 1)],
     [kind |-> "content", left |-> Content(1, 1), right |-> Content(2, 2)],
     [kind |-> "given", claim |-> PacketClaim([AssessPackets(Packets12.left, Packets12.right)
                                                   EXCEPT !.supported = "unknown"])]}

Record(output, kind, inputs) == [output |-> output, kind |-> kind, inputs |-> inputs]

ClaimRecords ==
    {<<>>,
     <<Record(Obs(1), "direct_observation", <<>>)>>,
     <<Record(Ref(12, 12), "statistical_inference", <<Ref(40, 40)>>),
       Record(Ref(40, 40), "deterministic_derivation", <<Ref(22, 31), Ref(41, 41)>>)>>,
     <<Record(Ref(12, 13), "statistical_inference", <<Ref(42, 42)>>),
       Record(Ref(21, 31), "quotation", <<Ref(42, 42)>>)>>,
     <<Record(Ref(40, 40), "quotation", <<Ref(41, 41)>>),
       Record(Ref(41, 41), "repetition", <<Ref(40, 40)>>)>>,
     <<Record(Ref(40, 40), "quotation", <<Ref(41, 41)>>),
       Record(Ref(40, 40), "quotation", <<Ref(42, 42)>>)>>,
     <<Record(Ref(40, 40), "quotation", <<Ref(41, 41), Ref(42, 42)>>)>>,
     <<Record(Ref(50, 50), "direct_observation", <<>>), Record(Ref(51, 51), "direct_observation", <<>>),
       Record(Ref(52, 52), "direct_observation", <<>>), Record(Ref(53, 53), "direct_observation", <<>>)>>}

ClaimJobs ==
    {[kind |-> "claims", requests |-> requests, records |-> records] :
        requests \in UNION {[1 .. n -> ClaimRequests] : n \in 1 .. 3}, records \in ClaimRecords}

----------------------------------------------------------------------------
\* Factor graphs of three variables, with up to three factors.

Variables == {<<[id |-> 1, states |-> 2], [id |-> 2, states |-> 2], [id |-> 3, states |-> 3]>>,
              <<[id |-> 2, states |-> 2], [id |-> 1, states |-> 2], [id |-> 3, states |-> 3],
                [id |-> 1, states |-> 2]>>}

Factor(id, scope, table, semantics, atoms, dependence) ==
    [id |-> id, scope |-> scope, table |-> table, semantics |-> semantics, atoms |-> atoms,
     dependence |-> dependence]

FactorPool ==
    {Factor(1, <<1, 2>>, <<1, 2, 3, 1>>, <<"heuristic">>, {1}, "independent"),
     Factor(2, <<3, 1>>, <<1, 2, 4, 3, 1, 1>>, <<"heuristic">>, {2}, "independent"),
     Factor(2, <<3, 1>>, <<1, 2, 4, 3, 1, 2>>, <<"heuristic">>, {2}, "independent"),
     Factor(3, <<2>>, <<1, 2>>, <<"prior", "m">>, {}, "independent"),
     Factor(4, <<1>>, <<1, 3>>, <<"likelihood", "m">>, {1}, "joint"),
     Factor(5, <<2, 3>>, <<1, 2, 3, 3, 2, 1>>, <<"likelihood", "m">>, {1, 2}, "joint"),
     Factor(6, <<1, 2>>, <<0, 1, 1, 0>>, <<"constraint">>, {3}, "independent"),
     Factor(7, <<1, 2>>, <<1, 0, 0, 1>>, <<"constraint">>, {4}, "independent"),
     Factor(8, <<3>>, <<2, 1, 2>>, <<"prior", "n">>, {}, "independent"),
     Factor(9, <<3, 2>>, <<1, 0, 1>>, <<"constraint">>, {5}, "independent"),
     Factor(11, <<3, 1>>, <<0, 1, 1, 1, 0, 0>>, <<"constraint">>, {7}, "independent"),
     Factor(10, <<4>>, <<1, 0>>, <<"constraint">>, {6}, "independent")}

GraphJobs ==
    {[kind |-> "graph", variables |-> variables, factors |-> factors,
      maxVariables |-> limits[1], maxAssignments |-> limits[2]] :
        variables \in Variables,
        factors \in UNION {[1 .. n -> FactorPool] : n \in 0 .. 3},
        limits \in {<<3, 12>>, <<2, 6>>}}

----------------------------------------------------------------------------
\* Flows of one connection that were split in time, on one side or the other.

MCCounters == {"packets_out", "bytes_in"}

Flow(key, from, to, out, in) ==
    [key |-> key, directed |-> TRUE, from |-> from, to |-> to,
     counters |-> [packets_out |-> out, bytes_in |-> in]]

PacketFlows == {Flow("a", 0, 2, 4, 9), Flow("a", 3, 5, 2, 9), Flow("b", 0, 5, 4, 9),
                [Flow("a", 0, 2, 4, 9) EXCEPT !.directed = FALSE]}

FlowRecord(key, from, to, out, in) ==
    [key |-> key, from |-> from, to |-> to, counters |-> [packets_out |-> out, bytes_in |-> in]]

FlowRecords == {FlowRecord("a", 0, 5, 6, 18), FlowRecord("a", 0, 2, 4, None),
                FlowRecord("a", 6, 9, 2, 9), FlowRecord("b", 1, 4, 4, 8),
                FlowRecord(None, 0, 5, 6, 18), FlowRecord("a", 0, None, 6, 18)}

FlowOptions ==
    [tolerance |-> 1, selected |-> 2, overlap |-> 2, exact |-> 3, near |-> 2, conflicting |-> 1,
     nearTolerance |-> 15, maxEdges |-> 4, maxComponentEdges |-> 4, maxAssignments |-> 16]

FlowJobs ==
    {[kind |-> "flows", packets |-> packets, records |-> records, options |-> options] :
        packets \in UNION {[1 .. n -> PacketFlows] : n \in 1 .. 2},
        records \in UNION {[1 .. n -> FlowRecords] : n \in 1 .. 2},
        options \in {FlowOptions, [FlowOptions EXCEPT !.maxComponentEdges = 1],
                     [FlowOptions EXCEPT !.maxEdges = 2], [FlowOptions EXCEPT !.maxAssignments = 4],
                     [FlowOptions EXCEPT !.tolerance = 0]}}

----------------------------------------------------------------------------
\* Counters and captures: windows with few bytes and packets, or none, and numbers
\* that fit in the width or do not; windows that are missing or should be.

Window(ms, rb, tb, rp, tp) == [ms |-> ms, rb |-> rb, tb |-> tb, rp |-> rp, tp |-> tp]

Complete(w) == [coverage |-> "declared_complete", window |-> <<w>>]

Windows == {Window(ms, rb, 5, rp, tp) : ms \in {1, 3}, rb \in {0, 7}, rp \in {0, 1, 3}, tp \in {0, 2}}

Uncovered == {[coverage |-> "incomplete", window |-> <<>>], [coverage |-> "unavailable", window |-> <<>>],
              [coverage |-> "incomplete", window |-> <<Window(1, 7, 5, 3, 2)>>],
              [coverage |-> "declared_complete", window |-> <<>>], Complete(Window(0, 7, 5, 3, 2)),
              Complete(Window(1, 7, 5, 3, 2)), Complete(Window(1, 500, 5, 3, 2))}

Thresholds(scale, support, contradiction) ==
    [scales |-> [i \in 1 .. 10 |-> scale], support |-> support, contradiction |-> contradiction]

CounterJobs ==
    {[kind |-> "counters", counter |-> Complete(v), capture |-> Complete(w), profile |-> profile] :
        v \in Windows, w \in Windows, profile \in {Thresholds(3, 44, 88), Thresholds(5, 26, 27)}}
    \cup {[kind |-> "counters", counter |-> v, capture |-> w, profile |-> profile] :
              v \in Uncovered, w \in Uncovered,
              profile \in {Thresholds(3, 44, 88), Thresholds(3, 6, 6), Thresholds(1, 6, 20)}}

----------------------------------------------------------------------------
\* Links of two or three observers: what was heard before and now.

Link(observer, source, heard) ==
    [observer |-> observer, source |-> source, baseline |-> heard[1], recent |-> heard[2]]

Steady == <<<<1, 0, 1>>, <<1>>>>
Rise   == <<<<1, 0>>, <<4>>>>
Fall   == <<<<0, 0>>, <<-3>>>>
Gone   == <<<<0, 0, 0>>, <<>>>>
Short  == <<<<0>>, <<5>>>>
Noisy  == <<<<0, 4>>, <<5>>>>

FrameProfile == [readings |-> 2, shift |-> 2, mad |-> 200, steady |-> 2, fraction |-> 50]

ShiftOptions ==
    [inactive |-> 2, active |-> 1, shifted |-> <<1, 4, 2>>, stable |-> <<4, 2, 1>>,
     maxLinks |-> 6, maxVariables |-> 5, maxAssignments |-> 64, maxWork |-> 1000]

RssiJobs ==
    {[kind |-> "rssi", profile |-> FrameProfile, options |-> options,
      links |-> <<Link(1, 1, a), Link(1, 2, b), Link(2, 1, c), Link(2, 2, d), Link(1, 3, e)>>] :
        a \in {Steady, Rise, Fall, Gone}, b \in {Steady, Rise, Noisy},
        c \in {Steady, Rise, Fall, Gone, Noisy}, d \in {Rise, Fall, Gone, Short}, e \in {Rise, Gone},
        options \in {ShiftOptions}}
    \cup {[kind |-> "rssi", profile |-> FrameProfile, options |-> options,
           links |-> <<Link(1, 1, a), Link(1, 2, b), Link(2, 3, c), Link(3, 3, d)>>] :
             a \in {Rise, Fall}, b \in {Rise, Gone}, c \in {Steady, Fall}, d \in {Rise, Fall, Short},
             options \in {ShiftOptions, [ShiftOptions EXCEPT !.maxVariables = 2],
                          [ShiftOptions EXCEPT !.maxAssignments = 15], [ShiftOptions EXCEPT !.maxWork = 300],
                          [ShiftOptions EXCEPT !.maxLinks = 3]}}
    \cup {[kind |-> "rssi", profile |-> profile, options |-> ShiftOptions,
           links |-> <<Link(1, 1, a), Link(1, 1, Rise), Link(2, 1, Fall)>>] :
             a \in {Steady, Rise}, profile \in {FrameProfile, [FrameProfile EXCEPT !.steady = 0]}}

MCJobs == AuditJobs \cup OsuJobs \cup RuffJobs \cup PhoneJobs \cup JointJobs \cup ClaimJobs
              \cup GraphJobs \cup FlowJobs \cup CounterJobs \cup RssiJobs
=============================================================================
