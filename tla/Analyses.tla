------------------------------ MODULE Analyses ------------------------------
(***************************************************************************)
(* The analyses that are made offline of what the program has recorded:    *)
(* relation splits, holdout plans, the composition of claims, exact        *)
(* inference, the comparison of counters with a capture, and shifts of     *)
(* signal strength.  Each is a call on given inputs, a job; those that     *)
(* work in rounds take several steps.  Every property compares an answer   *)
(* with a definition of what was asked that knows nothing of how it is     *)
(* found, or with the answer to an equivalent question.                    *)
(***************************************************************************)
EXTENDS RelationSplit, HoldoutPlan, ClaimComposition, FlowCorrespondence, CounterCapture, RssiShift

CONSTANT Jobs    \* the inputs: records whose `kind' names the analysis

VARIABLES
    job,
    claims,   \* the claims assessed so far, in the order of the requests
    answer

vars == <<job, claims, answer>>

Pending == [status |-> "pending"]

Asked(kind) == job.kind = kind /\ answer = Pending

Answer(a) == answer' = a /\ UNCHANGED <<job, claims>>

\* relation_split_audit.py of any manifest.
Audit ==
    /\ Asked("audit")
    /\ Answer([status |-> IF ParseManifest(job.manifest) = "ok" THEN AuditManifest(job.manifest)
                          ELSE ParseManifest(job.manifest)])

BuildSplit ==
    \/ Asked("osu") /\ Answer(BuildOsuManifest(job.observations))
    \/ Asked("ruff") /\ Answer(BuildRuffManifest(job.observations, job.order))

\* _feasibility_report, and build_phone_role_plan, up to the balancing.
Units == IF job.joint THEN JointUnits(job.edges) ELSE PhoneUnits(job.edges)
Full  == TargetsOf(Units)

PlanRoles ==
    /\ Asked("holdout")
    /\ LET plans == RoleAssignments(Units, Full, job.roles)
       IN  IF Cardinality(Units) < job.roles
           THEN Answer([status |-> "insufficient_disjoint_units"])
           ELSE IF MinimumSupport(Units, Full) < job.roles
           THEN Answer([status |-> "target_group_support_below_role_count"])
           ELSE IF plans = {} THEN Answer([status |-> "no_complete_role_assignment"])
           ELSE \E plan \in plans : Answer([status |-> "balancing", plan |-> plan])

\* A round of _balance_assignment.
BalanceRows ==
    /\ job.kind = "holdout"
    /\ answer.status = "balancing"
    /\ LET best == BestMoves(answer.plan, Full)
       IN  IF best = {} THEN Answer([answer EXCEPT !.status = "planned"])
           ELSE \E plan \in best : Answer([answer EXCEPT !.plan = plan])

\* The next request is assessed; a refusal leaves no claim.
Assess ==
    /\ Asked("claims")
    /\ job.requests # <<>>
    /\ job' = [job EXCEPT !.requests = Tail(@)]
    /\ LET made == AssessedClaim(Head(job.requests))
       IN  claims' = IF made.status = "ok" THEN Append(claims, made.claim) ELSE claims
    /\ UNCHANGED answer

ComposeClaims ==
    /\ Asked("claims")
    /\ job.requests = <<>>
    /\ Answer(Summarize(claims, job.records))

InferGraph ==
    /\ Asked("graph")
    /\ LET graph == GraphFrom(job.variables, job.factors)
       IN  IF graph.status # "ok" THEN Answer(graph)
           ELSE Answer([status |-> "ok",
                        report |-> InferExact(graph, job.maxVariables, job.maxAssignments)])

InferFlows ==
    /\ Asked("flows")
    /\ Answer(InferCorrespondence(job.packets, job.records, job.options))

\* assess_counter_capture_v0.
CompareWindows ==
    /\ Asked("counters")
    /\ Answer(AssessCounter(job.counter, job.capture, job.profile))

\* Links are classified, then attributed and explained.
AttributeShifts ==
    /\ Asked("rssi")
    /\ Answer([status |-> "ok", frame |-> AssessFrame(job.links, job.profile),
               shifts |-> ExplainShifts(job.links, job.profile, job.options)])

Init == job \in Jobs /\ claims = <<>> /\ answer = Pending

Next == Audit \/ BuildSplit \/ PlanRoles \/ BalanceRows \/ Assess \/ ComposeClaims
            \/ InferGraph \/ InferFlows \/ CompareWindows \/ AttributeShifts

Spec == Init /\ [][Next]_vars

----------------------------------------------------------------------------
\* What a split must do.

\* Two observations of a manifest share a group that they must not.
Leaks(m, axis, group) ==
    LET obs     == {<<p.role, o>> : p \in ToSet(m.partitions), o \in ToSet(ObservationsOf(m))}
        Held(p, o) == \E q \in ToSet(m.partitions) : q.role = p /\ o \in ToSet(q.observations)
    IN  \E x, y \in {z \in obs : Held(z[1], z[2])} :
            /\ <<x[1], y[1]>> \in ForbiddenPairs(m.policies, axis)
            /\ group[x[2].id] = group[y[2].id]

\* Every way the groups that are not known may turn out to be; a group that
\* nobody named is a number of its own.
Completions(m, axis) ==
    LET obs   == ToSet(ObservationsOf(m))
        named == {o.groups[axis].group : o \in {p \in obs : IsKnown(p.groups[axis])}}
        fresh == {1000 + o.id : o \in {p \in obs : ~IsKnown(p.groups[axis])}}
    IN  {g \in [{o.id : o \in obs} -> named \cup fresh] :
            \A o \in obs : IsKnown(o.groups[axis]) => g[o.id] = o.groups[axis].group}

\* An audit passes when no completion of the unknown groups leaks from one role
\* to another, and fails when every one does: "unknown" is neither claimed away
\* nor held against a split that may be sound.
AuditIsThreeValued ==
    answer.status \in {"pass", "unknown", "fail"} =>
        LET m == job.manifest
            Surely(axis)   == \A g \in Completions(m, axis) : Leaks(m, axis, g)
            Possibly(axis) == \E g \in Completions(m, axis) : Leaks(m, axis, g)
        IN  /\ (answer.status = "fail") <=> \E a \in Axes : Surely(a)
            /\ (answer.status = "pass") <=> \A a \in Axes : ~Possibly(a)

Linked(o, p) == \E a \in Mandatory : o.groups[a] = p.groups[a]

\* The parts of a set of observations that no link leaves.
Closed(part, obs) == \A o \in part, p \in obs : Linked(o, p) => p \in part
LinkParts(obs) ==
    LET closed == {S \in SUBSET obs \ {{}} : Closed(S, obs)}
    IN  {S \in closed : \A T \in closed : T \subseteq S => T = S}

\* A published split holds every observation once, fills every role, and has no
\* chain of shared events and sessions from one role to another; the OSU builder
\* publishes one whenever there are enough parts, and balances the roles to
\* within the largest part; the Ruff builder separates the devices as well, and
\* gives every role both campaigns.
SplitsSeparate ==
    answer # Pending /\ job.kind \in {"osu", "ruff"} =>
        LET obs     == ToSet(job.observations)
            ids     == {o.id : o \in obs}
            Part(r) == ToSet(answer.manifest.partitions[r].observations)
            Ids(r)  == {o.id : o \in Part(r)}
            Role(o) == CHOOSE r \in 1 .. 4 : o.id \in Ids(r)
        IN  /\ answer.status = "ok" =>
                 /\ UNION {Ids(r) : r \in 1 .. 4} = ids
                 /\ \A r \in 1 .. 4 : Part(r) # {}
                 /\ \A r, s \in 1 .. 4 : r # s => Ids(r) \cap Ids(s) = {}
                 /\ \A S \in LinkParts(obs) : \E r \in 1 .. 4 : {o.id : o \in S} \subseteq Ids(r)
            /\ job.kind = "osu" /\ Len(job.observations) = Cardinality(ids)
                   /\ (\A o \in obs, a \in Mandatory : IsKnown(o.groups[a])) =>
                 /\ (answer.status = "ok") <=> Cardinality(LinkParts(obs)) >= 4
                 /\ answer.status = "ok" =>
                      \A r, s \in 1 .. 4 : Cardinality(Ids(r)) - Cardinality(Ids(s))
                                             <= Max({Cardinality(S) : S \in LinkParts(obs)})
            /\ job.kind = "ruff" /\ answer.status = "ok" =>
                 /\ \A o, p \in obs, a \in DeviceAxes :
                        o.groups[a] = p.groups[a] => Role(o) = Role(p)
                 /\ \A r \in 1 .. 4 :
                      /\ {o.campaign : o \in {p \in obs : Role(p) = r}} = {o.campaign : o \in obs}
                      /\ Cardinality({o.groups["physical_device"] : o \in Part(r)}) = RoleDeviceCounts[r]

----------------------------------------------------------------------------
\* What a holdout plan must do.

Covers(plan, full) ==
    /\ \A r \in DOMAIN plan : TargetsOf(plan[r]) = full
    /\ \A r, s \in DOMAIN plan : r # s => plan[r] \cap plan[s] = {}

\* The search for roles gives up only when no assignment of the units covers every
\* target in every role; and from the first plan to the balanced one every unit
\* has one role, every role covers every target, and in a joint plan no user and
\* no phone is in two roles.
HoldoutIsExact ==
    answer # Pending /\ job.kind = "holdout" =>
        IF answer.status \in {"balancing", "planned"}
        THEN /\ Covers(answer.plan, UNION {e.targets : e \in job.edges})
             /\ UNION {answer.plan[r] : r \in DOMAIN answer.plan} = Units
             /\ \A d, e \in job.edges :
                   d.phone = e.phone \/ (job.joint /\ d.user = e.user) =>
                       \E r \in DOMAIN answer.plan : \E u \in answer.plan[r] :
                           {<<"phone", d.phone>>, <<"phone", e.phone>>} \subseteq u.key
        ELSE \A role \in [Units -> 1 .. job.roles] :
                 ~Covers([r \in 1 .. job.roles |-> {u \in Units : role[u] = r}], Full)

----------------------------------------------------------------------------
\* What a composition of claims must do.

\* What an artifact came of: the least set that holds it and, with an output of a
\* record, its inputs.
CameOf(artifact, records) ==
    LET all == {artifact} \cup UNION {{r.output} \cup ToSet(r.inputs) : r \in records}
        Follows(S) == \A r \in records : r.output \in S => ToSet(r.inputs) \subseteq S
    IN  {a \in all : \A S \in SUBSET all : artifact \in S /\ Follows(S) => a \in S}

Shares(c, d, records) ==
    \E a \in ToSet(c.inputs), b \in ToSet(d.inputs) :
        CameOf(a.ref, records) \cap CameOf(b.ref, records) # {}

\* The claims that were composed say the same in whatever order they came; every
\* claim is kept once and speaks of one pair of participants; a pair of claims on
\* common evidence is marked so, and no other; and two that contradict each other
\* on one pair are never counted as agreeing.
SummariesIgnoreOrder ==
    answer # Pending /\ job.kind = "claims" =>
        /\ \A order \in Permutations(DOMAIN claims) :
              Summarize([i \in DOMAIN claims |-> claims[order[i]]], Reverse(job.records)) = answer
        /\ answer.status = "ok" =>
              LET kept == answer.claims
                  records == ToSet(job.records)
              IN  /\ ToSet(kept) = ToSet(claims) /\ Len(kept) = Cardinality(ToSet(claims))
                  /\ \A p \in ClaimPairs(kept) :
                        p \in answer.shared <=> Shares(kept[p[1]], kept[p[2]], records)
                  /\ \A i \in DOMAIN kept :
                        \E s \in answer.summaries :
                            /\ i \in s.claims
                            /\ \A t \in answer.summaries : i \in t.claims => s = t
                            /\ kept[i].supported # "unknown" =>
                                  (s.resolution[1] = "conflict") <=>
                                      \E j \in s.claims : kept[j].supported
                                          \notin {"unknown", kept[i].supported}

----------------------------------------------------------------------------
\* What inference must do.

\* Shares of the scale that are as near to the masses as whole numbers can be.
Proportional(ppb, mass, total) ==
    /\ ppb * total < mass * Scale + total
    /\ mass * Scale < ppb * total + total
    /\ mass = 0 => ppb = 0

\* The beliefs that the components give are the marginals of the whole graph, all
\* its variables assigned together; nothing is inferred beyond the budget, and a
\* graph that rests twice on the same evidence without a joint model is refused.
BeliefsAreMarginals ==
    answer.status = "ok" /\ job.kind = "graph" =>
        LET fs     == ToSet(job.factors)
            graph  == [variables |-> ToSet(job.variables), factors |-> fs]
            all    == Assignments(graph, {v.id : v \in ToSet(job.variables)})
            weight == [a \in all |-> Weight(graph, fs, a)]
            Mass(S) == MapThenSumSet(LAMBDA a : weight[a], S)
            exact  == {c \in DOMAIN answer.report : answer.report[c].outcome = "exact"}
        IN  /\ \A c \in exact :
                 /\ Cardinality(c) <= job.maxVariables
                 /\ Mass(all) > 0 =>
                      \A id \in c : LET belief == answer.report[c].beliefs[id]
                                    IN  /\ FoldLeft(+, 0, belief) = Scale
                                        /\ \A s \in DOMAIN belief :
                                              Proportional(belief[s], Mass({a \in all : a[id] = s - 1}), Mass(all))
            /\ exact = DOMAIN answer.report => Mass(all) > 0
            /\ MapThenSumSet(LAMBDA c : AssignmentCount(graph, c), exact) <= job.maxAssignments
            /\ \A f, g \in fs : f # g /\ f.atoms \cap g.atoms # {} =>
                   f.dependence = g.dependence /\ f.dependence # "independent"

\* The belief that a flow and a record correspond is what one gets by weighing
\* every set of candidate edges of all the flows and records at once, and the
\* belief that an end of a link is the cause of a shift, and that none is, by
\* weighing every set of ends of all links: taking the components apart changes
\* nothing.
ExplanationsAreGlobal ==
    answer.status = "ok" =>
        /\ job.kind = "flows" =>
             LET edges   == CandidateEdges(job.packets, job.records, job.options)
                 weight  == [S \in SUBSET edges |->
                                 Potential(edges, S, job.packets, job.records, job.options)]
                 Mass(F) == MapThenSumSet(LAMBDA S : weight[S], F)
             IN  /\ UNION DOMAIN answer.components = edges
                 /\ \A c \in DOMAIN answer.components :
                       answer.components[c].outcome = "exact" =>
                           \A e \in c : Proportional(answer.components[c].beliefs[e],
                                                     Mass({S \in SUBSET edges : e \in S}),
                                                     Mass(SUBSET edges))
        /\ job.kind = "rssi" /\ answer.shifts.status = "ok" =>
             LET found   == Classify(job.links, job.profile).links
                 sets    == SUBSET EndsOf(DOMAIN found)
                 weight  == [S \in sets |-> Explains(S, DOMAIN found, found, job.options)]
                 Mass(F) == MapThenSumSet(LAMBDA S : weight[S], F)
                 parts   == answer.shifts.components
             IN  /\ UNION DOMAIN parts = DOMAIN found
                 /\ \A c \in DOMAIN parts : parts[c].outcome = "exact" =>
                      /\ \A e \in EndsOf(c) :
                            Proportional(parts[c].shifted[e], Mass({S \in sets : e \in S}), Mass(sets))
                      /\ \A l \in {k \in c : found[k].shifted} :
                            Proportional(parts[c].residual[l],
                                         Mass({S \in sets : Ends(l) \cap S = {}}), Mass(sets))

----------------------------------------------------------------------------
\* What the comparison of counters must do, in fractions [n, d] of any size.

Asking(w) == <<<<w.rb, 1>>, <<w.tb, 1>>, <<w.rp, 1>>, <<w.tp, 1>>,
               <<w.rp, w.rp + w.tp>>, <<w.tp, w.rp + w.tp>>, <<w.rb, w.rp>>, <<w.tb, w.tp>>,
               <<RateFactor * w.rb, w.ms>>, <<RateFactor * w.tb, w.ms>>>>

Floor(n, q) == (n * q[1]) \div q[2]

\* |x - y| / max(x, 1), where x = n / 1 or n / d.
Gap(x, y) == IF x[2] = 0 \/ y[2] = 0 THEN <<0, 1>>
             ELSE <<Magnitude(x[1] * y[2] - y[1] * x[2]), y[2] * Max({x[1], x[2]})>>

\* A common multiple of the denominators, the least one.
CommonMultiple(ds) == FoldLeft(LAMBDA a, d : a * (d \div gcd[a, d]), 1, ds)

\* An assessment never breaks the rules that its reader checks; what is written
\* of features, of residuals and of their scaled sum is the exact value, rounded
\* down once, and the verdict is that of the exact score; a pair with a feature
\* that only one window has is not scored; and an answer is refused as not
\* representable only if some number of an exact computation over common
\* denominators really does not fit.
CounterVerdictIsExact ==
    answer # Pending /\ job.kind = "counters" /\ answer.status # "refused" =>
        /\ answer.status = "ok"
        /\ CoverageGate(job.counter.coverage, job.capture.coverage) = <<>> =>
             LET x == Asking(job.counter.window[1])
                 y == Asking(job.capture.window[1])
                 scales == job.profile.scales
                 all    == DOMAIN x
                 differ == {i \in all : (x[i][2] = 0) # (y[i][2] = 0)}
                 gap    == [i \in all |-> Gap(x[i], y[i])]
                 whole  == CommonMultiple([i \in all |->
                               LET g == gap[i]
                               IN  (g[2] * scales[i]) \div gcd[g[1] * PPB, g[2] * scales[i]]])
                 sum    == MapThenSumSet(LAMBDA i : (gap[i][1] * PPB * whole)
                                                        \div (gap[i][2] * scales[i]), all)
                 Written(z) == [i \in all |-> IF z[i][2] = 0 THEN <<>> ELSE <<<<Floor(PPB, z[i])>>>>]
                 Fits ==
                     /\ \A z \in {x, y} : \A i \in all : z[i][2] # 0 => Floor(PPB, z[i]) < Limit
                     /\ \A i \in all : /\ x[i][1] * y[i][2] < Limit /\ y[i][1] * x[i][2] < Limit
                                       /\ x[i][2] * y[i][2] < Limit
                                       /\ Floor(PPB, gap[i]) < Limit
                     /\ differ = {} => /\ whole < Limit /\ sum < Limit
                                       /\ Floor(PPB, <<sum, whole>>) < Limit
             IN  IF answer.reference = Unrepresentable THEN ~Fits
                 ELSE /\ answer.basis.counter = <<Written(x)>> /\ answer.basis.capture = <<Written(y)>>
                      /\ IF differ # {} THEN answer.reference = UnknownFor(<<"incompatible", Min(differ)>>)
                         ELSE LET score == Floor(PPB, <<sum, whole>>)
                              IN  /\ answer.basis.residuals = <<[i \in all |-> Floor(PPB, gap[i])]>>
                                  /\ answer.basis.score = <<score>>
                                  /\ (answer.reference = <<"accounts">>)
                                         <=> score <= job.profile.support
                                  /\ (answer.reference = <<"does_not_account">>)
                                         <=> score >= job.profile.contradiction

----------------------------------------------------------------------------
\* What the attribution of shifts must do.

Mirrored(links) ==
    [i \in DOMAIN links |-> [links[i] EXCEPT !.baseline = [j \in DOMAIN @ |-> -@[j]],
                                             !.recent = [j \in DOMAIN @ |-> -@[j]]]]

MirroredFrame(frame) ==
    [frame EXCEPT !.observers = [o \in DOMAIN @ |->
        [@[o] EXCEPT !.median = [i \in DOMAIN @ |-> -@[i]],
                     !.evidence = [i \in DOMAIN @ |->
                         [@[i] EXCEPT !.delta = [k \in DOMAIN @ |-> -@[k]]]]]]]

\* A frame keeps the rules its reader checks; every shifted link is counted once,
\* under its source when that shifted for all, else under its observer; links that
\* are repeated or come in another order change nothing; and links that lose as
\* much as others gain are judged alike, with all rounding.
ShiftsAreAttributedOnce ==
    answer # Pending /\ job.kind = "rssi" /\ answer.frame.status = "ok" =>
        LET frame == answer.frame
            found == Classify(job.links, job.profile).links
        IN  /\ FrameStructureValid(frame)
            /\ AssessFrame(Mirrored(job.links), job.profile) = MirroredFrame(frame)
            /\ AssessFrame(Reverse(job.links) \o job.links, job.profile) = frame
            /\ Cardinality({k \in DOMAIN found : found[k].shifted})
                   = MapThenSumSet(LAMBDA o : frame.observers[o].shifted, DOMAIN frame.observers)
                     + MapThenSumSet(LAMBDA s : Cardinality(frame.sources[s]), DOMAIN frame.sources)
=============================================================================
