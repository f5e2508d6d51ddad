---------------------------- MODULE FactorGraph ----------------------------
(***************************************************************************)
(* rust/src/infer/factor_graph.rs: discrete factor graphs and their exact  *)
(* inference, component by component, within a budget of assignments.      *)
(*                                                                         *)
(* A variable is [id, states], `states' how many it has; a factor is       *)
(*   [id, scope, table, semantics, atoms, dependence]                      *)
(* `scope' a sequence of variable ids, `table' the weights in row-major    *)
(* order, `semantics' <<"heuristic">>, <<"constraint">>, <<"prior", m>> or *)
(* <<"likelihood", m>>, `atoms' the evidence it rests on, `dependence'     *)
(* "independent" or a joint model.  The code sums logarithms of the        *)
(* weights in floating point: here the weights are naturals that are       *)
(* multiplied, 0 for minus infinity.                                       *)
(***************************************************************************)
EXTENDS Naturals, FiniteSets, FiniteSetsExt, SequencesExt

CONSTANT Scale   \* PROBABILITY_SCALE

ASSUME ScaleAssumption == Scale \in Nat \ {0}

Product(s) == FoldLeft(LAMBDA a, b : a * b, 1, s)

Failed(why) == [status |-> why]

\* deduplicate_variables, deduplicate_factors: equal copies are dropped.
Divergent(list) == \E i, j \in DOMAIN list : list[i].id = list[j].id /\ list[i] # list[j]

ById(set, id) == CHOOSE x \in set : x.id = id

\* The factors on shared evidence are of one joint model.
Overlapping(f, g) == f.atoms \cap g.atoms # {}
Modelled(f, g)    == f.dependence = g.dependence /\ f.dependence # "independent"
RejectUnmodeledOverlap(factors) ==
    \E f, g \in factors : f # g /\ Overlapping(f, g) /\ ~Modelled(f, g)

\* graph_semantics and merge_model.
GraphSemantics(factors) ==
    LET kinds  == {f.semantics[1] : f \in factors}
        models == {f.semantics[2] : f \in {g \in factors : g.semantics[1] \in {"prior", "likelihood"}}}
    IN  CASE Cardinality(models) > 1 -> "mixed_probabilistic_models"
          [] "heuristic" \in kinds /\ models # {} -> "mixed_factor_semantics"
          [] "heuristic" \in kinds \/ (models # {} /\ "prior" \notin kinds) -> "model_relative"
          [] models # {} -> "model_posterior"
          [] OTHER -> "constraint_only"

\* DiscreteFactorGraph::try_new; variables and factors are given as sequences.
\* The code checks the scope and the table of one factor after the other: when two
\* factors are wrong in these two ways, it may name the other one.
GraphFrom(variables, factors) ==
    LET vs        == ToSet(variables)
        fs        == ToSet(factors)
        States(f) == [i \in DOMAIN f.scope |-> ById(vs, f.scope[i]).states]
    IN  CASE vs = {} \/ fs = {} -> Failed("missing")
          [] Divergent(variables) -> Failed("divergent_variable")
          [] Divergent(factors) -> Failed("divergent_factor")
          [] \E f \in fs : ~(ToSet(f.scope) \subseteq {v.id : v \in vs})
                -> Failed("unknown_variable_in_scope")
          [] \E f \in fs : Product(States(f)) # Len(f.table) -> Failed("invalid_factor_table_size")
          [] RejectUnmodeledOverlap(fs) -> Failed("unmodeled_evidence_dependence")
          [] GraphSemantics(fs) \in {"mixed_factor_semantics", "mixed_probabilistic_models"}
                -> Failed(GraphSemantics(fs))
          [] OTHER -> [status |-> "ok", variables |-> vs, factors |-> fs,
                       semantics |-> GraphSemantics(fs)]

----------------------------------------------------------------------------
\* graph_components: what is reached from a variable through the factors.
FactorsOn(graph, ids) == {f \in graph.factors : ToSet(f.scope) \cap ids # {}}

ComponentOf(graph, v) ==
    LET Grow(ids, i) == ids \cup UNION {ToSet(f.scope) : f \in FactorsOn(graph, ids)}
    IN  FoldLeft(Grow, {v.id}, [i \in 1 .. Cardinality(graph.variables) |-> i])

GraphComponents(graph) == {ComponentOf(graph, v) : v \in graph.variables}

\* The assignments of some variables, and component_assignment_count.
Assignments(graph, ids) ==
    {a \in [ids -> 0 .. Max({v.states : v \in graph.variables}) - 1] :
        \A id \in ids : a[id] < ById(graph.variables, id).states}

AssignmentCount(graph, ids) ==
    FoldSet(LAMBDA id, n : n * ById(graph.variables, id).states, 1, ids)

\* The entry of a factor's table for an assignment.
TableIndex(graph, factor, a) ==
    FoldLeft(LAMBDA index, id : index * ById(graph.variables, id).states + a[id], 0, factor.scope)

Weight(graph, factors, a) ==
    FoldSet(LAMBDA f, w : w * f.table[TableIndex(graph, f, a) + 1], 1, factors)

\* A mutant: the rest goes to the first states.
QuantizeSimplexFirst(masses) ==
    LET total == FoldLeft(+, 0, masses)
        floor == [i \in DOMAIN masses |-> (masses[i] * Scale) \div total]
    IN  [i \in DOMAIN masses |-> floor[i] + IF i <= Scale - FoldLeft(+, 0, floor) THEN 1 ELSE 0]

\* quantize_simplex: floors, and the rest to the largest remainders, the first of
\* equal ones first.  `masses' are naturals with a positive sum.
QuantizeSimplex(masses) ==
    LET total == FoldLeft(+, 0, masses)
        floor == [i \in DOMAIN masses |-> (masses[i] * Scale) \div total]
        rest  == [i \in DOMAIN masses |-> (masses[i] * Scale) % total]
        left  == Scale - FoldLeft(+, 0, floor)
        Ahead(i) == Cardinality({j \in DOMAIN masses :
                        rest[j] > rest[i] \/ (rest[j] = rest[i] /\ j < i)})
    IN  [i \in DOMAIN masses |-> floor[i] + IF Ahead(i) < left THEN 1 ELSE 0]

\* infer_component: the beliefs of every variable, or that nothing is feasible.
InferComponent(graph, ids) ==
    LET factors   == FactorsOn(graph, ids)
        all       == Assignments(graph, ids)
        weight    == [a \in all |-> Weight(graph, factors, a)]
        Mass(S)   == MapThenSumSet(LAMBDA a : weight[a], S)
        masses    == [id \in ids |-> [s \in 1 .. ById(graph.variables, id).states |->
                                          Mass({a \in all : a[id] = s - 1})]]
    IN  IF Mass(all) = 0 THEN [outcome |-> "no_feasible_assignment"]
        ELSE [outcome |-> "exact", beliefs |-> [id \in ids |-> QuantizeSimplex(masses[id])]]

\* infer_exact: components that are too large abstain; when the others together
\* need more assignments than the budget, all of them abstain.
InferExact(graph, maxVariables, maxAssignments) ==
    LET components == GraphComponents(graph)
        admissible == {c \in components : Cardinality(c) <= maxVariables}
        required   == MapThenSumSet(LAMBDA c : AssignmentCount(graph, c), admissible)
    IN  [c \in components |->
            IF c \notin admissible THEN [outcome |-> "too_many_variables"]
            ELSE IF required > maxAssignments THEN [outcome |-> "budget_exceeded"]
            ELSE InferComponent(graph, c)]
=============================================================================
