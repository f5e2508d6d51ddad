----------------------------- MODULE HoldoutPlan -----------------------------
(***************************************************************************)
(* The holdout plan of src/eval/ujiindoorloc.py, and the same search in    *)
(* evaluate-ujiindoorloc-split-capability.py: whole units (a phone, or a   *)
(* set of phones and users that no other unit has) go to the roles, every  *)
(* role covers every target, and the rows are then balanced by moves that  *)
(* keep the coverage.                                                      *)
(*                                                                         *)
(* An edge is what one user recorded with one phone: [user, phone, rows,   *)
(* targets].  A unit is [key, rows, targets]; keys are sets of nodes, a    *)
(* phone being <<"phone", p>> and a user <<"user", u>>.  The order of the  *)
(* keys is left open, and with it which unit is the first, which root of   *)
(* two is kept, and which of the covers and of the equal moves is taken.   *)
(***************************************************************************)
EXTENDS Naturals, FiniteSets, FiniteSetsExt, SequencesExt

TargetsOf(units) == UNION {u.targets : u \in units}
RowsOf(units)    == MapThenSumSet(LAMBDA u : u.rows, units)

\* _phone_units and the phones of scan_archive: one unit for every phone.
PhoneUnits(edges) ==
    {LET mine == {e \in edges : e.phone = p}
     IN  [key |-> {<<"phone", p>>}, rows |-> RowsOf(mine), targets |-> TargetsOf(mine)] :
        p \in {e.phone : e \in edges}}

\* _joint_user_phone_units: union of the user and the phone of every edge.
\* `parents' maps every node to the node above it, a root to itself.
NodeRoot(parents, n) ==
    LET root[m \in DOMAIN parents] == IF parents[m] = m THEN m ELSE root[parents[m]]
    IN  root[n]

JoinEdge(e, parents) ==
    LET u == NodeRoot(parents, <<"user", e.user>>)
        p == NodeRoot(parents, <<"phone", e.phone>>)
    IN  [parents EXCEPT ![u] = p]

JointUnits(edges) ==
    LET nodes   == {<<"user", e.user>> : e \in edges} \cup {<<"phone", e.phone>> : e \in edges}
        parents == FoldSet(JoinEdge, [n \in nodes |-> n], edges)
        Of(r)   == {e \in edges : NodeRoot(parents, <<"user", e.user>>) = r}
    IN  {[key     |-> {n \in nodes : NodeRoot(parents, n) = r},
          rows    |-> RowsOf(Of(r)),
          targets |-> TargetsOf(Of(r))] : r \in {NodeRoot(parents, n) : n \in nodes}}

----------------------------------------------------------------------------
\* _minimum_target_support: units that cover the target with the fewest of them.
Support(units, target) == Cardinality({u \in units : target \in u.targets})

MinimumSupport(units, full) ==
    IF full = {} THEN 0 ELSE Min({Support(units, t) : t \in full})

\* _covering_subsets: the covers that the search yields.  All hold the first of
\* the available units, and grow by a unit for the missing target that the fewest
\* of the remaining units have.
CoveringSubsets(available, first, full) ==
    LET covers[selected \in SUBSET available] ==
            LET remaining == available \ selected
                missing   == full \ TargetsOf(selected)
                rarest    == CHOOSE t \in missing :
                                 \A s \in missing : Support(remaining, t) <= Support(remaining, s)
            IN  IF missing = {} THEN {selected}
                ELSE IF missing \ TargetsOf(remaining) # {} THEN {}
                ELSE UNION {covers[selected \cup {u}] : u \in {r \in remaining : rarest \in r.targets}}
    IN  covers[{first}]

\* find_role_assignment before it balances: the assignments that it may find.
RoleAssignments(units, full, roles) ==
    LET First(available) == CHOOSE u \in available : TRUE
        visit[n \in 1 .. roles, available \in SUBSET units] ==
            IF Cardinality(available) < n \/ MinimumSupport(available, full) < n THEN {}
            ELSE IF n = 1 THEN {<<available>>}
            ELSE UNION {{<<cover>> \o rest : rest \in visit[n - 1, available \ cover]} :
                           cover \in CoveringSubsets(available, First(available), full)}
    IN  visit[roles, units]

----------------------------------------------------------------------------
\* _balance_score, compared as a tuple.
BalanceScore(plan) ==
    LET counts == [r \in DOMAIN plan |-> RowsOf(plan[r])]
        most   == Max({counts[r] : r \in DOMAIN plan})
        least  == Min({counts[r] : r \in DOMAIN plan})
    IN  <<most, most - least, FoldLeft(LAMBDA sum, c : sum + c * c, 0, counts)>>

ScoreBelow(s, t) ==
    \E i \in 1 .. 3 : s[i] < t[i] /\ \A j \in 1 .. i - 1 : s[j] = t[j]

\* A mutant: a role only keeps a unit.
BalanceMovesBlind(plan, full) ==
    {[plan EXCEPT ![move[1]] = @ \ {move[3]}, ![move[2]] = @ \cup {move[3]}] :
        move \in {m \in (DOMAIN plan) \X (DOMAIN plan) \X UNION {plan[r] : r \in DOMAIN plan} :
                     m[1] # m[2] /\ m[3] \in plan[m[1]] /\ Cardinality(plan[m[1]]) > 1}}

\* The moves of one round of _balance_assignment, and the best among them.
BalanceMoves(plan, full) ==
    {[plan EXCEPT ![move[1]] = @ \ {move[3]}, ![move[2]] = @ \cup {move[3]}] :
        move \in {m \in (DOMAIN plan) \X (DOMAIN plan) \X UNION {plan[r] : r \in DOMAIN plan} :
                     /\ m[1] # m[2]
                     /\ m[3] \in plan[m[1]]
                     /\ Cardinality(plan[m[1]]) > 1
                     /\ TargetsOf(plan[m[1]] \ {m[3]}) = full}}

BestMoves(plan, full) ==
    LET better == {p \in BalanceMoves(plan, full) : ScoreBelow(BalanceScore(p), BalanceScore(plan))}
    IN  {p \in better : \A q \in better : ~ScoreBelow(BalanceScore(q), BalanceScore(p))}
=============================================================================
