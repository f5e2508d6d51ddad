---------------------------- MODULE MCMigration ----------------------------
(***************************************************************************)
(* Two operators at once, with a record of whether their runs of the       *)
(* script have overlapped.                                                 *)
(***************************************************************************)
EXTENDS Migration

VARIABLE overlapped   \* whether two runs have ever been under way at once

Running(p) == pc[p] \notin Final \cup {"start"}

MCInit == Init /\ overlapped = FALSE

MCNext ==
  /\ Next
  /\ overlapped' =
       (overlapped \/ \E p, q \in Procs : p # q /\ Running(p)' /\ Running(q)')

\* A run that is not over can always make its next call, and one that is over
\* can be started again, so that weak fairness of these steps of all runs taken
\* together is that some run makes a step again and again.
MCSpec ==
  /\ MCInit /\ [][MCNext]_<<vars, overlapped>>
  /\ []<><<UNCHANGED env>>_vars

\* "Partial and conflicting states fail without changes": whatever was killed
\* before, a run that no other has overlapped goes on to read and move files
\* only from one of the three states, although it looks at the directories one
\* at a time.  (migrate, module docstring of migrate-legacy-derived.py.)
PartialStatesFailClosed ==
  [][\A p \in Procs : pc[p] = "choose" /\ pc'[p] = "look" =>
       overlapped \/ FreshState \/ ArchivedState \/ SplitState]_vars
=============================================================================
