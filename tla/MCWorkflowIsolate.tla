------------------------- MODULE MCWorkflowIsolate -------------------------
(* One of the two: a workflow is isolated, or a whole scheme.                *)
EXTENDS WorkflowIsolate, SchemeIsolate, TLC

VARIABLE family

(* The scheme that is no part of it maps everything to one workflow, and     *)
(* "wf0" is the name of what the default leads to.                           *)
MCInit ==
  /\ Init
  /\ mapping["ws0"][Default] = "wf0" /\ mapping["ws1"] = [k \in Keys |-> "wf0"]
  /\ SI_Init
  /\ \/ family = "workflow" /\ had = "none" /\ levels[0] = Fresh(0, {})
     \/ family = "scheme" /\ mapping["ws0"] = mapping["ws1"] /\ assigned[Target] = "ws0"

MCNext ==
  \/ family = "workflow" /\ Next /\ UNCHANGED <<family, sv>>
  \/ family = "scheme" /\ SI_Next /\ UNCHANGED <<family, vars>>
MCSpec == MCInit /\ [][MCNext]_<<family, vars, sv>>

IsolateTypeOK == TypeOK /\ SI_TypeOK

Symmetry == Permutations(Types) \union Permutations(LevelNames)

(* Three things go wrong in one history. *)
ThreeMishaps == Cardinality(mishaps) <= 3
=============================================================================
