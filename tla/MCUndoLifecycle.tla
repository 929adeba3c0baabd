-------------------------- MODULE MCUndoLifecycle --------------------------
(* Two memberships.  Behaviours of two kinds: straight ones, with up to      *)
(* three actions and their three undos; and any others, with two requests at *)
(* a time and fewer entries.                                                 *)
EXTENDS UndoLifecycle, TLC

CONSTANTS p, q, r1, r2

MCPairs == {p, q}
TwoRequests == {r1, r2}
OneToken == {1}
AllMishaps == {"refused", "refused400", "lost", "leave", "crash"}
Interchangeable == Permutations(MCPairs) \union Permutations(TwoRequests)
FailedRows == {"refused", "lost"}

(* AllUndoneIsOrigin says nothing once straight has become FALSE, and it     *)
(* never becomes TRUE again: a step that spoils it is cut off, and with it   *)
(* overlapping requests.  Behaviours that begin with FALSE are about these.  *)
AtWork == {r \in Requests : req'[r] # Idle}
TwoKinds ==
  /\ straight' = straight
  /\ ~straight => /\ Len(journal') + Cardinality({r \in AtWork : req'[r].pc = "running"}) <= 3
                  /\ outside' = 0
=============================================================================
