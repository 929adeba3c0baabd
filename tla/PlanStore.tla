------------------------------ MODULE PlanStore ------------------------------
(***************************************************************************)
(* core/planstore.py: the in-memory table of previews.  Every endpoint is a *)
(* coroutine that calls these functions without awaiting inside them, and   *)
(* each takes the module lock, so one call is one action here.              *)
(*                                                                         *)
(* A plan is kept with what the functions look at: its token, its task,     *)
(* whether it is an analysis (readonly), the two timestamps and how many    *)
(* rows it holds.  Tokens (secrets.token_urlsafe) are fresh, so they are    *)
(* numbered in the order of issue; a request may name any number, issued or *)
(* not.  The order of the numbers is also the insertion order of the dict,  *)
(* which is what the stable sort of _evict_overflow falls back on when two  *)
(* plans carry the same created_at.  The wall clock is taken to be          *)
(* monotonic.                                                               *)
(***************************************************************************)
EXTENDS Integers, FiniteSets

CONSTANTS
  Tasks,        \* task names
  PlanTtl,      \* plan_ttl_seconds
  ReadonlyTtl,  \* readonly_plan_ttl_seconds
  MaxPlans,     \* plan_max_plans
  MaxRows,      \* plan_max_rows
  RowCounts,    \* bound: sizes of change lists and of tables offered to register
  MaxIssued,    \* bound: plans registered in one behaviour
  MaxTime       \* bound: clock ticks in one behaviour

ASSUME PlanStoreAssumption ==
  /\ PlanTtl \in Nat \ {0} /\ ReadonlyTtl \in Nat \ {0}
  /\ MaxPlans \in Nat \ {0} /\ MaxRows \in Nat \ {0}
  /\ RowCounts \subseteq Nat
  /\ MaxIssued \in Nat /\ MaxTime \in Nat

VARIABLES
  store,   \* _plans: the set of plans held
  clock,   \* _now()
  issued,  \* how many tokens were handed out since the process started
  used,    \* history: how often consume returned the plan of each token
  reply    \* the outcome of the last call, as its caller sees it

vars == <<store, clock, issued, used, reply>>

Ids == 1..MaxIssued

Plan == [id : Ids, task : Tasks, readonly : BOOLEAN, created : Nat,
         expires : Nat, changes : Nat, rows : Nat, truncated : BOOLEAN]

NoReply == [op |-> "none"]

(***************************************************************************)
(* Helpers of the source.  An operator named X_Bug is a plausible mistake   *)
(* in X, used only to show that a property would notice it.                 *)
(***************************************************************************)

(* _purge_expired: a plan is dropped from its expiry instant on. *)
PurgeExpired(S) == {p \in S : p.expires > clock}

(* The order of sorted(..., key=created_at): ties keep insertion order. *)
Newer(p, q) == \/ p.created > q.created
               \/ p.created = q.created /\ p.id > q.id

EvictOverflow_OffByOne(S) ==
  {p \in S : Cardinality({q \in S : Newer(q, p)}) <= MaxPlans}
(* _evict_overflow: only the MaxPlans newest plans are kept. *)
EvictOverflow(S) == {p \in S : Cardinality({q \in S : Newer(q, p)}) < MaxPlans}

(* _cap_rows for a change list of c rows and one table of t rows: changes    *)
(* first, the table gets what is left of the budget.                         *)
KeptChanges(c) == IF c <= MaxRows THEN c ELSE MaxRows
KeptTable(c, t) == LET budget == MaxRows - KeptChanges(c)
                   IN IF t <= budget THEN t ELSE budget
CapRows(c, t) ==
  [changes |-> KeptChanges(c), rows |-> KeptTable(c, t), truncated |-> c + t > MaxRows]

Find(S, id) == {p \in S : p.id = id}

(***************************************************************************)
(* The calls                                                               *)
(***************************************************************************)

Init ==
  /\ store = {}
  /\ clock = 0
  /\ issued = 0
  /\ used = [id \in Ids |-> 0]
  /\ reply = NoReply

Tick ==
  /\ clock < MaxTime
  /\ clock' = clock + 1
  /\ UNCHANGED <<store, issued, used, reply>>

NewPlan(task, ro, c, t) ==
  LET capped == CapRows(c, t)
  IN [id |-> issued + 1, task |-> task, readonly |-> ro, created |-> clock,
      expires |-> clock + (IF ro THEN ReadonlyTtl ELSE PlanTtl),
      changes |-> capped.changes, rows |-> capped.rows,
      truncated |-> capped.truncated]

(* register: purge, insert, then evict beyond the cap. *)
Register(task, ro, c, t) ==
  LET plan == NewPlan(task, ro, c, t)
  IN /\ issued < MaxIssued
     /\ store' = EvictOverflow(PurgeExpired(store) \union {plan})
     /\ issued' = issued + 1
     /\ reply' = [op |-> "register", id |-> plan.id, ok |-> TRUE, plan |-> plan]
     /\ UNCHANGED <<clock, used>>

Reject_Burns(op, id, S) ==
  /\ store' = S \ Find(S, id)
  /\ reply' = [op |-> op, id |-> id, ok |-> FALSE]
  /\ UNCHANGED <<clock, issued, used>>

Reject(op, id, S) ==
  /\ store' = S
  /\ reply' = [op |-> op, id |-> id, ok |-> FALSE]
  /\ UNCHANGED <<clock, issued, used>>

(* consume, rejecting: unknown (or expired, hence purged), other task,       *)
(* readonly.  A rejected call leaves the plan where it is.                   *)
ConsumeReject(id, task) ==
  LET live == PurgeExpired(store)
  IN /\ \A p \in Find(live, id) : p.task # task \/ p.readonly
     /\ Reject("consume", id, live)

ConsumeAccept_NotRemoved(id, task) ==
  LET live == PurgeExpired(store)
  IN \E p \in Find(live, id) :
       /\ p.task = task /\ ~p.readonly
       /\ store' = live
       /\ used' = [used EXCEPT ![id] = @ + 1]
       /\ reply' = [op |-> "consume", id |-> id, ok |-> TRUE, plan |-> p]
       /\ UNCHANGED <<clock, issued>>
ConsumeAccept_AnyKind(id, task) ==
  LET live == PurgeExpired(store)
  IN \E p \in Find(live, id) :
       /\ p.task = task
       /\ store' = live \ {p}
       /\ used' = [used EXCEPT ![id] = @ + 1]
       /\ reply' = [op |-> "consume", id |-> id, ok |-> TRUE, plan |-> p]
       /\ UNCHANGED <<clock, issued>>

(* consume, accepting: the plan leaves the store before it is returned. *)
ConsumeAccept(id, task) ==
  LET live == PurgeExpired(store)
  IN \E p \in Find(live, id) :
       /\ p.task = task
       /\ ~p.readonly
       /\ p.expires > clock
       /\ store' = live \ {p}
       /\ used' = [used EXCEPT ![id] = @ + 1]
       /\ reply' = [op |-> "consume", id |-> id, ok |-> TRUE, plan |-> p]
       /\ UNCHANGED <<clock, issued>>

Consume(id, task) == ConsumeReject(id, task) \/ ConsumeAccept(id, task)

(* peek: the same look-up for any kind of plan; nothing is taken out. *)
PeekReject(id, task) ==
  LET live == PurgeExpired(store)
  IN /\ \A p \in Find(live, id) : p.task # task
     /\ Reject("peek", id, live)

PeekAccept(id, task) ==
  LET live == PurgeExpired(store)
  IN \E p \in Find(live, id) :
       /\ p.task = task
       /\ store' = live
       /\ reply' = [op |-> "peek", id |-> id, ok |-> TRUE, plan |-> p]
       /\ UNCHANGED <<clock, issued, used>>

Peek(id, task) == PeekReject(id, task) \/ PeekAccept(id, task)

(* pending_count: a count that purges on the way. *)
PendingCount ==
  /\ store' = PurgeExpired(store)
  /\ reply' = [op |-> "pending", count |-> Cardinality(PurgeExpired(store))]
  /\ UNCHANGED <<clock, issued, used>>

(* A restart of the process empties the table; tokens stay unguessable. *)
Restart ==
  /\ store' = {}
  /\ reply' = NoReply
  /\ UNCHANGED <<clock, issued, used>>

Next ==
  \/ Tick
  \/ \E task \in Tasks, ro \in BOOLEAN, c, t \in RowCounts : Register(task, ro, c, t)
  \/ \E id \in Ids, task \in Tasks : Consume(id, task)
  \/ \E id \in Ids, task \in Tasks : Peek(id, task)
  \/ PendingCount
  \/ Restart

Spec == Init /\ [][Next]_vars

(***************************************************************************)
(* Properties                                                              *)
(***************************************************************************)

(* Every plan held is well formed and tokens are numbered as issued. *)
TypeOK ==
  /\ store \subseteq Plan
  /\ clock \in Nat
  /\ issued \in 0..MaxIssued
  /\ used \in [Ids -> Nat]

(* A token is consumed at most once, and a consumed token is never held      *)
(* again, whatever was previewed, expired, evicted or replayed in between    *)
(* (planstore.py docstring: "single-use").  The second half is what makes    *)
(* the first one inductive.                                                  *)
SingleUse ==
  /\ \A id \in Ids : used[id] <= 1
  /\ \A p \in store : used[p.id] = 0

(* One token names one plan: two previews never share a table slot. *)
UniqueTokens ==
  \A p, q \in store : p.id = q.id => p = q

(* Memory: at most MaxPlans plans of at most MaxRows rows each survive a     *)
(* call, however many previews are requested (_evict_overflow, _cap_rows).   *)
BoundedStore ==
  /\ Cardinality(store) <= MaxPlans
  /\ \A p \in store : p.changes + p.rows <= MaxRows

(* The plan just registered is still in the store: eviction never hits the   *)
(* token that register is about to return (rollback_entry consumes it on     *)
(* the next line and would fail).                                            *)
FreshPlanHeld ==
  reply.op = "register" => reply.plan \in store

(* What a caller is handed was live when it was handed over, and a plan      *)
(* handed to a write was not an analysis.                                    *)
HandedOutLive ==
  [][ (reply' # reply /\ reply'.op \in {"consume", "peek"} /\ reply'.ok)
        => /\ reply'.plan \in store
           /\ reply'.plan.expires > clock
           /\ reply'.op = "consume" => ~reply'.plan.readonly ]_vars

(* A live plan disappears only because it was consumed, because the process  *)
(* restarted, or because MaxPlans newer plans are held: a rejected execute   *)
(* (wrong task, analysis token, unknown token) or a peek never costs the     *)
(* operator a preview.                                                       *)
LossesJustified ==
  [][ \A p \in store \ store' :
        \/ p.expires <= clock
        \/ used'[p.id] > used[p.id]
        \/ store' = {} /\ reply' = NoReply
        \/ /\ issued' > issued
           /\ Cardinality({q \in store' : Newer(q, p)}) >= MaxPlans ]_vars

(* The store keeps the abstract promise.  A plan past its expiry is retired  *)
(* even while it still sits in the table waiting to be purged.               *)
TokenOf(id) ==
  IF id > issued THEN "unissued"
  ELSE IF used[id] > 0 THEN "used"
  ELSE IF \E p \in store : p.id = id /\ p.expires > clock
       THEN IF \E p \in store : p.id = id /\ p.readonly THEN "readonly" ELSE "write"
       ELSE "retired"

Abstract == INSTANCE PlanTokens
              WITH TokenIds <- Ids, token <- [id \in Ids |-> TokenOf(id)]

ImplementsTokens == Abstract!PT_Spec
=============================================================================
