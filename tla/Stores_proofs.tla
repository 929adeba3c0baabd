---------------------------- MODULE Stores_proofs ----------------------------
(***************************************************************************)
(* Proofs about the two stores every task shares, and about the audit that   *)
(* keeps a scan in a third.                                                  *)
(*                                                                         *)
(* The plan store (PlanStore), for any number of tasks, tokens, ticks and    *)
(* rows and any cap: types, single use, the memory bound, the survival of    *)
(* the plan just registered, and the abstract promise of PlanTokens.         *)
(*                                                                         *)
(* The undo journal (RollbackJournal), for any cap on inverses, any offers   *)
(* and any number of calls and of cut appends: what was undone stays undone, *)
(* the undo button is shown exactly where an undo would be accepted, a cut   *)
(* append costs at most one entry, and a rewrite loses none.                 *)
(*                                                                         *)
(* The audit of the screen chain (ShareAnalysis), for any projects, schemes, *)
(* screens and workflows and any number of audits, gaps and changes: its     *)
(* verdicts are right.                                                       *)
(*                                                                         *)
(* The options of a field (FieldOptions), for any list asked for and any     *)
(* refusals, retries and renamings: what success promises of the list.       *)
(*                                                                         *)
(* The licence change log (EventLog), for any events, queries, caps and      *)
(* pages: the coverage names whole days only.                                *)
(***************************************************************************)
EXTENDS PlanStore, RollbackJournal, ShareAnalysis, FieldOptions, EventLog, TLAPS,
        FiniteSetTheorems, SequenceTheorems

(***************************************************************************)
(* The plan store                                                          *)
(***************************************************************************)

(* Tokens are handed out in order: no plan held carries a number that was    *)
(* not issued or a date in the future, and no such number was ever used.     *)
TokensInOrder ==
  /\ \A p \in store : p.id <= issued /\ p.created <= clock
  /\ \A id \in Ids : id > issued => used[id] = 0

(* The inductive invariant. SingleUse alone is not: a register that reused   *)
(* the number of a consumed plan would break it, which TokensInOrder rules   *)
(* out, and a consume that left a second plan with the same number behind    *)
(* would too, which UniqueTokens rules out.                                  *)
IInv ==
  /\ TypeOK
  /\ IsFiniteSet(store)
  /\ TokensInOrder
  /\ UniqueTokens
  /\ SingleUse

(***************************************************************************)
(* Lemmas about the helpers                                                *)
(***************************************************************************)

(* _purge_expired and _evict_overflow only ever take plans out. *)
LEMMA HelpersShrink ==
  ASSUME NEW S
  PROVE  PurgeExpired(S) \subseteq S /\ EvictOverflow(S) \subseteq S
BY DEF PurgeExpired, EvictOverflow

(* _cap_rows keeps at most MaxRows rows in all, and never a negative number. *)
LEMMA CapRowsBounded ==
  ASSUME NEW c \in Nat, NEW t \in Nat
  PROVE  /\ KeptChanges(c) \in Nat /\ KeptTable(c, t) \in Nat
         /\ KeptChanges(c) + KeptTable(c, t) <= MaxRows
         /\ KeptChanges(c) <= c /\ KeptTable(c, t) <= t
BY PlanStoreAssumption DEF KeptChanges, KeptTable

(* register builds a plan with the next number and a bounded size. *)
LEMMA NewPlanType ==
  ASSUME TypeOK, issued < MaxIssued,
         NEW task \in Tasks, NEW ro \in BOOLEAN, NEW c \in RowCounts, NEW t \in RowCounts
  PROVE  /\ NewPlan(task, ro, c, t) \in Plan
         /\ NewPlan(task, ro, c, t).id = issued + 1
         /\ NewPlan(task, ro, c, t).created = clock
         /\ NewPlan(task, ro, c, t).expires > clock
         /\ NewPlan(task, ro, c, t).readonly = ro
         /\ NewPlan(task, ro, c, t).changes + NewPlan(task, ro, c, t).rows <= MaxRows
<1>1. c \in Nat /\ t \in Nat
  BY PlanStoreAssumption
<1>2. /\ KeptChanges(c) \in Nat /\ KeptTable(c, t) \in Nat
      /\ KeptChanges(c) + KeptTable(c, t) <= MaxRows
  BY <1>1, CapRowsBounded
<1>3. (c + t > MaxRows) \in BOOLEAN
  OBVIOUS
<1>4. issued + 1 \in Ids
  BY PlanStoreAssumption DEF TypeOK, Ids
<1>5. /\ clock + (IF ro THEN ReadonlyTtl ELSE PlanTtl) \in Nat
      /\ clock + (IF ro THEN ReadonlyTtl ELSE PlanTtl) > clock
  BY PlanStoreAssumption DEF TypeOK
<1> QED
  BY <1>2, <1>3, <1>4, <1>5 DEF NewPlan, CapRows, Plan, TypeOK

(* Newer is a strict total order on plans with different numbers. *)
LEMMA NewerIsOrder ==
  ASSUME NEW p \in Plan, NEW q \in Plan, NEW r \in Plan
  PROVE  /\ ~Newer(p, p)
         /\ Newer(p, q) /\ Newer(q, r) => Newer(p, r)
         /\ p.id # q.id => Newer(p, q) \/ Newer(q, p)
BY DEF Newer, Plan, Ids

(* The plans newer than an older one are more. *)
LEMMA RankGrows ==
  ASSUME NEW S \in SUBSET Plan, IsFiniteSet(S),
         NEW p \in S, NEW q \in S, Newer(p, q)
  PROVE  Cardinality({r \in S : Newer(r, p)}) < Cardinality({r \in S : Newer(r, q)})
<1> DEFINE P == {r \in S : Newer(r, p)}
           Q == {r \in S : Newer(r, q)}
<1>1. P \subseteq Q
  BY NewerIsOrder
<1>2. p \in Q /\ p \notin P
  BY NewerIsOrder
<1>3. IsFiniteSet(Q) /\ IsFiniteSet(P)
  BY FS_Subset
<1>4. Cardinality(P) <= Cardinality(Q) /\ (Cardinality(Q) = Cardinality(P) => Q = P)
  BY <1>1, <1>3, FS_Subset
<1>5. Cardinality(P) \in Nat /\ Cardinality(Q) \in Nat
  BY <1>3, FS_CardinalityType
<1> QED
  BY <1>2, <1>4, <1>5

(* _evict_overflow keeps at most MaxPlans plans: distinct plans have         *)
(* distinct ranks, and only the ranks below MaxPlans stay.                   *)
LEMMA EvictionBound ==
  ASSUME NEW S \in SUBSET Plan, IsFiniteSet(S),
         \A p, q \in S : p.id = q.id => p = q
  PROVE  Cardinality(EvictOverflow(S)) <= MaxPlans
<1> DEFINE E == EvictOverflow(S)
           Rank(p) == Cardinality({q \in S : Newer(q, p)})
           ranks == 0..(MaxPlans - 1)
           f == [p \in E |-> Rank(p)]
<1>1. \A p \in S : Rank(p) \in Nat
  <2> TAKE p \in S
  <2>1. IsFiniteSet({q \in S : Newer(q, p)})
    BY FS_Subset
  <2> QED BY <2>1, FS_CardinalityType
<1>2. E \subseteq S /\ \A p \in E : Rank(p) < MaxPlans
  BY DEF EvictOverflow
<1>3. f \in [E -> ranks]
  BY <1>1, <1>2, PlanStoreAssumption
<1>4. \A p, q \in E : f[p] = f[q] => p = q
  <2> SUFFICES ASSUME NEW p \in E, NEW q \in E, p # q
               PROVE  Rank(p) # Rank(q)
    OBVIOUS
  <2>1. p \in S /\ q \in S /\ p.id # q.id
    BY <1>2
  <2>2. Newer(p, q) \/ Newer(q, p)
    BY <2>1, NewerIsOrder
  <2>3. Rank(p) < Rank(q) \/ Rank(q) < Rank(p)
    BY <2>1, <2>2, RankGrows
  <2> QED BY <1>1, <2>1, <2>3
<1>5. f \in Injection(E, ranks)
  BY <1>3, <1>4 DEF Injection, IsInjective
<1>6. IsFiniteSet(ranks) /\ Cardinality(ranks) = MaxPlans
  BY FS_Interval, PlanStoreAssumption
<1> HIDE DEF f
<1>7. Cardinality(E) <= Cardinality(ranks)
  BY <1>5, <1>6, FS_Injection
<1> QED
  BY <1>6, <1>7

(* _evict_overflow never drops the newest plan. *)
LEMMA NewestStays ==
  ASSUME NEW S, NEW p \in S, \A q \in S : ~Newer(q, p)
  PROVE  p \in EvictOverflow(S)
<1>1. {q \in S : Newer(q, p)} = {}
  OBVIOUS
<1>2. Cardinality({q \in S : Newer(q, p)}) = 0
  BY <1>1, FS_EmptySet
<1> QED
  BY <1>2, PlanStoreAssumption DEF EvictOverflow

(* register: the plan it just made is the newest, so eviction keeps it. *)
LEMMA RegisterKeepsFresh ==
  ASSUME IInv, NEW task \in Tasks, NEW ro \in BOOLEAN,
         NEW c \in RowCounts, NEW t \in RowCounts, Register(task, ro, c, t)
  PROVE  NewPlan(task, ro, c, t) \in store'
<1> DEFINE plan == NewPlan(task, ro, c, t)
           S == PurgeExpired(store) \union {plan}
<1>1. TypeOK /\ issued < MaxIssued /\ store' = EvictOverflow(S)
  BY DEF IInv, Register
<1>2. plan \in Plan /\ plan.id = issued + 1 /\ plan.created = clock
  BY <1>1, NewPlanType
<1> HIDE DEF plan
<1>3. ASSUME NEW q \in S PROVE ~Newer(q, plan)
  <2>1. CASE q = plan
    BY <2>1, <1>2, NewerIsOrder
  <2>2. CASE q \in store
    <3>1. q \in Plan /\ q.id <= issued /\ q.created <= clock
      BY <2>2 DEF IInv, TypeOK, TokensInOrder
    <3> QED
      BY <3>1, <1>1, <1>2 DEF Newer, Plan, Ids, TypeOK
  <2> QED
    BY <2>1, <2>2, HelpersShrink
<1> QED
  BY <1>1, <1>3, NewestStays DEF plan

(***************************************************************************)
(* The inductive invariant                                                 *)
(***************************************************************************)

(* The empty store satisfies the invariant. *)
LEMMA InitIInv == Init => IInv
<1> SUFFICES ASSUME Init PROVE IInv
  OBVIOUS
<1>1. TypeOK
  BY PlanStoreAssumption DEF Init, TypeOK
<1>2. IsFiniteSet(store)
  BY FS_EmptySet DEF Init
<1> QED
  BY <1>1, <1>2 DEF Init, IInv, TokensInOrder, UniqueTokens, SingleUse

(* Calls that only take plans out, and hand none to a write. *)
LEMMA ShrinkKeepsIInv ==
  ASSUME IInv, store' \subseteq store, clock' \in Nat, clock' >= clock,
         UNCHANGED <<issued, used>>
  PROVE  IInv'
<1>1. IsFiniteSet(store')
  BY FS_Subset DEF IInv
<1>2. TypeOK'
  BY DEF IInv, TypeOK
<1>3. TokensInOrder'
  BY DEF IInv, TypeOK, TokensInOrder, Plan
<1> QED
  BY <1>1, <1>2, <1>3 DEF IInv, UniqueTokens, SingleUse

(* register: the new plan carries the next number, so it is told apart from *)
(* every plan held or consumed before.                                      *)
LEMMA RegisterKeepsIInv ==
  ASSUME IInv, NEW task \in Tasks, NEW ro \in BOOLEAN,
         NEW c \in RowCounts, NEW t \in RowCounts, Register(task, ro, c, t)
  PROVE  IInv'
<1> DEFINE plan == NewPlan(task, ro, c, t)
           S == PurgeExpired(store) \union {plan}
<1>1. /\ TypeOK /\ issued < MaxIssued /\ store' = EvictOverflow(S)
      /\ issued' = issued + 1 /\ clock' = clock /\ used' = used
  BY DEF IInv, Register
<1>2. plan \in Plan /\ plan.id = issued + 1 /\ plan.created = clock
  BY <1>1, NewPlanType
<1> HIDE DEF plan
<1>3. store' \subseteq store \union {plan}
  BY <1>1, HelpersShrink
<1>4. IsFiniteSet(store')
  <2>1. IsFiniteSet(store \union {plan})
    BY FS_AddElement DEF IInv
  <2> QED
    BY <2>1, <1>3, FS_Subset
<1>5. TypeOK'
  <2>1. store' \subseteq Plan
    BY <1>1, <1>2, <1>3 DEF TypeOK
  <2>2. issued' \in 0..MaxIssued
    BY <1>1, PlanStoreAssumption DEF TypeOK
  <2> QED
    BY <2>1, <2>2, <1>1 DEF TypeOK
<1>6. TokensInOrder'
  <2>1. ASSUME NEW p \in store' PROVE p.id <= issued + 1 /\ p.created <= clock
    <3>1. CASE p = plan
      BY <3>1, <1>2, <1>1 DEF TypeOK
    <3>2. CASE p \in store
      <4>1. p.id \in Nat /\ p.id <= issued /\ p.created <= clock
        BY <3>2 DEF IInv, TypeOK, TokensInOrder, Plan, Ids
      <4> QED
        BY <4>1, <1>1 DEF TypeOK
    <3> QED
      BY <3>1, <3>2, <1>3
  <2>2. \A id \in Ids : id > issued + 1 => used[id] = 0
    BY <1>1 DEF IInv, TypeOK, TokensInOrder, Ids
  <2> QED
    BY <2>1, <2>2, <1>1 DEF TokensInOrder
<1>7. UniqueTokens'
  <2> SUFFICES ASSUME NEW p \in store', NEW q \in store', p.id = q.id PROVE p = q
    BY DEF UniqueTokens
  <2>1. \A r \in store : r.id # plan.id
    BY <1>1, <1>2 DEF IInv, TypeOK, TokensInOrder, Plan, Ids
  <2> QED
    BY <2>1, <1>3 DEF IInv, UniqueTokens
<1>8. SingleUse'
  <2>1. used[plan.id] = 0
    BY <1>1, <1>2 DEF IInv, TypeOK, TokensInOrder, Plan, Ids
  <2> QED
    BY <2>1, <1>1, <1>3 DEF IInv, SingleUse
<1> QED
  BY <1>4, <1>5, <1>6, <1>7, <1>8 DEF IInv

(* consume, accepting: the plan leaves the store as its use is counted, so  *)
(* no plan with a use is held.                                              *)
LEMMA ConsumeAcceptKeepsIInv ==
  ASSUME IInv, NEW id \in Ids, NEW task \in Tasks, ConsumeAccept(id, task)
  PROVE  IInv'
<1>1. PICK p \in Find(PurgeExpired(store), id) :
        /\ store' = PurgeExpired(store) \ {p}
        /\ used' = [used EXCEPT ![id] = @ + 1]
        /\ clock' = clock /\ issued' = issued
  BY DEF ConsumeAccept
<1>2. p \in store /\ p.id = id /\ store' \subseteq store \ {p}
  BY <1>1, HelpersShrink DEF Find
<1>3. IsFiniteSet(store')
  BY <1>2, FS_Subset DEF IInv
<1>4. used[id] = 0 /\ id <= issued
  BY <1>2 DEF IInv, SingleUse, TokensInOrder
<1>5. used' \in [Ids -> Nat] /\ used'[id] = 1
  BY <1>1, <1>4 DEF IInv, TypeOK
<1>6. \A k \in Ids : k # id => used'[k] = used[k]
  BY <1>1 DEF IInv, TypeOK
<1>7. TypeOK'
  BY <1>1, <1>2, <1>5 DEF IInv, TypeOK
<1>8. TokensInOrder'
  BY <1>1, <1>2, <1>4, <1>6 DEF IInv, TypeOK, TokensInOrder, Ids
<1>9. UniqueTokens'
  BY <1>2 DEF IInv, UniqueTokens
<1>10. SingleUse'
  <2>1. \A k \in Ids : used'[k] <= 1
    BY <1>5, <1>6 DEF IInv, SingleUse
  <2>2. \A q \in store' : q.id # id
    BY <1>2 DEF IInv, UniqueTokens
  <2>3. \A q \in store' : q.id \in Ids
    BY <1>2 DEF IInv, TypeOK, Plan
  <2> QED
    BY <2>1, <2>2, <2>3, <1>2, <1>6 DEF IInv, SingleUse
<1> QED
  BY <1>3, <1>7, <1>8, <1>9, <1>10 DEF IInv

(* Every call keeps the invariant. *)
LEMMA NextIInv == IInv /\ [Next]_vars => IInv'
<1> SUFFICES ASSUME IInv, [Next]_vars PROVE IInv'
  OBVIOUS
<1> USE DEF IInv
<1>0. clock \in Nat
  BY DEF TypeOK
<1>1. CASE Tick
  BY <1>0, <1>1, ShrinkKeepsIInv DEF Tick
<1>2. ASSUME NEW task \in Tasks, NEW ro \in BOOLEAN, NEW c \in RowCounts,
             NEW t \in RowCounts, Register(task, ro, c, t)
      PROVE  IInv'
  BY <1>2, RegisterKeepsIInv
<1>3. ASSUME NEW id \in Ids, NEW task \in Tasks, Consume(id, task) PROVE IInv'
  <2>1. CASE ConsumeReject(id, task)
    BY <2>1, <1>0, HelpersShrink, ShrinkKeepsIInv DEF ConsumeReject, Reject
  <2>2. CASE ConsumeAccept(id, task)
    BY <2>2, ConsumeAcceptKeepsIInv
  <2> QED
    BY <1>3, <2>1, <2>2 DEF Consume
<1>4. ASSUME NEW id \in Ids, NEW task \in Tasks, Peek(id, task) PROVE IInv'
  <2>1. CASE PeekReject(id, task)
    BY <2>1, <1>0, HelpersShrink, ShrinkKeepsIInv DEF PeekReject, Reject
  <2>2. CASE PeekAccept(id, task)
    BY <2>2, <1>0, HelpersShrink, ShrinkKeepsIInv DEF PeekAccept
  <2> QED
    BY <1>4, <2>1, <2>2 DEF Peek
<1>5. CASE PendingCount
  BY <1>5, <1>0, HelpersShrink, ShrinkKeepsIInv DEF PendingCount
<1>6. CASE Restart
  BY <1>6, <1>0, ShrinkKeepsIInv DEF Restart
<1>7. CASE UNCHANGED vars
  BY <1>7, <1>0, ShrinkKeepsIInv DEF vars
<1> QED
  BY <1>1, <1>2, <1>3, <1>4, <1>5, <1>6, <1>7 DEF Next

(* The invariant holds in every reachable state. *)
THEOREM Invariance == Spec => []IInv
BY InitIInv, NextIInv, PTL DEF Spec

(* Every plan held is well formed and tokens are numbered as issued. *)
THEOREM TypeCorrect == Spec => []TypeOK
<1>1. IInv => TypeOK
  BY DEF IInv
<1> QED
  BY <1>1, Invariance, PTL

(* consume gives a preview away at most once, for any number of previews,    *)
(* clocks and callers.                                                       *)
THEOREM SingleUseHolds == Spec => []SingleUse
<1>1. IInv => SingleUse
  BY DEF IInv
<1> QED
  BY <1>1, Invariance, PTL

(* Two previews never share a token. *)
THEOREM UniqueTokensHolds == Spec => []UniqueTokens
<1>1. IInv => UniqueTokens
  BY DEF IInv
<1> QED
  BY <1>1, Invariance, PTL

(***************************************************************************)
(* The memory bound                                                        *)
(***************************************************************************)

(* Taking plans out keeps the store small. *)
LEMMA ShrinkKeepsBound ==
  ASSUME IInv, BoundedStore, store' \subseteq store
  PROVE  BoundedStore'
<1>1. Cardinality(store') <= Cardinality(store)
  BY FS_Subset DEF IInv
<1>2. IsFiniteSet(store) /\ IsFiniteSet(store')
  BY FS_Subset DEF IInv
<1>3. Cardinality(store') \in Nat /\ Cardinality(store) \in Nat
  BY <1>2, FS_CardinalityType
<1> QED
  BY <1>1, <1>3, PlanStoreAssumption DEF BoundedStore

(* register: eviction brings the count back to MaxPlans, _cap_rows bounds   *)
(* the new plan.                                                            *)
LEMMA RegisterKeepsBound ==
  ASSUME IInv, BoundedStore, NEW task \in Tasks, NEW ro \in BOOLEAN,
         NEW c \in RowCounts, NEW t \in RowCounts, Register(task, ro, c, t)
  PROVE  BoundedStore'
<1> DEFINE plan == NewPlan(task, ro, c, t)
           S == PurgeExpired(store) \union {plan}
<1>1. TypeOK /\ issued < MaxIssued /\ store' = EvictOverflow(S)
  BY DEF IInv, Register
<1>2. plan \in Plan /\ plan.id = issued + 1 /\ plan.changes + plan.rows <= MaxRows
  BY <1>1, NewPlanType
<1> HIDE DEF plan
<1>3. S \subseteq store \union {plan}
  BY HelpersShrink
<1>4. S \in SUBSET Plan /\ IsFiniteSet(S)
  <2>1. IsFiniteSet(store \union {plan})
    BY FS_AddElement DEF IInv
  <2> QED
    BY <2>1, <1>1, <1>2, <1>3, FS_Subset DEF TypeOK
<1>5. \A r \in store : r.id # plan.id
  BY <1>1, <1>2 DEF IInv, TypeOK, TokensInOrder, Plan, Ids
<1>6. \A p, q \in S : p.id = q.id => p = q
  BY <1>3, <1>5 DEF IInv, UniqueTokens
<1>7. Cardinality(EvictOverflow(S)) <= MaxPlans
  BY <1>4, <1>6, EvictionBound
<1>8. \A p \in store' : p.changes + p.rows <= MaxRows
  BY <1>1, <1>2, <1>3, HelpersShrink DEF BoundedStore
<1> QED
  BY <1>1, <1>7, <1>8 DEF BoundedStore

(* Every call keeps the store small. *)
LEMMA NextBounded == IInv /\ BoundedStore /\ [Next]_vars => BoundedStore'
<1> SUFFICES ASSUME IInv, BoundedStore, [Next]_vars PROVE BoundedStore'
  OBVIOUS
<1>1. ASSUME NEW task \in Tasks, NEW ro \in BOOLEAN, NEW c \in RowCounts,
             NEW t \in RowCounts, Register(task, ro, c, t)
      PROVE  BoundedStore'
  BY <1>1, RegisterKeepsBound
<1>2. ASSUME NEW id \in Ids, NEW task \in Tasks, Consume(id, task) \/ Peek(id, task)
      PROVE  store' \subseteq store
  BY <1>2, HelpersShrink
     DEF Consume, ConsumeReject, ConsumeAccept, Peek, PeekReject, PeekAccept, Reject
<1>3. CASE Tick \/ PendingCount \/ Restart \/ UNCHANGED vars
  <2>1. store' \subseteq store
    BY <1>3, HelpersShrink DEF Tick, PendingCount, Restart, vars
  <2> QED
    BY <2>1, ShrinkKeepsBound
<1> QED
  BY <1>1, <1>2, <1>3, ShrinkKeepsBound DEF Next

(* However many previews are requested, at most MaxPlans plans of at most    *)
(* MaxRows rows are held.                                                    *)
THEOREM StoreIsBounded == Spec => []BoundedStore
<1>1. Init => BoundedStore
  BY FS_EmptySet, PlanStoreAssumption DEF Init, BoundedStore
<1> QED
  BY <1>1, NextBounded, Invariance, PTL DEF Spec

(***************************************************************************)
(* The plan just registered                                                *)
(***************************************************************************)

(* After any call: if it was a register, its plan is held. *)
LEMMA NextFresh == IInv /\ FreshPlanHeld /\ [Next]_vars => FreshPlanHeld'
<1> SUFFICES ASSUME IInv, FreshPlanHeld, [Next]_vars PROVE FreshPlanHeld'
  OBVIOUS
<1>1. ASSUME NEW task \in Tasks, NEW ro \in BOOLEAN, NEW c \in RowCounts,
             NEW t \in RowCounts, Register(task, ro, c, t)
      PROVE  FreshPlanHeld'
  <2>1. reply'.plan = NewPlan(task, ro, c, t)
    BY <1>1 DEF Register
  <2> QED
    BY <1>1, <2>1, RegisterKeepsFresh DEF FreshPlanHeld
<1>2. ASSUME NEW id \in Ids, NEW task \in Tasks, Consume(id, task) \/ Peek(id, task)
      PROVE  reply'.op # "register"
  BY <1>2 DEF Consume, ConsumeReject, ConsumeAccept, Peek, PeekReject, PeekAccept, Reject
<1>3. CASE PendingCount \/ Restart
  BY <1>3 DEF PendingCount, Restart, NoReply, FreshPlanHeld
<1>4. CASE Tick
  BY <1>4 DEF Tick, FreshPlanHeld
<1>5. CASE UNCHANGED vars
  BY <1>5 DEF vars, FreshPlanHeld
<1> QED
  BY <1>1, <1>2, <1>3, <1>4, <1>5 DEF Next, FreshPlanHeld

(* Eviction never hits the token that register is about to return. *)
THEOREM FreshPlanStays == Spec => []FreshPlanHeld
<1>1. Init => FreshPlanHeld
  BY DEF Init, NoReply, FreshPlanHeld
<1> QED
  BY <1>1, NextFresh, Invariance, PTL DEF Spec

(***************************************************************************)
(* The abstract promise                                                    *)
(***************************************************************************)

(* What an observer of the abstract specification sees. *)
Seen == [id \in Ids |-> TokenOf(id)]

(* Plans dropped and time passing only retire tokens. *)
LEMMA ShrinkRetires ==
  ASSUME IInv, IInv', store' \subseteq store, clock' >= clock, UNCHANGED <<issued, used>>
  PROVE  Abstract!PT_Retire
<1> DEFINE gone == {id \in Ids : TokenOf(id)' = "retired"}
<1>1. clock \in Nat /\ clock' \in Nat
  BY DEF IInv, TypeOK
<1>2. ASSUME NEW id \in Ids
      PROVE  TokenOf(id)' = IF id \in gone /\ TokenOf(id) \in {"write", "readonly"}
                            THEN "retired" ELSE TokenOf(id)
  <2>1. CASE id > issued \/ used[id] > 0
    BY <2>1 DEF TokenOf
  <2>2. CASE ~(id > issued \/ used[id] > 0)
    <3>1. CASE \E p \in store' : p.id = id /\ p.expires > clock'
      <4>1. PICK p \in store' : p.id = id /\ p.expires > clock'
        BY <3>1
      <4>2. p \in store /\ p.expires > clock
        BY <4>1, <1>1 DEF IInv, TypeOK, Plan
      <4>3. \A q \in store : q.id = id => q = p
        BY <4>1, <4>2 DEF IInv, UniqueTokens
      <4> QED
        BY <2>2, <4>1, <4>2, <4>3 DEF TokenOf
    <3>2. CASE ~ \E p \in store' : p.id = id /\ p.expires > clock'
      <4>1. TokenOf(id)' = "retired"
        BY <2>2, <3>2 DEF TokenOf
      <4>2. TokenOf(id) \in {"write", "readonly", "retired"}
        BY <2>2 DEF TokenOf
      <4> QED
        BY <4>1, <4>2
    <3> QED
      BY <3>1, <3>2
  <2> QED
    BY <2>1, <2>2
<1>3. gone \in SUBSET Ids
  OBVIOUS
<1> HIDE DEF gone
<1> QED
  BY <1>2, <1>3 DEF Abstract!PT_Retire, Abstract!Lapsed

(* register issues one token; the purge and the eviction retire others. *)
LEMMA RegisterIssues ==
  ASSUME IInv, IInv', NEW task \in Tasks, NEW ro \in BOOLEAN,
         NEW c \in RowCounts, NEW t \in RowCounts, Register(task, ro, c, t)
  PROVE  Abstract!PT_Issue
<1> DEFINE plan == NewPlan(task, ro, c, t)
           kind == IF ro THEN "readonly" ELSE "write"
           gone == {id \in Ids : TokenOf(id)' = "retired"}
<1>0. PICK new \in Ids : new = issued + 1
  BY PlanStoreAssumption DEF IInv, TypeOK, Ids, Register
<1>1. /\ TypeOK /\ issued < MaxIssued /\ issued' = new /\ used' = used /\ clock' = clock
      /\ store' = EvictOverflow(PurgeExpired(store) \union {plan})
  BY <1>0 DEF IInv, Register
<1>2. /\ plan.id = new /\ plan.expires > clock /\ plan.readonly = ro
      /\ plan \in store' /\ store' \subseteq store \union {plan}
  BY <1>0, <1>1, NewPlanType, RegisterKeepsFresh, HelpersShrink
<1> HIDE DEF plan
<1>3. new > issued /\ used[new] = 0
  BY <1>0, <1>1 DEF IInv, TypeOK, TokensInOrder, Ids
<1>4. TokenOf(new) = "unissued"
  BY <1>3 DEF TokenOf
<1>5. TokenOf(new)' = kind
  <2>1. \A q \in store' : q.id = new => q = plan
    BY <1>2 DEF IInv, UniqueTokens
  <2>2. ~(new > issued') /\ ~(used'[new] > 0)
    BY <1>0, <1>1, <1>3 DEF Ids, TypeOK
  <2>3. \E p \in store' : p.id = new /\ p.expires > clock'
    BY <1>1, <1>2
  <2>4. (\E p \in store' : p.id = new /\ p.readonly) <=> ro
    BY <1>2, <2>1
  <2> QED
    BY <2>2, <2>3, <2>4 DEF TokenOf
<1>6. ASSUME NEW id \in Ids, id # new
      PROVE  TokenOf(id)' = IF id \in gone /\ TokenOf(id) \in {"write", "readonly"}
                            THEN "retired" ELSE TokenOf(id)
  <2>1. id > issued' <=> id > issued
    BY <1>0, <1>1, <1>6 DEF TypeOK, Ids
  <2>2. CASE id > issued \/ used[id] > 0
    BY <2>1, <2>2, <1>1 DEF TokenOf
  <2>3. CASE ~(id > issued \/ used[id] > 0)
    <3>1. CASE \E p \in store' : p.id = id /\ p.expires > clock'
      <4>1. PICK p \in store' : p.id = id /\ p.expires > clock'
        BY <3>1
      <4>2. p \in store /\ p.expires > clock
        BY <4>1, <1>1, <1>2, <1>6
      <4>3. \A q \in store : q.id = id => q = p
        BY <4>1, <4>2 DEF IInv, UniqueTokens
      <4>4. \A q \in store' : q.id = id => q = p
        BY <4>1 DEF IInv, UniqueTokens
      <4> QED
        BY <2>1, <2>3, <4>1, <4>2, <4>3, <4>4, <1>1 DEF TokenOf
    <3>2. CASE ~ \E p \in store' : p.id = id /\ p.expires > clock'
      <4>1. TokenOf(id)' = "retired"
        BY <2>1, <2>3, <3>2, <1>1 DEF TokenOf
      <4>2. TokenOf(id) \in {"write", "readonly", "retired"}
        BY <2>3 DEF TokenOf
      <4> QED
        BY <4>1, <4>2
    <3> QED
      BY <3>1, <3>2
  <2> QED
    BY <2>2, <2>3
<1>7. gone \in SUBSET Ids
  OBVIOUS
<1> HIDE DEF gone
<1>8. Seen' = [Abstract!Lapsed(gone) EXCEPT ![new] = kind]
  <2>1. Seen' = [id \in Ids |-> TokenOf(id)']
    BY DEF Seen
  <2> QED
    BY <2>1, <1>3, <1>5, <1>6 DEF Abstract!Lapsed
<1>9. kind \in {"write", "readonly"}
  OBVIOUS
<1> HIDE DEF kind
<1> QED
  BY <1>3, <1>4, <1>7, <1>8, <1>9 DEF Abstract!PT_Issue, Seen

(* consume, accepting, uses up one live write token. *)
LEMMA ConsumeUses ==
  ASSUME IInv, IInv', NEW id \in Ids, NEW task \in Tasks, ConsumeAccept(id, task)
  PROVE  Abstract!PT_Use
<1>1. PICK p \in Find(PurgeExpired(store), id) :
        /\ ~p.readonly
        /\ store' = PurgeExpired(store) \ {p}
        /\ used' = [used EXCEPT ![id] = @ + 1]
        /\ clock' = clock /\ issued' = issued
  BY DEF ConsumeAccept
<1>2. p \in store /\ p.id = id /\ p.expires > clock
  BY <1>1 DEF Find, PurgeExpired
<1>3. used[id] = 0 /\ id <= issued /\ issued \in Nat /\ id \in Nat
  BY <1>2 DEF IInv, SingleUse, TokensInOrder, TypeOK, Ids
<1>4. used'[id] = 1 /\ \A k \in Ids : k # id => used'[k] = used[k]
  BY <1>1, <1>3 DEF IInv, TypeOK
<1>5. TokenOf(id) = "write"
  <2>1. \A q \in store : q.id = id => q = p
    BY <1>2 DEF IInv, UniqueTokens
  <2> QED
    BY <1>1, <1>2, <1>3, <2>1 DEF TokenOf
<1>6. TokenOf(id)' = "used"
  BY <1>1, <1>3, <1>4 DEF TokenOf
<1>7. ASSUME NEW k \in Ids, k # id PROVE TokenOf(k)' = TokenOf(k)
  <2>1. \A q : (q \in store' /\ q.id = k) <=> (q \in store /\ q.id = k /\ q.expires > clock)
    BY <1>1, <1>2, <1>7 DEF PurgeExpired
  <2>2. used'[k] = used[k]
    BY <1>4, <1>7
  <2>3. \A q, r \in store : q.id = r.id => q = r
    BY DEF IInv, UniqueTokens
  <2>4. (\E q \in store' : q.id = k /\ q.expires > clock)
          <=> (\E q \in store : q.id = k /\ q.expires > clock)
    BY <2>1
  <2>5. (\E q \in store : q.id = k /\ q.expires > clock)
          => ((\E q \in store' : q.id = k /\ q.readonly) <=> (\E q \in store : q.id = k /\ q.readonly))
    BY <2>1, <2>3
  <2> QED
    BY <2>2, <2>4, <2>5, <1>1 DEF TokenOf
<1>8. Seen' = [Seen EXCEPT ![id] = "used"]
  <2>1. Seen' = [k \in Ids |-> TokenOf(k)']
    BY DEF Seen
  <2> QED
    BY <2>1, <1>6, <1>7 DEF Seen
<1> QED
  BY <1>5, <1>8 DEF Abstract!PT_Use, Seen

(* Every call is a step of the abstract specification, or leaves it alone. *)
LEMMA StepImplements == IInv /\ IInv' /\ [Next]_vars => [Abstract!PT_Next]_Seen
<1> SUFFICES ASSUME IInv, IInv', [Next]_vars PROVE [Abstract!PT_Next]_Seen
  OBVIOUS
<1>0. clock \in Nat
  BY DEF IInv, TypeOK
<1>1. ASSUME NEW task \in Tasks, NEW ro \in BOOLEAN, NEW c \in RowCounts,
             NEW t \in RowCounts, Register(task, ro, c, t)
      PROVE  Abstract!PT_Next
  BY <1>1, RegisterIssues DEF Abstract!PT_Next
<1>2. ASSUME NEW id \in Ids, NEW task \in Tasks, Consume(id, task) PROVE Abstract!PT_Next
  <2>1. CASE ConsumeAccept(id, task)
    BY <2>1, ConsumeUses DEF Abstract!PT_Next
  <2>2. CASE ConsumeReject(id, task)
    BY <2>2, <1>0, HelpersShrink, ShrinkRetires DEF ConsumeReject, Reject, Abstract!PT_Next
  <2> QED
    BY <1>2, <2>1, <2>2 DEF Consume
<1>3. ASSUME NEW id \in Ids, NEW task \in Tasks, Peek(id, task) PROVE Abstract!PT_Next
  BY <1>3, <1>0, HelpersShrink, ShrinkRetires
     DEF Peek, PeekReject, PeekAccept, Reject, Abstract!PT_Next
<1>4. CASE Tick \/ PendingCount \/ Restart
  BY <1>4, <1>0, HelpersShrink, ShrinkRetires DEF Tick, PendingCount, Restart, Abstract!PT_Next
<1>5. CASE UNCHANGED vars
  BY <1>5 DEF vars, Seen, TokenOf
<1> QED
  BY <1>1, <1>2, <1>3, <1>4, <1>5 DEF Next

(* The plan store keeps the abstract promise of PlanTokens. *)
THEOREM Refinement == Spec => ImplementsTokens
<1>1. Init => Abstract!PT_Init
  BY PlanStoreAssumption DEF Init, Abstract!PT_Init, TokenOf, Ids
<1>2. IInv /\ IInv' /\ [Next]_vars => [Abstract!PT_Next]_Seen
  BY StepImplements
<1> QED
  BY <1>1, <1>2, Invariance, PTL DEF Spec, ImplementsTokens, Abstract!PT_Spec, Seen

(***************************************************************************)
(* What a step may never do                                                *)
(***************************************************************************)

(* An evicted plan has MaxPlans newer plans among those kept: take, among    *)
(* the evicted plans newer than it, one with the fewest newer plans; they    *)
(* are all kept, and too few to evict it.                                    *)
LEMMA EvictedForNewer ==
  ASSUME NEW S \in SUBSET Plan, IsFiniteSet(S), NEW p \in S, p \notin EvictOverflow(S)
  PROVE  Cardinality({q \in EvictOverflow(S) : Newer(q, p)}) >= MaxPlans
<1> DEFINE E == EvictOverflow(S)
           Above(x) == {q \in S : Newer(q, x)}
           K == {q \in E : Newer(q, p)}
           evicted == Above(p) \ E
           R == StrictSubsetOrdering(S)
<1>1. E \subseteq S
  BY HelpersShrink
<1>2. \A T \in SUBSET S : IsFiniteSet(T) /\ Cardinality(T) \in Nat
  <2> TAKE T \in SUBSET S
  <2>1. IsFiniteSet(T)
    BY FS_Subset
  <2> QED
    BY <2>1, FS_CardinalityType
<1>3. \A x \in S : Above(x) \in SUBSET S
  OBVIOUS
<1>4. \A x \in S : x \in E <=> Cardinality(Above(x)) < MaxPlans
  BY DEF EvictOverflow
<1>5. Cardinality(Above(p)) \in Nat /\ Cardinality(Above(p)) >= MaxPlans
  BY <1>2, <1>3, <1>4, PlanStoreAssumption
<1>6. CASE evicted = {}
  <2>1. K = Above(p)
    BY <1>1, <1>6
  <2> QED
    BY <2>1, <1>5
<1>7. CASE evicted # {}
  <2> DEFINE T == {Above(x) : x \in evicted}
  <2>1. T \subseteq FiniteSubsetsOf(S) /\ T # {}
    BY <1>2, <1>3, <1>7 DEF FiniteSubsetsOf
  <2>2. IsWellFoundedOn(R, FiniteSubsetsOf(S))
    BY FS_StrictSubsetOrderingWellFounded
  <2> HIDE DEF T, R
  <2>3. PICK A \in T : \A B \in T : ~(<<B, A>> \in R)
    BY <2>1, <2>2, WFMin
  <2>4. PICK x \in evicted : A = Above(x)
    BY <2>3 DEF T
  <2>5. x \in S /\ Newer(x, p) /\ x \notin E
    OBVIOUS
  <2>6. ASSUME NEW y \in Above(x) PROVE y \in K
    <3>1. y \in S /\ Newer(y, x)
      OBVIOUS
    <3>2. Newer(y, p)
      BY <2>5, <3>1, NewerIsOrder
    <3>3. CASE y \in E
      BY <3>2, <3>3
    <3>4. CASE y \notin E
      <4>1. Above(y) \in T
        BY <3>1, <3>2, <3>4 DEF T
      <4>2. Above(y) \subseteq Above(x)
        BY <2>5, <3>1, NewerIsOrder
      <4>3. y \in Above(x) /\ y \notin Above(y)
        BY <3>1, NewerIsOrder
      <4>4. <<Above(y), Above(x)>> \in R
        BY <4>2, <4>3 DEF R, StrictSubsetOrdering
      <4> QED
        BY <4>1, <4>4, <2>3, <2>4
    <3> QED
      BY <3>3, <3>4
  <2>7. Above(x) \in SUBSET K /\ K \in SUBSET S
    BY <2>6, <1>1
  <2>8. Cardinality(Above(x)) <= Cardinality(K)
    BY <2>7, <1>2, FS_Subset
  <2>9. Cardinality(Above(x)) >= MaxPlans
    BY <2>5, <1>2, <1>3, <1>4, PlanStoreAssumption
  <2>10. Cardinality(K) \in Nat /\ Cardinality(Above(x)) \in Nat
    BY <2>7, <1>2, <2>5, <1>3
  <2> QED
    BY <2>8, <2>9, <2>10, PlanStoreAssumption
<1> QED
  BY <1>6, <1>7

(* The losses one step may cause. *)
Justified(p) ==
  \/ p.expires <= clock
  \/ used'[p.id] > used[p.id]
  \/ store' = {} /\ reply' = NoReply
  \/ /\ issued' > issued
     /\ Cardinality({q \in store' : Newer(q, p)}) >= MaxPlans

(* _purge_expired takes out expired plans only. *)
LEMMA PurgedAreExpired ==
  ASSUME TypeOK, NEW p \in store, p \notin PurgeExpired(store)
  PROVE  p.expires <= clock
BY DEF TypeOK, Plan, PurgeExpired

(* Whatever call a plan disappears in, its loss is justified. *)
LEMMA StepLosses ==
  ASSUME IInv, [Next]_vars, NEW p \in store, p \notin store'
  PROVE  Justified(p)
<1>0. TypeOK
  BY DEF IInv
<1>1. ASSUME NEW task \in Tasks, NEW ro \in BOOLEAN, NEW c \in RowCounts,
             NEW t \in RowCounts, Register(task, ro, c, t)
      PROVE  Justified(p)
  <2> DEFINE plan == NewPlan(task, ro, c, t)
             S == PurgeExpired(store) \union {plan}
  <2>1. /\ issued < MaxIssued /\ issued' = issued + 1 /\ issued \in Nat
        /\ store' = EvictOverflow(S)
    BY <1>0, <1>1 DEF Register, TypeOK
  <2>2. plan \in Plan
    BY <1>0, <2>1, NewPlanType
  <2> HIDE DEF plan
  <2>3. S \in SUBSET Plan /\ IsFiniteSet(S)
    <3>1. IsFiniteSet(store \union {plan})
      BY FS_AddElement DEF IInv
    <3> QED
      BY <3>1, <1>0, <2>2, HelpersShrink, FS_Subset DEF TypeOK
  <2>4. CASE p \notin PurgeExpired(store)
    BY <2>4, <1>0, PurgedAreExpired DEF Justified
  <2>5. CASE p \in S
    <3>1. Cardinality({q \in store' : Newer(q, p)}) >= MaxPlans
      BY <2>1, <2>3, <2>5, EvictedForNewer
    <3> QED
      BY <3>1, <2>1 DEF Justified
  <2> QED
    BY <2>4, <2>5
<1>2. ASSUME NEW id \in Ids, NEW task \in Tasks, ConsumeAccept(id, task) PROVE Justified(p)
  <2>1. PICK q \in Find(PurgeExpired(store), id) :
          store' = PurgeExpired(store) \ {q} /\ used' = [used EXCEPT ![id] = @ + 1]
    BY <1>2 DEF ConsumeAccept
  <2>2. CASE p = q
    <3>1. p.id = id /\ used \in [Ids -> Nat]
      BY <1>0, <2>2 DEF Find, TypeOK
    <3> QED
      BY <3>1, <2>1 DEF Justified
  <2>3. CASE p # q
    <3>1. p \notin PurgeExpired(store)
      BY <2>1, <2>3
    <3> QED
      BY <3>1, <1>0, PurgedAreExpired DEF Justified
  <2> QED
    BY <2>2, <2>3
<1>3. ASSUME NEW id \in Ids, NEW task \in Tasks, ConsumeReject(id, task) \/ Peek(id, task)
      PROVE  Justified(p)
  <2>1. store' = PurgeExpired(store)
    BY <1>3 DEF ConsumeReject, Reject, Peek, PeekReject, PeekAccept
  <2> QED
    BY <2>1, <1>0, PurgedAreExpired DEF Justified
<1>4. CASE PendingCount
  BY <1>4, <1>0, PurgedAreExpired DEF PendingCount, Justified
<1>5. CASE Restart
  BY <1>5 DEF Restart, Justified
<1>6. CASE Tick \/ UNCHANGED vars
  BY <1>6 DEF Tick, vars
<1> QED
  BY <1>1, <1>2, <1>3, <1>4, <1>5, <1>6 DEF Next, Consume

(* A preview is never lost without a reason: consumed, expired, pushed out   *)
(* by MaxPlans newer ones that are still held, or gone with the process.     *)
THEOREM LossesAreJustified == Spec => LossesJustified
<1>1. IInv /\ [Next]_vars => \A p \in store \ store' : Justified(p)
  BY StepLosses
<1> QED
  BY <1>1, Invariance, PTL DEF Spec, LossesJustified, Justified

(***************************************************************************)
(* What a caller is handed                                                 *)
(***************************************************************************)

(* The body of HandedOutLive. *)
HandedLive ==
  (reply' # reply /\ reply'.op \in {"consume", "peek"} /\ reply'.ok)
    => /\ reply'.plan \in store
       /\ reply'.plan.expires > clock
       /\ reply'.op = "consume" => ~reply'.plan.readonly

(* A look-up finds only plans that the purge before it left in place. *)
LEMMA FoundIsLive ==
  ASSUME NEW id, NEW p \in Find(PurgeExpired(store), id)
  PROVE  p \in store /\ p.expires > clock
BY DEF Find, PurgeExpired

(* Only an accepted consume or peek answers with a plan out of the store. *)
LEMMA StepHandsLive == [Next]_vars => HandedLive
<1> SUFFICES ASSUME [Next]_vars PROVE HandedLive
  OBVIOUS
<1>1. ASSUME NEW id \in Ids, NEW task \in Tasks, ConsumeAccept(id, task)
      PROVE  HandedLive
  <2>1. PICK p \in Find(PurgeExpired(store), id) :
          /\ ~p.readonly
          /\ reply' = [op |-> "consume", id |-> id, ok |-> TRUE, plan |-> p]
    BY <1>1 DEF ConsumeAccept
  <2> QED
    BY <2>1, FoundIsLive DEF HandedLive
<1>2. ASSUME NEW id \in Ids, NEW task \in Tasks, PeekAccept(id, task)
      PROVE  HandedLive
  <2>1. PICK p \in Find(PurgeExpired(store), id) :
          reply' = [op |-> "peek", id |-> id, ok |-> TRUE, plan |-> p]
    BY <1>2 DEF PeekAccept
  <2> QED
    BY <2>1, FoundIsLive DEF HandedLive
<1>3. ASSUME NEW task \in Tasks, NEW ro \in BOOLEAN, NEW c \in RowCounts,
             NEW t \in RowCounts, Register(task, ro, c, t)
      PROVE  HandedLive
  BY <1>3 DEF Register, HandedLive
<1>4. ASSUME NEW id \in Ids, NEW task \in Tasks,
             ConsumeReject(id, task) \/ PeekReject(id, task)
      PROVE  HandedLive
  BY <1>4 DEF ConsumeReject, PeekReject, Reject, HandedLive
<1>5. CASE PendingCount \/ Restart
  BY <1>5 DEF PendingCount, Restart, NoReply, HandedLive
<1>6. CASE Tick \/ UNCHANGED vars
  BY <1>6 DEF Tick, vars, HandedLive
<1> QED
  BY <1>1, <1>2, <1>3, <1>4, <1>5, <1>6 DEF Next, Consume, Peek

(* A plan handed to a caller was live at that instant, and a write is never  *)
(* handed an analysis.                                                       *)
THEOREM HandedOutIsLive == Spec => HandedOutLive
BY StepHandsLive, PTL DEF Spec, HandedOutLive, HandedLive

------------------------------------------------------------------------------
(***************************************************************************)
(* The undo journal                                                        *)
(***************************************************************************)

(* What a terminated line can be.                                            *)
Line == Entry \union {Junk, Broken}

(* The entries among some lines, and those that the journal still holds.     *)
EntriesOf(lines) == {lines[i] : i \in {j \in DOMAIN lines : IsEntry(lines[j])}}
Journal == EntriesOf(file) \union {e \in {last} : IsEntry(e)}

(* The ids that a run was told of and that no line carries any more.         *)
Gone == {id \in returned : \A e \in Journal : e.id # id}

(* Ids are handed out once; the history variables only know ids handed out.  *)
IdsAreFresh ==
  /\ \A e \in Journal : e.id <= calls
  /\ \A id \in returned \union undone : id <= calls
  /\ \A e, f \in Journal : e.id = f.id => e = f

(* The line of an entry says whether mark_rolled_back was called for it.     *)
StatusIsTrue == \A e \in Journal : e.id \in undone <=> e.status = "rolled_back"

(* Only a log-only entry is not undoable, and it has no inverse.             *)
LogOnlyHasNoInverse == \A e \in Journal : e.inverse > 0 => e.undoable

(* A leftover stands for a cut append that has not cost anything yet: the    *)
(* entry it may hold was never reported, and the next append swallows it.    *)
LossesAreTears ==
  /\ IsEntry(last) => last.id \notin returned
  /\ Cardinality(Gone) + (IF last = Nothing THEN 0 ELSE 1) <= tears

(* The inductive invariant.                                                  *)
RJ_IInv ==
  /\ RJ_TypeOK
  /\ IdsAreFresh
  /\ StatusIsTrue
  /\ LogOnlyHasNoInverse
  /\ LossesAreTears
(***************************************************************************)
(* Reading                                                                 *)
(***************************************************************************)

(* Counting the members of a set up to one of them numbers them from 1 to    *)
(* the size of the set, and Nth is the inverse of that numbering.            *)
LEMMA NthNumbers ==
  ASSUME NEW S \in SUBSET Nat, IsFiniteSet(S)
  PROVE  /\ Cardinality(S) \in Nat
         /\ \A k \in 1..Cardinality(S) : Nth(S, k) \in S
         /\ \A k \in 1..Cardinality(S) : Cardinality({j \in S : j <= Nth(S, k)}) = k
         /\ \A i \in S : \E k \in 1..Cardinality(S) : Nth(S, k) = i
<1> DEFINE Upto(i) == {j \in S : j <= i}
           rank == [i \in S |-> Cardinality(Upto(i))]
<1>1. Cardinality(S) \in Nat
  BY FS_CardinalityType
<1>2. \A i \in S : /\ IsFiniteSet(Upto(i)) /\ Cardinality(Upto(i)) \in Nat
                   /\ Cardinality(Upto(i)) <= Cardinality(S)
                   /\ Cardinality(Upto(i)) # 0
  <2> SUFFICES ASSUME NEW i \in S
               PROVE  /\ IsFiniteSet(Upto(i)) /\ Cardinality(Upto(i)) \in Nat
                      /\ Cardinality(Upto(i)) <= Cardinality(S)
                      /\ Cardinality(Upto(i)) # 0
    OBVIOUS
  <2>1. Upto(i) \in SUBSET S /\ i \in Upto(i)
    OBVIOUS
  <2> HIDE DEF Upto
  <2>2. IsFiniteSet(Upto(i)) /\ Cardinality(Upto(i)) <= Cardinality(S)
    BY <2>1, FS_Subset
  <2> QED
    BY <2>1, <2>2, FS_CardinalityType, FS_EmptySet
<1>3. \A i, j \in S : rank[i] = rank[j] => i = j
  <2> SUFFICES ASSUME NEW i \in S, NEW j \in S, i < j PROVE rank[i] # rank[j]
    OBVIOUS
  <2>1. i \in Nat /\ j \in Nat /\ i < j
    OBVIOUS
  <2>2. Upto(i) \in SUBSET Upto(j)
    <3>1. \A k \in S : k <= i => k <= j
      BY <2>1
    <3> QED
      BY <3>1
  <2>3. j \in Upto(j) /\ j \notin Upto(i)
    <3>1. j <= j /\ ~(j <= i)
      BY <2>1
    <3> QED
      BY <3>1
  <2> HIDE DEF Upto
  <2>4. Cardinality(Upto(i)) # Cardinality(Upto(j))
    BY <1>2, <2>2, <2>3, FS_Subset
  <2> QED
    BY <2>4
<1>4. rank \in [S -> 1..Cardinality(S)]
  <2> HIDE DEF Upto
  <2> QED
    BY <1>1, <1>2
<1>5. rank \in Surjection(S, 1..Cardinality(S))
  <2> HIDE DEF rank
  <2>1. rank \in Injection(S, 1..Cardinality(S))
    BY <1>3, <1>4 DEF Injection, IsInjective
  <2>2. IsFiniteSet(1..Cardinality(S)) /\ Cardinality(1..Cardinality(S)) = Cardinality(S)
    BY <1>1, FS_Interval
  <2> QED
    BY <2>1, <2>2, FS_Injection
<1>6. \A k \in 1..Cardinality(S) : Nth(S, k) \in S /\ rank[Nth(S, k)] = k
  <2> SUFFICES ASSUME NEW k \in 1..Cardinality(S)
               PROVE  Nth(S, k) \in S /\ Cardinality(Upto(Nth(S, k))) = k
    OBVIOUS
  <2>1. PICK i \in S : rank[i] = k
    BY <1>5 DEF Surjection
  <2> QED
    BY <2>1 DEF Nth
<1>7. \A k \in 1..Cardinality(S) : Cardinality(Upto(Nth(S, k))) = k
  BY <1>6
<1>8. \A i \in S : \E k \in 1..Cardinality(S) : Nth(S, k) = i
  <2> HIDE DEF rank
  <2> QED
    BY <1>3, <1>4, <1>6
<1> QED
  BY <1>1, <1>6, <1>7, <1>8

(* Among 1..n, the k-th is k.                                                *)
LEMMA NthOfInterval ==
  ASSUME NEW n \in Nat
  PROVE  Cardinality(1..n) = n /\ \A k \in 1..n : Nth(1..n, k) = k
<1>1. Cardinality(1..n) = n
  BY FS_Interval
<1>2. \A i \in 1..n : Cardinality({j \in 1..n : j <= i}) = i
  <2> SUFFICES ASSUME NEW i \in 1..n PROVE Cardinality({j \in 1..n : j <= i}) = i
    OBVIOUS
  <2>1. {j \in 1..n : j <= i} = 1..i /\ i \in Nat /\ i > 0
    OBVIOUS
  <2>2. Cardinality(1..i) = i
    BY <2>1, FS_Interval
  <2> QED
    BY <2>1, <2>2
<1> QED
  BY <1>1, <1>2 DEF Nth

(* Nth keeps the order.                                                      *)
LEMMA NthIncreases ==
  ASSUME NEW S \in SUBSET Nat, IsFiniteSet(S),
         NEW k \in 1..Cardinality(S), NEW l \in 1..Cardinality(S), k < l
  PROVE  Nth(S, k) < Nth(S, l)
<1> DEFINE Upto(i) == {j \in S : j <= i}
<1>1. /\ Nth(S, k) \in Nat /\ Nth(S, l) \in Nat
      /\ Cardinality(Upto(Nth(S, k))) = k /\ Cardinality(Upto(Nth(S, l))) = l
      /\ Cardinality(S) \in Nat
  BY NthNumbers
<1>2. ASSUME Nth(S, l) <= Nth(S, k) PROVE FALSE
  <2>1. Upto(Nth(S, l)) \in SUBSET Upto(Nth(S, k)) /\ Upto(Nth(S, k)) \in SUBSET S
    <3>1. \A j \in S : j <= Nth(S, l) => j <= Nth(S, k)
      BY <1>1, <1>2
    <3> QED
      BY <3>1
  <2> HIDE DEF Upto
  <2>2. IsFiniteSet(Upto(Nth(S, k)))
    BY <2>1, FS_Subset
  <2>3. l <= k
    BY <1>1, <2>1, <2>2, FS_Subset
  <2> QED
    BY <1>1, <2>3
<1> QED
  BY <1>1, <1>2

(* What is selected from a sequence.                                         *)
LEMMA SelectedType ==
  ASSUME NEW T, NEW s \in Seq(T), NEW S \in SUBSET DOMAIN s
  PROVE  /\ IsFiniteSet(S) /\ Cardinality(S) \in Nat /\ S \in SUBSET Nat
         /\ Selected(s, S) \in Seq(T) /\ Len(Selected(s, S)) = Cardinality(S)
         /\ DOMAIN Selected(s, S) = 1..Cardinality(S)
         /\ \A k \in 1..Cardinality(S) : Nth(S, k) \in S /\ Selected(s, S)[k] = s[Nth(S, k)]
         /\ \A i \in S : \E k \in 1..Cardinality(S) : Nth(S, k) = i
<1>1. DOMAIN s = 1..Len(s) /\ Len(s) \in Nat
  OBVIOUS
<1>2. IsFiniteSet(S) /\ S \in SUBSET Nat
  <2>1. IsFiniteSet(1..Len(s))
    BY <1>1, FS_Interval
  <2> QED
    BY <1>1, <2>1, FS_Subset
<1>3. /\ Cardinality(S) \in Nat /\ \A k \in 1..Cardinality(S) : Nth(S, k) \in S
      /\ \A i \in S : \E k \in 1..Cardinality(S) : Nth(S, k) = i
  BY <1>2, NthNumbers
<1>4. \A k \in 1..Cardinality(S) : s[Nth(S, k)] \in T
  BY <1>1, <1>3
<1> DEFINE c == Cardinality(S)
<1>5. Selected(s, S) = [k \in 1..c |-> s[Nth(S, k)]]
  BY DEF Selected
<1>6. Selected(s, S) \in [1..c -> T] /\ c \in Nat
  <2> HIDE DEF c
  <2> QED
    BY <1>3, <1>4, <1>5 DEF c
<1>7. Selected(s, S) \in Seq(T) /\ Len(Selected(s, S)) = c
  <2> HIDE DEF c
  <2> QED
    BY <1>6
<1> QED
  BY <1>2, <1>3, <1>5, <1>7

(* All of it, and what is different stays different.                         *)
LEMMA SelectedAll ==
  ASSUME NEW T, NEW s \in Seq(T)
  PROVE  Selected(s, DOMAIN s) = s
<1>1. DOMAIN s = 1..Len(s) /\ Len(s) \in Nat
  OBVIOUS
<1>2. Selected(s, 1..Len(s)) = [k \in 1..Len(s) |-> s[k]]
  <2>1. Cardinality(1..Len(s)) = Len(s) /\ \A k \in 1..Len(s) : Nth(1..Len(s), k) = k
    BY <1>1, NthOfInterval
  <2> QED
    BY <2>1 DEF Selected
<1> QED
  BY <1>1, <1>2

(* What reading meets: the terminated lines and the leftover, if any.        *)
LEMMA LinesType ==
  ASSUME RJ_TypeOK
  PROVE  /\ Lines \in Seq(Line)
         /\ DOMAIN Lines = 1..Len(Lines)
         /\ Journal = EntriesOf(Lines)
         /\ EntriesOf(file) \subseteq Entry
<1>1. file \in Seq(Line)
  BY DEF RJ_TypeOK, Line
<1>2. CASE last = Nothing
  BY <1>1, <1>2 DEF Lines, Journal, EntriesOf, IsEntry, Nothing, Line, Junk, Broken
<1>3. CASE last # Nothing
  <2>1. Lines = Append(file, last) /\ last \in Line
    BY <1>3 DEF Lines, RJ_TypeOK, Line
  <2> QED
    BY <1>1, <2>1, AppendProperties DEF Journal, EntriesOf, IsEntry, Line, Junk, Broken
<1> QED
  BY <1>2, <1>3

(* _read_all returns the journal's entries, all of them and nothing else.    *)
LEMMA ReadAllIsJournal ==
  ASSUME RJ_TypeOK
  PROVE  /\ Len(ReadAll) \in Nat /\ DOMAIN ReadAll = 1..Len(ReadAll)
         /\ \A k \in DOMAIN ReadAll : ReadAll[k] \in Journal
         /\ \A e \in Journal : \E k \in DOMAIN ReadAll : ReadAll[k] = e
         /\ Journal \subseteq Entry
<1>1. Parsed \in SUBSET Nat /\ IsFiniteSet(Parsed)
  <2>1. Parsed \in SUBSET (1..Len(Lines)) /\ Len(Lines) \in Nat
    BY LinesType DEF Parsed
  <2>2. IsFiniteSet(1..Len(Lines))
    BY <2>1, FS_Interval
  <2>3. IsFiniteSet(Parsed)
    BY <2>1, <2>2, FS_Subset
  <2> QED
    BY <2>1, <2>3
<1>2. Journal = {Lines[i] : i \in Parsed}
  BY LinesType DEF Parsed, EntriesOf
<1>3. Journal \subseteq Entry
  BY LinesType DEF Journal, RJ_TypeOK, IsEntry, Junk, Broken, Nothing
<1>4. /\ DOMAIN ReadAll = 1..Cardinality(Parsed)
      /\ \A k \in 1..Cardinality(Parsed) : ReadAll[k] = Lines[Nth(Parsed, k)]
      /\ Len(ReadAll) = Cardinality(Parsed)
  BY <1>1, NthNumbers DEF ReadAll, Selected
<1>5. /\ Cardinality(Parsed) \in Nat
      /\ \A k \in 1..Cardinality(Parsed) : Nth(Parsed, k) \in Parsed
      /\ \A i \in Parsed : \E k \in 1..Cardinality(Parsed) : Nth(Parsed, k) = i
  BY <1>1, NthNumbers
<1>6. \A k \in DOMAIN ReadAll : ReadAll[k] \in Journal
  BY <1>2, <1>4, <1>5
<1>7. ASSUME NEW e \in Journal PROVE \E k \in DOMAIN ReadAll : ReadAll[k] = e
  <2>1. PICK i \in Parsed : e = Lines[i]
    BY <1>2
  <2>2. PICK k \in 1..Cardinality(Parsed) : Nth(Parsed, k) = i
    BY <1>5
  <2> QED
    BY <1>4, <2>1, <2>2
<1> QED
  BY <1>3, <1>4, <1>5, <1>6, <1>7
(***************************************************************************)
(* Writing                                                                 *)
(***************************************************************************)

(* The entries of a line more.                                               *)
LEMMA AppendEntries ==
  ASSUME NEW lines \in Seq(Line), NEW line \in Line
  PROVE  /\ Append(lines, line) \in Seq(Line)
         /\ EntriesOf(Append(lines, line)) = EntriesOf(lines) \union {e \in {line} : IsEntry(e)}
BY AppendProperties DEF EntriesOf

(* The entry that a call offers.                                             *)
LEMMA NewEntryType ==
  ASSUME RJ_TypeOK, calls < MaxRecords, NEW o \in Offers
  PROVE  LET entry == NewEntry(o.n, o.undo, o.undoable)
         IN /\ entry \in Entry /\ IsEntry(entry)
            /\ entry.id = calls + 1 /\ entry.status = "active"
            /\ entry.inverse > 0 => entry.undoable
<1> DEFINE entry == NewEntry(o.n, o.undo, o.undoable)
<1>1. /\ o.n \in Nat /\ o.undo \in BOOLEAN /\ o.undoable \in BOOLEAN
      /\ o.n > 0 => o.undoable
  <2>1. CASE o \in [n : InverseSizes, undo : BOOLEAN, undoable : {TRUE}]
    BY <2>1, JournalAssumption DEF JournalAssumption
  <2>2. CASE o = [n |-> 0, undo |-> FALSE, undoable |-> FALSE]
    BY <2>2
  <2> QED
    BY <2>1, <2>2 DEF Offers
<1>2. calls + 1 \in RJ_Ids
  BY JournalAssumption DEF JournalAssumption, RJ_TypeOK, RJ_Ids
<1>3. /\ (IF o.n <= MaxInverse THEN o.n ELSE MaxInverse) \in Nat
      /\ (IF o.n <= MaxInverse THEN o.n ELSE MaxInverse) > 0 => o.n > 0
  BY <1>1, JournalAssumption DEF JournalAssumption
<1>4. entry \in Entry
  BY <1>1, <1>2, <1>3 DEF NewEntry, Entry
<1> QED
  BY <1>1, <1>3, <1>4 DEF NewEntry, IsEntry

(* Text written behind a leftover is lost with it.                           *)
LEMMA MergeLoses ==
  ASSUME NEW rest, NEW text
  PROVE  /\ rest = Nothing => Merge(rest, text) = text
         /\ rest # Nothing => Merge(rest, text) \in {Junk, Broken}
         /\ Nothing \notin {Junk, Broken} /\ ~IsEntry(Nothing)
         /\ ~IsEntry(Junk) /\ ~IsEntry(Broken)
         /\ \A e \in Entry : e # Nothing /\ e # Junk /\ e # Broken
BY DEF Merge, IsEntry, Nothing, Junk, Broken, Entry

(* How one call changes the invariant's subjects when the journal can only   *)
(* win the entry of that call and lose the leftover.                         *)
LEMMA GrowthKeepsIInv ==
  ASSUME RJ_IInv, RJ_TypeOK', calls' = calls + 1, UNCHANGED undone,
         NEW entry \in Entry, entry.id = calls + 1, entry.status = "active",
         entry.inverse > 0 => entry.undoable,
         Journal' \subseteq Journal \union {entry}
  PROVE  /\ (\A e \in Journal' : e.id <= calls') /\ (\A e, f \in Journal' : e.id = f.id => e = f)
         /\ (\A id \in undone' : id <= calls')
         /\ StatusIsTrue' /\ LogOnlyHasNoInverse'
<1>1. calls \in Nat /\ calls + 1 \notin undone
  BY JournalAssumption DEF RJ_IInv, IdsAreFresh, RJ_TypeOK, JournalAssumption
<1>2. \A e \in Journal : e.id \in Nat /\ e.id <= calls /\ e.id # calls + 1
  BY <1>1, ReadAllIsJournal DEF RJ_IInv, IdsAreFresh, Entry, RJ_Ids
<1>3. (\A e \in Journal' : e.id <= calls') /\ (\A e, f \in Journal' : e.id = f.id => e = f)
  BY <1>1, <1>2 DEF RJ_IInv, IdsAreFresh
<1>4. \A id \in undone' : id <= calls'
  BY <1>1 DEF RJ_IInv, IdsAreFresh, RJ_TypeOK, RJ_Ids
<1>5. StatusIsTrue'
  BY <1>1 DEF RJ_IInv, StatusIsTrue
<1>6. LogOnlyHasNoInverse'
  BY DEF RJ_IInv, LogOnlyHasNoInverse
<1> QED
  BY <1>3, <1>4, <1>5, <1>6

(* Only ids that were handed out can get lost.                               *)
LEMMA GoneIsFinite ==
  ASSUME RJ_TypeOK
  PROVE  IsFiniteSet(Gone) /\ Cardinality(Gone) \in Nat
<1>1. Gone \subseteq RJ_Ids
  BY DEF Gone, RJ_TypeOK
<1>2. IsFiniteSet(RJ_Ids)
  BY JournalAssumption, FS_Interval DEF RJ_Ids, JournalAssumption
<1> QED
  BY <1>1, <1>2, FS_Subset, FS_CardinalityType

(* At first there is no file.                                                *)
LEMMA RJ_InitIInv ==
  RJ_Init => RJ_IInv
<1> SUFFICES ASSUME RJ_Init PROVE RJ_IInv
  OBVIOUS
<1>1. Journal = {} /\ Gone = {}
  BY DEF RJ_Init, Journal, Gone, EntriesOf, IsEntry, Nothing
<1>2. RJ_TypeOK
  BY JournalAssumption DEF RJ_Init, RJ_TypeOK, JournalAssumption
<1>3. LossesAreTears
  BY <1>1, FS_EmptySet DEF RJ_Init, LossesAreTears, IsEntry, Nothing
<1> QED
  BY <1>1, <1>2, <1>3 DEF RJ_Init, RJ_IInv, IdsAreFresh, StatusIsTrue, LogOnlyHasNoInverse

(* A call with nothing to keep only counts.                                  *)
LEMMA RecordNothingKeepsIInv ==
  ASSUME RJ_IInv, NEW o \in Offers, RecordNothing(o.n, o.undoable)
  PROVE  RJ_IInv'
<1>1. UNCHANGED <<file, last, returned, undone, tears>> /\ calls' = calls + 1 /\ calls < MaxRecords
  BY DEF RecordNothing
<1>2. RJ_TypeOK'
  BY <1>1, JournalAssumption DEF RJ_IInv, RJ_TypeOK, JournalAssumption
<1>3. Journal' = Journal /\ Gone' = Gone
  BY <1>1 DEF Journal, Gone
<1>4. IdsAreFresh'
  <2>1. calls \in Nat /\ (\A e \in Journal : e.id \in Nat) /\ returned \union undone \subseteq Nat
    BY ReadAllIsJournal DEF RJ_IInv, RJ_TypeOK, RJ_Ids, Entry
  <2> QED
    BY <1>1, <1>3, <2>1 DEF RJ_IInv, IdsAreFresh
<1>5. StatusIsTrue' /\ LogOnlyHasNoInverse' /\ LossesAreTears'
  BY <1>1, <1>3 DEF RJ_IInv, StatusIsTrue, LogOnlyHasNoInverse, LossesAreTears
<1> QED
  BY <1>2, <1>4, <1>5 DEF RJ_IInv

(* The append of a line, with the leftover before it if there is one.        *)
LEMMA RecordKeepsIInv ==
  ASSUME RJ_IInv, NEW o \in Offers, Record(o.n, o.undo, o.undoable)
  PROVE  RJ_IInv'
<1> DEFINE entry == NewEntry(o.n, o.undo, o.undoable)
<1>1. /\ calls < MaxRecords /\ calls' = calls + 1
      /\ file' = Append(file, Merge(last, entry)) /\ last' = Nothing
      /\ returned' = returned \union {entry.id}
      /\ UNCHANGED <<undone, tears>>
  BY DEF Record
<1>2. /\ entry \in Entry /\ IsEntry(entry) /\ entry.id = calls + 1 /\ entry.status = "active"
      /\ entry.inverse > 0 => entry.undoable
  BY <1>1, NewEntryType DEF RJ_IInv
<1> HIDE DEF entry
<1>3. file \in Seq(Line) /\ Merge(last, entry) \in Line
  BY <1>2, MergeLoses DEF RJ_IInv, RJ_TypeOK, Line
<1>4. RJ_TypeOK'
  <2>1. file' \in Seq(Entry \union {Junk, Broken})
    BY <1>1, <1>3, AppendEntries DEF Line
  <2> QED
    BY <1>1, <1>2, <2>1, JournalAssumption DEF RJ_IInv, RJ_TypeOK, JournalAssumption, RJ_Ids
<1>5. Journal' = EntriesOf(file) \union {e \in {Merge(last, entry)} : IsEntry(e)}
  BY <1>1, <1>3, AppendEntries, MergeLoses DEF Journal
<1>6. /\ Journal' \subseteq Journal \union {entry}
      /\ last = Nothing => Journal' = Journal \union {entry}
      /\ last # Nothing => Journal' = EntriesOf(file)
  BY <1>2, <1>5, MergeLoses DEF Journal
<1>7. calls \in Nat /\ IsFiniteSet(Gone) /\ Cardinality(Gone) \in Nat /\ calls + 1 \notin Gone
  <2>1. calls \in Nat
    BY JournalAssumption DEF RJ_IInv, RJ_TypeOK, JournalAssumption
  <2>2. \A id \in returned : id # calls + 1
    BY <2>1 DEF RJ_IInv, IdsAreFresh
  <2> QED
    BY <2>1, <2>2, GoneIsFinite DEF Gone, RJ_IInv
<1>8. /\ \A e \in Journal' : e.id <= calls'
      /\ \A e, f \in Journal' : e.id = f.id => e = f
      /\ \A id \in undone' : id <= calls'
      /\ StatusIsTrue' /\ LogOnlyHasNoInverse'
  BY <1>1, <1>2, <1>4, <1>6, GrowthKeepsIInv
<1>9. \A id \in returned' : id <= calls'
  BY <1>1, <1>2, <1>7 DEF RJ_IInv, IdsAreFresh, RJ_TypeOK, RJ_Ids
<1>10. LossesAreTears'
  <2>1. ~IsEntry(last') /\ last' = Nothing
    BY <1>1, MergeLoses
  <2>2. CASE last = Nothing
    <3>1. \A id \in returned : id # entry.id
      BY <1>2, <1>7 DEF RJ_IInv, IdsAreFresh
    <3>2. Gone' = Gone
      BY <1>1, <1>6, <2>2, <3>1 DEF Gone
    <3> QED
      BY <1>1, <2>1, <2>2, <3>2 DEF RJ_IInv, LossesAreTears
  <2>3. CASE last # Nothing
    <3>1. Gone' \subseteq Gone \union {calls + 1}
      BY <1>1, <1>2, <1>6, <2>3 DEF Gone, Journal, RJ_IInv, LossesAreTears
    <3>2. /\ IsFiniteSet(Gone \union {calls + 1})
          /\ Cardinality(Gone \union {calls + 1}) = Cardinality(Gone) + 1
      BY <1>7, FS_AddElement
    <3>3. IsFiniteSet(Gone') /\ Cardinality(Gone') <= Cardinality(Gone) + 1
      BY <3>1, <3>2, FS_Subset
    <3>4. Cardinality(Gone') \in Nat
      BY <3>3, FS_CardinalityType
    <3>5. Cardinality(Gone) + 1 <= tears /\ tears \in Nat
      BY <2>3, JournalAssumption DEF RJ_IInv, LossesAreTears, RJ_TypeOK, JournalAssumption
    <3> QED
      BY <1>1, <1>7, <2>1, <3>3, <3>4, <3>5 DEF LossesAreTears
  <2> QED
    BY <2>2, <2>3
<1> QED
  BY <1>4, <1>8, <1>9, <1>10 DEF RJ_IInv, IdsAreFresh

(* An append cut short leaves nothing that was reported, and one leftover.   *)
LEMMA RecordCutKeepsIInv ==
  ASSUME RJ_IInv, NEW o \in Offers, RecordCut(o.n, o.undo, o.undoable)
  PROVE  RJ_IInv'
<1> DEFINE entry == NewEntry(o.n, o.undo, o.undoable)
<1>1. /\ calls < MaxRecords /\ calls' = calls + 1
      /\ tears < MaxTears /\ tears' = tears + 1
      /\ UNCHANGED <<returned, undone>>
      /\ \/ \E piece \in Cuts(entry) :
              /\ last' = IF piece = Nothing THEN last ELSE Merge(last, piece)
              /\ file' = file
         \/ file' = Append(file, Merge(last, entry)) /\ last' = Nothing
  BY DEF RecordCut
<1>2. /\ entry \in Entry /\ IsEntry(entry) /\ entry.id = calls + 1 /\ entry.status = "active"
      /\ entry.inverse > 0 => entry.undoable
  BY <1>1, NewEntryType DEF RJ_IInv
<1> HIDE DEF entry
<1>3. calls \in Nat /\ \A id \in returned : id # calls + 1
  BY JournalAssumption DEF RJ_IInv, IdsAreFresh, RJ_TypeOK, JournalAssumption
<1> DEFINE Harmless ==
             /\ file' \in Seq(Line) /\ last' \in Entry \union {Nothing, Junk, Broken}
             /\ Journal' \subseteq Journal \union {entry}
             /\ \A e \in Journal : e \in Journal' \/ e = last
             /\ IsEntry(last') => last' \in {last, entry}
<1>4. Harmless
  <2>1. file \in Seq(Line) /\ last \in Entry \union {Nothing, Junk, Broken}
    BY DEF RJ_IInv, RJ_TypeOK, Line
  <2>2. ASSUME NEW piece \in Cuts(entry),
               last' = IF piece = Nothing THEN last ELSE Merge(last, piece), file' = file
        PROVE  Harmless
    <3>1. last' \in {last, entry, Junk, Broken}
      BY <2>2, MergeLoses DEF Cuts
    <3>2. last = Nothing \/ last' = last \/ last' \in {Junk, Broken}
      BY <2>2, MergeLoses DEF Cuts
    <3> QED
      BY <1>2, <2>1, <2>2, <3>1, <3>2, MergeLoses DEF Journal
  <2>3. ASSUME file' = Append(file, Merge(last, entry)), last' = Nothing
        PROVE  Harmless
    <3>1. Merge(last, entry) \in Line
      BY <1>2, MergeLoses DEF Line
    <3>2. /\ file' \in Seq(Line)
          /\ EntriesOf(file') = EntriesOf(file) \union {e \in {Merge(last, entry)} : IsEntry(e)}
      BY <2>1, <2>3, <3>1, AppendEntries
    <3> QED
      BY <1>2, <2>3, <3>2, MergeLoses DEF Journal
  <2> QED
    BY <1>1, <2>2, <2>3
<1>5. RJ_TypeOK'
  BY <1>1, <1>4, JournalAssumption DEF RJ_IInv, RJ_TypeOK, JournalAssumption, Line
<1>6. /\ \A e \in Journal' : e.id <= calls'
      /\ \A e, f \in Journal' : e.id = f.id => e = f
      /\ \A id \in undone' : id <= calls'
      /\ StatusIsTrue' /\ LogOnlyHasNoInverse'
  BY <1>1, <1>2, <1>4, <1>5, GrowthKeepsIInv
<1>7. \A id \in returned' : id <= calls'
  BY <1>1, <1>3 DEF RJ_IInv, IdsAreFresh, RJ_TypeOK, RJ_Ids
<1>8. LossesAreTears'
  <2>1. Gone' \subseteq Gone
    <3>1. \A e \in Journal : IsEntry(e)
      BY DEF Journal, EntriesOf
    <3>2. \A e \in Journal : e.id \in returned => e # last
      BY <3>1 DEF RJ_IInv, LossesAreTears
    <3> QED
      BY <1>1, <1>4, <3>2 DEF Gone
  <2>2. /\ Cardinality(Gone) \in Nat /\ Cardinality(Gone') \in Nat
        /\ Cardinality(Gone') <= Cardinality(Gone)
    BY <2>1, GoneIsFinite, FS_Subset, FS_CardinalityType DEF RJ_IInv
  <2>3. Cardinality(Gone) <= tears /\ tears \in Nat
    BY <2>2, JournalAssumption DEF RJ_IInv, LossesAreTears, RJ_TypeOK, JournalAssumption
  <2>4. IsEntry(last') => last'.id \notin returned'
    BY <1>1, <1>2, <1>3, <1>4 DEF RJ_IInv, LossesAreTears
  <2> QED
    BY <1>1, <2>2, <2>3, <2>4 DEF LossesAreTears
<1> QED
  BY <1>5, <1>6, <1>7, <1>8 DEF RJ_IInv, IdsAreFresh

(* A rewrite holds every entry that was read, one of them flipped.           *)
LEMMA RewriteKeepsEntries ==
  ASSUME RJ_TypeOK, NEW id \in RJ_Ids, MarkRolledBack(id)
  PROVE  /\ RJ_TypeOK'
         /\ Journal' = {Flip(e, id) : e \in Journal}
         /\ ReadAll' = [k \in DOMAIN ReadAll |-> Flip(ReadAll[k], id)]
<1>1. /\ file' = [k \in DOMAIN ReadAll |-> Flip(ReadAll[k], id)] /\ last' = Nothing
      /\ undone' = undone \union {id}
      /\ UNCHANGED <<calls, returned, tears>>
  BY DEF MarkRolledBack
<1>2. \A e \in Entry : Flip(e, id) \in Entry /\ IsEntry(Flip(e, id))
  BY DEF Flip, Entry, IsEntry
<1>3. /\ DOMAIN ReadAll = 1..Len(ReadAll) /\ Len(ReadAll) \in Nat
      /\ \A k \in DOMAIN ReadAll : ReadAll[k] \in Entry
  BY ReadAllIsJournal
<1>4. /\ file' \in [1..Len(ReadAll) -> Entry] /\ DOMAIN file' = 1..Len(ReadAll)
      /\ \A k \in 1..Len(ReadAll) : IsEntry(file'[k])
  BY <1>1, <1>2, <1>3
<1>5. file' \in Seq(Entry \union {Junk, Broken})
  BY <1>3, <1>4
<1>6. RJ_TypeOK'
  BY <1>1, <1>5 DEF RJ_TypeOK
<1>7. Journal' = {Flip(e, id) : e \in Journal}
  <2>1. Journal' = EntriesOf(file')
    BY <1>1, MergeLoses DEF Journal
  <2>2. EntriesOf(file') = {file'[k] : k \in DOMAIN ReadAll}
    BY <1>3, <1>4 DEF EntriesOf
  <2> QED
    BY <1>1, <2>1, <2>2, ReadAllIsJournal
<1>8. ReadAll' = file'
  <2>1. Lines' = file'
    BY <1>1 DEF Lines
  <2>2. Parsed' = 1..Len(ReadAll)
    BY <1>4, <2>1 DEF Parsed
  <2>3. ReadAll' = [k \in 1..Cardinality(1..Len(ReadAll)) |-> file'[Nth(1..Len(ReadAll), k)]]
    BY <2>1, <2>2 DEF ReadAll, Selected
  <2>4. ReadAll' = [k \in 1..Len(ReadAll) |-> file'[k]]
    BY <1>3, <2>3, NthOfInterval
  <2> QED
    BY <1>4, <2>4
<1> QED
  BY <1>1, <1>6, <1>7, <1>8

LEMMA MarkKeepsIInv ==
  ASSUME RJ_IInv, NEW id \in RJ_Ids, MarkRolledBack(id)
  PROVE  RJ_IInv'
<1>1. /\ RJ_TypeOK' /\ Journal' = {Flip(e, id) : e \in Journal}
  BY RewriteKeepsEntries DEF RJ_IInv
<1>2. last' = Nothing /\ undone' = undone \union {id} /\ UNCHANGED <<calls, returned, tears>>
  BY DEF MarkRolledBack
<1>3. \A e \in Journal : e \in Entry
  BY ReadAllIsJournal DEF RJ_IInv
<1>4. \A e \in Journal :
        /\ Flip(e, id).id = e.id /\ Flip(e, id).inverse = e.inverse
        /\ Flip(e, id).undoable = e.undoable
        /\ Flip(e, id).status = IF e.id = id THEN "rolled_back" ELSE e.status
  BY <1>3 DEF Flip, Entry
<1>5. \E e \in Journal : e.id = id
  BY ReadAllIsJournal DEF RJ_IInv, MarkRolledBack
<1>6. IdsAreFresh'
  BY <1>1, <1>2, <1>4, <1>5 DEF RJ_IInv, IdsAreFresh
<1>7. StatusIsTrue'
  BY <1>1, <1>2, <1>4 DEF RJ_IInv, StatusIsTrue
<1>8. LogOnlyHasNoInverse'
  BY <1>1, <1>4 DEF RJ_IInv, LogOnlyHasNoInverse
<1>9. LossesAreTears'
  <2>1. Gone' = Gone
    BY <1>1, <1>2, <1>4 DEF Gone
  <2>2. Cardinality(Gone) <= tears
    BY GoneIsFinite, JournalAssumption DEF RJ_IInv, LossesAreTears, RJ_TypeOK, JournalAssumption
  <2> QED
    BY <1>2, <2>1, <2>2, GoneIsFinite, MergeLoses DEF RJ_IInv, LossesAreTears
<1> QED
  BY <1>1, <1>6, <1>7, <1>8, <1>9 DEF RJ_IInv

LEMMA RJ_NextIInv ==
  RJ_IInv /\ [RJ_Next]_RJ_vars => RJ_IInv'
<1> SUFFICES ASSUME RJ_IInv, [RJ_Next]_RJ_vars PROVE RJ_IInv'
  OBVIOUS
<1>1. CASE UNCHANGED RJ_vars
  BY <1>1 DEF RJ_vars, RJ_IInv, RJ_TypeOK, IdsAreFresh, StatusIsTrue, LogOnlyHasNoInverse,
              LossesAreTears, Journal, Gone
<1>2. ASSUME NEW o \in Offers, RecordNothing(o.n, o.undoable) PROVE RJ_IInv'
  BY <1>2, RecordNothingKeepsIInv
<1>3. ASSUME NEW o \in Offers, Record(o.n, o.undo, o.undoable) PROVE RJ_IInv'
  BY <1>3, RecordKeepsIInv
<1>4. ASSUME NEW o \in Offers, RecordCut(o.n, o.undo, o.undoable) PROVE RJ_IInv'
  BY <1>4, RecordCutKeepsIInv
<1>5. ASSUME NEW id \in RJ_Ids, MarkRolledBack(id) PROVE RJ_IInv'
  BY <1>5, MarkKeepsIInv
<1> QED
  BY <1>1, <1>2, <1>3, <1>4, <1>5 DEF RJ_Next

(***************************************************************************)
(* Theorems                                                                *)
(***************************************************************************)

(* No state the journal reaches breaks the inductive invariant.              *)
THEOREM RJ_Invariance == RJ_Spec => []RJ_IInv
BY RJ_InitIInv, RJ_NextIInv, PTL DEF RJ_Spec

(* An entry for which mark_rolled_back was called never again shows as       *)
(* active, and no other entry shows as undone.                               *)
THEOREM UndoIsRemembered == RJ_Spec => []UndoneStaysUndone
<1>1. RJ_IInv => UndoneStaysUndone
  BY ReadAllIsJournal DEF RJ_IInv, StatusIsTrue, UndoneStaysUndone
<1> QED
  BY <1>1, RJ_Invariance, PTL

(* A cut append costs at most one entry whose id a run was given.            *)
THEOREM DamageIsBounded == RJ_Spec => []DamageBounded
<1>1. ASSUME RJ_IInv, Readable PROVE Cardinality({id \in returned : ~Found(id)}) <= tears
  <2>1. {id \in returned : ~Found(id)} = Gone
    BY <1>1, ReadAllIsJournal DEF Gone, Found, RJ_IInv
  <2>2. Cardinality(Gone) \in Nat /\ tears \in Nat
    BY <1>1, GoneIsFinite, JournalAssumption DEF RJ_IInv, RJ_TypeOK, JournalAssumption
  <2>3. Cardinality(Gone) <= tears
    BY <1>1, <2>2 DEF RJ_IInv, LossesAreTears
  <2> QED
    BY <2>1, <2>3
<1>2. RJ_IInv => DamageBounded
  BY <1>1 DEF DamageBounded
<1> QED
  BY <1>2, RJ_Invariance, PTL

(* The undo button is shown exactly on the listed entries whose undo would   *)
(* be accepted: no two entries share an id, and only an entry without an     *)
(* inverse is not undoable.                                                  *)
THEOREM ButtonHolds == RJ_Spec => []ButtonIsHonest
<1>1. ASSUME RJ_IInv, Readable, NEW i \in DOMAIN History
      PROVE  History[i].can_rollback <=> UndoAccepted(History[i].id)
  <2> DEFINE Listed == {j \in DOMAIN ReadAll : ~ReadAll[j].undo}
             k == Nth(Listed, Cardinality(Listed) + 1 - i)
  <2>1. DOMAIN ReadAll = 1..Len(ReadAll) /\ Len(ReadAll) \in Nat
    BY <1>1, ReadAllIsJournal DEF RJ_IInv
  <2>2. Listed \in SUBSET Nat /\ IsFiniteSet(Listed)
    <3>1. Listed \in SUBSET (1..Len(ReadAll)) /\ IsFiniteSet(1..Len(ReadAll))
      BY <2>1, FS_Interval
    <3> QED
      BY <3>1, FS_Subset
  <2>3. i \in 1..Cardinality(Listed)
    BY DEF History
  <2>4. k \in Listed
    BY <2>2, <2>3, NthNumbers
  <2>5. ReadAll[k] \in Journal
    BY <1>1, <2>4, ReadAllIsJournal DEF RJ_IInv
  <2>6. /\ History[i].id = ReadAll[k].id
        /\ History[i].can_rollback = CanRollback(ReadAll[k])
    BY <2>3 DEF History
  <2> HIDE DEF k, Listed
  <2>7. UndoAccepted(ReadAll[k].id) <=>
          \E e \in Journal : e.id = ReadAll[k].id /\ e.status = "active" /\ e.inverse > 0
    BY <1>1, ReadAllIsJournal DEF UndoAccepted, RJ_IInv
  <2> QED
    BY <1>1, <2>5, <2>6, <2>7 DEF CanRollback, RJ_IInv, IdsAreFresh, LogOnlyHasNoInverse
<1>2. RJ_IInv => ButtonIsHonest
  BY <1>1 DEF ButtonIsHonest
<1> QED
  BY <1>2, RJ_Invariance, PTL

(* A rewrite for one entry keeps every other entry, and their order.         *)
THEOREM RewriteLosesNothing == RJ_Spec => MarkKeepsEntries
<1>1. ASSUME RJ_TypeOK, [RJ_Next]_RJ_vars, undone' # undone
      PROVE  /\ Len(ReadAll') = Len(ReadAll)
             /\ \A i \in DOMAIN ReadAll : ReadAll'[i].id = ReadAll[i].id
  <2>1. PICK id \in RJ_Ids : MarkRolledBack(id)
    BY <1>1 DEF RJ_Next, RJ_vars, RecordNothing, Record, RecordCut
  <2>2. ReadAll' = [k \in DOMAIN ReadAll |-> Flip(ReadAll[k], id)]
    BY <1>1, <2>1, RewriteKeepsEntries
  <2>3. /\ DOMAIN ReadAll = 1..Len(ReadAll) /\ Len(ReadAll) \in Nat
        /\ \A k \in DOMAIN ReadAll : ReadAll[k] \in Entry
    BY <1>1, ReadAllIsJournal
  <2>4. \A e \in Entry : Flip(e, id).id = e.id
    BY DEF Flip, Entry
  <2> QED
    BY <2>2, <2>3, <2>4
<1>2. RJ_IInv /\ [RJ_Next]_RJ_vars =>
        [undone' # undone =>
           /\ Len(ReadAll') = Len(ReadAll)
           /\ \A i \in DOMAIN ReadAll : ReadAll'[i].id = ReadAll[i].id]_RJ_vars
  BY <1>1 DEF RJ_IInv
<1> QED
  BY <1>2, RJ_Invariance, PTL DEF MarkKeepsEntries, RJ_Spec

(***************************************************************************)
(* The audit of the screen chain                                           *)
(***************************************************************************)

SA_Phases == {"idle", "itss", "mappings", "schemes", "screens", "verify", "mine", "cache",
              "scan", "cache_put", "probe", "verdicts"}

(* Which parts of the index the audit has behind it; once there are verdicts  *)
(* it has all of them.                                                       *)
AfterItss == phase \notin {"idle", "itss"} \/ verdicts # Empty
AfterMappings == AfterItss /\ phase # "mappings"
AfterSchemes == AfterMappings /\ phase # "schemes"
AfterScreens == AfterSchemes /\ phase # "screens"
AfterMine == AfterScreens /\ phase \notin {"verify", "mine"}
AfterScan == AfterMine /\ phase \notin {"cache", "scan"}
AfterProbe == AfterScan /\ phase \notin {"cache_put", "probe"}

(* What any scan may be relied on for, however old: its rows are workflows as *)
(* they were then, all of them if it says that it is complete.               *)
ScanTrue(s) ==
  /\ DOMAIN s.of \subseteq Workflows /\ s.of \in [DOMAIN s.of -> Workflow]
  /\ DOMAIN s.rows \subseteq DOMAIN s.of /\ \A w \in DOMAIN s.rows : s.rows[w] = s.of[w]
  /\ s.complete \in BOOLEAN /\ (s.complete => DOMAIN s.rows = DOMAIN s.of)
  /\ s.active = Unknown \/ s.active = {w \in DOMAIN s.of : s.of[w].users # {}}

(* The index is a record with these fields. *)
IndexShaped ==
  /\ index = [itss |-> index.itss, cut |-> index.cut, maps |-> index.maps,
              schemes |-> index.schemes, screens |-> index.screens, mine |-> index.mine,
              scan |-> index.scan, minesComplete |-> index.minesComplete,
              complete |-> index.complete, mappingsComplete |-> index.mappingsComplete]
  /\ index.minesComplete \in BOOLEAN /\ index.complete \in BOOLEAN
  /\ index.mappingsComplete \in BOOLEAN

SA_Typed ==
  /\ assigned \in [Projects -> Itsses] /\ mapped \in [Itsses -> SUBSET Schemes]
  /\ shows \in [Schemes -> Screens]
  /\ DOMAIN flows \subseteq Workflows /\ flows \in [DOMAIN flows -> Workflow]
  /\ phase \in SA_Phases /\ cap \in Nat /\ gaps \in 0..MaxGaps /\ moved \in BOOLEAN
  /\ cache = {} \/ \E s : cache = {s}
  /\ IndexShaped
  /\ phase # "idle" => verdicts = Empty

(* The kept scan and that of the index are true ones; if nothing changed     *)
(* since the audit began, the one of the index is of the workflows there are, *)
(* or of others of the same number.                                          *)
ScansTrue ==
  /\ ScanTrue(index.scan) /\ \A s \in cache : ScanTrue(s)
  /\ mode = "no workflows" =>
       index.scan = NoScan /\ phase \notin {"mine", "cache", "scan", "cache_put"}
  /\ (AfterScan /\ ~moved /\ mode # "no workflows") =>
       index.scan.of = flows \/ index.scan.total = {Cardinality(DOMAIN flows)}
(* The users found are users, all of them where the page was not cut, and    *)
(* nothing is missing while the index still says that it is complete.        *)
ItssTrue ==
  /\ DOMAIN index.itss \subseteq Itsses /\ index.cut \subseteq DOMAIN index.itss
  /\ \A i \in DOMAIN index.itss :
       index.itss[i] \subseteq UsersOf(i) /\ (i \notin index.cut => index.itss[i] = UsersOf(i))
  /\ (AfterItss /\ index.complete) => DOMAIN index.itss = Itsses
(* The same of the mappings of screen schemes ... *)
MapsTrue ==
  /\ phase = "itss" => index.maps = {}
  /\ index.maps \subseteq (DOMAIN index.itss) \X Schemes
  /\ \A i \in DOMAIN index.itss, s \in Schemes : <<i, s>> \in index.maps => s \in mapped[i]
  /\ (AfterMappings /\ index.complete) =>
       \A i \in DOMAIN index.itss : \A s \in mapped[i] : <<i, s>> \in index.maps
(* ... and of the screen schemes, where rows can go missing unnoticed: what   *)
(* is referred to was found, when the probe did not complain.                *)
SchemesTrue ==
  /\ DOMAIN index.schemes \subseteq Schemes
  /\ \A s \in DOMAIN index.schemes : index.schemes[s] = shows[s]
  /\ (AfterProbe /\ index.complete) => Referred \subseteq DOMAIN index.schemes
(* The list of the target's workflows, if it was read to its end. *)
MineTrue ==
  (AfterMine /\ ~moved /\ mode # "no workflows" /\ index.minesComplete) =>
    index.mine = {w \in DOMAIN flows : Target \in flows[w].users}
(* As long as no gap ever happened everything is there, and the index is     *)
(* complete unless the scan stopped at its cap.                              *)
NothingMissed ==
  gaps = 0 =>
    /\ index.cut = {}
    /\ AfterItss => DOMAIN index.itss = Itsses
    /\ AfterMappings =>
         index.mappingsComplete
         /\ \A i \in DOMAIN index.itss : \A s \in mapped[i] : <<i, s>> \in index.maps
    /\ AfterSchemes => DOMAIN index.schemes = Schemes
    /\ AfterScreens => index.screens = Screens
    /\ \/ index.complete
       \/ phase \in {"cache_put", "probe", "verdicts", "idle"} /\ ~index.scan.complete
(* The verdicts follow from the index that is still there. *)
Computed == phase = "idle" => verdicts = Empty \/ verdicts = Verdicts
(* The inductive invariant.  VerdictsExact alone is not: it speaks of the    *)
(* verdicts only, which follow from the index, whose parts are collected one  *)
(* phase after another and from a scan that may be an older audit's.         *)
SA_IInv ==
  /\ SA_Typed /\ ScansTrue /\ ItssTrue /\ MapsTrue /\ SchemesTrue /\ MineTrue
  /\ NothingMissed /\ Computed

(* A phase that cost no gap missed nothing. *)
LEMMA GapCounted ==
  ASSUME NEW S, NEW lost \in SUBSET S, IsFiniteSet(S), gaps \in 0..MaxGaps, Misses(lost)
  PROVE  gaps' \in 0..MaxGaps /\ (gaps' = 0 => gaps = 0 /\ lost = {})
<1>1. IsFiniteSet(lost)
  BY FS_Subset
<1>2. Cardinality(lost) \in Nat /\ (Cardinality(lost) = 0 <=> lost = {})
  BY <1>1, FS_CardinalityType, FS_EmptySet
<1>3. MaxGaps \in Nat
  BY ShareAnalysisAssumption
<1>. QED  BY <1>2, <1>3 DEF Misses

LEMMA SA_InitIInv == SA_Init => SA_IInv
<1>. SUFFICES ASSUME SA_Init PROVE SA_IInv
  OBVIOUS
<1>. USE DEF SA_Init
<1>1. verdicts = Empty /\ phase = "idle" /\ index = EmptyIndex /\ cache = {} /\ index.scan = NoScan
  BY DEF EmptyIndex
<1>2. /\ ~AfterItss /\ ~AfterMappings /\ ~AfterSchemes /\ ~AfterScreens /\ ~AfterMine
      /\ ~AfterScan /\ ~AfterProbe
  BY <1>1 DEF AfterItss, AfterMappings, AfterSchemes, AfterScreens, AfterMine, AfterScan,
              AfterProbe
<1>3. ScanTrue(NoScan)
  BY DEF ScanTrue, NoScan, Empty
<1>4. IndexShaped
  BY <1>1 DEF IndexShaped, EmptyIndex
<1>5. SA_Typed
  <2>1. PICK ws \in SUBSET Workflows : flows \in [ws -> Workflow]
    OBVIOUS
  <2>2. DOMAIN flows \subseteq Workflows /\ flows \in [DOMAIN flows -> Workflow]
    BY <2>1
  <2>3. mapped \in [Itsses -> SUBSET Schemes]
    OBVIOUS
  <2>4. cap \in Nat
    BY ShareAnalysisAssumption
  <2>5. gaps \in 0..MaxGaps
    <3>1. gaps = 0 /\ MaxGaps \in Nat
      BY ShareAnalysisAssumption
    <3>. QED  BY ONLY <3>1
  <2>. QED  BY <1>1, <1>4, <2>2, <2>3, <2>4, <2>5 DEF SA_Typed, SA_Phases
<1>6. ScansTrue
  BY <1>1, <1>2, <1>3 DEF ScansTrue
<1>7. ItssTrue /\ MapsTrue /\ SchemesTrue
  BY <1>1, <1>2 DEF ItssTrue, MapsTrue, SchemesTrue, EmptyIndex, Empty
<1>8. MineTrue /\ Computed
  BY <1>1, <1>2 DEF MineTrue, Computed
<1>9. NothingMissed
  BY <1>1, <1>2 DEF NothingMissed, EmptyIndex
<1>. QED  BY <1>5, <1>6, <1>7, <1>8, <1>9 DEF SA_IInv

(* What stays when a step leaves the part of the index alone. *)
LEMMA TypedKept ==
  ASSUME SA_Typed, Still, IndexShaped', phase' \in SA_Phases, gaps' \in 0..MaxGaps, phase # "idle"
  PROVE  SA_Typed' /\ verdicts = Empty /\ verdicts' = Empty
BY DEF SA_Typed, Still, jira, params

LEMMA ItssKept ==
  ASSUME ItssTrue, UNCHANGED assigned, UNCHANGED <<index.itss, index.cut>>,
         AfterItss' /\ index'.complete => AfterItss /\ index.complete
  PROVE  ItssTrue'
BY DEF ItssTrue, UsersOf

LEMMA MapsKept ==
  ASSUME MapsTrue, UNCHANGED mapped, UNCHANGED <<index.itss, index.maps>>,
         AfterMappings' /\ index'.complete => AfterMappings /\ index.complete,
         phase' # "itss"
  PROVE  MapsTrue'
BY DEF MapsTrue

LEMMA SchemesKept ==
  ASSUME SchemesTrue, UNCHANGED shows, UNCHANGED <<index.schemes, index.maps>>,
         AfterProbe' /\ index'.complete => AfterProbe /\ index.complete
  PROVE  SchemesTrue'
BY DEF SchemesTrue, Referred

LEMMA MineKept ==
  ASSUME MineTrue, UNCHANGED <<flows, mode, moved>>, UNCHANGED <<index.mine, index.minesComplete>>,
         AfterMine' => AfterMine
  PROVE  MineTrue'
BY DEF MineTrue

LEMMA ScansKept ==
  ASSUME ScansTrue, UNCHANGED <<flows, mode, moved, cache>>, UNCHANGED index.scan,
         AfterScan' => AfterScan,
         phase' \in {"mine", "cache", "scan", "cache_put"} => mode # "no workflows"
  PROVE  ScansTrue'
BY DEF ScansTrue

LEMMA IndexOf ==
  ASSUME IndexShaped
  PROVE  /\ index.minesComplete \in BOOLEAN /\ index.complete \in BOOLEAN
         /\ index.mappingsComplete \in BOOLEAN
BY DEF IndexShaped

LEMMA ListItssKeeps ==
  ASSUME SA_IInv, NEW lost \in SUBSET Itsses, NEW short \in SUBSET Itsses, ListItss(lost, short)
  PROVE  SA_IInv'
<1>. USE DEF SA_IInv
<1>0. /\ phase = "itss" /\ phase' = "mappings" /\ verdicts = Empty /\ verdicts' = Empty
      /\ Still /\ Misses(lost \union short) /\ \A i \in short : UsersOf(i) # {}
  BY DEF ListItss, SA_Typed, Still
<1>1. PICK hidden \in Projects :
       index' = [index EXCEPT
         !.itss = [i \in Itsses \ lost |-> IF i \in short THEN UsersOf(i) \ {hidden} ELSE UsersOf(i)],
         !.cut = {i \in short : hidden \in UsersOf(i)}, !.complete = Says(lost, TRUE)]
  BY DEF ListItss
<1>2. /\ index'.itss = [i \in Itsses \ lost |->
                          IF i \in short THEN UsersOf(i) \ {hidden} ELSE UsersOf(i)]
      /\ index'.cut = {i \in short : hidden \in UsersOf(i)}
      /\ index'.complete = (index.complete /\ lost = {})
      /\ UNCHANGED <<index.maps, index.schemes, index.screens, index.mine, index.scan,
                     index.minesComplete, index.mappingsComplete>>
      /\ IndexShaped'
  BY <1>1 DEF SA_Typed, IndexShaped, Says
<1>3. /\ ~AfterItss /\ ~AfterMappings /\ ~AfterSchemes
         /\ ~AfterScreens /\ ~AfterMine /\ ~AfterScan /\ ~AfterProbe
      /\ AfterItss' /\ ~AfterMappings' /\ ~AfterSchemes'
         /\ ~AfterScreens' /\ ~AfterMine' /\ ~AfterScan' /\ ~AfterProbe'
  BY <1>0 DEF AfterItss, AfterMappings, AfterSchemes, AfterScreens, AfterMine, AfterScan,
              AfterProbe
<1>4. gaps' \in 0..MaxGaps /\ (gaps' = 0 => gaps = 0 /\ lost = {} /\ short = {})
  <2>1. lost \union short \in SUBSET Itsses /\ IsFiniteSet(Itsses) /\ gaps \in 0..MaxGaps
    BY ShareAnalysisAssumption DEF SA_Typed
  <2>. QED  BY <1>0, <2>1, GapCounted
<1>5. SA_Typed'
  BY <1>0, <1>2, <1>4, TypedKept DEF SA_Phases
<1>6. ScansTrue' /\ MineTrue' /\ SchemesTrue'
  <2>1. UNCHANGED <<flows, mode, moved, cache, shows>>
    BY <1>0 DEF Still, jira, params
  <2>. QED  BY <1>0, <1>2, <1>3, <2>1, ScansKept, MineKept, SchemesKept
<1>7. ItssTrue'
  <2>1. UNCHANGED assigned
    BY <1>0 DEF Still, jira
  <2>2. \A i : UsersOf(i)' = UsersOf(i)
    BY <2>1 DEF UsersOf
  <2>3. short \intersect lost = {}
    BY DEF ListItss
  <2>4. DOMAIN index'.itss = Itsses \ lost
    BY <1>2
  <2>5. ASSUME NEW i \in Itsses \ lost
        PROVE  /\ index'.itss[i] \subseteq UsersOf(i)
               /\ i \notin index'.cut => index'.itss[i] = UsersOf(i)
    BY <1>2
  <2>6. index'.cut \subseteq Itsses \ lost
    BY <1>2, <2>3
  <2>7. index'.complete => DOMAIN index'.itss = Itsses
    BY <1>2, <2>4
  <2>. QED  BY <2>2, <2>4, <2>5, <2>6, <2>7 DEF ItssTrue
<1>8. MapsTrue'
  BY <1>0, <1>2, <1>3 DEF MapsTrue
<1>9. NothingMissed'
  <2>1. ASSUME gaps' = 0 PROVE index'.cut = {} /\ DOMAIN index'.itss = Itsses /\ index'.complete
    BY <1>2, <1>4, <1>0, <2>1 DEF NothingMissed
  <2>. QED  BY <1>3, <2>1 DEF NothingMissed
<1>10. Computed'
  BY <1>0 DEF Computed
<1>. QED  BY <1>5, <1>6, <1>7, <1>8, <1>9, <1>10

LEMMA MappingsKeeps ==
  ASSUME SA_IInv, NEW lost \in SUBSET (Itsses \X Schemes), Mappings(lost)
  PROVE  SA_IInv'
<1>. USE DEF SA_IInv
<1>. DEFINE rows == {row \in (DOMAIN index.itss) \X Schemes : row[2] \in mapped[row[1]]}
<1>0. /\ phase = "mappings" /\ phase' = "schemes" /\ verdicts = Empty /\ verdicts' = Empty
      /\ Still /\ Misses(lost) /\ lost \subseteq rows
      /\ index' = [index EXCEPT !.maps = rows \ lost, !.complete = Says(lost, TRUE),
                                !.mappingsComplete = (lost = {})]
  BY DEF Mappings, SA_Typed, Still
<1>2. /\ index'.maps = rows \ lost
      /\ index'.complete = (index.complete /\ lost = {})
      /\ index'.mappingsComplete = (lost = {})
      /\ UNCHANGED <<index.itss, index.cut, index.schemes, index.screens, index.mine, index.scan,
                     index.minesComplete>>
      /\ IndexShaped'
  BY <1>0 DEF SA_Typed, IndexShaped, Says
<1>3. /\ AfterItss /\ ~AfterMappings /\ ~AfterSchemes
         /\ ~AfterScreens /\ ~AfterMine /\ ~AfterScan /\ ~AfterProbe
      /\ AfterItss' /\ AfterMappings' /\ ~AfterSchemes'
         /\ ~AfterScreens' /\ ~AfterMine' /\ ~AfterScan' /\ ~AfterProbe'
  BY <1>0 DEF AfterItss, AfterMappings, AfterSchemes, AfterScreens, AfterMine, AfterScan,
              AfterProbe
<1>4. gaps' \in 0..MaxGaps /\ (gaps' = 0 => gaps = 0 /\ lost = {})
  <2>1. IsFiniteSet(Itsses \X Schemes) /\ gaps \in 0..MaxGaps
    BY ShareAnalysisAssumption, FS_Product DEF SA_Typed
  <2>. QED  BY <1>0, <2>1, GapCounted
<1>5. SA_Typed'
  BY <1>0, <1>2, <1>4, TypedKept DEF SA_Phases
<1>6. ScansTrue' /\ MineTrue' /\ SchemesTrue' /\ ItssTrue'
  <2>1. UNCHANGED <<flows, mode, moved, cache, shows, assigned, mapped>>
    BY <1>0 DEF Still, jira, params
  <2>2. ScansTrue' /\ MineTrue'
    BY <1>0, <1>2, <1>3, <2>1, ScansKept, MineKept
  <2>3. SchemesTrue'
    BY <1>2, <1>3, <2>1 DEF SchemesTrue
  <2>4. ItssTrue'
    BY <1>2, <1>3, <2>1, ItssKept
  <2>. QED  BY <2>2, <2>3, <2>4
<1>8. MapsTrue'
  <2>1. UNCHANGED mapped /\ DOMAIN index.itss \subseteq Itsses /\ mapped \in [Itsses -> SUBSET Schemes]
    BY <1>0 DEF Still, jira, ItssTrue, SA_Typed
  <2>2. index'.maps \subseteq (DOMAIN index'.itss) \X Schemes
    BY <1>2
  <2>3. ASSUME NEW i \in DOMAIN index'.itss, NEW s \in Schemes, <<i, s>> \in index'.maps
        PROVE  s \in mapped'[i]
    BY <1>2, <2>1, <2>3
  <2>4. ASSUME lost = {}, NEW i \in DOMAIN index'.itss, NEW s \in mapped'[i]
        PROVE  <<i, s>> \in index'.maps
    BY <1>2, <2>1, <2>4
  <2>. QED  BY <1>0, <1>2, <2>2, <2>3, <2>4 DEF MapsTrue
<1>9. NothingMissed'
  <2>1. UNCHANGED mapped /\ DOMAIN index.itss \subseteq Itsses /\ mapped \in [Itsses -> SUBSET Schemes]
    BY <1>0 DEF Still, jira, ItssTrue, SA_Typed
  <2>2. ASSUME gaps' = 0
        PROVE  index'.cut = {} /\ DOMAIN index'.itss = Itsses /\ index'.complete
               /\ index'.mappingsComplete
    BY <1>0, <1>2, <1>3, <1>4, <2>2 DEF NothingMissed
  <2>3. ASSUME gaps' = 0, NEW i \in DOMAIN index'.itss, NEW s \in mapped'[i]
        PROVE  <<i, s>> \in index'.maps
    BY <1>2, <1>4, <2>1, <2>3
  <2>. QED  BY <1>3, <2>2, <2>3 DEF NothingMissed
<1>10. Computed'
  BY <1>0 DEF Computed
<1>. QED  BY <1>5, <1>6, <1>8, <1>9, <1>10

LEMMA ListSchemesKeeps ==
  ASSUME SA_IInv, NEW lost \in SUBSET Schemes, NEW noticed \in BOOLEAN, ListSchemes(lost, noticed)
  PROVE  SA_IInv'
<1>. USE DEF SA_IInv
<1>0. /\ phase = "schemes" /\ phase' = "screens" /\ verdicts = Empty /\ verdicts' = Empty
      /\ Still /\ Misses(lost)
      /\ index' = [index EXCEPT !.schemes = Restrict(shows, Schemes \ lost),
                                !.complete = Says(lost, noticed)]
  BY DEF ListSchemes, SA_Typed, Still
<1>2. /\ index'.schemes = [s \in Schemes \ lost |-> shows[s]]
      /\ index'.complete => index.complete
      /\ lost = {} => index'.complete = index.complete
      /\ UNCHANGED <<index.itss, index.cut, index.maps, index.screens, index.mine, index.scan,
                     index.minesComplete, index.mappingsComplete>>
      /\ IndexShaped'
  BY <1>0 DEF SA_Typed, IndexShaped, Says, Restrict
<1>3. /\ AfterItss /\ AfterMappings /\ ~AfterSchemes
         /\ ~AfterScreens /\ ~AfterMine /\ ~AfterScan /\ ~AfterProbe
      /\ AfterItss' /\ AfterMappings' /\ AfterSchemes'
         /\ ~AfterScreens' /\ ~AfterMine' /\ ~AfterScan' /\ ~AfterProbe'
  BY <1>0 DEF AfterItss, AfterMappings, AfterSchemes, AfterScreens, AfterMine, AfterScan,
              AfterProbe
<1>4. gaps' \in 0..MaxGaps /\ (gaps' = 0 => gaps = 0 /\ lost = {})
  <2>1. IsFiniteSet(Schemes) /\ gaps \in 0..MaxGaps
    BY ShareAnalysisAssumption DEF SA_Typed
  <2>. QED  BY <1>0, <2>1, GapCounted
<1>5. SA_Typed'
  BY <1>0, <1>2, <1>4, TypedKept DEF SA_Phases
<1>6. ScansTrue' /\ MineTrue' /\ SchemesTrue' /\ ItssTrue' /\ MapsTrue'
  <2>1. UNCHANGED <<flows, mode, moved, cache, shows, assigned, mapped>>
    BY <1>0 DEF Still, jira, params
  <2>2. ScansTrue' /\ MineTrue'
    BY <1>0, <1>2, <1>3, <2>1, ScansKept, MineKept
  <2>3. SchemesTrue'
    BY <1>2, <1>3, <2>1 DEF SchemesTrue
  <2>4. ItssTrue' /\ MapsTrue'
    BY <1>0, <1>2, <1>3, <2>1, ItssKept, MapsKept
  <2>. QED  BY <2>2, <2>3, <2>4
<1>9. NothingMissed'
  <2>1. UNCHANGED mapped
    BY <1>0 DEF Still, jira
  <2>2. ASSUME gaps' = 0
        PROVE  DOMAIN index'.schemes = Schemes /\ index.complete /\ index'.complete
    BY <1>0, <1>2, <1>4, <2>2 DEF NothingMissed
  <2>. QED  BY <1>2, <1>3, <1>4, <2>1, <2>2 DEF NothingMissed
<1>10. Computed'
  BY <1>0 DEF Computed
<1>. QED  BY <1>5, <1>6, <1>9, <1>10

LEMMA ListScreensKeeps ==
  ASSUME SA_IInv, NEW lost \in SUBSET Screens, NEW noticed \in BOOLEAN, ListScreens(lost, noticed)
  PROVE  SA_IInv'
<1>. USE DEF SA_IInv
<1>0. /\ phase = "screens" /\ phase' = "verify" /\ verdicts = Empty /\ verdicts' = Empty
      /\ Still /\ Misses(lost)
      /\ index' = [index EXCEPT !.screens = Screens \ lost, !.complete = Says(lost, noticed)]
  BY DEF ListScreens, SA_Typed, Still
<1>2. /\ index'.screens = Screens \ lost
      /\ index'.complete => index.complete
      /\ lost = {} => index'.complete = index.complete
      /\ UNCHANGED <<index.itss, index.cut, index.maps, index.schemes, index.mine, index.scan,
                     index.minesComplete, index.mappingsComplete>>
      /\ IndexShaped'
  BY <1>0 DEF SA_Typed, IndexShaped, Says
<1>3. /\ AfterItss /\ AfterMappings /\ AfterSchemes
         /\ ~AfterScreens /\ ~AfterMine /\ ~AfterScan /\ ~AfterProbe
      /\ AfterItss' /\ AfterMappings' /\ AfterSchemes'
         /\ AfterScreens' /\ ~AfterMine' /\ ~AfterScan' /\ ~AfterProbe'
  BY <1>0 DEF AfterItss, AfterMappings, AfterSchemes, AfterScreens, AfterMine, AfterScan,
              AfterProbe
<1>4. gaps' \in 0..MaxGaps /\ (gaps' = 0 => gaps = 0 /\ lost = {})
  <2>1. IsFiniteSet(Screens) /\ gaps \in 0..MaxGaps
    BY ShareAnalysisAssumption DEF SA_Typed
  <2>. QED  BY <1>0, <2>1, GapCounted
<1>5. SA_Typed'
  BY <1>0, <1>2, <1>4, TypedKept DEF SA_Phases
<1>6. ScansTrue' /\ MineTrue' /\ SchemesTrue' /\ ItssTrue' /\ MapsTrue'
  <2>1. UNCHANGED <<flows, mode, moved, cache, shows, assigned, mapped>>
    BY <1>0 DEF Still, jira, params
  <2>2. ScansTrue' /\ MineTrue' /\ SchemesTrue'
    BY <1>0, <1>2, <1>3, <2>1, ScansKept, MineKept, SchemesKept
  <2>4. ItssTrue' /\ MapsTrue'
    BY <1>0, <1>2, <1>3, <2>1, ItssKept, MapsKept
  <2>. QED  BY <2>2, <2>4
<1>9. NothingMissed'
  <2>1. UNCHANGED mapped
    BY <1>0 DEF Still, jira
  <2>2. ASSUME gaps' = 0
        PROVE  index'.screens = Screens /\ index.complete /\ index'.complete
    BY <1>0, <1>2, <1>4, <2>2 DEF NothingMissed
  <2>. QED  BY <1>2, <1>3, <1>4, <2>1, <2>2 DEF NothingMissed
<1>10. Computed'
  BY <1>0 DEF Computed
<1>. QED  BY <1>5, <1>6, <1>9, <1>10

LEMMA VerifyKeeps ==
  ASSUME SA_IInv, NEW failed \in SUBSET Itsses, Verify(failed)
  PROVE  SA_IInv'
<1>. USE DEF SA_IInv
<1>. DEFINE queried == NeedingVerification
<1>0. /\ phase = "verify" /\ verdicts = Empty /\ verdicts' = Empty
      /\ Still /\ Misses(failed)
  BY DEF Verify, SA_Typed, Still
<1>4. gaps' \in 0..MaxGaps /\ (gaps' = 0 => gaps = 0 /\ failed = {})
  <2>1. IsFiniteSet(Itsses) /\ gaps \in 0..MaxGaps
    BY ShareAnalysisAssumption DEF SA_Typed
  <2>. QED  BY <1>0, <2>1, GapCounted
<1>6. UNCHANGED <<flows, mode, moved, cache, shows, assigned, mapped>>
  BY <1>0 DEF Still, jira, params
<1>a. CASE MyItsses = {}
  <2>1. phase' = "idle" /\ UNCHANGED index
    BY <1>a DEF Verify
  <2>2. /\ ~AfterItss' /\ ~AfterMappings' /\ ~AfterSchemes' /\ ~AfterScreens'
        /\ ~AfterMine' /\ ~AfterScan' /\ ~AfterProbe'
    BY <1>0, <2>1 DEF AfterItss, AfterMappings, AfterSchemes, AfterScreens, AfterMine,
                      AfterScan, AfterProbe
  <2>3. SA_Typed'
    <3>1. IndexShaped'
      BY <2>1 DEF SA_Typed, IndexShaped
    <3>. QED  BY <1>0, <1>4, <2>1, <3>1, TypedKept DEF SA_Phases
  <2>4. ScansTrue' /\ MineTrue' /\ SchemesTrue' /\ ItssTrue' /\ MapsTrue'
    <3>1. ItssTrue' /\ MapsTrue'
      BY <1>6, <2>1, <2>2, ItssKept, MapsKept
    <3>. QED  BY <1>6, <2>1, <2>2, <3>1, ScansKept, MineKept, SchemesKept
  <2>5. NothingMissed' /\ Computed'
    BY <1>0, <1>4, <2>1, <2>2 DEF NothingMissed, Computed
  <2>. QED  BY <2>3, <2>4, <2>5
<1>b. CASE MyItsses # {}
  <2>1. /\ phase' = IF mode = "no workflows" THEN "probe" ELSE "mine"
        /\ index' = [index EXCEPT
             !.itss = [i \in DOMAIN @ |-> IF i \in queried \ failed THEN UsersOf(i) ELSE @[i]],
             !.cut = @ \ (queried \ failed), !.complete = Says(failed, TRUE)]
    BY <1>b DEF Verify
  <2>2. /\ index'.itss = [i \in DOMAIN index.itss |->
                            IF i \in queried \ failed THEN UsersOf(i) ELSE index.itss[i]]
        /\ index'.cut = index.cut \ (queried \ failed)
        /\ index'.complete = (index.complete /\ failed = {})
        /\ UNCHANGED <<index.maps, index.schemes, index.screens, index.mine, index.scan,
                       index.minesComplete, index.mappingsComplete>>
        /\ IndexShaped'
    BY <2>1 DEF SA_Typed, IndexShaped, Says
  <2>3. /\ AfterItss /\ AfterMappings /\ AfterSchemes
           /\ AfterScreens /\ ~AfterMine /\ ~AfterScan /\ ~AfterProbe
        /\ AfterItss' /\ AfterMappings' /\ AfterSchemes' /\ AfterScreens'
        /\ AfterMine' => mode = "no workflows"
        /\ AfterScan' => mode = "no workflows"
        /\ ~AfterProbe'
    BY <1>0, <2>1 DEF AfterItss, AfterMappings, AfterSchemes, AfterScreens, AfterMine,
                      AfterScan, AfterProbe
  <2>4. SA_Typed'
    BY <1>0, <1>4, <2>1, <2>2, TypedKept DEF SA_Phases
  <2>5. ScansTrue' /\ MineTrue'
    BY <1>6, <2>1, <2>2, <2>3 DEF ScansTrue, MineTrue
  <2>6. SchemesTrue'
    BY <1>6, <2>2, <2>3, SchemesKept
  <2>7. ItssTrue'
    <3>1. \A i : UsersOf(i)' = UsersOf(i)
      BY <1>6 DEF UsersOf
    <3>2. DOMAIN index'.itss = DOMAIN index.itss
      BY <2>2
    <3>3. ASSUME NEW i \in DOMAIN index.itss
          PROVE  /\ index'.itss[i] \subseteq UsersOf(i)
                 /\ i \notin index'.cut => index'.itss[i] = UsersOf(i)
      BY <2>2 DEF ItssTrue
    <3>4. index'.cut \subseteq DOMAIN index.itss /\ DOMAIN index.itss \subseteq Itsses
      BY <2>2 DEF ItssTrue
    <3>5. index'.complete => DOMAIN index.itss = Itsses
      BY <2>2, <2>3 DEF ItssTrue
    <3>. QED  BY <3>1, <3>2, <3>3, <3>4, <3>5 DEF ItssTrue
  <2>8. MapsTrue'
    <3>1. DOMAIN index'.itss = DOMAIN index.itss
      BY <2>2
    <3>2. phase' # "itss"
      BY <2>1
    <3>. QED  BY <1>6, <2>2, <2>3, <3>1, <3>2 DEF MapsTrue
  <2>9. NothingMissed'
    <3>1. DOMAIN index'.itss = DOMAIN index.itss
      BY <2>2
    <3>2. ASSUME gaps' = 0
          PROVE  index.complete /\ index'.complete /\ index'.cut = {}
      BY <1>0, <1>4, <2>2, <3>2 DEF NothingMissed
    <3>. QED  BY <1>4, <1>6, <2>2, <2>3, <3>1, <3>2 DEF NothingMissed
  <2>10. Computed'
    BY <1>0 DEF Computed
  <2>. QED  BY <2>4, <2>5, <2>6, <2>7, <2>8, <2>9, <2>10
<1>. QED  BY <1>a, <1>b

LEMMA MyWorkflowsKeeps ==
  ASSUME SA_IInv, NEW lost \in SUBSET Workflows, MyWorkflows(lost)
  PROVE  SA_IInv'
<1>. USE DEF SA_IInv
<1>0. /\ phase = "mine" /\ phase' = "cache" /\ verdicts = Empty /\ verdicts' = Empty
      /\ Still /\ Misses(lost)
      /\ index' = [index EXCEPT !.mine = {w \in DOMAIN flows \ lost : Target \in flows[w].users},
                                !.minesComplete = (lost = {}), !.complete = Says(lost, TRUE)]
  BY DEF MyWorkflows, SA_Typed, Still
<1>1. UNCHANGED <<flows, mode, moved, cache, shows, assigned, mapped>>
  BY <1>0 DEF Still, jira, params
<1>2. /\ index'.mine = {w \in DOMAIN flows \ lost : Target \in flows[w].users}
      /\ index'.minesComplete = (lost = {})
      /\ index'.complete = (index.complete /\ lost = {})
      /\ UNCHANGED <<index.itss, index.cut, index.maps, index.schemes, index.screens, index.scan,
                     index.mappingsComplete>>
      /\ IndexShaped'
  BY <1>0 DEF SA_Typed, IndexShaped, Says
<1>3. /\ AfterItss /\ AfterMappings /\ AfterSchemes
         /\ AfterScreens /\ ~AfterMine /\ ~AfterScan /\ ~AfterProbe
      /\ AfterItss' /\ AfterMappings' /\ AfterSchemes'
         /\ AfterScreens' /\ AfterMine' /\ ~AfterScan' /\ ~AfterProbe'
  BY <1>0 DEF AfterItss, AfterMappings, AfterSchemes, AfterScreens, AfterMine, AfterScan,
              AfterProbe
<1>4. gaps' \in 0..MaxGaps /\ (gaps' = 0 => gaps = 0 /\ lost = {})
  <2>1. IsFiniteSet(Workflows) /\ gaps \in 0..MaxGaps
    BY ShareAnalysisAssumption DEF SA_Typed
  <2>. QED  BY <1>0, <2>1, GapCounted
<1>5. SA_Typed'
  BY <1>0, <1>2, <1>4, TypedKept DEF SA_Phases
<1>6. ScansTrue' /\ SchemesTrue' /\ ItssTrue' /\ MapsTrue'
  <2>1. mode # "no workflows"
    BY <1>0 DEF ScansTrue
  <2>2. ScansTrue' /\ SchemesTrue'
    BY <1>1, <1>2, <1>3, <2>1, ScansKept, SchemesKept
  <2>3. ItssTrue' /\ MapsTrue'
    BY <1>0, <1>1, <1>2, <1>3, ItssKept, MapsKept
  <2>. QED  BY <2>2, <2>3
<1>7. MineTrue'
  BY <1>1, <1>2 DEF MineTrue
<1>9. NothingMissed'
  <2>1. ASSUME gaps' = 0 PROVE index.complete /\ index'.complete
    BY <1>0, <1>2, <1>4, <2>1 DEF NothingMissed
  <2>. QED  BY <1>1, <1>2, <1>3, <1>4, <2>1 DEF NothingMissed
<1>10. Computed'
  BY <1>0 DEF Computed
<1>. QED  BY <1>5, <1>6, <1>7, <1>9, <1>10

(* Whatever scan the index gets, kept or fresh: that it is a true one is all  *)
(* that matters.                                                             *)
LEMMA WithScanKeeps ==
  ASSUME SA_IInv, NEW s, ScanTrue(s), index' = WithScan(s), Still,
         phase \in {"cache", "scan"}, phase' \in {"cache_put", "probe"},
         s.of = flows \/ s.total = {Cardinality(DOMAIN flows)},
         gaps' \in 0..MaxGaps, gaps' = 0 => gaps = 0
  PROVE  SA_IInv'
<1>. USE DEF SA_IInv
<1>0. verdicts = Empty /\ verdicts' = Empty
  BY DEF SA_Typed, Still
<1>1. UNCHANGED <<flows, mode, moved, cache, shows, assigned, mapped>> /\ mode # "no workflows"
  BY DEF Still, jira, params, ScansTrue
<1>2. /\ index'.scan = s
      /\ index'.complete = (index.complete /\ s.complete)
      /\ UNCHANGED <<index.itss, index.cut, index.maps, index.schemes, index.screens, index.mine,
                     index.minesComplete, index.mappingsComplete>>
      /\ IndexShaped'
  BY DEF SA_Typed, IndexShaped, WithScan, ScanTrue
<1>3. /\ AfterItss /\ AfterMappings /\ AfterSchemes
         /\ AfterScreens /\ AfterMine /\ ~AfterScan /\ ~AfterProbe
      /\ AfterItss' /\ AfterMappings' /\ AfterSchemes'
         /\ AfterScreens' /\ AfterMine' /\ AfterScan' /\ ~AfterProbe'
  BY <1>0 DEF AfterItss, AfterMappings, AfterSchemes, AfterScreens, AfterMine, AfterScan,
              AfterProbe
<1>5. SA_Typed'
  <2>1. phase' \in SA_Phases /\ phase # "idle"
    BY DEF SA_Phases
  <2>. QED  BY <1>2, <2>1, TypedKept
<1>6. MineTrue' /\ SchemesTrue' /\ ItssTrue' /\ MapsTrue'
  <2>1. ItssTrue' /\ MapsTrue'
    BY <1>1, <1>2, <1>3, ItssKept, MapsKept
  <2>. QED  BY <1>1, <1>2, <1>3, <2>1, MineKept, SchemesKept
<1>7. ScansTrue'
  <2>1. ScanTrue(index'.scan) /\ \A r \in cache' : ScanTrue(r)
    BY <1>1, <1>2 DEF ScansTrue
  <2>2. index'.scan.of = flows' \/ index'.scan.total = {Cardinality(DOMAIN flows')}
    BY <1>1, <1>2
  <2>. QED  BY <1>1, <2>1, <2>2 DEF ScansTrue
<1>9. NothingMissed'
  <2>1. ASSUME gaps' = 0 PROVE index'.complete \/ ~index'.scan.complete
    BY <1>2, <2>1 DEF NothingMissed, ScanTrue
  <2>. QED  BY <1>1, <1>2, <1>3, <2>1 DEF NothingMissed
<1>10. Computed'
  BY <1>0 DEF Computed
<1>. QED  BY <1>5, <1>6, <1>7, <1>9, <1>10

LEMMA TakeKeeps == SA_IInv /\ Take => SA_IInv'
<1>. SUFFICES ASSUME SA_IInv, Take PROVE SA_IInv'
  OBVIOUS
<1>0. phase = "cache" /\ UNCHANGED gaps /\ Still /\ gaps \in 0..MaxGaps
  BY DEF Take, SA_IInv, SA_Typed
<1>1. CASE \E scan \in cache : Reusable(scan) /\ phase' = "probe" /\ index' = WithScan(scan)
  <2>1. PICK s \in cache : Reusable(s) /\ phase' = "probe" /\ index' = WithScan(s)
    BY <1>1
  <2>2. ScanTrue(s)
    BY DEF SA_IInv, ScansTrue
  <2>. QED  BY <1>0, <2>1, <2>2, WithScanKeeps DEF Reusable
<1>2. CASE phase' = "scan" /\ UNCHANGED index
  <2>. USE DEF SA_IInv
  <2>0. verdicts = Empty /\ verdicts' = Empty
    BY <1>0 DEF SA_Typed, Still
  <2>1. UNCHANGED <<flows, mode, moved, cache, shows, assigned, mapped>> /\ mode # "no workflows"
    BY <1>0 DEF Still, jira, params, ScansTrue
  <2>3. /\ AfterItss /\ AfterMappings /\ AfterSchemes
           /\ AfterScreens /\ AfterMine /\ ~AfterScan /\ ~AfterProbe
      /\ AfterItss' /\ AfterMappings' /\ AfterSchemes'
         /\ AfterScreens' /\ AfterMine' /\ ~AfterScan' /\ ~AfterProbe'
    BY <1>0, <1>2, <2>0 DEF AfterItss, AfterMappings, AfterSchemes, AfterScreens, AfterMine,
           AfterScan, AfterProbe
  <2>4. SA_Typed'
    <3>1. IndexShaped'
      BY <1>2 DEF SA_Typed, IndexShaped
    <3>. QED  BY <1>0, <1>2, <3>1, TypedKept DEF SA_Phases
  <2>5. MineTrue' /\ SchemesTrue' /\ ScansTrue'
    BY <1>2, <2>1, <2>3, ScansKept, MineKept, SchemesKept
  <2>6. ItssTrue' /\ MapsTrue'
    BY <1>2, <2>1, <2>3, ItssKept, MapsKept
  <2>7. NothingMissed' /\ Computed'
    <3>1. gaps = 0 => index.complete
      BY <1>0 DEF NothingMissed
    <3>. QED  BY <1>0, <1>2, <2>0, <2>1, <2>3, <3>1 DEF NothingMissed, Computed
  <2>. QED  BY <2>4, <2>5, <2>6, <2>7
<1>. QED  BY <1>1, <1>2 DEF Take

(* A fresh scan is a true one. *)
LEMMA ScanKeeps ==
  ASSUME SA_IInv, NEW lost \in SUBSET Workflows, NEW activeKnown \in BOOLEAN, NEW told \in BOOLEAN,
         Scan(lost, activeKnown, told)
  PROVE  SA_IInv'
<1>0. phase = "scan" /\ phase' = "cache_put" /\ Still /\ gaps \in 0..MaxGaps
  BY DEF Scan, SA_IInv, SA_Typed
<1>1. PICK rows \in SUBSET (DOMAIN flows \ lost) :
        index' = WithScan(
            [rows |-> Restrict(flows, rows), cap |-> cap,
             active |-> IF activeKnown THEN {w \in DOMAIN flows : flows[w].users # {}} ELSE Unknown,
             total |-> IF told THEN {Cardinality(DOMAIN flows)} ELSE {},
             complete |-> told /\ rows = DOMAIN flows, of |-> flows])
  BY DEF Scan
<1>. DEFINE s == [rows |-> Restrict(flows, rows), cap |-> cap,
             active |-> IF activeKnown THEN {w \in DOMAIN flows : flows[w].users # {}} ELSE Unknown,
             total |-> IF told THEN {Cardinality(DOMAIN flows)} ELSE {},
             complete |-> told /\ rows = DOMAIN flows, of |-> flows]
<1>2. /\ s.of = flows
      /\ s.rows = [w \in rows |-> flows[w]]
      /\ s.complete = (told /\ rows = DOMAIN flows)
      /\ s.active = IF activeKnown THEN {w \in DOMAIN flows : flows[w].users # {}} ELSE Unknown
  BY DEF Restrict
<1>3. index' = WithScan(s)
  BY <1>1
<1>. HIDE DEF s
<1>4. ScanTrue(s)
  BY <1>2 DEF ScanTrue, SA_IInv, SA_Typed
<1>5. gaps' \in 0..MaxGaps /\ (gaps' = 0 => gaps = 0)
  <2>1. IsFiniteSet((Workflows \union {"active"}) \union {"total"})
    <3>1. IsFiniteSet(Workflows)
      BY ShareAnalysisAssumption
    <3>2. IsFiniteSet(Workflows \union {"active"})
      BY <3>1, FS_AddElement
    <3>. QED  BY <3>2, FS_AddElement
  <2>2. lost \union (IF activeKnown THEN {} ELSE {"active"})
             \union (IF told THEN {} ELSE {"total"})
          \in SUBSET ((Workflows \union {"active"}) \union {"total"})
    OBVIOUS
  <2>3. Misses(lost \union (IF activeKnown THEN {} ELSE {"active"})
                    \union (IF told THEN {} ELSE {"total"}))
    BY DEF Scan
  <2>. QED  BY <1>0, <2>1, <2>2, <2>3, GapCounted
<1>. QED  BY <1>0, <1>2, <1>3, <1>4, <1>5, WithScanKeeps

LEMMA PutKeeps == SA_IInv /\ Put => SA_IInv'
<1>. SUFFICES ASSUME SA_IInv, Put PROVE SA_IInv'
  OBVIOUS
<1>. USE DEF SA_IInv
<1>0. /\ phase = "cache_put" /\ phase' = "probe" /\ verdicts = Empty /\ verdicts' = Empty
      /\ cache' = {index.scan}
      /\ UNCHANGED <<flows, mode, cap, moved, shows, assigned, mapped, index, gaps>>
  BY DEF Put, SA_Typed, jira, params
<1>1. mode # "no workflows"
  BY <1>0 DEF ScansTrue
<1>3. /\ AfterItss /\ AfterMappings /\ AfterSchemes
         /\ AfterScreens /\ AfterMine /\ AfterScan /\ ~AfterProbe
      /\ AfterItss' /\ AfterMappings' /\ AfterSchemes'
         /\ AfterScreens' /\ AfterMine' /\ AfterScan' /\ ~AfterProbe'
  BY <1>0 DEF AfterItss, AfterMappings, AfterSchemes, AfterScreens, AfterMine, AfterScan,
              AfterProbe
<1>4. SA_Typed'
  <2>1. IndexShaped'
    BY <1>0 DEF SA_Typed, IndexShaped
  <2>2. \E s : cache' = {s}
    BY <1>0
  <2>. QED  BY <1>0, <2>1, <2>2 DEF SA_Typed, SA_Phases
<1>5. MineTrue' /\ SchemesTrue' /\ ScansTrue'
  <2>1. MineTrue' /\ SchemesTrue'
    BY <1>0, <1>3, MineKept, SchemesKept
  <2>2. ScansTrue'
    BY <1>0, <1>1, <1>3 DEF ScansTrue
  <2>. QED  BY <2>1, <2>2
<1>6. ItssTrue' /\ MapsTrue'
  BY <1>0, <1>3, ItssKept, MapsKept
<1>7. NothingMissed' /\ Computed'
  BY <1>0, <1>3 DEF NothingMissed, Computed
<1>. QED  BY <1>4, <1>5, <1>6, <1>7

LEMMA ProbeKeeps == SA_IInv /\ Probe => SA_IInv'
<1>. SUFFICES ASSUME SA_IInv, Probe PROVE SA_IInv'
  OBVIOUS
<1>. USE DEF SA_IInv
<1>0. /\ phase = "probe" /\ phase' = "verdicts" /\ verdicts = Empty /\ verdicts' = Empty
      /\ UNCHANGED gaps /\ Still /\ gaps \in 0..MaxGaps
      /\ index' = [index EXCEPT !.complete = @ /\ Dangling = {}]
  BY DEF Probe, SA_Typed, Still
<1>1. UNCHANGED <<flows, mode, moved, cache, shows, assigned, mapped>>
  BY <1>0 DEF Still, jira, params
<1>2. /\ index'.complete = (index.complete /\ Dangling = {})
      /\ UNCHANGED <<index.itss, index.cut, index.maps, index.schemes, index.screens, index.mine,
                     index.scan, index.minesComplete, index.mappingsComplete>>
      /\ IndexShaped'
  BY <1>0 DEF SA_Typed, IndexShaped
<1>3. /\ AfterItss /\ AfterMappings /\ AfterSchemes
         /\ AfterScreens /\ AfterMine /\ AfterScan /\ ~AfterProbe
      /\ AfterItss' /\ AfterMappings' /\ AfterSchemes'
         /\ AfterScreens' /\ AfterMine' /\ AfterScan' /\ AfterProbe'
  BY <1>0 DEF AfterItss, AfterMappings, AfterSchemes, AfterScreens, AfterMine, AfterScan,
              AfterProbe
<1>4. SA_Typed'
  BY <1>0, <1>2, TypedKept DEF SA_Phases
<1>5. MineTrue' /\ ScansTrue'
  BY <1>0, <1>1, <1>2, <1>3, ScansKept, MineKept
<1>6. ItssTrue' /\ MapsTrue'
  BY <1>0, <1>1, <1>2, <1>3, ItssKept, MapsKept
<1>7. SchemesTrue'
  <2>1. index'.complete => Referred \subseteq DOMAIN index.schemes
    BY <1>2 DEF Dangling
  <2>2. Referred' = Referred
    BY <1>2 DEF Referred
  <2>. QED  BY <1>1, <1>2, <2>1, <2>2 DEF SchemesTrue
<1>8. NothingMissed'
  <2>1. ASSUME gaps' = 0, index.scan.complete PROVE index'.complete
    <3>1. index.complete /\ DOMAIN index.schemes = Schemes /\ index.screens = Screens
      BY <1>0, <1>3, <2>1 DEF NothingMissed
    <3>2. Referred \subseteq Schemes
      BY DEF Referred, MapsTrue
    <3>3. Range(index.schemes) \subseteq Screens
      BY <3>1 DEF SchemesTrue, Range, SA_Typed
    <3>4. ShownByFlow \subseteq Screens
      BY ShareAnalysisAssumption DEF ShownByFlow
    <3>5. Dangling = {}
      BY <3>1, <3>2, <3>3, <3>4 DEF Dangling
    <3>. QED  BY <1>2, <3>1, <3>5
  <2>. QED  BY <1>0, <1>1, <1>2, <1>3, <2>1 DEF NothingMissed
<1>9. Computed'
  BY <1>0 DEF Computed
<1>. QED  BY <1>4, <1>5, <1>6, <1>7, <1>8, <1>9

(* The verdicts stand on the index and the mode, and stay while these do.     *)
LEMMA VerdictsStand ==
  ASSUME UNCHANGED <<index, mode>>
  PROVE  Verdicts' = Verdicts
BY DEF Verdicts, MyScreens, MySchemes, MyItsses, Referring, ScreenVerdict, SchemeVerdict,
       ItssVerdict, Resolve, ReachOf, ReachComplete, Trustworthy, FloorsOf, FloorOf,
       InUseElsewhere, FlowsComplete, SchemesOf

LEMMA ComputeKeeps == SA_IInv /\ Compute => SA_IInv'
<1>. SUFFICES ASSUME SA_IInv, Compute PROVE SA_IInv'
  OBVIOUS
<1>. USE DEF SA_IInv
<1>0. /\ phase = "verdicts" /\ phase' = "idle" /\ verdicts = Empty /\ verdicts' = Verdicts
      /\ UNCHANGED <<flows, mode, cap, cache, moved, shows, assigned, mapped, index, gaps>>
  BY DEF Compute, SA_Typed, jira, params
<1>3. AfterItss /\ AfterMappings /\ AfterSchemes
                   /\ AfterScreens /\ AfterMine /\ AfterScan /\ AfterProbe
  BY <1>0 DEF AfterItss, AfterMappings, AfterSchemes, AfterScreens, AfterMine, AfterScan,
              AfterProbe
<1>4. SA_Typed'
  <2>1. IndexShaped'
    BY <1>0 DEF SA_Typed, IndexShaped
  <2>. QED  BY <1>0, <2>1 DEF SA_Typed, SA_Phases
<1>5. MineTrue' /\ SchemesTrue' /\ ScansTrue'
  BY <1>0, <1>3, MineKept, SchemesKept, ScansKept
<1>6. ItssTrue' /\ MapsTrue'
  BY <1>0, <1>3, ItssKept, MapsKept
<1>7. NothingMissed'
  BY <1>0, <1>3 DEF NothingMissed
<1>8. Computed'
  BY <1>0, VerdictsStand DEF Computed
<1>. QED  BY <1>4, <1>5, <1>6, <1>7, <1>8

LEMMA BeginKeeps == SA_IInv /\ Begin => SA_IInv'
<1>. SUFFICES ASSUME SA_IInv, Begin PROVE SA_IInv'
  OBVIOUS
<1>. USE DEF SA_IInv
<1>0. /\ phase' = "itss" /\ verdicts' = Empty /\ index' = EmptyIndex /\ index'.scan = NoScan
      /\ cap' \in Caps /\ moved' = FALSE
      /\ UNCHANGED <<flows, cache, shows, assigned, mapped, gaps>>
  BY DEF Begin, jira, EmptyIndex
<1>2. /\ ~AfterItss' /\ ~AfterMappings' /\ ~AfterSchemes' /\ ~AfterScreens' /\ ~AfterMine'
      /\ ~AfterScan' /\ ~AfterProbe'
  BY <1>0 DEF AfterItss, AfterMappings, AfterSchemes, AfterScreens, AfterMine, AfterScan,
              AfterProbe
<1>3. ScanTrue(NoScan)
  BY DEF ScanTrue, NoScan, Empty
<1>4. SA_Typed'
  <2>1. IndexShaped'
    BY <1>0 DEF IndexShaped, EmptyIndex
  <2>2. cap' \in Nat
    BY <1>0, ShareAnalysisAssumption
  <2>. QED  BY <1>0, <2>1, <2>2 DEF SA_Typed, SA_Phases
<1>5. ScansTrue'
  BY <1>0, <1>2, <1>3 DEF ScansTrue
<1>6. ItssTrue' /\ MapsTrue' /\ SchemesTrue'
  BY <1>0, <1>2 DEF ItssTrue, MapsTrue, SchemesTrue, EmptyIndex, Empty
<1>7. MineTrue' /\ Computed'
  BY <1>0, <1>2 DEF MineTrue, Computed
<1>8. NothingMissed'
  BY <1>0, <1>2 DEF NothingMissed, EmptyIndex
<1>. QED  BY <1>4, <1>5, <1>6, <1>7, <1>8

(* What the rest of the world does to the workflows, and nothing at all.      *)
LEMMA WorldKeeps ==
  ASSUME SA_IInv, UNCHANGED <<assigned, mapped, shows, phase, index, params, verdicts, gaps>>,
         cache' \in {{}, cache}, moved' \in BOOLEAN, moved' = FALSE => moved = FALSE,
         moved' = FALSE => UNCHANGED flows,
         DOMAIN flows' \subseteq Workflows, flows' \in [DOMAIN flows' -> Workflow]
  PROVE  SA_IInv'
<1>. USE DEF SA_IInv
<1>1. UNCHANGED <<cap, mode>>
  BY DEF params
<1>2. /\ AfterItss' = AfterItss /\ AfterMappings' = AfterMappings
      /\ AfterSchemes' = AfterSchemes /\ AfterScreens' = AfterScreens
      /\ AfterMine' = AfterMine /\ AfterScan' = AfterScan /\ AfterProbe' = AfterProbe
  BY DEF AfterItss, AfterMappings, AfterSchemes, AfterScreens, AfterMine, AfterScan, AfterProbe
<1>3. SA_Typed'
  <2>1. IndexShaped'
    BY DEF SA_Typed, IndexShaped
  <2>2. cache' = {} \/ \E s : cache' = {s}
    BY DEF SA_Typed
  <2>. QED  BY <1>1, <2>1, <2>2 DEF SA_Typed
<1>4. ScansTrue'
  <2>1. ScanTrue(index'.scan) /\ \A s \in cache' : ScanTrue(s)
    BY DEF ScansTrue
  <2>. QED  BY <1>1, <1>2, <2>1 DEF ScansTrue
<1>5. ItssTrue' /\ MapsTrue'
  BY <1>2, ItssKept DEF MapsTrue
<1>6. SchemesTrue' /\ MineTrue'
  BY <1>1, <1>2, SchemesKept DEF MineTrue
<1>7. NothingMissed'
  BY <1>2 DEF NothingMissed
<1>8. Computed'
  BY <1>1, VerdictsStand DEF Computed
<1>. QED  BY <1>3, <1>4, <1>5, <1>6, <1>7, <1>8

LEMMA ChangeKeeps ==
  ASSUME SA_IInv, NEW w \in Workflows, NEW flow \in Workflow, NEW own \in BOOLEAN,
         Change(w, flow, own)
  PROVE  SA_IInv'
<1>1. DOMAIN flows \subseteq Workflows /\ flows \in [DOMAIN flows -> Workflow]
  BY DEF SA_IInv, SA_Typed
<1>2. DOMAIN flows' \subseteq Workflows /\ flows' \in [DOMAIN flows' -> Workflow]
  <2>1. CASE flows' = [v \in DOMAIN flows \union {w} |-> IF v = w THEN flow ELSE flows[v]]
    <3>1. DOMAIN flows' = DOMAIN flows \union {w}
      BY <2>1
    <3>2. \A v \in DOMAIN flows' : flows'[v] \in Workflow
      BY <1>1, <2>1, <3>1
    <3>. QED  BY <1>1, <2>1, <3>1, <3>2
  <2>2. CASE flows' = Restrict(flows, DOMAIN flows \ {w})
    BY <1>1, <2>2 DEF Restrict
  <2>. QED  BY <2>1, <2>2 DEF Change
<1>. QED  BY <1>2, WorldKeeps DEF Change, audit

LEMMA SA_NextIInv == SA_IInv /\ [SA_Next]_SA_vars => SA_IInv'
<1>. SUFFICES ASSUME SA_IInv, [SA_Next]_SA_vars PROVE SA_IInv'
  OBVIOUS
<1>1. CASE Begin \/ Take \/ Put \/ Probe \/ Compute
  BY <1>1, BeginKeeps, TakeKeeps, PutKeeps, ProbeKeeps, ComputeKeeps
<1>2. CASE Expire \/ UNCHANGED SA_vars
  BY <1>2, WorldKeeps DEF Expire, SA_vars, jira, audit, SA_IInv, SA_Typed
<1>3. CASE \E lost, short \in SUBSET Itsses : ListItss(lost, short)
  BY <1>3, ListItssKeeps
<1>4. CASE \E lost \in SUBSET (Itsses \X Schemes) : Mappings(lost)
  BY <1>4, MappingsKeeps
<1>5. CASE \E noticed \in BOOLEAN : \/ \E lost \in SUBSET Schemes : ListSchemes(lost, noticed)
                                   \/ \E lost \in SUBSET Screens : ListScreens(lost, noticed)
  BY <1>5, ListSchemesKeeps, ListScreensKeeps
<1>6. CASE \E failed \in SUBSET Itsses : Verify(failed)
  BY <1>6, VerifyKeeps
<1>7. CASE \E lost \in SUBSET Workflows : \/ MyWorkflows(lost)
                                         \/ \E known, told \in BOOLEAN : Scan(lost, known, told)
  BY <1>7, MyWorkflowsKeeps, ScanKeeps
<1>8. CASE \E w \in Workflows, flow \in Workflow, own \in BOOLEAN : Change(w, flow, own)
  BY <1>8, ChangeKeeps
<1>. QED  BY <1>1, <1>2, <1>3, <1>4, <1>5, <1>6, <1>7, <1>8 DEF SA_Next

(***************************************************************************)
(* What the verdicts mean.  In each lemma the audit has come to its end and *)
(* nothing changed since it began.                                          *)
(***************************************************************************)
AuditDone ==
  SA_IInv /\ phase = "idle" /\ verdicts # Empty /\ ~moved /\ ~Overlooked

LEMMA AllOver ==
  ASSUME AuditDone
  PROVE  AfterItss /\ AfterMappings /\ AfterSchemes
                      /\ AfterScreens /\ AfterMine /\ AfterScan /\ AfterProbe
BY DEF AuditDone, AfterItss, AfterMappings, AfterSchemes, AfterScreens, AfterMine, AfterScan,
       AfterProbe

(* The workflows the audit saw are the ones there are.                       *)
LEMMA ScanIsNow ==
  ASSUME AuditDone, index.scan # NoScan
  PROVE  index.scan.of = flows /\ mode # "no workflows"
BY AllOver DEF AuditDone, SA_IInv, ScansTrue, Overlooked

(* Ids of one kind are not of another. *)
LEMMA KindsApart ==
  /\ \A x \in Itsses : UsersInJira(x) = UsersOf(x) /\ x \notin Screens /\ x \notin Schemes
  /\ \A x \in Schemes : UsersInJira(x) = UsersOfScheme(x) /\ x \notin Screens
  /\ \A x \in Screens :
       UsersInJira(x) = (UNION {UsersOfScheme(s) : s \in {r \in Schemes : shows[r] = x}})
                          \union (IF x = Watched THEN FlowUsers ELSE {})
BY ShareAnalysisAssumption DEF UsersInJira

(* Each verdict is that of its kind. *)
LEMMA VerdictOf ==
  ASSUME AuditDone, NEW x \in DOMAIN verdicts
  PROVE  \/ x \in Screens /\ verdicts[x] = ScreenVerdict(x) /\ x \in MyScreens
         \/ x \in Schemes /\ x \notin Screens /\ verdicts[x] = SchemeVerdict(x)
              /\ x \in MySchemes
         \/ x \in DOMAIN index.itss /\ x \in Itsses /\ x \notin Screens /\ x \notin Schemes
              /\ verdicts[x] = ItssVerdict(x)
<1>1. verdicts = Verdicts
  BY DEF AuditDone, SA_IInv, Computed
<1>2. MySchemes \subseteq Schemes /\ DOMAIN index.itss \subseteq Itsses
  BY DEF MySchemes, AuditDone, SA_IInv, SchemesTrue, ItssTrue
<1>3. MyScreens \subseteq Screens
  BY DEF MyScreens, MySchemes, AuditDone, SA_IInv, SchemesTrue, SA_Typed
<1>4. MyItsses \union UNION {Referring(s) : s \in MySchemes} \subseteq DOMAIN index.itss
  BY DEF MyItsses, Referring
<1>5. x \in MyScreens \union MySchemes \union MyItsses \union UNION {Referring(s) : s \in MySchemes}
  BY <1>1 DEF Verdicts
<1>6. verdicts[x] = IF x \in Screens THEN ScreenVerdict(x)
                    ELSE IF x \in Schemes THEN SchemeVerdict(x) ELSE ItssVerdict(x)
  BY <1>1, <1>5 DEF Verdicts
<1>. QED  BY <1>2, <1>3, <1>4, <1>5, <1>6, KindsApart

(* What was found of a screen scheme's users is true, and all of it is known  *)
(* if the audit says that it is complete.                                    *)
LEMMA ReachIsTrue ==
  ASSUME AuditDone, NEW s \in Schemes
  PROVE  /\ ReachOf(s) \subseteq UsersOfScheme(s)
         /\ (index.complete \/ gaps = 0) /\ ReachComplete(s) => ReachOf(s) = UsersOfScheme(s)
<1>. USE DEF AuditDone, SA_IInv
<1>1. \A i \in Referring(s) :
        i \in Itsses /\ s \in mapped[i] /\ index.itss[i] \subseteq UsersOf(i)
        /\ (i \notin index.cut => index.itss[i] = UsersOf(i))
  BY DEF Referring, MapsTrue, ItssTrue
<1>2. ReachOf(s) \subseteq UsersOfScheme(s)
  BY <1>1 DEF ReachOf, UsersOfScheme
<1>3. ASSUME index.complete \/ gaps = 0, ReachComplete(s)
      PROVE  UsersOfScheme(s) \subseteq ReachOf(s)
  <2>1. DOMAIN index.itss = Itsses
    BY <1>3, AllOver DEF ItssTrue, NothingMissed
  <2>2. \A i \in Itsses : s \in mapped[i] => <<i, s>> \in index.maps
    BY <1>3, <2>1, AllOver DEF MapsTrue, NothingMissed
  <2>3. \A i \in Itsses : s \in mapped[i] => i \in Referring(s) /\ index.itss[i] = UsersOf(i)
    BY <1>1, <1>3, <2>1, <2>2 DEF Referring, ReachComplete, Trustworthy
  <2>. QED  BY <2>3 DEF UsersOfScheme, ReachOf
<1>. QED  BY <1>2, <1>3

(* The same of a screen, as far as screen schemes show it.                   *)
LEMMA ScreenReachIsTrue ==
  ASSUME AuditDone, NEW x \in Screens
  PROVE  /\ UNION {ReachOf(s) : s \in SchemesOf(x)}
               \subseteq UNION {UsersOfScheme(s) : s \in {r \in Schemes : shows[r] = x}}
         /\ index.complete /\ (\A s \in SchemesOf(x) : ReachComplete(s)) =>
              UNION {ReachOf(s) : s \in SchemesOf(x)}
                = UNION {UsersOfScheme(s) : s \in {r \in Schemes : shows[r] = x}}
<1>. USE DEF AuditDone, SA_IInv
<1>1. \A s \in SchemesOf(x) : s \in Schemes /\ shows[s] = x
  BY DEF SchemesOf, SchemesTrue
<1>2. UNION {ReachOf(s) : s \in SchemesOf(x)}
        \subseteq UNION {UsersOfScheme(s) : s \in {r \in Schemes : shows[r] = x}}
  BY <1>1, ReachIsTrue
<1>3. ASSUME index.complete, \A s \in SchemesOf(x) : ReachComplete(s),
             NEW s \in Schemes, shows[s] = x
      PROVE  UsersOfScheme(s) \subseteq UNION {ReachOf(r) : r \in SchemesOf(x)}
  <2>1. CASE s \in DOMAIN index.schemes
    <3>1. s \in SchemesOf(x)
      BY <1>3, <2>1 DEF SchemesOf, SchemesTrue
    <3>2. ReachOf(s) = UsersOfScheme(s)
      BY <1>3, <3>1, ReachIsTrue
    <3>. QED  BY <3>1, <3>2
  <2>2. CASE s \notin DOMAIN index.schemes
    <3>1. Referred \subseteq DOMAIN index.schemes
      BY <1>3, AllOver DEF SchemesTrue
    <3>2. DOMAIN index.itss = Itsses
      BY <1>3, AllOver DEF ItssTrue
    <3>3. \A i \in Itsses : s \notin mapped[i]
      <4>1. \A i \in Itsses : s \in mapped[i] => <<i, s>> \in index.maps
        BY <1>3, <3>2, AllOver DEF MapsTrue
      <4>2. \A i \in Itsses : <<i, s>> \in index.maps => s \in Referred
        <5>1. ASSUME NEW i \in Itsses, <<i, s>> \in index.maps PROVE s \in Referred
          <6>1. <<i, s>>[2] = s
            OBVIOUS
          <6>. QED  BY <5>1, <6>1 DEF Referred
        <5>. QED  BY <5>1
      <4>. QED  BY <2>2, <3>1, <4>1, <4>2
    <3>4. UsersOfScheme(s) = {}
      BY <3>3 DEF UsersOfScheme
    <3>. QED  BY <3>4
  <2>. QED  BY <2>1, <2>2
<1>. QED  BY <1>2, <1>3

(* And of the workflows that show it.                                        *)
LEMMA FlowsAreTrue ==
  ASSUME AuditDone, NEW w \in DOMAIN index.scan.rows
  PROVE  /\ index.scan.of = flows /\ w \in DOMAIN flows /\ index.scan.rows[w] = flows[w]
         /\ mode # "no workflows" /\ flows[w] \in Workflow
<1>1. index.scan # NoScan
  BY DEF NoScan, Empty
<1>. QED  BY <1>1, ScanIsNow DEF AuditDone, SA_IInv, ScansTrue, ScanTrue, SA_Typed

(* A complete scan below its cap has them all. *)
LEMMA FlowsAllSeen ==
  ASSUME AuditDone, FlowsComplete
  PROVE  DOMAIN index.scan.rows = DOMAIN flows /\ index.scan.of = flows
<1>1. index.scan # NoScan
  BY DEF NoScan, FlowsComplete
<1>. QED  BY <1>1, ScanIsNow DEF AuditDone, SA_IInv, ScansTrue, ScanTrue, FlowsComplete

(* "target_only" is right ... *)
LEMMA SafeIsUnsharedHolds ==
  ASSUME SA_IInv, Done, mode # "attributed", ~Overlooked, NEW x \in DOMAIN verdicts,
         verdicts[x] = "target_only"
  PROVE  UsersInJira(x) \subseteq {Target}
<1>1. AuditDone
  BY DEF AuditDone, Done, Empty
<1>. USE DEF Resolve
<1>2. CASE x \in DOMAIN index.itss /\ x \in Itsses /\ verdicts[x] = ItssVerdict(x)
  <2>1. index.itss[x] \subseteq {Target} /\ x \notin index.cut
    BY <1>2 DEF ItssVerdict, Trustworthy
  <2>2. index.itss[x] = UsersOf(x)
    BY <1>2, <2>1 DEF SA_IInv, ItssTrue
  <2>. QED  BY <1>2, <2>1, <2>2, KindsApart
<1>3. CASE x \in Schemes /\ verdicts[x] = SchemeVerdict(x)
  <2>1. ReachOf(x) \subseteq {Target} /\ ReachComplete(x) /\ index.complete
    BY <1>3 DEF SchemeVerdict
  <2>2. ReachOf(x) = UsersOfScheme(x)
    BY <1>1, <1>3, <2>1, ReachIsTrue
  <2>. QED  BY <1>3, <2>1, <2>2, KindsApart
<1>4. CASE x \in Screens /\ verdicts[x] = ScreenVerdict(x)
  <2>1. /\ UNION {ReachOf(s) : s \in SchemesOf(x)} \subseteq {Target}
        /\ "shared" \notin FloorsOf(x) /\ "unproven" \notin FloorsOf(x)
        /\ "unknown" \notin FloorsOf(x)
        /\ \A s \in SchemesOf(x) : ReachComplete(s)
        /\ index.complete
    BY <1>4 DEF ScreenVerdict
  <2>2. UNION {UsersOfScheme(s) : s \in {r \in Schemes : shows[r] = x}} \subseteq {Target}
    BY <1>1, <1>4, <2>1, ScreenReachIsTrue
  <2>3. FlowsComplete
    BY <2>1 DEF FloorsOf
  <2>4. ASSUME x = Watched, NEW w \in DOMAIN flows, flows[w].shows
        PROVE  flows[w].users \subseteq {Target}
    <3>1. w \in DOMAIN index.scan.rows
      BY <1>1, <2>3, FlowsAllSeen
    <3>2. index.scan.rows[w] = flows[w] /\ flows[w] \in Workflow
      BY <1>1, <3>1, FlowsAreTrue
    <3>3. FloorOf(w) \in FloorsOf(x)
      BY <2>4, <3>1, <3>2 DEF FloorsOf
    <3>4. flows[w].scope = Target
      BY <2>1, <3>2, <3>3 DEF FloorOf
    <3>. QED  BY <3>2, <3>4, ShareAnalysisAssumption DEF Workflow
  <2>5. x = Watched => FlowUsers \subseteq {Target}
    BY <2>4 DEF FlowUsers
  <2>. QED  BY <1>4, <2>2, <2>5, KindsApart
<1>. QED  BY <1>1, <1>2, <1>3, <1>4, VerdictOf

(* ... and so is "shared" ... *)
LEMMA SharedIsProvedHolds ==
  ASSUME SA_IInv, Done, ~Overlooked, index.minesComplete, NEW x \in DOMAIN verdicts,
         verdicts[x] = "shared"
  PROVE  UsersInJira(x) \ {Target} # {}
<1>1. AuditDone
  BY DEF AuditDone, Done, Empty
<1>. USE DEF Resolve
<1>2. CASE x \in DOMAIN index.itss /\ x \in Itsses /\ verdicts[x] = ItssVerdict(x)
  <2>1. index.itss[x] \ {Target} # {}
    BY <1>2 DEF ItssVerdict
  <2>2. index.itss[x] \subseteq UsersOf(x)
    BY <1>2, <2>1 DEF SA_IInv, ItssTrue
  <2>. QED  BY <1>2, <2>1, <2>2, KindsApart
<1>3. CASE x \in Schemes /\ verdicts[x] = SchemeVerdict(x)
  <2>1. ReachOf(x) \ {Target} # {}
    BY <1>3 DEF SchemeVerdict
  <2>2. ReachOf(x) \subseteq UsersOfScheme(x)
    BY <1>1, <1>3, <2>1, ReachIsTrue
  <2>. QED  BY <1>3, <2>1, <2>2, KindsApart
<1>4. CASE x \in Screens /\ verdicts[x] = ScreenVerdict(x)
  <2>1. \/ (UNION {ReachOf(s) : s \in SchemesOf(x)}) \ {Target} # {}
        \/ "shared" \in FloorsOf(x)
    BY <1>4 DEF ScreenVerdict
  <2>2. CASE (UNION {ReachOf(s) : s \in SchemesOf(x)}) \ {Target} # {}
    BY <1>1, <1>4, <2>2, ScreenReachIsTrue, KindsApart
  <2>3. CASE "shared" \in FloorsOf(x)
    <3>1. PICK w \in DOMAIN index.scan.rows :
            x = Watched /\ index.scan.rows[w].shows /\ FloorOf(w) = "shared"
      BY <2>3 DEF FloorsOf
    <3>2. /\ index.scan.rows[w] = flows[w] /\ flows[w] \in Workflow /\ w \in DOMAIN flows
          /\ index.scan.of = flows /\ mode # "no workflows"
      BY <1>1, <3>1, FlowsAreTrue
    <3>3. flows[w].users \ {Target} # {}
      <4>1. \/ flows[w].scope \in Others \/ InUseElsewhere(w)
        BY <3>1, <3>2 DEF FloorOf
      <4>2. CASE flows[w].scope \in Others
        BY <3>2, <4>2, ShareAnalysisAssumption DEF Workflow
      <4>3. CASE InUseElsewhere(w)
        <5>1. w \in index.scan.active /\ w \notin index.mine /\ index.scan.active # Unknown
          BY <4>3 DEF InUseElsewhere
        <5>2. flows[w].users # {}
          BY <3>2, <5>1 DEF SA_IInv, ScansTrue, ScanTrue
        <5>3. Target \notin flows[w].users
          BY <1>1, <3>2, <5>1, AllOver DEF SA_IInv, MineTrue, AuditDone
        <5>. QED  BY <5>2, <5>3
      <4>. QED  BY <4>1, <4>2, <4>3
    <3>4. flows[w].users \subseteq UsersInJira(x)
      <4>1. flows[w].users \subseteq FlowUsers
        BY <3>1, <3>2 DEF FlowUsers
      <4>2. FlowUsers \subseteq UsersInJira(x)
        BY <1>4, <3>1, KindsApart
      <4>. QED  BY <4>1, <4>2
    <3>. QED  BY <3>3, <3>4
  <2>. QED  BY <2>1, <2>2, <2>3
<1>. QED  BY <1>1, <1>2, <1>3, <1>4, VerdictOf

(* ... and an audit without gaps says which it is. *)
LEMMA ExactWhenWholeHolds ==
  ASSUME SA_IInv, Done, gaps = 0, ~Overlooked, FlowsComplete, NEW x \in DOMAIN verdicts,
         x # Watched \/ \A w \in DOMAIN flows : ~flows[w].shows
  PROVE  verdicts[x] = CASE UsersInJira(x) = {} -> "orphan"
                         [] UsersInJira(x) = {Target} -> "target_only"
                         [] OTHER -> "shared"
<1>1. AuditDone
  BY DEF AuditDone, Done, Empty
<1>2. /\ index.cut = {} /\ DOMAIN index.itss = Itsses /\ index.mappingsComplete
      /\ DOMAIN index.schemes = Schemes /\ index.complete
  BY <1>1, AllOver DEF AuditDone, SA_IInv, NothingMissed, FlowsComplete
<1>3. \A s : ReachComplete(s)
  BY <1>2 DEF ReachComplete, Trustworthy
<1>4. CASE x \in DOMAIN index.itss /\ x \in Itsses /\ verdicts[x] = ItssVerdict(x)
  <2>1. index.itss[x] = UsersOf(x) /\ UsersInJira(x) = UsersOf(x)
    BY <1>2, <1>4, KindsApart DEF SA_IInv, ItssTrue
  <2>2. verdicts[x] = IF UsersOf(x) = {} THEN "orphan"
                      ELSE IF UsersOf(x) \ {Target} # {} THEN "shared" ELSE "target_only"
    BY <1>2, <1>4, <2>1 DEF ItssVerdict, Resolve, Trustworthy
  <2>. QED  BY <2>1, <2>2
<1>5. CASE x \in Schemes /\ x \in MySchemes /\ verdicts[x] = SchemeVerdict(x)
  <2>1. ReachOf(x) = UsersOfScheme(x) /\ UsersInJira(x) = UsersOfScheme(x)
    BY <1>1, <1>2, <1>3, <1>5, ReachIsTrue, KindsApart
  <2>2. Target \in ReachOf(x)
    BY <1>5 DEF MySchemes, MyItsses, ReachOf, Referring
  <2>3. verdicts[x] = IF UsersOfScheme(x) \ {Target} # {} THEN "shared" ELSE "target_only"
    BY <1>2, <1>3, <1>5, <2>1 DEF SchemeVerdict, Resolve
  <2>. QED  BY <2>1, <2>2, <2>3
<1>6. CASE x \in Screens /\ x \in MyScreens /\ verdicts[x] = ScreenVerdict(x)
  <2>1. FloorsOf(x) = {}
    <3>1. ASSUME x = Watched, NEW w \in DOMAIN index.scan.rows PROVE ~index.scan.rows[w].shows
      BY <1>1, <3>1, FlowsAreTrue
    <3>. QED  BY <3>1 DEF FloorsOf
  <2>2. x = Watched => FlowUsers = {}
    BY DEF FlowUsers
  <2>3. UsersInJira(x) = UNION {ReachOf(s) : s \in SchemesOf(x)}
    BY <1>1, <1>2, <1>3, <1>6, <2>2, ScreenReachIsTrue, KindsApart
  <2>4. Target \in UsersInJira(x)
    <3>1. PICK s \in MySchemes : x = index.schemes[s]
      BY <1>6 DEF MyScreens
    <3>2. s \in SchemesOf(x) /\ Target \in ReachOf(s)
      BY <3>1 DEF MySchemes, MyItsses, ReachOf, Referring, SchemesOf
    <3>. QED  BY <2>3, <3>2
  <2>5. verdicts[x] = IF UsersInJira(x) \ {Target} # {} THEN "shared" ELSE "target_only"
    BY <1>2, <1>3, <1>6, <2>1, <2>3 DEF ScreenVerdict, Resolve
  <2>. QED  BY <2>4, <2>5
<1>. QED  BY <1>1, <1>4, <1>5, <1>6, VerdictOf

(* What the page may rely on follows from the invariant. *)
LEMMA SA_IInvImpliesVerdictsExact == SA_IInv => VerdictsExact
<1>. SUFFICES ASSUME SA_IInv PROVE VerdictsExact
  OBVIOUS
<1>1. SafeIsUnshared
  BY SafeIsUnsharedHolds DEF SafeIsUnshared, OnlySafeIfUnshared
<1>2. ExactWhenWhole
  BY ExactWhenWholeHolds DEF ExactWhenWhole
<1>3. SharedIsProved
  BY SharedIsProvedHolds DEF SharedIsProved, SharedHasOthers
<1>. QED  BY <1>1, <1>2, <1>3 DEF VerdictsExact

(* The invariant of the audit: what its index holds is true, what is missing  *)
(* is known to be unless the probe finds it, and a kept scan stands for the   *)
(* workflows it was made of (plan_stream, screen_share_analysis.py:400).     *)
THEOREM SA_Invariance == SA_Spec => []SA_IInv
<1>. QED  BY SA_InitIInv, SA_NextIInv, PTL DEF SA_Spec

(* "target_only" is said of nothing that another project uses, whatever was   *)
(* cut, refused or missed in any phase and however old the kept scan is if it *)
(* is of as many workflows; "shared" is said where it is true; and an audit   *)
(* without gaps says which of the two it is: for any projects, schemes,       *)
(* screens and workflows and any number of audits, gaps and changes           *)
(* (_resolve and the verdict functions, screen_share_analysis.py:1051).      *)
THEOREM VerdictsExactAlways == SA_Spec => []VerdictsExact
<1>. QED  BY SA_Invariance, SA_IInvImpliesVerdictsExact, PTL

(***************************************************************************)
(* The options of a field                                                  *)
(***************************************************************************)

(* The lists, and the deleted options, of which none is asked for.           *)
OptionLists ==
  /\ list \in Seq([id : Nat, value : Values]) /\ given \in Nat /\ OptionsAtFirst <= given
  /\ asked \in Seq([id : 0..OptionsAtFirst, value : Values]) /\ ids \in Seq(Nat)
  /\ deleted \subseteq 1..OptionsAtFirst
  /\ \A j, k \in DOMAIN asked : (j # k /\ asked[j].id # 0) => asked[j].id # asked[k].id
  /\ deleted \intersect IdsOf(asked) = {}

(* Nothing that was not to be deleted is lost.                               *)
NoneLost == (1..OptionsAtFirst) \ deleted \subseteq IdsOf(list)

(* Once the new options are made, every item asked for has an option of its  *)
(* own,                                                                      *)
Named ==
  step \in {"update", "delete", "move", "done"} =>
    /\ Len(ids) = Len(asked) /\ IsInjective(ids)
    /\ \A k \in DOMAIN ids :
         ids[k] \in IdsOf(list) \ deleted /\ asked[k].id \in {0, ids[k]}

(* that has its value once all are set.                                      *)
Valued ==
  step \in {"delete", "move", "done"} =>
    \A k \in DOMAIN ids, j \in DOMAIN list :
       list[j].id = ids[k] => list[j].value = asked[k].value

(* What is to be deleted and still there is still to be sent, or was refused. *)
DeletedOrToCome ==
  /\ step \in {"create", "update"} => unsent = deleted
  /\ step \in {"delete", "move", "done"} =>
       kept \/ deleted \intersect IdsOf(list) \subseteq unsent
  /\ step \in {"move", "done"} => unsent = {}

InOrder ==
  (step = "done" /\ Len(asked) > 1) =>
    \A k \in DOMAIN ids : k \in DOMAIN list /\ list[k].id = ids[k]

FO_IInv ==
  FO_TypeOK /\ OptionLists /\ NoneLost /\ Named /\ Valued /\ DeletedOrToCome /\ InOrder

Options == [id : Nat, value : Values]
UniqueIds(s) == \A i, j \in DOMAIN s : s[i].id = s[j].id => i = j

(* What an operation may do to the list: another list of options whose ids   *)
(* are in use, each once.                                                    *)
LEMMA ListIsTyped ==
  ASSUME OptionsAssumption, FO_IInv
  PROVE  /\ list \in Seq(Options) /\ UniqueIds(list) /\ Len(list) \in Nat
         /\ DOMAIN list = 1..Len(list) /\ IdsOf(list) \subseteq 1..given
         /\ given \in Nat /\ OptionsAtFirst \in Nat /\ OptionsAtFirst <= given
         /\ DOMAIN asked = 1..Len(asked) /\ Len(asked) \in Nat
         /\ DOMAIN ids = 1..Len(ids) /\ Len(ids) \in Nat
BY DEF OptionsAssumption, FO_IInv, FO_TypeOK, OptionLists, Options, UniqueIds, IsInjective

(* A part of a list.                                                         *)
LEMMA PartOfList ==
  ASSUME NEW s \in Seq(Options), UniqueIds(s), NEW S \in SUBSET DOMAIN s
  PROVE  /\ Selected(s, S) \in Seq(Options) /\ UniqueIds(Selected(s, S))
         /\ IdsOf(Selected(s, S)) = {s[j].id : j \in S}
         /\ \A k \in DOMAIN Selected(s, S) : \E j \in S : Selected(s, S)[k] = s[j]
<1> DEFINE p == Selected(s, S)
           c == Cardinality(S)
<1>1. /\ p \in Seq(Options) /\ DOMAIN p = 1..c /\ IsFiniteSet(S) /\ S \in SUBSET Nat /\ c \in Nat
      /\ \A k \in 1..c : Nth(S, k) \in S /\ p[k] = s[Nth(S, k)]
      /\ \A i \in S : \E k \in 1..c : Nth(S, k) = i
  BY SelectedType
<1> HIDE DEF p
<1>2. ASSUME NEW k \in DOMAIN p, NEW l \in DOMAIN p, k < l PROVE p[k].id # p[l].id
  <2>1. Nth(S, k) < Nth(S, l) /\ Nth(S, k) \in Nat /\ Nth(S, l) \in Nat
    BY <1>1, <1>2, NthIncreases
  <2>2. Nth(S, k) # Nth(S, l) /\ Nth(S, k) \in DOMAIN s /\ Nth(S, l) \in DOMAIN s
    BY <1>1, <2>1
  <2> QED
    BY <1>1, <2>2 DEF UniqueIds
<1>3. UniqueIds(p)
  <2> SUFFICES ASSUME NEW k \in DOMAIN p, NEW l \in DOMAIN p, k # l PROVE p[k].id # p[l].id
    BY DEF UniqueIds
  <2>1. k \in Nat /\ l \in Nat
    BY <1>1
  <2>2. CASE k < l
    BY <1>2, <2>2
  <2>3. CASE l < k
    BY <1>2, <2>3
  <2> QED
    BY <2>1, <2>2, <2>3
<1>4. IdsOf(p) = {s[j].id : j \in S}
  <2>1. ASSUME NEW x \in IdsOf(p) PROVE x \in {s[j].id : j \in S}
    BY <1>1 DEF IdsOf
  <2>2. ASSUME NEW x \in {s[j].id : j \in S} PROVE x \in IdsOf(p)
    BY <1>1 DEF IdsOf
  <2> QED
    BY <2>1, <2>2
<1> QED
  BY <1>1, <1>3, <1>4 DEF p

(* The ids of the list asked for: those it has, and for the others new ones. *)
LEMMA WovenIds ==
  ASSUME OptionsAssumption, OptionLists
  PROVE  /\ Woven(given) \in Seq(Nat) /\ Len(Woven(given)) = Len(asked)
         /\ DOMAIN Woven(given) = DOMAIN asked /\ IsInjective(Woven(given))
         /\ Cardinality(Without(asked)) \in Nat
         /\ \A k \in DOMAIN asked :
              \/ asked[k].id # 0 /\ Woven(given)[k] = asked[k].id
              \/ /\ asked[k].id = 0
                 /\ Woven(given)[k] \in (given + 1)..(given + Cardinality(Without(asked)))
<1> DEFINE S == Without(asked)
           c == Cardinality(S)
           rank(k) == Cardinality({j \in S : j <= k})
           w == Woven(given)
<1>1. /\ asked \in Seq([id : 0..OptionsAtFirst, value : Values])
      /\ DOMAIN asked = 1..Len(asked) /\ Len(asked) \in Nat /\ given \in Nat
      /\ OptionsAtFirst \in Nat /\ OptionsAtFirst <= given
  BY DEF OptionLists, OptionsAssumption
<1>2. S \in SUBSET DOMAIN asked
  BY DEF Without
<1>3. /\ IsFiniteSet(S) /\ S \in SUBSET Nat /\ c \in Nat
      /\ \A i \in S : \E k \in 1..c : Nth(S, k) = i
  <2> HIDE DEF S
  <2> QED
    BY <1>1, <1>2, SelectedType
<1>4. \A i \in S : rank(i) \in 1..c /\ Nth(S, rank(i)) = i
  <2> HIDE DEF S
  <2> SUFFICES ASSUME NEW i \in S PROVE rank(i) \in 1..c /\ Nth(S, rank(i)) = i
    OBVIOUS
  <2>1. PICK k \in 1..c : Nth(S, k) = i
    BY <1>3
  <2>2. rank(i) = k
    BY <1>3, <2>1, NthNumbers
  <2> QED
    BY <2>1, <2>2
<1>5. \A k \in DOMAIN asked : k \in S <=> asked[k].id = 0
  BY DEF Without
<1>6. w = [k \in DOMAIN asked |-> IF asked[k].id # 0 THEN asked[k].id ELSE given + rank(k)]
  BY DEF Woven
<1> HIDE DEF S, rank, w
<1>7. ASSUME NEW k \in DOMAIN asked
      PROVE  \/ asked[k].id # 0 /\ w[k] = asked[k].id /\ w[k] \in 1..OptionsAtFirst
             \/ asked[k].id = 0 /\ k \in S /\ w[k] = given + rank(k) /\ w[k] \in (given + 1)..(given + c)
  <2>1. CASE asked[k].id = 0
    <3>1. k \in S /\ w[k] = given + rank(k)
      BY <1>5, <1>6, <2>1
    <3>2. rank(k) \in 1..c
      BY <1>4, <3>1
    <3> QED
      BY <1>1, <1>3, <2>1, <3>1, <3>2
  <2>2. CASE asked[k].id # 0
    <3>1. w[k] = asked[k].id
      BY <1>6, <2>2
    <3>2. asked[k] \in [id : 0..OptionsAtFirst, value : Values]
      BY <1>1, ElementOfSeq
    <3>3. asked[k].id \in 0..OptionsAtFirst
      BY <3>2
    <3> QED
      BY <1>1, <2>2, <3>1, <3>3
  <2> QED
    BY <2>1, <2>2
<1>8. w \in Seq(Nat) /\ Len(w) = Len(asked) /\ DOMAIN w = DOMAIN asked
  <2>1. \A k \in DOMAIN asked : w[k] \in Nat
    BY <1>1, <1>3, <1>7
  <2>2. w \in [1..Len(asked) -> Nat]
    BY <1>1, <1>6, <2>1
  <2> QED
    BY <1>1, <2>2
<1>9. ASSUME NEW k \in DOMAIN asked, NEW l \in DOMAIN asked, w[k] = w[l] PROVE k = l
  <2>1. CASE asked[k].id # 0 /\ asked[l].id # 0
    <3>1. asked[k].id = asked[l].id
      BY <1>7, <1>9, <2>1
    <3> QED
      BY <2>1, <3>1 DEF OptionLists
  <2>2. CASE asked[k].id = 0 /\ asked[l].id = 0
    <3>1. k \in S /\ l \in S /\ given + rank(k) = given + rank(l)
      BY <1>7, <1>9, <2>2
    <3>2. rank(k) \in 1..c /\ rank(l) \in 1..c
      BY <1>4, <3>1
    <3>3. rank(k) = rank(l)
      BY <1>1, <1>3, <3>1, <3>2
    <3> QED
      BY <1>4, <3>1, <3>3
  <2>3. ~(asked[k].id = 0 <=> asked[l].id # 0)
    BY <1>1, <1>3, <1>7, <1>9
  <2> QED
    BY <2>1, <2>2, <2>3
<1>10. IsInjective(w)
  BY <1>8, <1>9 DEF IsInjective
<1> QED
  BY <1>3, <1>7, <1>8, <1>10 DEF w, S

(* The list with the new options behind it.                                  *)
Made == list \o [k \in 1..Len(New) |-> Option(given + k, New[k].value)]

LEMMA MadeList ==
  ASSUME OptionsAssumption, FO_IInv
  PROVE  /\ Made \in Seq(Options) /\ UniqueIds(Made)
         /\ Len(New) = Cardinality(Without(asked)) /\ Len(New) \in Nat
         /\ IdsOf(Made) = IdsOf(list) \union ((given + 1)..(given + Len(New)))
<1> DEFINE n == Len(New)
           more == [k \in 1..n |-> Option(given + k, New[k].value)]
<1>1. /\ list \in Seq(Options) /\ UniqueIds(list) /\ Len(list) \in Nat
      /\ DOMAIN list = 1..Len(list) /\ IdsOf(list) \subseteq 1..given /\ given \in Nat
  BY ListIsTyped
<1>2. /\ New \in Seq([id : 0..OptionsAtFirst, value : Values])
      /\ n = Cardinality(Without(asked)) /\ n \in Nat
  <2>1. /\ asked \in Seq([id : 0..OptionsAtFirst, value : Values])
        /\ Without(asked) \in SUBSET DOMAIN asked
    BY DEF FO_IInv, OptionLists, Without
  <2> QED
    BY <2>1, SelectedType DEF New
<1>3. \A k \in 1..n : New[k].value \in Values
  <2> SUFFICES ASSUME NEW k \in 1..n PROVE New[k].value \in Values
    OBVIOUS
  <2>1. New[k] \in [id : 0..OptionsAtFirst, value : Values]
    BY <1>2, ElementOfSeq
  <2> QED
    BY <2>1
<1>4. \A k \in 1..n : more[k] \in Options /\ more[k].id = given + k
  BY <1>1, <1>2, <1>3 DEF Options, Option
<1>5. more \in Seq(Options) /\ Len(more) = n
  <2> HIDE DEF n
  <2>1. more \in [1..n -> Options]
    BY <1>4
  <2> QED
    BY <1>2, <2>1
<1>6. Made = list \o more
  BY DEF Made
<1> HIDE DEF more, n
<1>7. /\ Made \in Seq(Options) /\ DOMAIN Made = 1..(Len(list) + n)
      /\ \A j \in 1..Len(list) : Made[j] = list[j]
      /\ \A k \in 1..n : Made[Len(list) + k] = more[k]
  BY <1>1, <1>2, <1>5, <1>6
<1>8. \A j \in DOMAIN Made :
         \/ j \in DOMAIN list /\ Made[j].id = list[j].id /\ Made[j].id \in 1..given
         \/ j > Len(list) /\ Made[j].id = given + (j - Len(list)) /\ j - Len(list) \in 1..n
  <2> SUFFICES ASSUME NEW j \in DOMAIN Made
               PROVE  \/ /\ j \in DOMAIN list /\ Made[j].id = list[j].id
                         /\ Made[j].id \in 1..given
                      \/ /\ j > Len(list) /\ Made[j].id = given + (j - Len(list))
                         /\ j - Len(list) \in 1..n
    OBVIOUS
  <2>1. j \in 1..(Len(list) + n)
    BY <1>7
  <2>2. CASE j <= Len(list)
    <3>1. j \in DOMAIN list /\ Made[j] = list[j]
      BY <1>1, <1>2, <1>7, <2>1, <2>2
    <3> QED
      BY <1>1, <3>1 DEF IdsOf
  <2>3. CASE j > Len(list)
    <3>1. PICK k \in 1..n : j = Len(list) + k
      <4>1. j - Len(list) \in 1..n /\ j = Len(list) + (j - Len(list))
        BY <1>1, <1>2, <2>1, <2>3
      <4> QED
        BY <4>1
    <3>2. Made[j].id = given + k
      BY <1>4, <1>7, <3>1
    <3>3. j - Len(list) = k
      BY <1>1, <1>2, <3>1
    <3> QED
      BY <2>3, <3>2, <3>3
  <2> QED
    BY <1>1, <1>2, <2>1, <2>2, <2>3
<1>9. UniqueIds(Made)
  <2> SUFFICES ASSUME NEW i \in DOMAIN Made, NEW j \in DOMAIN Made, Made[i].id = Made[j].id
               PROVE  i = j
    BY DEF UniqueIds
  <2>0. i \in Nat /\ j \in Nat
    BY <1>1, <1>2, <1>7
  <2>1. CASE i \in DOMAIN list /\ j \in DOMAIN list
    <3>1. list[i].id = list[j].id
      BY <1>1, <1>7, <2>1
    <3> QED
      BY <1>1, <2>1, <3>1 DEF UniqueIds
  <2>2. CASE i > Len(list) /\ j > Len(list)
    <3>1. ~(i \in DOMAIN list) /\ ~(j \in DOMAIN list)
      BY <1>1, <2>0, <2>2
    <3>2. given + (i - Len(list)) = given + (j - Len(list))
      BY <1>8, <3>1
    <3> QED
      BY <1>1, <2>0, <3>2
  <2> QED
    BY <1>1, <1>2, <1>8, <2>0, <2>1, <2>2
<1>10. IdsOf(Made) = IdsOf(list) \union ((given + 1)..(given + n))
  <2>1. ASSUME NEW x \in IdsOf(Made)
        PROVE  x \in IdsOf(list) \union ((given + 1)..(given + n))
    <3>1. PICK j \in DOMAIN Made : x = Made[j].id
      BY DEF IdsOf
    <3>2. CASE j \in DOMAIN list /\ x = list[j].id
      BY <3>2 DEF IdsOf
    <3>3. CASE x = given + (j - Len(list)) /\ j - Len(list) \in 1..n
      BY <1>1, <1>2, <3>3
    <3> QED
      BY <1>8, <3>1, <3>2, <3>3
  <2>2. ASSUME NEW x \in IdsOf(list) PROVE x \in IdsOf(Made)
    <3>1. PICK j \in DOMAIN list : x = list[j].id
      BY DEF IdsOf
    <3>2. j \in DOMAIN Made /\ Made[j] = list[j]
      BY <1>1, <1>2, <1>7
    <3> QED
      BY <3>1, <3>2 DEF IdsOf
  <2>3. ASSUME NEW x \in (given + 1)..(given + n) PROVE x \in IdsOf(Made)
    <3>1. PICK k \in 1..n : x = given + k
      <4>1. x - given \in 1..n /\ x = given + (x - given)
        BY <1>1, <1>2, <2>3
      <4> QED
        BY <4>1
    <3>2. Len(list) + k \in DOMAIN Made /\ Made[Len(list) + k] = more[k]
      BY <1>1, <1>2, <1>7, <3>1
    <3>3. Made[Len(list) + k].id = x
      BY <1>4, <3>1, <3>2
    <3> QED
      BY <3>2, <3>3 DEF IdsOf
  <2> QED
    BY <2>1, <2>2, <2>3
<1> QED
  BY <1>2, <1>7, <1>9, <1>10 DEF n

LEMMA CreateKeeps ==
  ASSUME OptionsAssumption, FO_IInv, Create
  PROVE  FO_IInv'
<1> DEFINE n == Len(New)
<1>1. /\ list \in Seq(Options) /\ UniqueIds(list) /\ IdsOf(list) \subseteq 1..given
      /\ given \in Nat /\ OptionsAtFirst \in Nat /\ OptionsAtFirst <= given
  BY ListIsTyped
<1>2. /\ Made \in Seq(Options) /\ UniqueIds(Made) /\ n = Cardinality(Without(asked)) /\ n \in Nat
      /\ IdsOf(Made) = IdsOf(list) \union ((given + 1)..(given + n))
  BY MadeList
<1>3. /\ step = "create" /\ UNCHANGED <<asked, deleted, sends, kept, unsent>>
      /\ \/ list' = Made /\ given' = given + n /\ step' \in {"update", "failed"}
         \/ list' = list /\ given' = given /\ step' = "failed"
      /\ \/ step' = "update" /\ ids' = Woven(given)
         \/ step' = "failed" /\ ids' = ids
  BY DEF Create, Fails, Made
<1> HIDE DEF n
<1>4. /\ list' \in Seq(Options) /\ UniqueIds(list') /\ IdsOf(list') \subseteq 1..given'
      /\ given' \in Nat /\ OptionsAtFirst <= given' /\ IdsOf(list) \subseteq IdsOf(list')
  <2>1. CASE list' = list /\ given' = given
    BY <1>1, <2>1
  <2>2. CASE list' = Made /\ given' = given + n
    <3>1. IdsOf(Made) \subseteq 1..(given + n)
      BY <1>1, <1>2
    <3> QED
      BY <1>1, <1>2, <2>2, <3>1
  <2> QED
    BY <1>3, <2>1, <2>2
<1>5. ids' \in Seq(Nat)
  BY <1>3, WovenIds DEF FO_IInv, OptionLists
<1>6. FO_TypeOK'
  <2>1. IsInjective([k \in DOMAIN list' |-> list'[k].id])
    BY <1>4 DEF UniqueIds, IsInjective
  <2> QED
    BY <1>3, <1>4, <2>1 DEF FO_IInv, FO_TypeOK, IdsOf
<1>7. OptionLists' /\ NoneLost'
  BY <1>3, <1>4, <1>5 DEF FO_IInv, OptionLists, NoneLost, IdsOf, Options
<1>8. Named'
  <2> SUFFICES ASSUME step' = "update"
               PROVE  /\ Len(ids') = Len(asked) /\ IsInjective(ids')
                      /\ \A k \in DOMAIN ids' : /\ ids'[k] \in IdsOf(list') \ deleted
                                                /\ asked[k].id \in {0, ids'[k]}
    BY <1>3 DEF Named, IdsOf
  <2>1. list' = Made /\ ids' = Woven(given)
    BY <1>3
  <2>2. OptionLists
    BY DEF FO_IInv
  <2>3. ASSUME NEW k \in DOMAIN asked
        PROVE  ids'[k] \in IdsOf(list') \ deleted /\ asked[k].id \in {0, ids'[k]}
    <3>1. CASE asked[k].id # 0 /\ ids'[k] = asked[k].id
      <4>1. asked[k].id \in IdsOf(asked)
        BY DEF IdsOf
      <4>2. asked[k].id \in 1..OptionsAtFirst /\ asked[k].id \notin deleted
        <5>1. asked[k] \in [id : 0..OptionsAtFirst, value : Values]
          BY <2>2, ListIsTyped, ElementOfSeq DEF OptionLists
        <5>2. asked[k].id \in 0..OptionsAtFirst
          BY <5>1
        <5> QED
          BY <1>1, <2>2, <3>1, <4>1, <5>2 DEF OptionLists
      <4> QED
        BY <1>4, <3>1, <4>2 DEF FO_IInv, NoneLost
    <3>2. CASE asked[k].id = 0 /\ ids'[k] \in (given + 1)..(given + n)
      <4>1. ids'[k] \in IdsOf(list')
        BY <1>2, <2>1, <3>2
      <4>2. ids'[k] \notin deleted
        BY <1>1, <1>2, <2>2, <3>2 DEF OptionLists
      <4> QED
        BY <3>2, <4>1, <4>2
    <3> QED
      BY <1>2, <2>1, <2>2, <3>1, <3>2, WovenIds
  <2> QED
    BY <2>1, <2>2, <2>3, WovenIds
<1>9. Valued' /\ InOrder'
  BY <1>3 DEF Valued, InOrder
<1>10. DeletedOrToCome'
  BY <1>3 DEF FO_IInv, DeletedOrToCome
<1> QED
  BY <1>6, <1>7, <1>8, <1>9, <1>10 DEF FO_IInv

(* The values are set, and the ids stay.                                     *)
LEMMA UpdateKeeps ==
  ASSUME OptionsAssumption, FO_IInv, Update
  PROVE  FO_IInv'
<1> DEFINE set == [k \in DOMAIN list |->
                     IF Contains(ids, list[k].id) THEN Option(list[k].id, ValueOf(list[k].id))
                     ELSE list[k]]
<1>1. /\ list \in Seq(Options) /\ UniqueIds(list) /\ IdsOf(list) \subseteq 1..given
      /\ DOMAIN list = 1..Len(list) /\ Len(list) \in Nat
      /\ DOMAIN asked = 1..Len(asked) /\ DOMAIN ids = 1..Len(ids)
  BY ListIsTyped
<1>2. /\ step = "update" /\ UNCHANGED <<given, asked, deleted, sends, kept, ids, unsent>>
      /\ list' \in {list, set} /\ step' \in {"delete", "failed"}
      /\ step' = "delete" => list' = set
  BY DEF Update, Fails
<1>3. Len(ids) = Len(asked) /\ IsInjective(ids)
  BY <1>2 DEF FO_IInv, Named
<1>4. \A k \in DOMAIN ids : ValueOf(ids[k]) = asked[k].value /\ asked[k].value \in Values
  <2> SUFFICES ASSUME NEW k \in DOMAIN ids
               PROVE  ValueOf(ids[k]) = asked[k].value /\ asked[k].value \in Values
    OBVIOUS
  <2>1. (CHOOSE j \in DOMAIN ids : ids[j] = ids[k]) = k
    BY <1>3 DEF IsInjective
  <2>2. asked[k] \in [id : 0..OptionsAtFirst, value : Values]
    BY <1>1, <1>3, ElementOfSeq DEF FO_IInv, OptionLists
  <2> QED
    BY <2>1, <2>2 DEF ValueOf
<1>5. ASSUME NEW j \in DOMAIN list
      PROVE  /\ set[j] \in Options /\ set[j].id = list[j].id
             /\ \A k \in DOMAIN ids : set[j].id = ids[k] => set[j].value = asked[k].value
  <2>1. list[j] \in Options
    BY <1>1, ElementOfSeq
  <2>2. list[j].id \in Nat
    BY <2>1 DEF Options
  <2>3. CASE Contains(ids, list[j].id)
    <3>1. PICK k \in DOMAIN ids : ids[k] = list[j].id
      BY <1>1, <2>3 DEF Contains
    <3>2. set[j] = Option(ids[k], asked[k].value)
      BY <1>4, <2>3, <3>1
    <3>3. set[j] = [id |-> ids[k], value |-> asked[k].value]
      BY <3>2 DEF Option
    <3>4. \A l \in DOMAIN ids : ids[l] = ids[k] => l = k
      BY <1>3 DEF IsInjective
    <3> HIDE DEF set
    <3>5. set[j].id = list[j].id /\ set[j].value = asked[k].value /\ set[j].id = ids[k]
      BY <3>1, <3>3
    <3>6. set[j] \in Options
      BY <1>4, <2>2, <3>1, <3>3 DEF Options
    <3> QED
      BY <3>4, <3>5, <3>6
  <2>4. CASE ~Contains(ids, list[j].id)
    <3>1. \A k \in DOMAIN ids : ids[k] # list[j].id
      BY <1>1, <2>4 DEF Contains
    <3>2. set[j] = list[j]
      BY <2>4
    <3> HIDE DEF set
    <3> QED
      BY <2>1, <3>1, <3>2
  <2> QED
    BY <2>3, <2>4
<1>6. DOMAIN set = DOMAIN list
  OBVIOUS
<1>7. set = [j \in 1..Len(list) |-> set[j]]
  BY <1>1
<1> HIDE DEF set
<1>8. set \in Seq(Options) /\ UniqueIds(set) /\ IdsOf(set) = IdsOf(list)
  <2>1. set \in Seq(Options)
    <3>1. set \in [1..Len(list) -> Options]
      BY <1>1, <1>5, <1>7
    <3> QED
      BY <1>1, <3>1
  <2>2. UniqueIds(set)
    BY <1>1, <1>5, <1>6 DEF UniqueIds
  <2>3. IdsOf(set) = IdsOf(list)
    BY <1>5, <1>6 DEF IdsOf
  <2> QED
    BY <2>1, <2>2, <2>3
<1>9. list' \in Seq(Options) /\ UniqueIds(list') /\ IdsOf(list') = IdsOf(list)
  BY <1>1, <1>2, <1>8
<1>10. FO_TypeOK'
  <2>1. IsInjective([k \in DOMAIN list' |-> list'[k].id])
    BY <1>9 DEF UniqueIds, IsInjective
  <2> QED
    BY <1>1, <1>2, <1>9, <2>1 DEF FO_IInv, FO_TypeOK, IdsOf
<1>11. OptionLists' /\ NoneLost' /\ Named'
  BY <1>2, <1>9 DEF FO_IInv, OptionLists, NoneLost, Named, IdsOf, Options
<1>12. Valued'
  BY <1>2, <1>5, <1>6 DEF Valued
<1>13. DeletedOrToCome' /\ InOrder'
  <2>1. unsent = deleted
    BY <1>2 DEF FO_IInv, DeletedOrToCome
  <2> QED
    BY <1>2, <1>9, <2>1 DEF FO_IInv, DeletedOrToCome, InOrder, IdsOf
<1> QED
  BY <1>10, <1>11, <1>12, <1>13 DEF FO_IInv

(* One option less, or none, or the end of the deletions.                    *)
LEMMA DeleteKeeps ==
  ASSUME OptionsAssumption, FO_IInv, Delete
  PROVE  FO_IInv'
<1>1. /\ list \in Seq(Options) /\ UniqueIds(list) /\ IdsOf(list) \subseteq 1..given
  BY ListIsTyped
<1>2. step = "delete" /\ UNCHANGED <<given, asked, deleted, sends, ids>>
  BY DEF Delete, Fails
<1>3. ASSUME list' \in Seq(Options), UniqueIds(list'), IdsOf(list') \subseteq IdsOf(list),
             \A j \in DOMAIN list' : \E i \in DOMAIN list : list'[j] = list[i],
             IdsOf(list) \ unsent \subseteq IdsOf(list'),
             unsent' \subseteq unsent, kept' \in BOOLEAN,
             step' \in {"delete", "move", "failed"},
             kept' \/ deleted \intersect IdsOf(list') \subseteq unsent' \/ step' = "failed",
             step' = "move" => unsent' = {}
      PROVE  FO_IInv'
  <2>1. IsInjective([k \in DOMAIN list' |-> list'[k].id])
    BY <1>3 DEF UniqueIds, IsInjective
  <2>2. unsent \subseteq deleted
    BY DEF FO_IInv, FO_TypeOK
  <2>3. FO_TypeOK'
    BY <1>1, <1>2, <1>3, <2>1 DEF FO_IInv, FO_TypeOK, IdsOf
  <2>4. OptionLists'
    BY <1>2, <1>3 DEF FO_IInv, OptionLists, IdsOf, Options
  <2>5. NoneLost'
    BY <1>2, <1>3, <2>2 DEF FO_IInv, NoneLost, IdsOf
  <2>6. Named'
    <3> SUFFICES ASSUME NEW k \in DOMAIN ids PROVE ids[k] \in IdsOf(list')
      BY <1>2 DEF FO_IInv, Named, IdsOf
    <3> QED
      BY <1>2, <1>3, <2>2 DEF FO_IInv, Named
  <2>7. Valued'
    BY <1>2, <1>3 DEF FO_IInv, Valued
  <2>8. DeletedOrToCome' /\ InOrder'
    BY <1>2, <1>3 DEF FO_IInv, DeletedOrToCome, InOrder, IdsOf
  <2> QED
    BY <2>3, <2>4, <2>5, <2>6, <2>7, <2>8 DEF FO_IInv
<1>4. kept \in BOOLEAN /\ (kept \/ deleted \intersect IdsOf(list) \subseteq unsent)
  BY <1>2 DEF FO_IInv, FO_TypeOK, DeletedOrToCome
<1>5. CASE list' = list
  <2>1. \/ step' = "delete" /\ \E id \in unsent : unsent' = unsent \ {id} /\ kept' = TRUE
        \/ step' = "failed" /\ UNCHANGED <<unsent, kept>>
        \/ step' = "move" /\ UNCHANGED <<unsent, kept>> /\ unsent = {}
        \/ /\ step' = "delete" /\ kept' = kept
           /\ \E id \in unsent : /\ unsent' = unsent \ {id}
                                 /\ list' = Selected(list, {j \in DOMAIN list : list[j].id # id})
    BY DEF Delete, Fails
  <2>2. ASSUME NEW id \in unsent, unsent' = unsent \ {id},
               list' = Selected(list, {j \in DOMAIN list : list[j].id # id})
        PROVE  id \notin IdsOf(list')
    <3>1. IdsOf(list') = {list[j].id : j \in {i \in DOMAIN list : list[i].id # id}}
      BY <1>1, <2>2, PartOfList
    <3> QED
      BY <3>1
  <2>3. kept' \/ deleted \intersect IdsOf(list) \subseteq unsent' \/ step' = "failed"
    BY <1>4, <1>5, <2>1, <2>2
  <2>4. unsent' \subseteq unsent /\ kept' \in BOOLEAN /\ step' \in {"delete", "move", "failed"}
        /\ (step' = "move" => unsent' = {})
    BY <1>4, <2>1
  <2> QED
    BY <1>1, <1>3, <1>5, <2>3, <2>4
<1>6. ASSUME NEW id \in unsent, list' = Selected(list, {j \in DOMAIN list : list[j].id # id}),
             unsent' = unsent \ {id}, UNCHANGED <<step, kept>>
      PROVE  FO_IInv'
  <2> DEFINE S == {j \in DOMAIN list : list[j].id # id}
  <2>1. /\ list' \in Seq(Options) /\ UniqueIds(list')
        /\ IdsOf(list') = {list[j].id : j \in S}
        /\ \A k \in DOMAIN list' : \E j \in S : list'[k] = list[j]
    <3>1. S \in SUBSET DOMAIN list
      OBVIOUS
    <3> HIDE DEF S
    <3> QED
      BY <1>1, <1>6, <3>1, PartOfList DEF S
  <2>2. IdsOf(list') = IdsOf(list) \ {id}
    BY <2>1 DEF IdsOf
  <2>3. \A j \in DOMAIN list' : \E i \in DOMAIN list : list'[j] = list[i]
    BY <2>1
  <2> QED
    BY <1>2, <1>3, <1>4, <1>6, <2>1, <2>2, <2>3
<1> QED
  BY <1>5, <1>6 DEF Delete, Fails

(* Those asked for in front, and the rest behind.                            *)
LEMMA MoveKeeps ==
  ASSUME OptionsAssumption, FO_IInv, Move
  PROVE  FO_IInv'
<1> DEFINE rest == Selected(list, {j \in DOMAIN list : ~Contains(ids, list[j].id)})
           Those(s) == [k \in DOMAIN s |-> list[CHOOSE j \in DOMAIN list : list[j].id = s[k]]]
           there == Selected(ids, {k \in DOMAIN ids : ids[k] \in IdsOf(list)})
           front == Those(ids)
<1>1. /\ list \in Seq(Options) /\ UniqueIds(list) /\ IdsOf(list) \subseteq 1..given
      /\ DOMAIN list = 1..Len(list) /\ Len(list) \in Nat
      /\ DOMAIN ids = 1..Len(ids) /\ Len(ids) \in Nat
  BY ListIsTyped
<1>2. /\ step = "move" /\ UNCHANGED <<given, asked, deleted, sends, kept, ids, unsent>>
  BY DEF Move, Fails
<1>3. /\ Len(ids) = Len(asked) /\ IsInjective(ids) /\ ids \in Seq(Nat)
      /\ \A k \in DOMAIN ids : ids[k] \in IdsOf(list)
  BY <1>2 DEF FO_IInv, Named, OptionLists
<1>4. there = ids
  <2>1. {k \in DOMAIN ids : ids[k] \in IdsOf(list)} = DOMAIN ids
    BY <1>3
  <2> QED
    BY <1>3, <2>1, SelectedAll
<1>5. /\ step' \in {"done", "failed"} /\ list' \in {list, front \o rest}
      /\ (step' = "done" /\ Len(ids) > 1) => list' = front \o rest
  <2>1. /\ step' \in {"done", "failed"} /\ list' \in {list, Those(there) \o rest}
        /\ (step' = "done" /\ Len(ids) > 1) => list' = Those(there) \o rest
    BY DEF Move, Fails
  <2> HIDE DEF there, Those, rest
  <2> QED
    BY <1>4, <2>1
<1>6. \A k \in DOMAIN ids : /\ \E j \in DOMAIN list : front[k] = list[j]
                            /\ front[k].id = ids[k]
  <2> SUFFICES ASSUME NEW k \in DOMAIN ids
               PROVE  (\E j \in DOMAIN list : front[k] = list[j]) /\ front[k].id = ids[k]
    OBVIOUS
  <2>1. \E j \in DOMAIN list : list[j].id = ids[k]
    BY <1>3 DEF IdsOf
  <2> QED
    BY <2>1
<1>7. front = [k \in 1..Len(ids) |-> front[k]]
  BY <1>1
<1>8. /\ rest \in Seq(Options) /\ UniqueIds(rest)
      /\ IdsOf(rest) = {list[j].id : j \in {i \in DOMAIN list : ~Contains(ids, list[i].id)}}
      /\ \A k \in DOMAIN rest : \E j \in {i \in DOMAIN list : ~Contains(ids, list[i].id)} :
            rest[k] = list[j]
  <2> DEFINE S == {i \in DOMAIN list : ~Contains(ids, list[i].id)}
  <2>1. S \in SUBSET DOMAIN list /\ rest = Selected(list, S)
    OBVIOUS
  <2> HIDE DEF S, rest
  <2>2. /\ rest \in Seq(Options) /\ UniqueIds(rest) /\ IdsOf(rest) = {list[j].id : j \in S}
        /\ \A k \in DOMAIN rest : \E j \in S : rest[k] = list[j]
    BY <1>1, <2>1, PartOfList
  <2> QED
    BY <2>2 DEF S
<1> HIDE DEF front, rest, there, Those
<1>9. \A k \in DOMAIN rest, j \in DOMAIN ids : rest[k].id # ids[j]
  BY <1>1, <1>8 DEF Contains
<1>10. front \in Seq(Options) /\ Len(front) = Len(ids)
  <2>1. \A k \in 1..Len(ids) : front[k] \in Options
    BY <1>1, <1>6, ElementOfSeq
  <2>2. front \in [1..Len(ids) -> Options]
    BY <1>7, <2>1
  <2> QED
    BY <1>1, <2>2
<1>11. /\ front \o rest \in Seq(Options)
       /\ DOMAIN (front \o rest) = 1..(Len(ids) + Len(rest))
       /\ DOMAIN rest = 1..Len(rest) /\ Len(rest) \in Nat
       /\ \A j \in 1..Len(ids) : (front \o rest)[j] = front[j]
       /\ \A j \in 1..Len(rest) : (front \o rest)[Len(ids) + j] = rest[j]
  <2>1. rest \in Seq(Options) /\ front \in Seq(Options) /\ Len(front) = Len(ids)
    BY <1>8, <1>10
  <2>2. DOMAIN rest = 1..Len(rest) /\ Len(rest) \in Nat
    BY <2>1
  <2>3. /\ front \o rest \in Seq(Options) /\ Len(front \o rest) = Len(front) + Len(rest)
        /\ \A j \in 1..(Len(front) + Len(rest)) :
             (front \o rest)[j] = IF j <= Len(front) THEN front[j] ELSE rest[j - Len(front)]
    BY <2>1, ConcatProperties
  <2>4. ASSUME NEW j \in 1..Len(ids) PROVE (front \o rest)[j] = front[j]
    BY <1>1, <2>1, <2>2, <2>3
  <2>5. ASSUME NEW j \in 1..Len(rest) PROVE (front \o rest)[Len(ids) + j] = rest[j]
    <3>1. /\ Len(ids) + j \in 1..(Len(front) + Len(rest)) /\ ~(Len(ids) + j <= Len(front))
          /\ Len(ids) + j - Len(front) = j
      BY <1>1, <2>1, <2>2
    <3> QED
      BY <2>3, <3>1
  <2> QED
    BY <2>1, <2>2, <2>3, <2>4, <2>5
<1> DEFINE woven == front \o rest
<1>12. ASSUME NEW j \in DOMAIN woven
       PROVE  \/ j \in DOMAIN ids /\ woven[j] = front[j]
              \/ \E k \in DOMAIN rest : j = Len(ids) + k /\ woven[j] = rest[k]
  <2> HIDE DEF woven
  <2>1. j \in 1..(Len(ids) + Len(rest))
    BY <1>11 DEF woven
  <2>2. CASE j <= Len(ids)
    BY <1>1, <1>11, <2>1, <2>2 DEF woven
  <2>3. CASE j > Len(ids)
    <3>1. j - Len(ids) \in DOMAIN rest /\ j = Len(ids) + (j - Len(ids))
      BY <1>1, <1>11, <2>1, <2>3
    <3> QED
      BY <1>11, <3>1 DEF woven
  <2> QED
    BY <1>1, <1>11, <2>1, <2>2, <2>3
<1>13. \A j \in DOMAIN woven : \E i \in DOMAIN list : woven[j] = list[i]
  BY <1>6, <1>8, <1>12
<1>14. UniqueIds(woven)
  <2> SUFFICES ASSUME NEW i \in DOMAIN woven, NEW j \in DOMAIN woven, woven[i].id = woven[j].id
               PROVE  i = j
    BY DEF UniqueIds
  <2> HIDE DEF woven
  <2>1. CASE i \in DOMAIN ids /\ woven[i] = front[i]
    <3>1. woven[i].id = ids[i]
      BY <1>6, <2>1
    <3>2. j \in DOMAIN ids /\ woven[j] = front[j]
      BY <1>9, <1>12, <2>1, <3>1
    <3>3. ids[j] = ids[i]
      BY <1>6, <3>1, <3>2
    <3> QED
      BY <1>3, <2>1, <3>2, <3>3 DEF IsInjective
  <2>2. ASSUME NEW k \in DOMAIN rest, i = Len(ids) + k, woven[i] = rest[k] PROVE i = j
    <3>1. ~(j \in DOMAIN ids /\ woven[j] = front[j])
      BY <1>6, <1>9, <2>2
    <3>2. PICK l \in DOMAIN rest : j = Len(ids) + l /\ woven[j] = rest[l]
      BY <1>12, <3>1
    <3>3. rest[k].id = rest[l].id
      BY <2>2, <3>2
    <3> QED
      BY <1>8, <2>2, <3>2, <3>3 DEF UniqueIds
  <2> QED
    BY <1>12, <2>1, <2>2
<1>15. IdsOf(woven) = IdsOf(list)
  <2> HIDE DEF woven
  <2>1. IdsOf(woven) \subseteq IdsOf(list)
    BY <1>13 DEF IdsOf
  <2>2. ASSUME NEW i \in DOMAIN list PROVE list[i].id \in IdsOf(woven)
    <3>1. CASE Contains(ids, list[i].id)
      <4>1. PICK k \in 1..Len(ids) : ids[k] = list[i].id
        BY <3>1 DEF Contains
      <4>2. k \in DOMAIN woven /\ woven[k].id = list[i].id
        BY <1>1, <1>6, <1>11, <4>1 DEF woven
      <4> QED
        BY <4>2 DEF IdsOf
    <3>2. CASE ~Contains(ids, list[i].id)
      <4>1. list[i].id \in IdsOf(rest)
        BY <1>8, <3>2
      <4>2. PICK k \in DOMAIN rest : rest[k].id = list[i].id
        BY <4>1 DEF IdsOf
      <4>3. Len(ids) + k \in DOMAIN woven /\ woven[Len(ids) + k] = rest[k]
        BY <1>1, <1>11, <4>2 DEF woven
      <4> QED
        BY <4>2, <4>3 DEF IdsOf
    <3> QED
      BY <3>1, <3>2
  <2> QED
    BY <2>1, <2>2 DEF IdsOf
<1>16. woven \in Seq(Options) /\ \A k \in DOMAIN ids : k \in DOMAIN woven /\ woven[k].id = ids[k]
  BY <1>1, <1>6, <1>11
<1>17. list' = list \/ list' = woven
  BY <1>5
<1> HIDE DEF woven
<1>18. /\ list' \in Seq(Options) /\ UniqueIds(list') /\ IdsOf(list') = IdsOf(list)
       /\ \A j \in DOMAIN list' : \E i \in DOMAIN list : list'[j] = list[i]
  BY <1>1, <1>13, <1>14, <1>15, <1>16, <1>17
<1>19. FO_TypeOK'
  <2>1. IsInjective([k \in DOMAIN list' |-> list'[k].id])
    BY <1>18 DEF UniqueIds, IsInjective
  <2> QED
    BY <1>1, <1>2, <1>5, <1>18, <2>1 DEF FO_IInv, FO_TypeOK, IdsOf
<1>20. OptionLists' /\ NoneLost' /\ Named'
  <2>1. IdsOf(list)' = IdsOf(list)
    BY <1>18 DEF IdsOf
  <2>2. OptionLists'
    BY <1>2, <1>18 DEF FO_IInv, OptionLists, IdsOf, Options
  <2>3. NoneLost'
    BY <1>2, <2>1 DEF FO_IInv, NoneLost
  <2>4. Named'
    BY <1>2, <2>1 DEF FO_IInv, Named
  <2> QED
    BY <2>2, <2>3, <2>4
<1>21. Valued'
  BY <1>2, <1>18 DEF FO_IInv, Valued
<1>22. DeletedOrToCome'
  BY <1>2, <1>5, <1>18 DEF FO_IInv, DeletedOrToCome, IdsOf
<1>23. InOrder'
  <2> SUFFICES ASSUME step' = "done", Len(ids) > 1
               PROVE  \A k \in DOMAIN ids : k \in DOMAIN list' /\ list'[k].id = ids[k]
    BY <1>2, <1>3 DEF InOrder
  <2>1. list' = woven
    BY <1>5 DEF woven
  <2> QED
    BY <1>16, <2>1
<1> QED
  BY <1>19, <1>20, <1>21, <1>22, <1>23 DEF FO_IInv

(* A function on 1..n is a sequence.                                         *)
LEMMA TypedIsSeq ==
  ASSUME NEW T, NEW n \in Nat, NEW f \in [1..n -> T]
  PROVE  f \in Seq(T) /\ DOMAIN f = 1..n
OBVIOUS

LEMMA OptionsInit ==
  ASSUME OptionsAssumption, FO_Init
  PROVE  FO_IInv
<1>0. OptionsAtFirst \in Nat /\ MaxSends \in Nat \ {0}
  BY DEF OptionsAssumption
<1>1. PICK v \in Values : list = [k \in 1..OptionsAtFirst |-> Option(k, v)]
  BY DEF FO_Init
<1>2. /\ given = OptionsAtFirst /\ step = "create" /\ ids = <<>> /\ unsent = deleted
      /\ sends = 1 /\ kept = FALSE /\ deleted \subseteq 1..OptionsAtFirst
      /\ asked \in Lists /\ Sendable(asked, deleted)
  BY DEF FO_Init
<1>3. \A k \in 1..OptionsAtFirst : list[k] = [id |-> k, value |-> v]
  BY <1>1 DEF Option
<1>4. list \in Seq([id : Nat, value : Values]) /\ DOMAIN list = 1..OptionsAtFirst
  <2>1. \A k \in 1..OptionsAtFirst : list[k] \in [id : Nat, value : Values]
    <3> SUFFICES ASSUME NEW k \in 1..OptionsAtFirst
                 PROVE  [id |-> k, value |-> v] \in [id : Nat, value : Values]
      BY <1>3
    <3> QED
      BY <1>0
  <2>2. list \in [1..OptionsAtFirst -> [id : Nat, value : Values]]
    BY <1>1, <2>1
  <2> QED
    BY <1>0, <2>2, TypedIsSeq
<1>5. asked \in Seq([id : 0..OptionsAtFirst, value : Values])
  <2>1. PICK n \in 0..(OptionsAtFirst + MaxNew) :
          asked \in [1..n -> [id : 0..OptionsAtFirst, value : Values]]
    BY <1>2 DEF Lists
  <2>2. n \in Nat
    BY <1>0, <2>1 DEF OptionsAssumption
  <2> QED
    BY <2>1, <2>2, TypedIsSeq
<1>6. IsInjective([k \in DOMAIN list |-> list[k].id]) /\ IdsOf(list) = 1..OptionsAtFirst
  BY <1>3, <1>4 DEF IsInjective, IdsOf
<1>7. FO_TypeOK
  <2>1. IdsOf(list) \subseteq 1..given /\ unsent \subseteq deleted /\ sends \in 1..MaxSends
    BY <1>0, <1>2, <1>6
  <2> QED
    BY <1>2, <1>6, <2>1 DEF FO_TypeOK
<1>8. OptionLists
  BY <1>0, <1>2, <1>4, <1>5 DEF OptionLists, Sendable
<1>9. NoneLost /\ Named /\ Valued /\ DeletedOrToCome /\ InOrder
  BY <1>2, <1>6 DEF NoneLost, Named, Valued, DeletedOrToCome, InOrder
<1> QED
  BY <1>7, <1>8, <1>9 DEF FO_IInv

LEMMA OptionsStep ==
  ASSUME OptionsAssumption, FO_IInv, [FO_Next]_ov
  PROVE  FO_IInv'
<1>1. CASE UNCHANGED ov
  BY <1>1 DEF ov, FO_IInv, FO_TypeOK, OptionLists, NoneLost, Named, Valued, DeletedOrToCome,
              InOrder, IdsOf
<1>2. CASE SendAgain
  <2>1. /\ UNCHANGED <<list, given, asked, deleted, kept>> /\ step' = "create" /\ ids' = <<>>
        /\ unsent' = deleted /\ sends' = sends + 1 /\ sends < MaxSends
    BY <1>2 DEF SendAgain
  <2>2. sends' \in 1..MaxSends
    BY <2>1 DEF FO_IInv, FO_TypeOK, OptionsAssumption
  <2>3. FO_TypeOK' /\ OptionLists' /\ NoneLost'
    BY <2>1, <2>2 DEF FO_IInv, FO_TypeOK, OptionLists, NoneLost, IdsOf
  <2>4. Named' /\ Valued' /\ DeletedOrToCome' /\ InOrder'
    BY <2>1 DEF Named, Valued, DeletedOrToCome, InOrder
  <2> QED
    BY <2>3, <2>4 DEF FO_IInv
<1> QED
  BY <1>1, <1>2, CreateKeeps, UpdateKeeps, DeleteKeeps, MoveKeeps DEF FO_Next

LEMMA DoneIsAsAsked ==
  ASSUME OptionsAssumption, FO_IInv
  PROVE  OptionsAsAsked
<1>1. (1..OptionsAtFirst) \ deleted \subseteq IdsOf(list)
  BY DEF FO_IInv, NoneLost
<1>2. ASSUME step = "done", NEW k \in DOMAIN asked
      PROVE  \E j \in DOMAIN list :
               /\ list[j].value = asked[k].value /\ asked[k].id \in {0, list[j].id}
               /\ Len(asked) > 1 => j = k
  <2>1. k \in DOMAIN ids /\ ids[k] \in IdsOf(list) /\ asked[k].id \in {0, ids[k]}
    BY <1>2, ListIsTyped DEF FO_IInv, Named
  <2>2. PICK j \in DOMAIN list : list[j].id = ids[k] /\ (Len(asked) > 1 => j = k)
    BY <1>2, <2>1 DEF FO_IInv, InOrder, IdsOf
  <2>3. list[j].value = asked[k].value
    BY <1>2, <2>1, <2>2 DEF FO_IInv, Valued
  <2> QED
    BY <2>1, <2>2, <2>3
<1>3. step = "done" => kept \/ deleted \intersect IdsOf(list) = {}
  BY DEF FO_IInv, DeletedOrToCome
<1> QED
  BY <1>1, <1>2, <1>3 DEF OptionsAsAsked

(* What apply_options (field_inventory.py:352) has made, renamed, deleted and*)
(* moved so far, for any number of options and of sends.                     *)
THEOREM FO_Invariance ==
  ASSUME OptionsAssumption
  PROVE  FO_Spec => []FO_IInv
BY OptionsInit, OptionsStep, PTL DEF FO_Spec

(* A save of options that is reported as done (apply_options,                *)
(* field_inventory.py:352) left the list that was asked for and lost no other*)
(* option, whatever the list and however often it was sent.                  *)
THEOREM OptionsAsAskedAlways ==
  ASSUME OptionsAssumption
  PROVE  FO_Spec => []OptionsAsAsked
BY FO_Invariance, DoneIsAsAsked, PTL

(***************************************************************************)
(* The change log                                                          *)
(***************************************************************************)

Event == [id : Nat, about : Subjects, day : 1..LastDay]

EL_TypeOK ==
  /\ events \in Seq(Event) /\ Len(events) >= Length
  /\ label \in [Groups \union {Direct} -> Products]
  /\ state \in {"reading", "done", "broken"}
  /\ \E m \in 1..Len(Queries) : todo = SubSeq(Queries, m, Len(Queries))
  /\ page \in Seq(Event) /\ (state # "reading" => page = <<>>)
  /\ cursor \subseteq Nat /\ (\A m, n \in cursor : m = n) /\ followed \subseteq Nat
  /\ {scanned, local, got} \subseteq Nat /\ capDay \in 0..LastDay /\ dayDone \in BOOLEAN
  /\ batch \in Seq(Nat) /\ shown \in Seq(Nat) /\ seen \subseteq Nat
  /\ DOMAIN coverage \subseteq Products /\ coverage \in [DOMAIN coverage -> Nat]
  /\ stopped \in BOOLEAN /\ repeated \in BOOLEAN

(* What was sent and what is in the batch is what was seen, each once.       *)
SeenOnce ==
  /\ IsInjective(shown) /\ IsInjective(batch)
  /\ ToSet(shown) \intersect ToSet(batch) = {}
  /\ seen = ToSet(shown) \union ToSet(batch)
  /\ state = "done" => batch = <<>>

(* The newest come first, in the log and on a page.                          *)
NewestFirst(s) == \A i, j \in DOMAIN s : i < j => s[i].day >= s[j].day

(* The rows about a subject that were there at the start and are not kept.   *)
Unseen(about) ==
  {e \in ToSet(events) : /\ e.id <= Length /\ e.about # OtherGroup
                         /\ e.about = about /\ e.id \notin seen}

(* Of the query at hand, such a row is on the page, or further on than the   *)
(* cursor; or it was left out at the cap, from a day that is not whole.      *)
ToCome ==
  \A e \in Unseen(Head(todo)) \ ToSet(page) :
     /\ cursor = {} => page = <<>> /\ capDay # 0 /\ (dayDone => e.day < capDay)
     /\ \A from \in cursor : \E r \in DOMAIN Results : r > from /\ Results[r] = e

(* It is not newer than the page nor than the cap.                           *)
OlderToCome ==
  \A e \in Unseen(Head(todo)) :
     /\ e \notin ToSet(page) => \A k \in DOMAIN page : e.day <= page[k].day
     /\ capDay # 0 => e.day <= capDay

(* A cursor goes further than those before it; an older day ends the query.  *)
Onwards ==
  /\ \A n \in followed, from \in cursor : n <= from
  /\ dayDone => page = <<>> /\ cursor = {}

(* The queries that came to their end.                                       *)
Ended ==
  IF state = "done" /\ scanned < MaxTotal THEN 1..Len(Queries)
  ELSE 1..(Len(Queries) - Len(todo))

(* What such a query did not find is older than the coverage tells.          *)
EndedIsCovered ==
  \A j \in Ended : \A e \in Unseen(Queries[j]) :
     /\ label[Queries[j]] \in DOMAIN coverage
     /\ e.day < coverage[label[Queries[j]]]

(* Products that were asked for have their floor.                            *)
FloorsKnown ==
  /\ \A j \in Ended : Queries[j] # Direct => label[Queries[j]] \in DOMAIN coverage
  /\ capDay # 0 /\ Head(todo) = Direct => label[Direct] \in DOMAIN coverage

EL_IInv ==
  /\ EL_TypeOK /\ SeenOnce /\ NewestFirst(events) /\ NewestFirst(page)
  /\ FloorsKnown
  /\ stopped \/ repeated \/
       /\ state = "reading" => ToCome /\ OlderToCome /\ Onwards
       /\ EndedIsCovered

(* Where the k-th of a set of positions is when all of it moved up by one.   *)
LEMMA NthShifted ==
  ASSUME NEW S \in SUBSET Nat, IsFiniteSet(S), NEW R \in SUBSET Nat, IsFiniteSet(R),
         \A i \in S : i + 1 \in R,
         NEW k \in 1..Cardinality(S)
  PROVE  \E l \in 1..Cardinality(R) : k <= l /\ Nth(R, l) = Nth(S, k) + 1
<1> DEFINE i == Nth(S, k)
           Lower == {j \in S : j <= i}
           Upper == {j \in R : j <= i + 1}
           up == [j \in Lower |-> j + 1]
<1>1. i \in S /\ i \in Nat /\ Cardinality(Lower) = k /\ k \in Nat
  <2>1. Nth(S, k) \in S /\ Cardinality({j \in S : j <= Nth(S, k)}) = k
    BY NthNumbers
  <2>2. Cardinality(S) \in Nat
    BY NthNumbers
  <2>3. k \in Nat
    BY ONLY <2>2, k \in 1..Cardinality(S)
  <2>4. Nth(S, k) \in Nat
    BY ONLY <2>1, S \in SUBSET Nat
  <2> QED
    BY ONLY <2>1, <2>3, <2>4
<1>2. PICK l \in 1..Cardinality(R) : Nth(R, l) = i + 1
  BY <1>1, NthNumbers
<1>3. Cardinality(Upper) = l /\ l \in Nat
  BY <1>2, NthNumbers
<1>4. IsFiniteSet(Upper)
  <2>1. Upper \in SUBSET R
    OBVIOUS
  <2> HIDE DEF Upper
  <2> QED
    BY <2>1, FS_Subset
<1> HIDE DEF i
<1>5. up \in Injection(Lower, Upper)
  <2>1. \A j \in Lower : j \in Nat /\ j + 1 \in Upper
    BY <1>1
  <2>2. \A j, m \in Lower : j + 1 = m + 1 => j = m
    BY <2>1
  <2> HIDE DEF Lower, Upper
  <2> QED
    BY <2>1, <2>2 DEF Injection, IsInjective
<1>6. k <= l
  <2> HIDE DEF Lower, Upper, up
  <2> QED
    BY <1>1, <1>3, <1>4, <1>5, FS_Injection
<1> QED
  BY <1>2, <1>6 DEF i

(* A sequence without repetitions, and more of it.                           *)
LEMMA AppendOnce ==
  ASSUME NEW s \in Seq(Nat), NEW x \in Nat, IsInjective(s), x \notin ToSet(s)
  PROVE  /\ Append(s, x) \in Seq(Nat) /\ IsInjective(Append(s, x))
         /\ ToSet(Append(s, x)) = ToSet(s) \union {x}
<1>1. /\ DOMAIN s = 1..Len(s) /\ Len(s) \in Nat /\ Append(s, x) \in Seq(Nat)
      /\ DOMAIN Append(s, x) = 1..(Len(s) + 1)
      /\ \A i \in 1..Len(s) : Append(s, x)[i] = s[i]
      /\ Append(s, x)[Len(s) + 1] = x
  BY AppendProperties
<1> DEFINE t == Append(s, x)
<1> HIDE DEF t
<1>2. \A i \in 1..(Len(s) + 1) : i \in 1..Len(s) \/ i = Len(s) + 1
  BY <1>1
<1>3. \A i \in 1..Len(s) : s[i] # x
  BY <1>1 DEF ToSet
<1>4. IsInjective(t)
  BY <1>1, <1>2, <1>3 DEF IsInjective, t
<1>5. ToSet(t) = ToSet(s) \union {x}
  BY <1>1, <1>2 DEF ToSet, t
<1> QED
  BY <1>1, <1>4, <1>5 DEF t

LEMMA JoinOnce ==
  ASSUME NEW s \in Seq(Nat), NEW t \in Seq(Nat), IsInjective(s), IsInjective(t),
         ToSet(s) \intersect ToSet(t) = {}
  PROVE  /\ s \o t \in Seq(Nat) /\ IsInjective(s \o t)
         /\ ToSet(s \o t) = ToSet(s) \union ToSet(t)
<1> DEFINE u == s \o t
<1>1. /\ u \in Seq(Nat) /\ DOMAIN u = 1..(Len(s) + Len(t))
      /\ \A i \in 1..(Len(s) + Len(t)) : u[i] = IF i <= Len(s) THEN s[i] ELSE t[i - Len(s)]
      /\ DOMAIN s = 1..Len(s) /\ DOMAIN t = 1..Len(t) /\ Len(s) \in Nat /\ Len(t) \in Nat
  BY ConcatProperties
<1> HIDE DEF u
<1>2. ASSUME NEW i \in DOMAIN u
      PROVE  \/ i \in DOMAIN s /\ u[i] = s[i]
             \/ i - Len(s) \in DOMAIN t /\ u[i] = t[i - Len(s)]
  BY <1>1
<1>3. \A i \in DOMAIN s, j \in DOMAIN t : s[i] # t[j]
  BY DEF ToSet
<1>4. ASSUME NEW i \in DOMAIN u, NEW j \in DOMAIN u, u[i] = u[j] PROVE i = j
  <2>1. i \in Nat /\ j \in Nat
    BY <1>1
  <2>2. CASE i \in DOMAIN s /\ u[i] = s[i]
    <3>1. j \in DOMAIN s /\ u[j] = s[j]
      BY <1>2, <1>3, <1>4, <2>2
    <3> QED
      BY <1>4, <2>2, <3>1 DEF IsInjective
  <2>3. CASE i - Len(s) \in DOMAIN t /\ u[i] = t[i - Len(s)]
    <3>1. j - Len(s) \in DOMAIN t /\ u[j] = t[j - Len(s)]
      BY <1>2, <1>3, <1>4, <2>3
    <3>2. i - Len(s) = j - Len(s)
      BY <1>4, <2>3, <3>1 DEF IsInjective
    <3> QED
      BY <1>1, <2>1, <3>2
  <2> QED
    BY <1>2, <2>2, <2>3
<1>5. ToSet(u) = ToSet(s) \union ToSet(t)
  <2>1. ToSet(u) \subseteq ToSet(s) \union ToSet(t)
    BY <1>2 DEF ToSet
  <2>2. ASSUME NEW i \in DOMAIN s PROVE s[i] \in ToSet(u)
    <3>1. i \in DOMAIN u /\ u[i] = s[i]
      BY <1>1
    <3> QED
      BY <3>1 DEF ToSet
  <2>3. ASSUME NEW j \in DOMAIN t PROVE t[j] \in ToSet(u)
    <3>1. Len(s) + j \in DOMAIN u /\ ~(Len(s) + j <= Len(s)) /\ Len(s) + j - Len(s) = j
      BY <1>1
    <3>2. u[Len(s) + j] = t[j]
      BY <1>1, <3>1
    <3> QED
      BY <3>1, <3>2 DEF ToSet
  <2> QED
    BY <2>1, <2>2, <2>3 DEF ToSet
<1>6. IsInjective(u)
  BY <1>4 DEF IsInjective
<1> QED
  BY <1>1, <1>5, <1>6 DEF u

(* The queries are those for the groups, and one for direct grants.          *)
LEMMA QueriesType ==
  ASSUME EventLogAssumption
  PROVE  /\ Queries \in Seq(Groups \union {Direct}) /\ Len(Queries) \in Nat \ {0}
         /\ DOMAIN Queries = 1..Len(Queries)
         /\ \A about \in Groups \union {Direct} : \E j \in 1..Len(Queries) : Queries[j] = about
         /\ Direct \notin Groups
<1>1. Terms \in Seq(Groups) /\ Direct \notin Groups
  BY DEF EventLogAssumption, Groups
<1>2. Terms \in Seq(Groups \union {Direct}) /\ <<Direct>> \in Seq(Groups \union {Direct})
      /\ Len(Terms) \in Nat /\ Len(<<Direct>>) = 1 /\ <<Direct>>[1] = Direct
      /\ DOMAIN Terms = 1..Len(Terms)
  BY <1>1
<1>3. /\ Queries \in Seq(Groups \union {Direct}) /\ Len(Queries) = Len(Terms) + 1
      /\ \A i \in 1..(Len(Terms) + 1) : Queries[i] = IF i <= Len(Terms) THEN Terms[i]
                                                     ELSE <<Direct>>[i - Len(Terms)]
  BY <1>2, ConcatProperties DEF Queries
<1>4. Len(Queries) \in Nat \ {0} /\ DOMAIN Queries = 1..Len(Queries)
  BY <1>2, <1>3
<1>5. \A g \in Groups : \E j \in 1..Len(Queries) : Queries[j] = g
  <2> SUFFICES ASSUME NEW g \in Groups PROVE \E j \in 1..Len(Queries) : Queries[j] = g
    OBVIOUS
  <2>1. PICK j \in DOMAIN Terms : Terms[j] = g
    BY DEF Groups, ToSet
  <2>2. j \in 1..(Len(Terms) + 1) /\ j <= Len(Terms)
    BY <1>2, <2>1
  <2> QED
    BY <1>3, <2>1, <2>2
<1>6. Queries[Len(Queries)] = Direct
  <2>1. /\ Len(Terms) + 1 \in 1..(Len(Terms) + 1) /\ ~(Len(Terms) + 1 <= Len(Terms))
        /\ Len(Terms) + 1 - Len(Terms) = 1
    BY <1>2
  <2> QED
    BY <1>2, <1>3, <2>1
<1>7. Len(Queries) \in 1..Len(Queries)
  BY <1>4
<1> QED
  BY <1>1, <1>3, <1>4, <1>5, <1>6, <1>7

(* The query at hand, and what is left after it.                             *)
Current == Len(Queries) - Len(todo) + 1

LEMMA CurrentQuery ==
  ASSUME EventLogAssumption, EL_TypeOK
  PROVE  /\ Len(todo) \in 1..Len(Queries) /\ Len(todo) \in Nat /\ Len(Queries) \in Nat
         /\ Current \in 1..Len(Queries) /\ Head(todo) = Queries[Current]
         /\ Head(todo) \in Groups \union {Direct}
         /\ Len(todo) > 1 => /\ \E m \in 1..Len(Queries) :
                                  Tail(todo) = SubSeq(Queries, m, Len(Queries))
                             /\ Len(Tail(todo)) = Len(todo) - 1
<1>1. /\ Queries \in Seq(Groups \union {Direct}) /\ Len(Queries) \in Nat \ {0}
      /\ DOMAIN Queries = 1..Len(Queries)
  BY QueriesType
<1> DEFINE n == Len(Queries)
<1>2. PICK m \in 1..n : todo = SubSeq(Queries, m, n)
  BY DEF EL_TypeOK
<1>3. todo \in Seq(Groups \union {Direct}) /\ Len(todo) = n - m + 1
  <2>1. \A i \in m..n : Queries[i] \in Groups \union {Direct}
    <3>1. \A i \in m..n : i \in 1..n
      BY <1>1
    <3> QED
      BY <1>1, <3>1, ElementOfSeq
  <2>2. m \in Int /\ n \in Int /\ m <= n
    BY <1>1
  <2> HIDE DEF n
  <2> QED
    BY <1>2, <2>1, <2>2, SubSeqProperties
<1>4. Len(todo) \in 1..n /\ Current = m
  BY <1>1, <1>3 DEF Current
<1>5. n \in m..n
  BY <1>1
<1>6. Head(todo) = Queries[m] /\ Tail(todo) = SubSeq(Queries, m + 1, n)
  <2> HIDE DEF n
  <2> QED
    BY <1>1, <1>2, <1>5, HeadTailOfSubSeq DEF n
<1>7. Queries[m] \in Groups \union {Direct}
  BY <1>1, ElementOfSeq
<1>8. ASSUME Len(todo) > 1
      PROVE  m + 1 \in 1..n /\ Len(Tail(todo)) = Len(todo) - 1
  <2>1. m + 1 \in 1..n
    BY <1>1, <1>3, <1>8
  <2>2. todo # <<>>
    BY <1>8
  <2> QED
    BY <1>3, <2>1, <2>2, HeadTailProperties
<1>9. Len(todo) > 1 => \E k \in 1..n : Tail(todo) = SubSeq(Queries, k, n)
  BY <1>6, <1>8
<1>10. Len(todo) \in Nat /\ n \in Nat
  BY <1>1, <1>4
<1> QED
  BY <1>4, <1>6, <1>7, <1>8, <1>9, <1>10

(* What a query finds: every row about its subject, and the newest first.    *)
Hits == {i \in DOMAIN events : Finds(Head(todo), events[i])}

LEMMA ResultsType ==
  ASSUME EL_TypeOK, NewestFirst(events)
  PROVE  /\ Hits \in SUBSET DOMAIN events /\ Hits \in SUBSET Nat /\ IsFiniteSet(Hits)
         /\ Results \in Seq(Event) /\ DOMAIN Results = 1..Len(Results)
         /\ Len(Results) = Cardinality(Hits) /\ Len(Results) \in Nat
         /\ \A r \in DOMAIN Results : Nth(Hits, r) \in Hits /\ Results[r] = events[Nth(Hits, r)]
         /\ \A e \in Unseen(Head(todo)) : \E r \in DOMAIN Results : Results[r] = e
         /\ NewestFirst(Results)
<1>1. /\ events \in Seq(Event) /\ Hits \in SUBSET DOMAIN events
      /\ Results = Selected(events, Hits)
  BY DEF EL_TypeOK, Hits, Results
<1>2. /\ Hits \in SUBSET Nat /\ IsFiniteSet(Hits) /\ Cardinality(Hits) \in Nat
      /\ Results \in Seq(Event) /\ DOMAIN Results = 1..Len(Results)
      /\ Len(Results) = Cardinality(Hits) /\ Len(Results) \in Nat
      /\ \A r \in DOMAIN Results : Nth(Hits, r) \in Hits /\ Results[r] = events[Nth(Hits, r)]
      /\ \A i \in Hits : \E r \in DOMAIN Results : Nth(Hits, r) = i
  BY <1>1, SelectedType
<1>3. ASSUME NEW e \in Unseen(Head(todo)) PROVE \E r \in DOMAIN Results : Results[r] = e
  <2>1. PICK i \in DOMAIN events : events[i] = e
    BY DEF Unseen, ToSet
  <2>2. i \in Hits
    BY <2>1 DEF Hits, Finds, Unseen
  <2> QED
    BY <1>2, <2>1, <2>2
<1>4. NewestFirst(Results)
  <2> SUFFICES ASSUME NEW q \in DOMAIN Results, NEW r \in DOMAIN Results, q < r
               PROVE  Results[q].day >= Results[r].day
    BY DEF NewestFirst
  <2>1. Nth(Hits, q) < Nth(Hits, r)
    BY <1>2, NthIncreases
  <2> QED
    BY <1>1, <1>2, <2>1 DEF NewestFirst
<1> QED
  BY <1>1, <1>2, <1>3, <1>4

(* The day of an event is a number.                                          *)
LEMMA DayIsNat ==
  ASSUME EventLogAssumption, NEW e \in Event
  PROVE  e.day \in Nat /\ e.day \in 1..LastDay /\ e.id \in Nat /\ e.about \in Subjects
BY DEF Event, EventLogAssumption

LEMMA UnseenIsEvent ==
  ASSUME EventLogAssumption, EL_TypeOK, NEW about, NEW e \in Unseen(about)
  PROVE  e \in Event /\ e.day \in Nat
<1>1. PICK i \in DOMAIN events : e = events[i]
  BY DEF Unseen, ToSet
<1>2. events \in Seq(Event)
  BY DEF EL_TypeOK
<1>3. e \in Event
  BY <1>1, <1>2
<1> QED
  BY <1>3, DayIsNat

(* What the coverage tells only grows.                                       *)
LEMMA CoveredGrows ==
  ASSUME EL_TypeOK, NEW products \in SUBSET Products, NEW floor \in Nat,
         coverage' = Covered(products, floor)
  PROVE  /\ DOMAIN coverage' = DOMAIN coverage \union products
         /\ DOMAIN coverage' \subseteq Products /\ coverage' \in [DOMAIN coverage' -> Nat]
         /\ \A p \in DOMAIN coverage : coverage[p] <= coverage'[p]
         /\ \A p \in products : floor <= coverage'[p]
<1> DEFINE known(p) == IF p \in DOMAIN coverage THEN coverage[p] ELSE 0
<1>1. \A p \in DOMAIN coverage : coverage[p] \in Nat
  BY DEF EL_TypeOK
<1>2. \A p : known(p) \in Nat
  BY <1>1
<1>3. ASSUME NEW m \in Nat, NEW n \in Nat
      PROVE  Max({m, n}) \in Nat /\ m <= Max({m, n}) /\ n <= Max({m, n})
  <2>1. \E x \in {m, n} : \A y \in {m, n} : x >= y
    OBVIOUS
  <2> QED
    BY <2>1 DEF Max
<1>4. coverage' = [p \in DOMAIN coverage \union products |->
                     IF p \in products THEN Max({known(p), floor}) ELSE known(p)]
  BY DEF Covered
<1> HIDE DEF known
<1>5. \A p : /\ Max({known(p), floor}) \in Nat
             /\ known(p) <= Max({known(p), floor}) /\ floor <= Max({known(p), floor})
  BY <1>2, <1>3
<1>6. DOMAIN coverage' = DOMAIN coverage \union products
  BY <1>4
<1>7. ASSUME NEW p \in DOMAIN coverage \union products
      PROVE  /\ coverage'[p] \in Nat /\ known(p) <= coverage'[p]
             /\ p \in products => floor <= coverage'[p]
  <2>1. coverage'[p] = IF p \in products THEN Max({known(p), floor}) ELSE known(p)
    BY <1>4
  <2> QED
    BY <1>2, <1>5, <2>1
<1>8. \A p \in DOMAIN coverage : known(p) = coverage[p]
  BY DEF known
<1>9. coverage' \in [DOMAIN coverage' -> Nat]
  BY <1>4, <1>6, <1>7
<1>10. DOMAIN coverage' \subseteq Products
  BY <1>6 DEF EL_TypeOK
<1> QED
  BY <1>6, <1>7, <1>8, <1>9, <1>10

(* Within a query, and when the reading breaks, no query ends.               *)
LEMMA EndedStays ==
  ASSUME state = "reading", state' \in {"reading", "broken"}, todo' = todo
  PROVE  Ended' = Ended
BY DEF Ended

(* What the coverage tells of ended queries stays true when it grows.        *)
LEMMA EndedStayCovered ==
  ASSUME EventLogAssumption, EL_IInv, label' = label,
         DOMAIN coverage \subseteq DOMAIN coverage',
         coverage' \in [DOMAIN coverage' -> Nat],
         \A p \in DOMAIN coverage : coverage[p] <= coverage'[p],
         NEW j \in Ended, NEW old, NEW new \in SUBSET old,
         old = Unseen(Queries[j])
  PROVE  /\ Queries[j] # Direct => label'[Queries[j]] \in DOMAIN coverage'
         /\ ~stopped /\ ~repeated =>
              \A e \in new : /\ label'[Queries[j]] \in DOMAIN coverage'
                             /\ e.day < coverage'[label'[Queries[j]]]
<1>1. Queries[j] # Direct => label[Queries[j]] \in DOMAIN coverage
  BY DEF EL_IInv, FloorsKnown
<1>2. ASSUME ~stopped, ~repeated, NEW e \in new
      PROVE  /\ label'[Queries[j]] \in DOMAIN coverage'
             /\ e.day < coverage'[label'[Queries[j]]]
  <2>1. e \in Unseen(Queries[j])
    OBVIOUS
  <2>2. label[Queries[j]] \in DOMAIN coverage /\ e.day < coverage[label[Queries[j]]]
    BY <1>2, <2>1 DEF EL_IInv, EndedIsCovered
  <2>3. e.day \in Nat
    BY <2>1, UnseenIsEvent DEF EL_IInv
  <2>4. coverage[label[Queries[j]]] \in Nat /\ coverage'[label[Queries[j]]] \in Nat
    BY <2>2 DEF EL_IInv, EL_TypeOK
  <2>5. coverage[label[Queries[j]]] <= coverage'[label[Queries[j]]]
    BY <2>2
  <2> QED
    BY <2>2, <2>3, <2>4, <2>5
<1> QED
  BY <1>1, <1>2

(* A page more.                                                              *)
LEMMA FetchKeeps ==
  ASSUME EventLogAssumption, EL_IInv, NEW length \in 0..EL_PageSize,
         NEW again \in {{}} \union {{c} : c \in followed}, FetchPage(length, again)
  PROVE  EL_IInv'
<1>t. EL_TypeOK /\ NewestFirst(events)
  BY DEF EL_IInv
<1>1. /\ state = "reading" /\ page = <<>>
      /\ UNCHANGED <<Jira, state, todo, scanned, local, got, capDay, dayDone, batch, seen,
                     coverage, shown, stopped>>
  BY DEF FetchPage
<1> DEFINE after(from) == SubSeq(Results, from + 1, Len(Results))
           token(from) == IF again # {} THEN again
                          ELSE IF length < Len(after(from)) THEN {from + length} ELSE {}
<1>2. PICK from \in cursor :
        /\ length <= Len(after(from)) /\ (after(from) # <<>> => length > 0)
        /\ again # {} => length < Len(after(from)) /\ again \subseteq followed
        /\ page' = SubSeq(after(from), 1, length)
        /\ cursor' = NextCursor(token(from), page')
        /\ followed' = followed \union token(from)
        /\ repeated' = (repeated \/ again # {})
  BY DEF FetchPage
<1> DEFINE rest == after(from)
           next == token(from)
<1>3. from \in Nat /\ cursor = {from} /\ length \in Nat
  <2>1. cursor \subseteq Nat /\ \A m, n \in cursor : m = n
    BY <1>t DEF EL_TypeOK
  <2>2. EL_PageSize \in Nat
    BY DEF EventLogAssumption
  <2>3. from \in Nat /\ cursor = {from}
    BY ONLY <2>1, from \in cursor
  <2> QED
    BY ONLY <2>2, <2>3, length \in 0..EL_PageSize
<1>4. /\ Results \in Seq(Event) /\ DOMAIN Results = 1..Len(Results) /\ Len(Results) \in Nat
      /\ NewestFirst(Results)
      /\ \A e \in Unseen(Head(todo)) : \E r \in DOMAIN Results : Results[r] = e
  BY <1>t, ResultsType
<1> DEFINE n == Len(Results)
<1>5. /\ rest \in Seq(Event) /\ Len(rest) = (IF from < n THEN n - from ELSE 0)
      /\ \A k \in 1..Len(rest) : rest[k] = Results[from + k]
  <2>1. \A i \in (from + 1)..n : Results[i] \in Event
    <3>1. \A i \in (from + 1)..n : i \in 1..n
      BY <1>3, <1>4
    <3> QED
      BY <1>4, <3>1, ElementOfSeq
  <2>2. from + 1 \in Int /\ n \in Int
    BY <1>3, <1>4
  <2> HIDE DEF n
  <2>3. /\ rest \in Seq(Event)
        /\ Len(rest) = IF from + 1 <= n THEN n - (from + 1) + 1 ELSE 0
        /\ \A k \in 1..(n - (from + 1) + 1) : rest[k] = Results[from + 1 + k - 1]
    BY <2>1, <2>2, SubSeqProperties DEF n
  <2>4. Len(rest) = (IF from < n THEN n - from ELSE 0)
    BY <1>3, <2>2, <2>3
  <2>5. ASSUME NEW k \in 1..Len(rest) PROVE rest[k] = Results[from + k]
    <3>1. k \in 1..(n - (from + 1) + 1) /\ from + 1 + k - 1 = from + k
      BY <1>3, <2>2, <2>4
    <3> QED
      BY <2>3, <3>1
  <2> QED
    BY <2>3, <2>4, <2>5
<1> HIDE DEF after, rest, token
<1>6. /\ page' \in Seq(Event) /\ Len(page') = length /\ DOMAIN page' = 1..length
      /\ \A k \in 1..length : page'[k] = Results[from + k] /\ from + k \in 1..n
  <2>0. length <= Len(rest) /\ Len(rest) \in Nat /\ page' = SubSeq(rest, 1, length)
    BY <1>2, <1>5 DEF rest
  <2>1. \A i \in 1..length : i \in 1..Len(rest) /\ rest[i] \in Event
    <3>1. \A i \in 1..length : i \in 1..Len(rest)
      BY <1>3, <2>0
    <3> QED
      BY <1>5, <3>1, ElementOfSeq
  <2>2. /\ page' \in Seq(Event) /\ Len(page') = IF 1 <= length THEN length - 1 + 1 ELSE 0
        /\ \A i \in 1..(length - 1 + 1) : page'[i] = rest[1 + i - 1]
    <3>1. 1 \in Int /\ length \in Int
      BY <1>3
    <3> HIDE DEF rest
    <3> QED
      BY <2>0, <2>1, <3>1, SubSeqProperties
  <2>3. Len(page') = length
    BY <1>3, <2>2
  <2>4. ASSUME NEW k \in 1..length
        PROVE  page'[k] = Results[from + k] /\ from + k \in 1..n
    <3>1. k \in 1..(length - 1 + 1) /\ 1 + k - 1 = k
      BY <1>3
    <3>2. page'[k] = Results[from + k]
      BY <1>5, <2>1, <2>2, <3>1
    <3>3. from + k \in 1..n
      BY <1>3, <1>4, <1>5, <2>0
    <3> QED
      BY <3>2, <3>3
  <2> QED
    BY <2>2, <2>3, <2>4
<1>7. again \subseteq Nat /\ (\A c, d \in again : c = d)
  BY <1>t DEF EL_TypeOK
<1>8. /\ next \subseteq Nat /\ (\A c, d \in next : c = d)
      /\ cursor' = {} \/ cursor' = next
  <2>1. next = again \/ next = {from + length} \/ next = {}
    BY DEF token
  <2>2. from + length \in Nat
    BY <1>3
  <2>3. cursor' = {} \/ cursor' = next
    BY <1>2 DEF NextCursor
  <2> HIDE DEF next
  <2> QED
    BY <1>7, <2>1, <2>2, <2>3
<1>9. EL_TypeOK'
  <2>1. /\ cursor' \subseteq Nat /\ (\A c, d \in cursor' : c = d) /\ followed' \subseteq Nat
        /\ repeated' \in BOOLEAN
    BY <1>t, <1>2, <1>8 DEF EL_TypeOK
  <2> QED
    BY <1>t, <1>1, <1>6, <2>1 DEF EL_TypeOK, Jira
<1>10. SeenOnce' /\ FloorsKnown' /\ NewestFirst(events)'
  <2>1. Ended' = Ended
    BY <1>1, EndedStays
  <2> QED
    BY <1>1, <2>1 DEF EL_IInv, SeenOnce, FloorsKnown, NewestFirst, Jira
<1>11. NewestFirst(page)'
  <2> SUFFICES ASSUME NEW i \in 1..length, NEW j \in 1..length, i < j
               PROVE  page'[i].day >= page'[j].day
    BY <1>6 DEF NewestFirst
  <2>1. from + i < from + j
    BY <1>3
  <2> QED
    BY <1>4, <1>6, <2>1 DEF NewestFirst
<1>12. ASSUME ~stopped', ~repeated'
       PROVE  ToCome' /\ OlderToCome' /\ Onwards' /\ EndedIsCovered'
  <2>1. ~stopped /\ ~repeated /\ again = {} /\ ToCome /\ OlderToCome /\ Onwards /\ EndedIsCovered
    BY <1>1, <1>2, <1>12 DEF EL_IInv
  <2>2. /\ \A q : Unseen(q)' = Unseen(q)
        /\ todo' = todo /\ capDay' = capDay /\ dayDone' = dayDone
        /\ Results' = Results
    BY <1>1 DEF Unseen, Results, Finds, Jira
  <2>3. next = IF length < Len(rest) THEN {from + length} ELSE {}
    BY <2>1 DEF token, rest
  <2>4. cursor' = {} => length = Len(rest)
    <3> SUFFICES ASSUME cursor' = {}, length < Len(rest) PROVE FALSE
      BY <1>2, <1>3, <1>5 DEF rest
    <3>1. next = {from + length} /\ length > 0
      BY <1>2, <1>3, <1>5, <2>3 DEF rest
    <3>2. page' # <<>>
      BY <1>3, <1>6, <3>1
    <3>3. from + length \in followed
      BY <1>2, <3>1, <3>2 DEF NextCursor
    <3>4. from + length <= from
      BY <1>3, <2>1, <3>3 DEF Onwards
    <3> QED
      BY <1>3, <3>1, <3>4
  <2>5. cursor' = {} \/ cursor' = {from + length}
    BY <1>8, <2>3
  <2>6. ASSUME NEW e \in Unseen(Head(todo)), e \notin ToSet(page')
        PROVE  \E r \in DOMAIN Results : r > from + length /\ Results[r] = e
    <3>1. e \notin ToSet(page)
      BY <1>1 DEF ToSet
    <3>2. PICK r \in DOMAIN Results : r > from /\ Results[r] = e
      BY <1>3, <2>1, <3>1 DEF ToCome
    <3>3. ASSUME r <= from + length PROVE FALSE
      <4>1. r - from \in 1..length /\ from + (r - from) = r
        BY <1>3, <1>4, <3>2, <3>3
      <4>2. page'[r - from] = e
        BY <1>6, <3>2, <4>1
      <4> QED
        BY <1>6, <2>6, <4>1, <4>2 DEF ToSet
    <3>4. r > from + length
      BY <1>3, <1>4, <3>3
    <3> QED
      BY <3>2, <3>4
  <2>7. ToCome'
    <3> SUFFICES ASSUME NEW e \in Unseen(Head(todo)), e \notin ToSet(page')
                 PROVE  /\ cursor' # {}
                        /\ \A f \in cursor' : \E r \in DOMAIN Results : r > f /\ Results[r] = e
      BY <2>2 DEF ToCome
    <3>1. PICK r \in DOMAIN Results : r > from + length /\ Results[r] = e
      BY <2>6
    <3>2. cursor' # {}
      BY <1>3, <1>4, <1>5, <2>4, <3>1
    <3> QED
      BY <2>5, <3>1, <3>2
  <2>8. OlderToCome'
    <3> SUFFICES ASSUME NEW e \in Unseen(Head(todo))
                 PROVE  /\ e \notin ToSet(page') => \A k \in DOMAIN page' : e.day <= page'[k].day
                        /\ capDay # 0 => e.day <= capDay
      BY <2>2 DEF OlderToCome
    <3>1. capDay # 0 => e.day <= capDay
      BY <2>1 DEF OlderToCome
    <3>2. ASSUME e \notin ToSet(page'), NEW k \in DOMAIN page' PROVE e.day <= page'[k].day
      <4>1. PICK r \in DOMAIN Results : r > from + length /\ Results[r] = e
        BY <2>6, <3>2
      <4>2. /\ k \in 1..length /\ page'[k] = Results[from + k] /\ from + k \in 1..n
            /\ from + k < r
        BY <1>3, <1>4, <1>6, <3>2, <4>1
      <4>3. Results[from + k].day >= Results[r].day
        BY <1>4, <4>1, <4>2 DEF NewestFirst
      <4>4. Results[r] \in Event /\ Results[from + k] \in Event
        BY <1>4, <4>1, <4>2, ElementOfSeq
      <4> QED
        BY <4>1, <4>2, <4>3, <4>4, DayIsNat
    <3> QED
      BY <3>1, <3>2
  <2>9. Onwards'
    <3>1. ~dayDone
      BY <1>3, <2>1 DEF Onwards
    <3>2. ASSUME NEW m \in followed', NEW f \in cursor' PROVE m <= f
      <4>1. f = from + length
        BY <2>5, <3>2
      <4>2. m \in followed \/ m = from + length
        BY <1>2, <2>3, <3>2
      <4>3. m \in followed => m \in Nat /\ m <= from
        BY <1>t, <1>3, <2>1 DEF Onwards, EL_TypeOK
      <4> QED
        BY <1>3, <4>1, <4>2, <4>3
    <3> QED
      BY <2>2, <3>1, <3>2 DEF Onwards
  <2>10. EndedIsCovered'
    <3>1. Ended' = Ended
      BY <1>1, EndedStays
    <3> QED
      BY <1>1, <2>1, <2>2, <3>1 DEF EndedIsCovered, Jira
  <2> QED
    BY <2>7, <2>8, <2>9, <2>10
<1> QED
  BY <1>9, <1>10, <1>11, <1>12 DEF EL_IInv

(* A row that is kept was not seen before, and is from now on.                *)
LEMMA KeepAddsOne ==
  ASSUME EventLogAssumption, EL_IInv, NEW e \in Event, e.id \notin seen, Keep(e)
  PROVE  /\ batch' \in Seq(Nat) /\ shown' \in Seq(Nat) /\ seen' = seen \union {e.id}
         /\ IsInjective(shown') /\ IsInjective(batch')
         /\ ToSet(shown') \intersect ToSet(batch') = {}
         /\ seen' = ToSet(shown') \union ToSet(batch')
<1> DEFINE filled == Append(batch, e.id)
<1>1. /\ batch \in Seq(Nat) /\ shown \in Seq(Nat) /\ IsInjective(shown) /\ IsInjective(batch)
      /\ ToSet(shown) \intersect ToSet(batch) = {}
      /\ seen = ToSet(shown) \union ToSet(batch)
  BY DEF EL_IInv, EL_TypeOK, SeenOnce
<1>2. e.id \in Nat
  BY DayIsNat
<1>3. filled \in Seq(Nat) /\ IsInjective(filled) /\ ToSet(filled) = ToSet(batch) \union {e.id}
  BY <1>1, <1>2, AppendOnce
<1>4. /\ seen' = seen \union {e.id}
      /\ \/ shown' = shown \o filled /\ batch' = <<>>
         \/ batch' = filled /\ shown' = shown
  BY DEF Keep
<1> HIDE DEF filled
<1>5. CASE batch' = filled /\ shown' = shown
  BY <1>1, <1>3, <1>4, <1>5
<1>6. CASE shown' = shown \o filled /\ batch' = <<>>
  <2>1. ToSet(shown) \intersect ToSet(filled) = {}
    BY <1>1, <1>3
  <2>2. /\ shown' \in Seq(Nat) /\ IsInjective(shown')
        /\ ToSet(shown') = ToSet(shown) \union ToSet(filled)
    BY <1>1, <1>3, <1>6, <2>1, JoinOnce
  <2>3. batch' \in Seq(Nat) /\ IsInjective(batch') /\ ToSet(batch') = {}
    BY <1>6 DEF IsInjective, ToSet
  <2> QED
    BY <1>1, <1>3, <1>4, <2>2, <2>3
<1> QED
  BY <1>4, <1>5, <1>6

(* One event of the page is read.                                            *)
LEMMA ReadKeeps ==
  ASSUME EventLogAssumption, EL_IInv, ReadEvent
  PROVE  EL_IInv'
<1> DEFINE e == Head(page)
           rest == Tail(page)
           keeps == Row(e) /\ ~Older(e)
<1>t. EL_TypeOK /\ NewestFirst(events) /\ NewestFirst(page)
  BY DEF EL_IInv
<1>1. page \in Seq(Event) /\ page # <<>> /\ state = "reading"
  BY <1>t DEF ReadEvent, EL_TypeOK
<1>2. /\ scanned' = scanned + 1 /\ local' = local + 1
      /\ dayDone' = (dayDone \/ Older(e))
      /\ keeps => Keep(e)
      /\ ~keeps => UNCHANGED <<seen, got, batch, shown, capDay, coverage>>
      /\ Stops(e) => page' = <<>> /\ cursor' = {}
      /\ ~Stops(e) => page' = rest /\ cursor' = cursor
      /\ stopped' = (stopped \/ (Stops(e) /\ capDay' = 0 /\ (rest # <<>> \/ cursor # {})))
      /\ UNCHANGED <<Jira, state, todo, followed, repeated>>
  BY DEF ReadEvent
<1>3. /\ e \in Event /\ e = page[1] /\ DOMAIN page = 1..Len(page) /\ Len(page) \in Nat \ {0}
      /\ rest \in Seq(Event) /\ DOMAIN rest = 1..(Len(page) - 1)
      /\ \A k \in 1..(Len(page) - 1) : rest[k] = page[k + 1]
  BY <1>1
<1>4. e.day \in Nat /\ e.day \in 1..LastDay /\ e.id \in Nat
  BY <1>3, DayIsNat
<1> HIDE DEF e, rest
<1>5. Older(e) => capDay # 0 /\ e.day < capDay /\ Stops(e) /\ ~keeps
  BY DEF Older, Stops
<1>6. keeps => e.id \notin seen
  BY DEF Row
<1> HIDE DEF keeps
<1>7. capDay \in Nat /\ LastDay \in Nat
  BY <1>t DEF EL_TypeOK, EventLogAssumption
<1>8. /\ capDay' = capDay \/ (capDay = 0 /\ capDay' = e.day)
      /\ Older(e) => capDay' = capDay
      /\ keeps => e.id \in seen'
      /\ seen \subseteq seen'
  BY <1>2, <1>5 DEF Keep
<1> DEFINE labels == IF Head(todo) = Direct THEN {label[Direct]} ELSE {}
<1>9. /\ DOMAIN coverage \subseteq DOMAIN coverage' /\ DOMAIN coverage' \subseteq Products
      /\ coverage' \in [DOMAIN coverage' -> Nat]
      /\ \A p \in DOMAIN coverage : coverage[p] <= coverage'[p]
      /\ keeps => labels \subseteq DOMAIN coverage'
  <2>1. CASE ~keeps
    <3>1. \A p \in DOMAIN coverage : coverage[p] \in Nat
      BY <1>t DEF EL_TypeOK
    <3>2. DOMAIN coverage \subseteq Products /\ coverage \in [DOMAIN coverage -> Nat]
      BY <1>t DEF EL_TypeOK
    <3>3. coverage' = coverage
      BY ONLY <1>2, <2>1
    <3> QED
      BY ONLY <2>1, <3>1, <3>2, <3>3
  <2>2. CASE keeps
    <3>1. coverage' = Covered(labels, 0)
      BY <1>2, <2>2 DEF Keep
    <3>2. labels \in SUBSET Products
      BY <1>t DEF EL_TypeOK
    <3> HIDE DEF labels
    <3> QED
      BY <1>t, <3>1, <3>2, CoveredGrows
  <2> QED
    BY <2>1, <2>2
<1> HIDE DEF labels
<1>10. /\ batch' \in Seq(Nat) /\ shown' \in Seq(Nat) /\ seen' \subseteq Nat
       /\ SeenOnce' /\ got' \in Nat
  <2>1. CASE ~keeps
    BY <1>t, <1>1, <1>2, <2>1 DEF EL_IInv, SeenOnce, EL_TypeOK
  <2>2. CASE keeps
    <3>1. got' = got + 1 /\ got \in Nat
      BY <1>t, <1>2, <2>2 DEF Keep, EL_TypeOK
    <3>2. state' # "done"
      BY <1>1, <1>2
    <3>3. /\ batch' \in Seq(Nat) /\ shown' \in Seq(Nat) /\ seen' = seen \union {e.id}
          /\ IsInjective(shown') /\ IsInjective(batch')
          /\ ToSet(shown') \intersect ToSet(batch') = {}
          /\ seen' = ToSet(shown') \union ToSet(batch')
      BY <1>2, <1>3, <1>6, <2>2, KeepAddsOne
    <3>4. seen' \subseteq Nat
      BY <1>t, <1>4, <3>3 DEF EL_TypeOK
    <3> QED
      BY <3>1, <3>2, <3>3, <3>4 DEF SeenOnce
  <2> QED
    BY <2>1, <2>2
<1>11. page' \in Seq(Event) /\ cursor' \subseteq cursor
  <2>1. page' = <<>> \/ page' = rest
    BY ONLY <1>2
  <2>2. cursor' = {} \/ cursor' = cursor
    BY ONLY <1>2
  <2>3. rest \in Seq(Event) /\ <<>> \in Seq(Event)
    BY <1>3
  <2>4. page' \in Seq(Event)
    BY ONLY <2>1, <2>3
  <2> QED
    BY ONLY <2>2, <2>4
<1>12. capDay' \in 0..LastDay
  <2>1. capDay \in 0..LastDay
    BY <1>t DEF EL_TypeOK
  <2> QED
    BY ONLY <1>4, <1>7, <1>8, <2>1
<1>13. EL_TypeOK'
  <2>1. scanned' \in Nat /\ local' \in Nat
    <3>1. scanned \in Nat /\ local \in Nat
      BY <1>t DEF EL_TypeOK
    <3>2. scanned' = scanned + 1 /\ local' = local + 1
      BY ONLY <1>2
    <3> QED
      BY ONLY <3>1, <3>2
  <2>2. dayDone' \in BOOLEAN /\ stopped' \in BOOLEAN
    BY <1>t, <1>2 DEF EL_TypeOK
  <2>3. cursor' \subseteq Nat /\ \A m, n \in cursor' : m = n
    BY <1>t, <1>11 DEF EL_TypeOK
  <2>4. /\ events' \in Seq(Event) /\ Len(events') >= Length
        /\ label' \in [Groups \union {Direct} -> Products]
        /\ state' \in {"reading", "done", "broken"} /\ state' = "reading"
        /\ \E m \in 1..Len(Queries) : todo' = SubSeq(Queries, m, Len(Queries))
        /\ followed' \subseteq Nat /\ repeated' \in BOOLEAN
    BY <1>t, <1>1, <1>2 DEF EL_TypeOK, Jira
  <2> QED
    BY <1>9, <1>10, <1>11, <1>12, <2>1, <2>2, <2>3, <2>4 DEF EL_TypeOK
<1>14. \A about : Unseen(about)' \subseteq Unseen(about)
  BY <1>2, <1>8 DEF Unseen, Jira
<1>15. Ended' = Ended
  BY <1>1, <1>2, EndedStays
<1>16. label' = label
  BY <1>2 DEF Jira
<1>17. FloorsKnown'
  <2>1. ASSUME NEW j \in Ended, Queries[j] # Direct PROVE label[Queries[j]] \in DOMAIN coverage'
    BY <1>9, <2>1 DEF EL_IInv, FloorsKnown
  <2>2. ASSUME capDay' # 0, Head(todo) = Direct PROVE label[Direct] \in DOMAIN coverage'
    <3>1. CASE capDay # 0
      BY <1>9, <2>2, <3>1 DEF EL_IInv, FloorsKnown
    <3>2. CASE capDay = 0
      <4>1. keeps
        BY <1>2, <2>2, <3>2
      <4> QED
        BY <1>9, <2>2, <4>1 DEF labels
    <3> QED
      BY <3>1, <3>2
  <2> QED
    BY <1>2, <1>15, <1>16, <2>1, <2>2 DEF FloorsKnown
<1>18. NewestFirst(events') /\ NewestFirst(page')
  <2>1. NewestFirst(events')
    BY <1>t, <1>2 DEF NewestFirst, Jira
  <2>2. NewestFirst(<<>>)
    BY DEF NewestFirst
  <2>3. NewestFirst(rest)
    <3> SUFFICES ASSUME NEW i \in 1..(Len(page) - 1), NEW j \in 1..(Len(page) - 1), i < j
                 PROVE  rest[i].day >= rest[j].day
      BY <1>3 DEF NewestFirst
    <3>1. i + 1 \in DOMAIN page /\ j + 1 \in DOMAIN page /\ i + 1 < j + 1
      BY <1>3
    <3> QED
      BY <1>t, <1>3, <3>1 DEF NewestFirst
  <2>4. page' = <<>> \/ page' = rest
    BY ONLY <1>2
  <2> QED
    BY ONLY <2>1, <2>2, <2>3, <2>4
<1>19. ASSUME ~stopped', ~repeated'
       PROVE  ToCome' /\ OlderToCome' /\ Onwards' /\ EndedIsCovered'
  <2>1. ~stopped /\ ~repeated /\ ToCome /\ OlderToCome /\ Onwards /\ EndedIsCovered
    BY <1>1, <1>2, <1>19 DEF EL_IInv
  <2>2. ~dayDone
    BY <1>1, <2>1 DEF Onwards
  <2>3. /\ todo' = todo /\ Results' = Results /\ followed' = followed
    BY <1>2 DEF Results, Finds, Jira
  <2>4. Unseen(Head(todo))' \subseteq Unseen(Head(todo))
    BY <1>14, <2>3 DEF Unseen
  <2>5. ASSUME NEW x \in Unseen(Head(todo)) PROVE x.day <= e.day /\ x.day \in Nat
    <3>1. x \in Event /\ x.day \in Nat
      BY <1>t, <2>5, UnseenIsEvent
    <3>2. CASE x \notin ToSet(page)
      BY <1>3, <2>1, <2>5, <3>1, <3>2 DEF OlderToCome
    <3>3. CASE x \in ToSet(page)
      <4>1. PICK k \in DOMAIN page : x = page[k]
        BY <3>3 DEF ToSet
      <4>2. CASE k = 1
        BY <1>3, <1>4, <4>1, <4>2
      <4>3. CASE k # 1
        <5>1. 1 < k /\ 1 \in DOMAIN page
          BY <1>3, <4>3
        <5>2. page[1].day >= page[k].day
          BY <1>t, <4>1, <5>1 DEF NewestFirst
        <5> QED
          BY <1>3, <1>4, <3>1, <4>1, <5>2
      <4> QED
        BY <4>2, <4>3
    <3> QED
      BY <3>1, <3>2, <3>3
  <2>6. ASSUME NEW x \in Unseen(Head(todo))', x \in ToSet(page), x \notin ToSet(rest)
        PROVE  Older(e) /\ x = e
    <3>1. PICK k \in DOMAIN page : x = page[k]
      BY <2>6 DEF ToSet
    <3>2. k = 1
      <4> SUFFICES ASSUME k # 1 PROVE FALSE
        OBVIOUS
      <4>1. k - 1 \in 1..(Len(page) - 1) /\ (k - 1) + 1 = k
        BY <1>3, <3>1
      <4>2. rest[k - 1] = x
        BY <1>3, <3>1, <4>1
      <4> QED
        BY <1>3, <2>6, <4>1, <4>2 DEF ToSet
    <3>3. x = e
      BY <1>3, <3>1, <3>2
    <3>4. e.id \notin seen' /\ e.about # OtherGroup
      BY <3>3 DEF Unseen
    <3>5. Row(e)
      BY <1>8, <3>4 DEF Row
    <3> QED
      BY <1>8, <3>3, <3>4, <3>5 DEF keeps
  <2>7. OlderToCome'
    <3> SUFFICES ASSUME NEW x \in Unseen(Head(todo))'
                 PROVE  /\ x \notin ToSet(page') => \A k \in DOMAIN page' : x.day <= page'[k].day
                        /\ capDay' # 0 => x.day <= capDay'
      BY DEF OlderToCome
    <3>1. x \in Unseen(Head(todo))
      BY <2>4
    <3>2. capDay' # 0 => x.day <= capDay'
      BY <1>8, <2>1, <2>5, <3>1 DEF OlderToCome
    <3>3. ASSUME x \notin ToSet(page'), NEW k \in DOMAIN page' PROVE x.day <= page'[k].day
      <4>1. ~Stops(e) /\ page' = rest
        BY <1>2, <3>3
      <4>2. x \notin ToSet(page)
        BY <1>5, <2>6, <3>3, <4>1
      <4>3. page'[k] = page[k + 1] /\ k + 1 \in DOMAIN page
        BY <1>3, <3>3, <4>1
      <4> QED
        BY <2>1, <3>1, <4>2, <4>3 DEF OlderToCome
    <3> QED
      BY <3>2, <3>3
  <2>8. ToCome'
    <3> SUFFICES ASSUME NEW x \in Unseen(Head(todo))', x \notin ToSet(page')
                 PROVE  /\ cursor' = {} => /\ page' = <<>> /\ capDay' # 0
                                           /\ dayDone' => x.day < capDay'
                        /\ \A f \in cursor' : \E r \in DOMAIN Results : r > f /\ Results[r] = x
      BY <2>3 DEF ToCome
    <3>1. x \in Unseen(Head(todo))
      BY <2>4
    <3>2. CASE Stops(e)
      <4>1. capDay' # 0
        <5> SUFFICES ASSUME capDay' = 0 PROVE FALSE
          OBVIOUS
        <5>1. rest = <<>> /\ cursor = {}
          BY <1>2, <1>19, <3>2
        <5>2. x \in ToSet(page)
          BY <1>1, <2>1, <3>1, <5>1 DEF ToCome
        <5>3. x \notin ToSet(rest)
          BY <5>1 DEF ToSet
        <5>4. Older(e)
          BY <2>6, <5>2, <5>3
        <5> QED
          BY <1>5, <1>8, <5>4
      <4>2. ASSUME dayDone' PROVE x.day < capDay'
        <5>1. Older(e)
          BY <1>2, <2>2, <4>2
        <5> QED
          BY <1>4, <1>5, <1>7, <1>8, <2>5, <3>1, <5>1
      <4> QED
        BY <1>2, <3>2, <4>1, <4>2
    <3>3. CASE ~Stops(e)
      <4>1. page' = rest /\ cursor' = cursor
        BY <1>2, <3>3
      <4>2. x \notin ToSet(page)
        BY <1>5, <2>6, <3>3, <4>1
      <4>3. cursor # {}
        BY <1>1, <2>1, <3>1, <4>2 DEF ToCome
      <4> QED
        BY <2>1, <3>1, <4>1, <4>2, <4>3 DEF ToCome
    <3> QED
      BY <3>2, <3>3
  <2>9. Onwards'
    BY <1>2, <1>5, <1>11, <2>1, <2>2 DEF Onwards
  <2>10. EndedIsCovered'
    <3>1. ASSUME NEW j \in Ended, NEW x \in Unseen(Queries[j])'
          PROVE  /\ label[Queries[j]] \in DOMAIN coverage'
                 /\ x.day < coverage'[label[Queries[j]]]
      <4>1. Unseen(Queries[j])' \subseteq Unseen(Queries[j])
        BY <1>14
      <4> QED
        BY <1>9, <1>16, <2>1, <3>1, <4>1, EndedStayCovered
    <3> QED
      BY <1>15, <1>16, <3>1 DEF EndedIsCovered
  <2> QED
    BY <2>7, <2>8, <2>9, <2>10
<1> QED
  BY <1>10, <1>13, <1>17, <1>18, <1>19 DEF EL_IInv

(* A query ends, and the next begins unless the log is over.                 *)
LEMMA EndKeeps ==
  ASSUME EventLogAssumption, EL_IInv, EndQuery
  PROVE  EL_IInv'
<1> DEFINE products == IF Head(todo) = Direct THEN DOMAIN coverage ELSE {label[Head(todo)]}
           over == Len(todo) = 1 \/ scanned >= MaxTotal
<1>t. EL_TypeOK /\ NewestFirst(events)
  BY DEF EL_IInv
<1>1. /\ state = "reading" /\ page = <<>> /\ cursor = {}
      /\ shown' = shown \o batch /\ batch' = <<>>
      /\ coverage' = Covered(products, CapFloor)
      /\ over => state' = "done" /\ todo' = todo /\ cursor' = cursor
      /\ ~over => todo' = Tail(todo) /\ cursor' = {0} /\ state' = state
      /\ followed' = {} /\ local' = 0 /\ got' = 0 /\ capDay' = 0 /\ dayDone' = FALSE
      /\ page' = page /\ scanned' = scanned /\ seen' = seen /\ stopped' = stopped
      /\ repeated' = repeated
      /\ events' = events /\ named' = named /\ label' = label
  BY DEF EndQuery, Jira
<1>2. /\ Len(todo) \in 1..Len(Queries) /\ Len(Queries) \in Nat /\ Len(todo) \in Nat
      /\ Current \in 1..Len(Queries) /\ Head(todo) = Queries[Current]
      /\ Head(todo) \in Groups \union {Direct}
  BY <1>t, CurrentQuery
<1>3. scanned \in Nat /\ MaxTotal \in Nat /\ capDay \in Nat /\ dayDone \in BOOLEAN
  BY <1>t DEF EL_TypeOK, EventLogAssumption
<1>4. CapFloor \in Nat
  BY <1>3 DEF CapFloor
<1>5. products \in SUBSET Products
  BY <1>t, <1>2 DEF EL_TypeOK
<1>6. Head(todo) # Direct => label[Head(todo)] \in products
  OBVIOUS
<1>7. Head(todo) = Direct => products = DOMAIN coverage
  OBVIOUS
<1> HIDE DEF products
<1>8. /\ DOMAIN coverage \subseteq DOMAIN coverage' /\ DOMAIN coverage' \subseteq Products
      /\ coverage' \in [DOMAIN coverage' -> Nat] /\ products \subseteq DOMAIN coverage'
      /\ \A p \in DOMAIN coverage : coverage[p] <= coverage'[p]
      /\ \A p \in products : CapFloor <= coverage'[p]
  <2> HIDE DEF over
  <2> QED
    BY <1>t, <1>1, <1>4, <1>5, CoveredGrows
<1>9. ~over => Len(todo) > 1 /\ Len(todo') = Len(todo) - 1
                 /\ \E m \in 1..Len(Queries) : todo' = SubSeq(Queries, m, Len(Queries))
  <2> SUFFICES ASSUME ~over
               PROVE  /\ Len(todo) > 1 /\ Len(todo') = Len(todo) - 1
                      /\ \E m \in 1..Len(Queries) : todo' = SubSeq(Queries, m, Len(Queries))
    OBVIOUS
  <2>1. Len(todo) # 1
    OBVIOUS
  <2>2. Len(todo) > 1
    <3>1. \A k, m \in Nat : k \in 1..m /\ k # 1 => k > 1
      OBVIOUS
    <3>2. Len(todo) \in 1..Len(Queries) /\ Len(Queries) \in Nat /\ Len(todo) \in Nat
      BY <1>2
    <3> QED
      BY ONLY <2>1, <3>1, <3>2, Zenon
  <2>3. todo' = Tail(todo)
    BY <1>1
  <2>4. /\ \E m \in 1..Len(Queries) : Tail(todo) = SubSeq(Queries, m, Len(Queries))
        /\ Len(Tail(todo)) = Len(todo) - 1
    BY <1>t, <2>2, CurrentQuery
  <2> QED
    BY <2>2, <2>3, <2>4
<1>10. Ended' \subseteq Ended \union {Current}
  <2>1. Ended = 1..(Len(Queries) - Len(todo))
    BY <1>1 DEF Ended
  <2>2. CASE ~over
    <3>1. state' # "done" /\ Len(todo') = Len(todo) - 1
      BY <1>1, <1>9, <2>2
    <3>2. Ended' = 1..(Len(Queries) - (Len(todo) - 1))
      BY <3>1 DEF Ended
    <3> QED
      BY <1>2, <2>1, <3>2 DEF Current
  <2>3. CASE over
    <3>1. state' = "done" /\ todo' = todo /\ scanned' = scanned
      BY <1>1, <2>3
    <3>2. CASE scanned < MaxTotal
      <4>1. Len(todo) = 1
        BY <1>3, <2>3, <3>2
      <4>2. Ended' = 1..Len(Queries)
        BY <3>1, <3>2 DEF Ended
      <4> QED
        BY <1>2, <2>1, <4>1, <4>2 DEF Current
    <3>3. CASE ~(scanned < MaxTotal)
      BY <2>1, <3>1, <3>3 DEF Ended
    <3> QED
      BY <3>2, <3>3
  <2> QED
    BY <2>2, <2>3
<1> HIDE DEF over
<1>11. SeenOnce' /\ shown' \in Seq(Nat) /\ batch' \in Seq(Nat)
  <2>1. /\ batch \in Seq(Nat) /\ shown \in Seq(Nat) /\ IsInjective(shown) /\ IsInjective(batch)
        /\ ToSet(shown) \intersect ToSet(batch) = {}
        /\ seen = ToSet(shown) \union ToSet(batch)
    BY <1>t DEF EL_IInv, EL_TypeOK, SeenOnce
  <2>2. /\ shown' \in Seq(Nat) /\ IsInjective(shown')
        /\ ToSet(shown') = ToSet(shown) \union ToSet(batch)
    BY <1>1, <2>1, JoinOnce
  <2>3. batch' \in Seq(Nat) /\ IsInjective(batch') /\ ToSet(batch') = {}
    BY <1>1 DEF IsInjective, ToSet
  <2> QED
    BY <1>1, <2>1, <2>2, <2>3 DEF SeenOnce
<1>12. EL_TypeOK'
  <2>1. /\ state' \in {"reading", "done", "broken"}
        /\ \E m \in 1..Len(Queries) : todo' = SubSeq(Queries, m, Len(Queries))
        /\ cursor' \subseteq Nat /\ (\A m, n \in cursor' : m = n)
    <3>1. CASE over
      <4>1. state' = "done" /\ todo' = todo /\ cursor' = {}
        BY <1>1, <3>1
      <4> QED
        BY <1>t, <4>1 DEF EL_TypeOK
    <3>2. CASE ~over
      <4>1. state' = "reading" /\ cursor' = {0}
        BY <1>1, <3>2
      <4> QED
        BY <1>9, <3>2, <4>1
    <3> QED
      BY <3>1, <3>2
  <2>2. /\ {scanned', local', got'} \subseteq Nat /\ capDay' \in 0..LastDay
        /\ dayDone' \in BOOLEAN /\ followed' \subseteq Nat
    <3>1. LastDay \in Nat
      BY DEF EventLogAssumption
    <3>2. scanned' = scanned /\ local' = 0 /\ got' = 0
      BY <1>1
    <3>3. capDay' = 0 /\ dayDone' = FALSE /\ followed' = {}
      BY <1>1
    <3>4. {scanned', local', got'} \subseteq Nat
      BY ONLY <1>3, <3>2
    <3>5. capDay' \in 0..LastDay
      BY ONLY <3>1, <3>3
    <3> QED
      BY <3>3, <3>4, <3>5
  <2>3. /\ events' \in Seq(Event) /\ Len(events') >= Length
        /\ label' \in [Groups \union {Direct} -> Products]
        /\ page' \in Seq(Event) /\ page' = <<>> /\ seen' \subseteq Nat
        /\ stopped' \in BOOLEAN /\ repeated' \in BOOLEAN
    BY <1>t, <1>1 DEF EL_TypeOK
  <2> QED
    BY <1>8, <1>11, <2>1, <2>2, <2>3 DEF EL_TypeOK
<1>13. NewestFirst(events') /\ NewestFirst(page')
  BY <1>t, <1>1 DEF NewestFirst
<1>14. \A about : Unseen(about)' = Unseen(about)
  BY <1>1 DEF Unseen
<1>15. FloorsKnown'
  <2>1. ASSUME NEW j \in Ended', Queries[j] # Direct
        PROVE  label[Queries[j]] \in DOMAIN coverage'
    <3>1. CASE j \in Ended
      BY <1>8, <2>1, <3>1 DEF EL_IInv, FloorsKnown
    <3>2. CASE j = Current
      BY <1>2, <1>6, <1>8, <2>1, <3>2
    <3> QED
      BY <1>10, <3>1, <3>2
  <2> QED
    BY <1>1, <2>1 DEF FloorsKnown
<1>16. ASSUME ~stopped, ~repeated
       PROVE  EndedIsCovered' /\ (state' = "reading" => ToCome' /\ OlderToCome' /\ Onwards')
  <2>1. ToCome /\ OlderToCome
    BY <1>1, <1>16 DEF EL_IInv
  <2>2. ASSUME NEW x \in Unseen(Head(todo))
        PROVE  label[Head(todo)] \in products /\ x.day < CapFloor
    <3>1. x \notin ToSet(page)
      BY <1>1 DEF ToSet
    <3>2. capDay # 0 /\ (dayDone => x.day < capDay)
      BY <1>1, <2>1, <2>2, <3>1 DEF ToCome
    <3>3. x.day <= capDay /\ x.day \in Nat
      BY <1>t, <2>1, <2>2, <3>2, UnseenIsEvent DEF OlderToCome
    <3>4. x.day < CapFloor
      BY <1>3, <3>2, <3>3 DEF CapFloor
    <3>5. label[Head(todo)] \in products
      BY <1>6, <1>7, <3>2 DEF EL_IInv, FloorsKnown
    <3> QED
      BY <3>4, <3>5
  <2>3. ASSUME NEW j \in Ended', NEW x \in Unseen(Queries[j])
        PROVE  /\ label[Queries[j]] \in DOMAIN coverage'
               /\ x.day < coverage'[label[Queries[j]]]
    <3>1. CASE j \in Ended
      BY <1>1, <1>8, <1>16, <2>3, <3>1, EndedStayCovered
    <3>2. CASE j = Current
      <4>1. label[Queries[j]] \in products /\ x.day < CapFloor
        BY <1>2, <2>2, <2>3, <3>2
      <4>2. x.day \in Nat
        BY <1>t, <2>3, UnseenIsEvent
      <4>3. CapFloor <= coverage'[label[Queries[j]]] /\ label[Queries[j]] \in DOMAIN coverage'
        BY <1>8, <4>1
      <4>4. coverage'[label[Queries[j]]] \in Nat
        BY <1>8, <4>3
      <4> QED
        BY <1>4, <4>1, <4>2, <4>3, <4>4
    <3> QED
      BY <1>10, <3>1, <3>2
  <2>4. EndedIsCovered'
    BY <1>1, <1>14, <2>3 DEF EndedIsCovered
  <2>5. ASSUME state' = "reading" PROVE ToCome' /\ OlderToCome' /\ Onwards'
    <3>1. ~over /\ cursor' = {0} /\ page' = <<>> /\ capDay' = 0 /\ ~dayDone' /\ followed' = {}
      BY <1>1, <2>5
    <3> DEFINE about == Head(todo')
               hits == {i \in DOMAIN events : Finds(about, events[i])}
    <3>2. Results' = Selected(events, hits)
      BY <1>1 DEF Results, Finds
    <3>3. hits \in SUBSET DOMAIN events /\ events \in Seq(Event)
      BY <1>t DEF EL_TypeOK
    <3>4. ASSUME NEW x \in Unseen(about)
          PROVE  \E r \in DOMAIN Results' : r > 0 /\ Results'[r] = x
      <4>1. PICK i \in DOMAIN events : events[i] = x
        BY DEF Unseen, ToSet
      <4>2. i \in hits
        BY <1>1, <4>1 DEF Unseen, Finds
      <4> HIDE DEF hits
      <4>3. PICK r \in 1..Cardinality(hits) : Nth(hits, r) = i
        BY <3>3, <4>2, SelectedType
      <4>4. /\ DOMAIN Selected(events, hits) = 1..Cardinality(hits)
            /\ Selected(events, hits)[r] = events[Nth(hits, r)]
            /\ Cardinality(hits) \in Nat
        BY <3>3, SelectedType
      <4>5. r > 0
        BY <4>4
      <4> QED
        BY <3>2, <4>1, <4>3, <4>4, <4>5
    <3>5. Unseen(Head(todo))' = Unseen(about)
      BY <1>14 DEF Unseen
    <3>6. ToCome'
      BY <3>1, <3>4, <3>5 DEF ToCome
    <3>7. OlderToCome' /\ Onwards'
      BY <3>1 DEF OlderToCome, Onwards
    <3> QED
      BY <3>6, <3>7
  <2> QED
    BY <2>4, <2>5
<1> QED
  BY <1>1, <1>11, <1>12, <1>13, <1>15, <1>16 DEF EL_IInv

(* An event arrives in front of the others.                                  *)
LEMMA ArrivesKeeps ==
  ASSUME EventLogAssumption, EL_IInv, NEW about \in Subjects, Arrives(about)
  PROVE  EL_IInv'
<1> DEFINE new == [id |-> Len(events) + 1, about |-> about, day |-> LastDay]
           n == Len(events)
<1>t. EL_TypeOK /\ NewestFirst(events)
  BY DEF EL_IInv
<1>1. /\ state = "reading" /\ events' = <<new>> \o events
      /\ UNCHANGED <<named, label, state, todo, page, cursor, followed, scanned, local, got,
                     capDay, dayDone, batch, seen, coverage, shown, stopped, repeated>>
  BY DEF Arrives
<1>2. /\ events \in Seq(Event) /\ DOMAIN events = 1..n /\ n \in Nat /\ n >= Length
      /\ Length \in Nat /\ LastDay \in Nat \ {0}
  BY <1>t DEF EL_TypeOK, EventLogAssumption
<1>3. new \in Event
  <2>1. n + 1 \in Nat /\ LastDay \in 1..LastDay
    BY <1>2
  <2> QED
    BY <2>1 DEF Event
<1>4. new.id = n + 1 /\ new.day = LastDay
  OBVIOUS
<1> HIDE DEF new
<1>5. /\ events' \in Seq(Event) /\ Len(events') = n + 1 /\ DOMAIN events' = 1..(n + 1)
      /\ events'[1] = new /\ \A i \in 1..n : events'[i + 1] = events[i]
  <2>1. <<new>> \in Seq(Event) /\ Len(<<new>>) = 1 /\ <<new>>[1] = new
    BY <1>3
  <2>2. /\ events' \in Seq(Event) /\ Len(events') = 1 + n
        /\ \A i \in 1..(1 + n) : events'[i] = IF i <= 1 THEN <<new>>[i] ELSE events[i - 1]
    BY <1>1, <1>2, <2>1, ConcatProperties
  <2>3. ASSUME NEW i \in 1..n PROVE events'[i + 1] = events[i]
    <3>1. i + 1 \in 1..(1 + n) /\ ~(i + 1 <= 1) /\ (i + 1) - 1 = i
      BY <1>2
    <3> QED
      BY <2>2, <3>1
  <2>4. events'[1] = new
    <3>1. 1 \in 1..(1 + n)
      BY <1>2
    <3> QED
      BY <2>1, <2>2, <3>1
  <2>5. Len(events') = n + 1 /\ DOMAIN events' = 1..(n + 1)
    BY <1>2, <2>2
  <2> QED
    BY <2>2, <2>3, <2>4, <2>5
<1>6. ASSUME NEW i \in 1..(n + 1)
      PROVE  \/ (i = 1 /\ events'[i] = new)
             \/ (i - 1 \in 1..n /\ events'[i] = events[i - 1])
  <2>1. i = 1 \/ (i - 1 \in 1..n /\ (i - 1) + 1 = i)
    BY <1>2
  <2> QED
    BY <1>5, <2>1
<1>7. EL_TypeOK'
  <2>1. Len(events') >= Length
    BY <1>2, <1>5
  <2> QED
    BY <1>t, <1>1, <1>5, <2>1 DEF EL_TypeOK
<1>8. SeenOnce'
  BY <1>1 DEF EL_IInv, SeenOnce
<1>9. NewestFirst(events') /\ NewestFirst(page')
  <2>1. NewestFirst(page')
    BY <1>1 DEF EL_IInv, NewestFirst
  <2>2. ASSUME NEW i \in 1..(n + 1), NEW j \in 1..(n + 1), i < j
        PROVE  events'[i].day >= events'[j].day
    <3>1. j - 1 \in 1..n /\ events'[j] = events[j - 1]
      BY <1>2, <1>6, <2>2
    <3>2. events[j - 1].day \in 1..LastDay
      BY <1>2, <3>1, ElementOfSeq, DayIsNat
    <3>3. CASE i = 1
      BY <1>2, <1>4, <1>5, <3>1, <3>2, <3>3
    <3>4. CASE i # 1
      <4>1. i - 1 \in 1..n /\ events'[i] = events[i - 1] /\ i - 1 < j - 1
        BY <1>2, <1>6, <2>2, <3>4
      <4> QED
        BY <1>t, <1>2, <3>1, <4>1 DEF NewestFirst
    <3> QED
      BY <3>3, <3>4
  <2> QED
    BY <1>5, <2>1, <2>2 DEF NewestFirst
<1>10. \A a : Unseen(a)' \subseteq Unseen(a)
  <2> SUFFICES ASSUME NEW a, NEW x \in Unseen(a)' PROVE x \in Unseen(a)
    OBVIOUS
  <2>1. /\ x \in ToSet(events') /\ x.id <= Length /\ x.about # OtherGroup /\ x.about = a
        /\ x.id \notin seen
    BY <1>1 DEF Unseen
  <2>2. PICK i \in 1..(n + 1) : x = events'[i]
    BY <1>5, <2>1 DEF ToSet
  <2>3. ~(n + 1 <= Length)
    BY <1>2
  <2>4. i - 1 \in 1..n /\ x = events[i - 1]
    BY <1>4, <1>6, <2>1, <2>2, <2>3
  <2>5. x \in ToSet(events)
    BY <1>2, <2>4 DEF ToSet
  <2> QED
    BY <2>1, <2>5 DEF Unseen
<1>11. Ended' = Ended /\ FloorsKnown'
  <2>1. Ended' = Ended
    BY <1>1, EndedStays
  <2> QED
    BY <1>1, <2>1 DEF EL_IInv, FloorsKnown
<1>12. ASSUME NEW r \in DOMAIN Results
       PROVE  \E l \in DOMAIN Results' : r <= l /\ Results'[l] = Results[r]
  <2> DEFINE hits == {i \in DOMAIN events' : Finds(Head(todo), events'[i])}
  <2>1. Results' = Selected(events', hits) /\ hits \in SUBSET DOMAIN events'
    BY <1>1 DEF Results, Finds
  <2>2. \A i \in Hits : i + 1 \in hits
    <3> SUFFICES ASSUME NEW i \in Hits PROVE i + 1 \in hits
      OBVIOUS
    <3>1. i \in 1..n /\ Finds(Head(todo), events[i])
      BY <1>2 DEF Hits
    <3>2. i + 1 \in DOMAIN events' /\ events'[i + 1] = events[i]
      BY <1>2, <1>5, <3>1
    <3> QED
      BY <3>1, <3>2
  <2> HIDE DEF hits
  <2>3. /\ Hits \in SUBSET Nat /\ IsFiniteSet(Hits) /\ r \in 1..Cardinality(Hits)
        /\ Hits \in SUBSET (1..n) /\ Nth(Hits, r) \in Hits /\ Results[r] = events[Nth(Hits, r)]
    BY <1>t, <1>2, ResultsType
  <2>4. /\ hits \in SUBSET Nat /\ IsFiniteSet(hits)
        /\ DOMAIN Selected(events', hits) = 1..Cardinality(hits)
        /\ \A k \in 1..Cardinality(hits) : Selected(events', hits)[k] = events'[Nth(hits, k)]
    BY <1>5, <2>1, SelectedType
  <2>5. PICK l \in 1..Cardinality(hits) : r <= l /\ Nth(hits, l) = Nth(Hits, r) + 1
    BY <2>2, <2>3, <2>4, NthShifted
  <2>6. events'[Nth(hits, l)] = events[Nth(Hits, r)]
    BY <1>5, <2>3, <2>5
  <2> QED
    BY <2>1, <2>3, <2>4, <2>5, <2>6
<1>13. ASSUME ~stopped, ~repeated
       PROVE  ToCome' /\ OlderToCome' /\ Onwards' /\ EndedIsCovered'
  <2>1. ToCome /\ OlderToCome /\ Onwards /\ EndedIsCovered
    BY <1>1, <1>13 DEF EL_IInv
  <2>2. Unseen(Head(todo))' \subseteq Unseen(Head(todo))
    BY <1>1, <1>10 DEF Unseen
  <2>3. ToCome'
    <3>1. ASSUME NEW x \in Unseen(Head(todo)), x \notin ToSet(page), NEW from \in cursor
          PROVE  \E l \in DOMAIN Results' : l > from /\ Results'[l] = x
      <4>1. PICK r \in DOMAIN Results : r > from /\ Results[r] = x
        BY <2>1, <3>1 DEF ToCome
      <4>2. PICK l \in DOMAIN Results' : r <= l /\ Results'[l] = x
        BY <1>12, <4>1
      <4>3. r \in Nat /\ from \in Nat /\ l \in Nat
        <5>1. r \in Nat /\ from \in Nat
          <6>1. DOMAIN Results = 1..Len(Results)
            BY <1>t, ResultsType
          <6>2. cursor \subseteq Nat
            BY <1>t DEF EL_TypeOK
          <6>3. r \in Nat
            BY ONLY <6>1, r \in DOMAIN Results
          <6> QED
            BY ONLY <6>2, <6>3, from \in cursor
        <5>2. DOMAIN Results' \subseteq Nat
          <6>1. {i \in DOMAIN events' : Finds(Head(todo), events'[i])} \in SUBSET DOMAIN events'
            OBVIOUS
          <6>2. Results' = Selected(events', {i \in DOMAIN events' : Finds(Head(todo), events'[i])})
            BY <1>1 DEF Results, Finds
          <6> QED
            BY <1>5, <6>1, <6>2, SelectedType
        <5> QED
          BY <5>1, <5>2
      <4> QED
        BY <4>1, <4>2, <4>3
    <3>2. \A x \in Unseen(Head(todo)) \ ToSet(page) :
             cursor = {} => page = <<>> /\ capDay # 0 /\ (dayDone => x.day < capDay)
      BY <2>1 DEF ToCome
    <3> QED
      BY <1>1, <2>2, <3>1, <3>2 DEF ToCome
  <2>4. OlderToCome' /\ Onwards'
    BY <1>1, <2>1, <2>2 DEF OlderToCome, Onwards
  <2>5. EndedIsCovered'
    BY <1>1, <1>10, <1>11, <2>1 DEF EndedIsCovered
  <2> QED
    BY <2>3, <2>4, <2>5
<1> QED
  BY <1>1, <1>7, <1>8, <1>9, <1>11, <1>13 DEF EL_IInv

(* A page cannot be read.                                                    *)
LEMMA BreaksKeeps ==
  ASSUME EventLogAssumption, EL_IInv, Breaks
  PROVE  EL_IInv'
<1>1. /\ state = "reading" /\ page = <<>> /\ state' = "broken"
      /\ UNCHANGED <<Jira, todo, page, cursor, followed, scanned, local, got, capDay, dayDone,
                     batch, seen, coverage, shown, stopped, repeated>>
  BY DEF Breaks
<1>2. Ended' = Ended
  BY <1>1, EndedStays
<1>3. EL_TypeOK'
  BY <1>1 DEF EL_IInv, EL_TypeOK, Jira
<1>4. SeenOnce' /\ NewestFirst(events') /\ NewestFirst(page') /\ FloorsKnown'
  BY <1>1, <1>2 DEF EL_IInv, SeenOnce, NewestFirst, FloorsKnown, Jira
<1>5. EndedIsCovered => EndedIsCovered'
  BY <1>1, <1>2 DEF EndedIsCovered, Unseen, Jira
<1> QED
  BY <1>1, <1>3, <1>4, <1>5 DEF EL_IInv

(* At the start nothing is seen, and all of it is to come.                   *)
LEMMA LogInit ==
  ASSUME EventLogAssumption, EL_Init
  PROVE  EL_IInv
<1>1. PICK about \in [1..Length -> Subjects], day \in [1..Length -> 1..LastDay] :
        /\ \A j, k \in 1..Length : j < k => day[j] >= day[k]
        /\ events = [k \in 1..Length |-> [id |-> k, about |-> about[k], day |-> day[k]]]
  BY DEF EL_Init
<1>2. /\ label \in [Groups \union {Direct} -> Products]
      /\ state = "reading" /\ todo = Queries /\ page = <<>> /\ cursor = {0} /\ followed = {}
      /\ scanned = 0 /\ local = 0 /\ got = 0 /\ capDay = 0 /\ dayDone = FALSE
      /\ batch = <<>> /\ seen = {} /\ coverage = [p \in {} |-> 0] /\ shown = <<>>
      /\ stopped = FALSE /\ repeated = FALSE
  BY DEF EL_Init
<1>3. Length \in Nat /\ LastDay \in Nat
  BY DEF EventLogAssumption
<1>4. events \in Seq(Event) /\ DOMAIN events = 1..Length /\ Len(events) = Length
  <2>1. \A k \in 1..Length : [id |-> k, about |-> about[k], day |-> day[k]] \in Event
    BY <1>3 DEF Event
  <2>2. events \in [1..Length -> Event]
    BY <1>1, <2>1
  <2> QED
    BY <1>3, <2>2, TypedIsSeq
<1>5. \A k \in 1..Length : events[k].day = day[k]
  BY <1>1
<1>6. NewestFirst(events)
  BY <1>1, <1>4, <1>5 DEF NewestFirst
<1>7. /\ Queries \in Seq(Groups \union {Direct}) /\ Len(Queries) \in Nat \ {0}
  BY QueriesType
<1>8. \E m \in 1..Len(Queries) : todo = SubSeq(Queries, m, Len(Queries))
  <2>1. Queries = SubSeq(Queries, 1, Len(Queries))
    BY <1>7
  <2>2. 1 \in 1..Len(Queries)
    BY <1>7
  <2> QED
    BY <1>2, <2>1, <2>2
<1>9. EL_TypeOK
  <2>1. /\ page \in Seq(Event) /\ batch \in Seq(Nat) /\ shown \in Seq(Nat)
        /\ {scanned, local, got} \subseteq Nat /\ capDay \in 0..LastDay
        /\ cursor \subseteq Nat /\ \A m, n \in cursor : m = n
    BY <1>2, <1>3
  <2>2. DOMAIN coverage = {} /\ coverage \in [{} -> Nat]
    BY <1>2
  <2>3. Len(events) >= Length
    BY <1>3, <1>4
  <2>4. followed \subseteq Nat /\ seen \subseteq Nat /\ dayDone \in BOOLEAN
    BY <1>2
  <2> QED
    BY <1>2, <1>4, <1>8, <2>1, <2>2, <2>3, <2>4 DEF EL_TypeOK
<1>10. SeenOnce
  <2>1. ToSet(shown) = {} /\ ToSet(batch) = {} /\ IsInjective(shown) /\ IsInjective(batch)
    BY <1>2 DEF ToSet, IsInjective
  <2> QED
    BY <1>2, <2>1 DEF SeenOnce
<1>11. Ended = {}
  <2>1. Ended = 1..(Len(Queries) - Len(Queries))
    BY <1>2 DEF Ended
  <2> QED
    BY <1>7, <2>1
<1>12. FloorsKnown /\ EndedIsCovered
  BY <1>2, <1>11 DEF FloorsKnown, EndedIsCovered
<1>13. NewestFirst(page) /\ OlderToCome /\ Onwards
  BY <1>2 DEF NewestFirst, OlderToCome, Onwards
<1>14. ToCome
  <2>1. DOMAIN Results = 1..Len(Results) /\ Len(Results) \in Nat
    BY <1>6, <1>9, ResultsType
  <2>2. ASSUME NEW e \in Unseen(Head(todo))
        PROVE  \E r \in DOMAIN Results : r > 0 /\ Results[r] = e
    <3>1. PICK r \in DOMAIN Results : Results[r] = e
      BY <1>6, <1>9, ResultsType
    <3>2. r > 0
      BY ONLY <2>1, r \in DOMAIN Results
    <3> QED
      BY <3>1, <3>2
  <2> QED
    BY <1>2, <2>2 DEF ToCome
<1> QED
  BY <1>6, <1>9, <1>10, <1>12, <1>13, <1>14 DEF EL_IInv

(* What the inductive invariant says is kept by every step of the log.        *)
LEMMA LogStep ==
  ASSUME EventLogAssumption, EL_IInv, [EL_Next]_ev
  PROVE  EL_IInv'
<1>1. ASSUME NEW length \in 0..EL_PageSize, NEW again \in {{}} \union {{c} : c \in followed},
             FetchPage(length, again)
      PROVE  EL_IInv'
  BY <1>1, FetchKeeps
<1>2. CASE ReadEvent
  BY <1>2, ReadKeeps
<1>3. CASE EndQuery
  BY <1>3, EndKeeps
<1>4. CASE Breaks
  BY <1>4, BreaksKeeps
<1>5. ASSUME NEW about \in Subjects, Arrives(about) PROVE EL_IInv'
  BY <1>5, ArrivesKeeps
<1>6. CASE UNCHANGED ev
  <2>1. UNCHANGED <<events, named, label, state, todo, page, cursor, followed, scanned, local,
                    got, capDay, dayDone, batch, seen, coverage, shown, stopped, repeated>>
    BY <1>6 DEF ev
  <2>2. EL_TypeOK' /\ SeenOnce' /\ NewestFirst(events') /\ NewestFirst(page')
    BY <2>1 DEF EL_IInv, EL_TypeOK, SeenOnce, NewestFirst
  <2>3. Results' = Results /\ Ended' = Ended /\ \A a : Unseen(a)' = Unseen(a)
    BY <2>1 DEF Results, Finds, Ended, Unseen
  <2>4. FloorsKnown' /\ (EndedIsCovered => EndedIsCovered')
    BY <2>1, <2>3 DEF EL_IInv, FloorsKnown, EndedIsCovered
  <2>5. Unseen(Head(todo))' = Unseen(Head(todo))
    BY <2>1 DEF Unseen
  <2>6. (ToCome => ToCome') /\ (OlderToCome => OlderToCome') /\ (Onwards => Onwards')
    BY <2>1, <2>3, <2>5 DEF ToCome, OlderToCome, Onwards
  <2> QED
    BY <2>1, <2>2, <2>4, <2>6 DEF EL_IInv
<1> QED
  BY <1>1, <1>2, <1>3, <1>4, <1>5, <1>6 DEF EL_Next

(* At the end all queries have ended, and what they did not find is older    *)
(* than what the coverage calls whole.                                       *)
LEMMA CoverageIsTrue ==
  ASSUME EventLogAssumption, EL_IInv
  PROVE  CoverageTrue
<1>1. IsInjective(shown)
  BY DEF EL_IInv, SeenOnce
<1>2. ASSUME state = "done", scanned < MaxTotal
      PROVE  /\ \A g \in Groups : label[g] \in DOMAIN coverage
             /\ stopped \/ repeated \/ AllPromisedShown
  <2>1. Ended = 1..Len(Queries)
    BY <1>2 DEF Ended
  <2>2. \A g \in Groups : label[g] \in DOMAIN coverage
    <3> SUFFICES ASSUME NEW g \in Groups PROVE label[g] \in DOMAIN coverage
      OBVIOUS
    <3>1. PICK j \in 1..Len(Queries) : Queries[j] = g /\ g # Direct
      BY QueriesType
    <3> QED
      BY <2>1, <3>1 DEF EL_IInv, FloorsKnown
  <2>3. ASSUME ~stopped, ~repeated PROVE AllPromisedShown
    <3> SUFFICES ASSUME NEW e \in Promised, e.id \notin ToSet(shown) PROVE FALSE
      BY DEF AllPromisedShown
    <3>1. /\ e \in ToSet(events) /\ e.id <= Length /\ e.about # OtherGroup
          /\ e.day >= coverage[label[e.about]]
      BY DEF Promised
    <3>2. seen = ToSet(shown)
      <4>1. seen = ToSet(shown) \union ToSet(batch) /\ batch = <<>>
        BY <1>2 DEF EL_IInv, SeenOnce
      <4>2. ToSet(batch) = {}
        BY <4>1 DEF ToSet
      <4> QED
        BY <4>1, <4>2
    <3>3. e \in Unseen(e.about)
      BY <3>1, <3>2 DEF Unseen
    <3>4. e \in Event /\ e.day \in Nat
      BY <3>3, UnseenIsEvent DEF EL_IInv
    <3>5. e.about \in Groups \union {Direct}
      BY <3>1, <3>4 DEF Event, Subjects
    <3>6. PICK j \in 1..Len(Queries) : Queries[j] = e.about
      BY <3>5, QueriesType
    <3>7. label[e.about] \in DOMAIN coverage /\ e.day < coverage[label[e.about]]
      BY <2>1, <2>3, <3>3, <3>6 DEF EL_IInv, EndedIsCovered
    <3>8. coverage[label[e.about]] \in Nat
      BY <3>7 DEF EL_IInv, EL_TypeOK
    <3> QED
      BY <3>1, <3>4, <3>7, <3>8
  <2> QED
    BY <2>2, <2>3
<1> QED
  BY <1>1, <1>2 DEF CoverageTrue

(* The inductive invariant of the log (license_events_stream, app.py:1390),  *)
(* whatever the caps, the queries and the names that several of them find.   *)
THEOREM EL_Invariance ==
  ASSUME EventLogAssumption
  PROVE  EL_Spec => []EL_IInv
<1>1. EL_Init => EL_IInv
  BY LogInit
<1>2. EL_IInv /\ [EL_Next]_ev => EL_IInv'
  BY LogStep
<1> QED
  BY <1>1, <1>2, PTL DEF EL_Spec

(* A day the coverage calls whole is whole (app.py:1376): every change of a  *)
(* product from its floor on was sent, and none twice, however the cap fell  *)
(* and whatever arrived during the reading.                                  *)
THEOREM CoverageTrueAlways ==
  ASSUME EventLogAssumption
  PROVE  EL_Spec => []CoverageTrue
<1>1. EL_IInv => CoverageTrue
  BY CoverageIsTrue
<1> QED
  BY <1>1, EL_Invariance, PTL
=============================================================================
