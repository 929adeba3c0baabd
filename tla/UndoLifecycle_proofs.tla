------------------------ MODULE UndoLifecycle_proofs ------------------------
(***************************************************************************)
(* Proofs about previews, runs and undos, for any number of requests at      *)
(* work, memberships and entries: a preview runs once, an entry is marked    *)
(* only after all of its rows were sent, and undoing every listed action,    *)
(* latest first, gives back the memberships there were.                      *)
(***************************************************************************)
EXTENDS UndoLifecycle, TLAPS, FiniteSetTheorems, SequenceTheorems

Busy(r) == req[r].pc # "idle"
Running(r) == req[r].pc = "running"
AtWork == {r \in Requests : Running(r)}

RunRecord == [pc : {"running", "summary"}, kind : {"bulk", "manual", "undo"}, op : Ops,
              todo : SUBSET Pairs, ok : SUBSET Pairs, of : Nat]

Typed ==
  /\ member \in SUBSET Pairs /\ origin \in SUBSET Pairs
  /\ token \in [TokenIds -> Tokens!TokenStates]
  /\ plan \in [TokenIds -> [op : Ops \union {"none"}, rows : SUBSET Pairs]]
  /\ req \in [Requests -> {Idle} \union RunRecord]
  /\ journal \in Seq(Entry)
  /\ outside \in 0..MaxOutside
  /\ started \in [TokenIds -> {0, 1}]
  /\ straight \in BOOLEAN

(* Only a used token was started; a row planned has an operation.            *)
PlansTrue ==
  \A id \in TokenIds : /\ token[id] # "used" => started[id] = 0
                       /\ plan[id].op = "none" => plan[id].rows = {}

RequestTrue(q) ==
  /\ q.todo \intersect q.ok = {}
  /\ q.pc = "summary" => q.todo = {}
  /\ q.kind = "undo" <=> q.of # 0
  /\ q.kind = "undo" => /\ q.of \in DOMAIN journal /\ q.op = journal[q.of].op
                        /\ q.todo \union q.ok \subseteq journal[q.of].rows
RequestsTrue == \A r \in Requests : Busy(r) => RequestTrue(req[r])

RoomKept == Len(journal) + Cardinality(AtWork) <= MaxEntries

(* In a straight history one request is at work, and an undo takes back the  *)
(* latest action.                                                            *)
OneAtATime ==
  straight =>
    /\ \A r, s \in Requests : Busy(r) /\ Busy(s) => r = s
    /\ \A r \in Requests : Busy(r) /\ req[r].kind = "undo" =>
         /\ req[r].of \in Active \intersect Listed
         /\ \A k \in Active \intersect Listed : k <= req[r].of
         /\ req[r].todo \union req[r].ok = journal[req[r].of].rows

(* The changes made to p that are not undone: those of the active listed     *)
(* entries, less the rows an undo at work has taken back, and then that of   *)
(* the run at work.  Each is named by its place and by what undoes it.       *)
TakenBack(e, p) == \E r \in Requests : Busy(r) /\ req[r].of = e /\ p \in req[r].ok
Journaled(x, p) ==
  /\ x.at \in Active \intersect Listed
  /\ p \in journal[x.at].rows /\ x.op = journal[x.at].op /\ ~TakenBack(x.at, p)
UnderWay(x, p) ==
  /\ x.at = Len(journal) + 1
  /\ \E r \in Requests : /\ Running(r) /\ req[r].kind # "undo" /\ p \in req[r].ok
                         /\ x.op = Flip(req[r].op)
Changes(p) ==
  {x \in [at : 1..(Len(journal) + 1), op : Ops] : Journaled(x, p) \/ UnderWay(x, p)}

(* The changes lead from what p was to what it is: the first began at its    *)
(* origin, each next one at the end of the one before, the last ended here.  *)
Leads(changes, p, from, to) ==
  /\ changes = {} => (p \in to <=> p \in from)
  /\ \A x \in changes : (\A y \in changes : y.at <= x.at) => (p \in to <=> x.op = "remove")
  /\ \A x \in changes : (\A y \in changes : x.at <= y.at) => (p \in from <=> x.op = "add")
  /\ \A x, y \in changes :
       (x.at < y.at /\ \A z \in changes : z.at <= x.at \/ y.at <= z.at) => x.op # y.op

ChangesLead == straight => \A p \in Pairs : Leads(Changes(p), p, origin, member)

(* The inductive invariant.                                                  *)
IInv == Typed /\ PlansTrue /\ RequestsTrue /\ RoomKept /\ OneAtATime /\ ChangesLead

(***************************************************************************)
(* Lemmas about the changes to a pair                                      *)
(***************************************************************************)

(* A row that was not as wanted is one more change, after all others.        *)
LEMMA OneMore ==
  ASSUME NEW S, NEW p, NEW from, NEW to, NEW now, NEW x,
         Leads(S, p, from, to), \A y \in S : y.at \in Nat, x.at \in Nat,
         \A y \in S : y.at < x.at, x.op \in Ops, \A y \in S : y.op \in Ops,
         p \in to <=> x.op = "add", p \in now <=> x.op = "remove"
  PROVE  Leads(S \union {x}, p, from, now)
<1> DEFINE T == S \union {x}
<1>1. \A y \in T : y.at <= x.at
  OBVIOUS
<1>2. \A y \in T : (\A z \in T : z.at <= y.at) => y = x
  OBVIOUS
<1>3. (\A z \in S : x.at <= z.at) => S = {}
  OBVIOUS
<1>4. \A y \in S : (\A z \in T : y.at <= z.at) => \A z \in S : y.at <= z.at
  OBVIOUS
<1>5. \A y \in T : (\A z \in T : y.at <= z.at) => (p \in from <=> y.op = "add")
  <2> SUFFICES ASSUME NEW y \in T, \A z \in T : y.at <= z.at
               PROVE  p \in from <=> y.op = "add"
    OBVIOUS
  <2>1. CASE y \in S
    BY <1>4, <2>1 DEF Leads
  <2>2. CASE y = x
    BY <1>3, <2>2 DEF Leads
  <2> QED
    BY <2>1, <2>2
<1>6. \A y, z \in T : (y.at < z.at /\ \A w \in T : w.at <= y.at \/ z.at <= w.at) => y.op # z.op
  <2> SUFFICES ASSUME NEW y \in T, NEW z \in T, y.at < z.at,
                      \A w \in T : w.at <= y.at \/ z.at <= w.at
               PROVE  y.op # z.op
    OBVIOUS
  <2>1. y \in S
    OBVIOUS
  <2>2. CASE z \in S
    <3>1. \A w \in S : w.at <= y.at \/ z.at <= w.at
      OBVIOUS
    <3> QED
      BY <2>1, <2>2, <3>1 DEF Leads
  <2>3. CASE z = x
    <3>1. \A w \in S : w.at <= y.at
      BY <2>3
    <3>2. p \in to <=> y.op = "remove"
      BY <2>1, <3>1 DEF Leads
    <3> QED
      BY <2>1, <2>3, <3>2 DEF Ops
  <2> QED
    BY <2>2, <2>3
<1>7. T # {}
  OBVIOUS
<1>8. \A y \in T : (\A z \in T : z.at <= y.at) => (p \in now <=> y.op = "remove")
  BY <1>2
<1> HIDE DEF T
<1>9. Leads(T, p, from, now)
  BY <1>5, <1>6, <1>7, <1>8 DEF Leads
<1> QED
  BY <1>9 DEF T

(* Undoing the latest change is one less.                                    *)
LEMMA OneLess ==
  ASSUME NEW S, NEW p, NEW from, NEW to, NEW now, NEW x \in S,
         Leads(S, p, from, to), \A y \in S : y.at \in Nat /\ y.op \in Ops,
         \A y \in S : y # x => y.at < x.at,
         p \in now <=> x.op = "add"
  PROVE  Leads(S \ {x}, p, from, now)
<1> DEFINE T == S \ {x}
<1>1. \A y \in T : y.at < x.at /\ y \in S
  OBVIOUS
<1>2. T = {} => (p \in now <=> p \in from)
  <2>1. T = {} => \A y \in S : x.at <= y.at
    OBVIOUS
  <2> QED
    BY <2>1 DEF Leads
<1>3. \A y \in T : (\A z \in T : z.at <= y.at) => (p \in now <=> y.op = "remove")
  <2> SUFFICES ASSUME NEW y \in T, \A z \in T : z.at <= y.at
               PROVE  p \in now <=> y.op = "remove"
    OBVIOUS
  <2>1. \A z \in S : z.at <= y.at \/ x.at <= z.at
    OBVIOUS
  <2>2. y.op # x.op
    BY <1>1, <2>1 DEF Leads
  <2> QED
    BY <1>1, <2>2 DEF Ops
<1>4. \A y \in T : (\A z \in T : y.at <= z.at) => (p \in from <=> y.op = "add")
  <2> SUFFICES ASSUME NEW y \in T, \A z \in T : y.at <= z.at
               PROVE  p \in from <=> y.op = "add"
    OBVIOUS
  <2>1. \A z \in S : y.at <= z.at
    BY <1>1
  <2> QED
    BY <1>1, <2>1 DEF Leads
<1>5. \A y, z \in T : (y.at < z.at /\ \A w \in T : w.at <= y.at \/ z.at <= w.at) => y.op # z.op
  <2> SUFFICES ASSUME NEW y \in T, NEW z \in T, y.at < z.at,
                      \A w \in T : w.at <= y.at \/ z.at <= w.at
               PROVE  y.op # z.op
    OBVIOUS
  <2>1. \A w \in S : w.at <= y.at \/ z.at <= w.at
    BY <1>1
  <2> QED
    BY <1>1, <2>1 DEF Leads
<1> HIDE DEF T
<1>6. Leads(T, p, from, now)
  BY <1>2, <1>3, <1>4, <1>5 DEF Leads
<1> QED
  BY <1>6 DEF T

(***************************************************************************)
(* Lemmas about requests and the journal                                   *)
(***************************************************************************)

LEMMA RequestTypes ==
  ASSUME Typed
  PROVE  \A r \in Requests :
           /\ Busy(r) <=> req[r] \in RunRecord
           /\ Busy(r) <=> req[r] # Idle
           /\ Running(r) => Busy(r)
<1>1. Idle.pc = "idle" /\ \A q \in RunRecord : q.pc # "idle"
  BY DEF Idle, RunRecord
<1>2. \A r \in Requests : req[r] \in RunRecord \/ req[r] = Idle
  BY DEF Typed
<1> QED
  BY <1>1, <1>2 DEF Busy, Running

LEMMA AtWorkFinite == IsFiniteSet(AtWork) /\ Cardinality(AtWork) \in Nat
<1>1. IsFiniteSet(Requests)
  BY UndoLifecycleAssumption DEF UndoLifecycleAssumption
<1>2. AtWork \subseteq Requests
  BY DEF AtWork
<1> QED
  BY <1>1, <1>2, FS_Subset, FS_CardinalityType

(* What a request is about stays true while entries are added or marked.     *)
LEMMA StaysTrue ==
  ASSUME NEW q, RequestTrue(q), DOMAIN journal \subseteq DOMAIN journal',
         \A e \in DOMAIN journal : journal'[e].op = journal[e].op /\ journal'[e].rows = journal[e].rows
  PROVE  RequestTrue(q)'
  BY DEF RequestTrue

(* The changes are the same if entries, and what requests have done, are.    *)
LEMMA SameChanges ==
  ASSUME UNCHANGED journal,
         \A r \in Requests :
           \/ req'[r] = req[r]
           \/ /\ Busy(r) => req[r].ok = {}
              /\ Busy(r)' => req'[r].ok = {}
           \/ /\ req'[r].pc = req[r].pc /\ req'[r].kind = req[r].kind /\ req'[r].op = req[r].op
              /\ req'[r].of = req[r].of /\ req'[r].ok = req[r].ok
  PROVE  \A p : Changes(p)' = Changes(p)
<1>1. Active' = Active /\ Listed' = Listed
  BY DEF Active, Listed
<1>2. ASSUME NEW e, NEW p PROVE TakenBack(e, p)' <=> TakenBack(e, p)
  <2>1. ASSUME NEW r \in Requests
        PROVE  Busy(r)' /\ req'[r].of = e /\ p \in req'[r].ok <=> Busy(r) /\ req[r].of = e /\ p \in req[r].ok
    <3>1. req'[r].pc = req[r].pc => (Busy(r)' <=> Busy(r))
      BY DEF Busy
    <3> QED
      BY <3>1
  <2> QED
    BY <2>1 DEF TakenBack
<1>3. \A x, p : Journaled(x, p)' <=> Journaled(x, p)
  BY <1>1, <1>2 DEF Journaled
<1>4. ASSUME NEW x, NEW p PROVE UnderWay(x, p)' <=> UnderWay(x, p)
  <2>1. ASSUME NEW r \in Requests
        PROVE  Running(r)' /\ req'[r].kind # "undo" /\ p \in req'[r].ok /\ x.op = Flip(req'[r].op)
                 <=> Running(r) /\ req[r].kind # "undo" /\ p \in req[r].ok /\ x.op = Flip(req[r].op)
    <3>1. req'[r].pc = req[r].pc => (Running(r)' <=> Running(r))
      BY DEF Running
    <3>2. (Running(r) => Busy(r)) /\ (Running(r)' => Busy(r)')
      BY DEF Running, Busy
    <3> QED
      BY <3>1, <3>2
  <2> QED
    BY <2>1 DEF UnderWay
<1> QED
  BY <1>3, <1>4 DEF Changes

(* A request begins to work.                                                 *)
LEMMA Begins ==
  ASSUME IInv, NEW r \in Requests, NEW q \in RunRecord, req[r] = Idle, Room,
         req' = [req EXCEPT ![r] = q], q.pc = "running", q.ok = {}, RequestTrue(q),
         UNCHANGED <<journal, member, origin>>, straight' => straight /\ Alone(r),
         (straight' /\ q.kind = "undo") =>
           /\ q.of \in Active \intersect Listed /\ q.todo = journal[q.of].rows
           /\ \A k \in Active \intersect Listed : k <= q.of
  PROVE  /\ req' \in [Requests -> {Idle} \union RunRecord]
         /\ RequestsTrue' /\ RoomKept' /\ OneAtATime' /\ ChangesLead'
<1>1. /\ req' \in [Requests -> {Idle} \union RunRecord] /\ req'[r] = q
      /\ \A s \in Requests \ {r} : req'[s] = req[s]
  BY DEF IInv, Typed
<1>2. ~Busy(r) /\ Busy(r)' /\ Running(r)' /\ ~Running(r)
  BY <1>1 DEF Busy, Running, Idle
<1>3. RequestsTrue'
  <2> SUFFICES ASSUME NEW s \in Requests, Busy(s)' PROVE RequestTrue(req[s])'
    BY DEF RequestsTrue
  <2>1. RequestTrue(req'[s])
    BY <1>1 DEF IInv, RequestsTrue, Busy
  <2>2. PICK w : w = req'[s]
    OBVIOUS
  <2>3. RequestTrue(w)'
    BY <2>1, <2>2 DEF RequestTrue
  <2> QED
    BY <2>2, <2>3 DEF RequestTrue
<1>4. RoomKept'
  <2>1. AtWork' = AtWork \union {r} /\ r \notin AtWork
    BY <1>1, <1>2 DEF AtWork, Running
  <2>2. Cardinality(AtWork') = Cardinality(AtWork) + 1
    BY <2>1, AtWorkFinite, FS_AddElement
  <2>3. Len(journal) + Cardinality(AtWork) < MaxEntries
    BY DEF Room, AtWork, Running
  <2>4. Len(journal) \in Nat /\ Len(journal') = Len(journal)
    BY DEF IInv, Typed
  <2> QED
    BY <2>2, <2>3, <2>4, AtWorkFinite, UndoLifecycleAssumption DEF RoomKept
<1>5. straight' => \A s \in Requests \ {r} : ~Busy(s) /\ ~Busy(s)'
  BY <1>1 DEF Alone, Busy, Idle
<1>6. OneAtATime'
  <2>1. Active' = Active /\ Listed' = Listed
    BY DEF Active, Listed
  <2>2. straight' => \A s \in Requests : Busy(s)' => s = r
    BY <1>5
  <2> QED
    BY <1>1, <2>1, <2>2 DEF OneAtATime
<1>7. ChangesLead'
  <2> SUFFICES ASSUME straight', NEW p \in Pairs
               PROVE  Leads(Changes(p)', p, origin', member')
    BY DEF ChangesLead
  <2>1. Changes(p)' = Changes(p)
    <3>1. \A s \in Requests : \/ req'[s] = req[s]
                             \/ /\ Busy(s) => req[s].ok = {}
                                /\ Busy(s)' => req'[s].ok = {}
      BY <1>1, <1>2
    <3> QED
      BY <3>1, SameChanges
  <2> QED
    BY <2>1 DEF IInv, ChangesLead
<1> QED
  BY <1>1, <1>3, <1>4, <1>6, <1>7

(* A row of a request is answered.                                           *)
LEMMA Answers ==
  ASSUME IInv, NEW r \in Requests, NEW p, Row(r, p), NEW ok \in BOOLEAN, Answered(r, p, ok),
         UNCHANGED journal
  PROVE  /\ req' \in [Requests -> {Idle} \union RunRecord] /\ RequestsTrue' /\ RoomKept'
         /\ req[r] \in RunRecord /\ req'[r] \in RunRecord /\ Busy(r) /\ p \in Pairs
         /\ req'[r].pc = "running" /\ req'[r].kind = req[r].kind /\ req'[r].op = req[r].op
         /\ req'[r].of = req[r].of /\ req'[r].todo = req[r].todo \ {p}
         /\ req'[r].ok = IF ok THEN req[r].ok \union {p} ELSE req[r].ok
         /\ \A s \in Requests \ {r} : req'[s] = req[s]
<1>1. Busy(r) /\ req[r] \in RunRecord /\ req[r].pc = "running" /\ p \in req[r].todo /\ p \in Pairs
  <2>1. Busy(r) /\ req[r].pc = "running" /\ p \in req[r].todo
    BY DEF Row, Busy
  <2>2. req[r] \in RunRecord
    BY <2>1, RequestTypes DEF IInv
  <2> QED
    BY <2>1, <2>2 DEF RunRecord
<1> DEFINE q == [req[r] EXCEPT !.todo = req[r].todo \ {p},
                               !.ok = IF ok THEN req[r].ok \union {p} ELSE req[r].ok]
<1>2. /\ q \in RunRecord /\ q.pc = "running" /\ q.kind = req[r].kind /\ q.op = req[r].op
      /\ q.of = req[r].of /\ q.todo = req[r].todo \ {p}
      /\ q.ok = IF ok THEN req[r].ok \union {p} ELSE req[r].ok
  BY <1>1 DEF RunRecord
<1>3. req' = [req EXCEPT ![r] = q]
  BY DEF Answered, IInv, Typed
<1> HIDE DEF q
<1>4. /\ req' \in [Requests -> {Idle} \union RunRecord] /\ req'[r] = q
      /\ \A s \in Requests \ {r} : req'[s] = req[s]
  BY <1>2, <1>3 DEF IInv, Typed
<1>5. RequestTrue(q)
  <2>1. RequestTrue(req[r])
    BY <1>1 DEF IInv, RequestsTrue
  <2> QED
    BY <1>1, <1>2, <2>1 DEF RequestTrue
<1>6. RequestsTrue'
  <2> SUFFICES ASSUME NEW s \in Requests, Busy(s)' PROVE RequestTrue(req[s])'
    BY DEF RequestsTrue
  <2>1. RequestTrue(req'[s])
    BY <1>4, <1>5 DEF IInv, RequestsTrue, Busy
  <2>2. PICK w : w = req'[s]
    OBVIOUS
  <2>3. RequestTrue(w)'
    BY <2>1, <2>2 DEF RequestTrue
  <2> QED
    BY <2>2, <2>3 DEF RequestTrue
<1>7. RoomKept'
  <2>1. AtWork' = AtWork
    BY <1>1, <1>2, <1>4 DEF AtWork, Running
  <2> QED
    BY <2>1 DEF IInv, RoomKept
<1> QED
  BY <1>1, <1>2, <1>4, <1>6, <1>7

(* A row is answered that changed nothing worth undoing.                     *)
LEMMA FailedRow ==
  ASSUME IInv, NEW r \in Requests, NEW p, Row(r, p), Answered(r, p, FALSE),
         UNCHANGED <<member, journal, origin>>,
         straight' => straight /\ req[r].kind # "undo"
  PROVE  OneAtATime' /\ ChangesLead'
<1>1. /\ req[r] \in RunRecord /\ req'[r] \in RunRecord /\ Busy(r)
      /\ req'[r].pc = "running" /\ req'[r].kind = req[r].kind /\ req'[r].op = req[r].op
      /\ req'[r].of = req[r].of /\ req'[r].ok = req[r].ok
      /\ \A s \in Requests \ {r} : req'[s] = req[s]
  BY Answers
<1>2. req[r].pc = "running"
  BY DEF Row
<1>3. \A s \in Requests : (Busy(s)' <=> Busy(s)) /\ req'[s].kind = req[s].kind
  BY <1>1, <1>2 DEF Busy
<1>4. OneAtATime'
  <2> SUFFICES ASSUME straight'
               PROVE  /\ \A s, u \in Requests : Busy(s)' /\ Busy(u)' => s = u
                      /\ \A s \in Requests : ~(Busy(s)' /\ req'[s].kind = "undo")
    BY DEF OneAtATime
  <2>1. \A s \in Requests : Busy(s) => s = r
    BY <1>1 DEF IInv, OneAtATime
  <2> QED
    BY <1>3, <2>1
<1>5. ChangesLead'
  <2>1. \A x : Changes(x)' = Changes(x)
    <3>1. \A s \in Requests :
             \/ req'[s] = req[s]
             \/ /\ req'[s].pc = req[s].pc /\ req'[s].kind = req[s].kind /\ req'[s].op = req[s].op
                /\ req'[s].of = req[s].of /\ req'[s].ok = req[s].ok
      BY <1>1, <1>2
    <3> QED
      BY <3>1, SameChanges
  <2> QED
    BY <2>1 DEF IInv, ChangesLead
<1> QED
  BY <1>4, <1>5

LEMMA SameForPair ==
  ASSUME NEW S, NEW p, NEW from, NEW to, NEW now, Leads(S, p, from, to), p \in to <=> p \in now
  PROVE  Leads(S, p, from, now)
  BY DEF Leads

(* Requests, journal and memberships are as they were.                       *)
LEMMA Untouched ==
  ASSUME IInv, UNCHANGED <<req, journal, member, origin>>, straight' => straight
  PROVE  RequestsTrue' /\ RoomKept' /\ OneAtATime' /\ ChangesLead'
<1>1. /\ \A q : RequestTrue(q)' <=> RequestTrue(q)
      /\ \A r : (Busy(r)' <=> Busy(r)) /\ (Running(r)' <=> Running(r))
      /\ Active' = Active /\ Listed' = Listed
  BY DEF RequestTrue, Busy, Running, Active, Listed
<1>2. RequestsTrue'
  BY <1>1 DEF IInv, RequestsTrue, RequestTrue, Busy
<1>3. RoomKept'
  BY <1>1 DEF IInv, RoomKept, AtWork
<1>4. OneAtATime'
  BY <1>1 DEF IInv, OneAtATime
<1>5. ChangesLead'
  <2>1. \A p : Changes(p)' = Changes(p)
    BY SameChanges
  <2> QED
    BY <2>1 DEF IInv, ChangesLead
<1> QED
  BY <1>2, <1>3, <1>4, <1>5

(***************************************************************************)
(* Previews, and requests that begin                                       *)
(***************************************************************************)

LEMMA PreviewKeepsIInv ==
  ASSUME IInv, NEW op \in Ops, NEW picked \in SUBSET Pairs, Preview(op, picked)
  PROVE  IInv'
<1>1. PICK id \in TokenIds :
        /\ token[id] = "unissued" /\ token' = [token EXCEPT ![id] = "write"]
        /\ plan' = [plan EXCEPT ![id] = [op |-> op, rows |-> {p \in picked : ~IsWanted(op, p)}]]
  BY DEF Preview
<1>2. UNCHANGED <<member, req, journal, outside, started, origin, straight>>
  BY DEF Preview, history
<1>3. Typed'
  <2>1. [op |-> op, rows |-> {p \in picked : ~IsWanted(op, p)}] \in [op : Ops \union {"none"}, rows : SUBSET Pairs]
    OBVIOUS
  <2>2. plan' \in [TokenIds -> [op : Ops \union {"none"}, rows : SUBSET Pairs]]
    BY <1>1, <2>1 DEF IInv, Typed
  <2>3. token' \in [TokenIds -> Tokens!TokenStates]
    BY <1>1 DEF IInv, Typed, Tokens!TokenStates
  <2> QED
    BY <1>2, <2>2, <2>3 DEF IInv, Typed
<1>4. PlansTrue'
  <2> SUFFICES ASSUME NEW k \in TokenIds
               PROVE  /\ token'[k] # "used" => started'[k] = 0
                      /\ plan'[k].op = "none" => plan'[k].rows = {}
    BY DEF PlansTrue
  <2>1. CASE k = id
    BY <1>1, <1>2, <2>1 DEF IInv, PlansTrue, Typed, Ops
  <2>2. CASE k # id
    BY <1>1, <1>2, <2>2 DEF IInv, PlansTrue, Typed
  <2> QED
    BY <2>1, <2>2
<1>5. RequestsTrue' /\ RoomKept' /\ OneAtATime' /\ ChangesLead'
  BY <1>2, Untouched
<1> QED
  BY <1>3, <1>4, <1>5 DEF IInv

LEMMA RetireKeepsIInv ==
  ASSUME IInv, Retire
  PROVE  IInv'
<1>1. PICK gone \in SUBSET TokenIds : token' = Tokens!Lapsed(gone)
  BY DEF Retire, Tokens!PT_Retire
<1>2. UNCHANGED <<member, plan, req, journal, outside, started, origin, straight>>
  BY DEF Retire, history
<1>3. /\ token' \in [TokenIds -> Tokens!TokenStates]
      /\ \A id \in TokenIds : token'[id] # "used" => token[id] # "used"
  BY <1>1 DEF IInv, Typed, Tokens!Lapsed, Tokens!TokenStates
<1>4. Typed' /\ PlansTrue'
  BY <1>2, <1>3 DEF IInv, Typed, PlansTrue
<1>5. RequestsTrue' /\ RoomKept' /\ OneAtATime' /\ ChangesLead'
  BY <1>2, Untouched
<1> QED
  BY <1>4, <1>5 DEF IInv

LEMMA ExecuteKeepsIInv ==
  ASSUME IInv, NEW r \in Requests, NEW id \in TokenIds, Execute(r, id)
  PROVE  IInv'
<1>1. /\ req[r] = Idle /\ Room /\ token[id] = "write" /\ token' = [token EXCEPT ![id] = "used"]
      /\ UNCHANGED <<member, plan, journal, outside, origin>>
  BY DEF Execute, Use
<1>2. /\ token' \in [TokenIds -> Tokens!TokenStates] /\ token'[id] = "used" /\ started[id] = 0
      /\ \A k \in TokenIds : token'[k] # "used" => token[k] # "used" /\ k # id
  BY <1>1 DEF IInv, Typed, PlansTrue, Tokens!TokenStates
<1>3. CASE plan[id].rows = {}
  <2>1. UNCHANGED <<req, started, straight>>
    BY <1>3 DEF Execute
  <2>2. Typed' /\ PlansTrue'
    BY <1>1, <1>2, <2>1 DEF IInv, Typed, PlansTrue
  <2>3. RequestsTrue' /\ RoomKept' /\ OneAtATime' /\ ChangesLead'
    BY <1>1, <2>1, Untouched
  <2> QED
    BY <2>2, <2>3 DEF IInv
<1>4. CASE plan[id].rows # {}
  <2> DEFINE q == Run("bulk", plan[id].op, plan[id].rows, 0)
  <2>1. /\ req' = [req EXCEPT ![r] = q] /\ started' = [started EXCEPT ![id] = @ + 1]
        /\ straight' = (straight /\ Alone(r))
    BY <1>4 DEF Execute
  <2>2. plan[id].op \in Ops /\ plan[id].rows \in SUBSET Pairs
    BY <1>4 DEF IInv, Typed, PlansTrue
  <2>3. q \in RunRecord /\ q.pc = "running" /\ q.kind = "bulk" /\ q.ok = {} /\ q.of = 0
    BY <2>2 DEF Run, RunRecord
  <2> HIDE DEF q
  <2>4. RequestTrue(q)
    BY <2>3 DEF RequestTrue
  <2>5. /\ req' \in [Requests -> {Idle} \union RunRecord]
        /\ RequestsTrue' /\ RoomKept' /\ OneAtATime' /\ ChangesLead'
    BY <1>1, <2>1, <2>3, <2>4, Begins
  <2>6. started' \in [TokenIds -> {0, 1}] /\ \A k \in TokenIds : k # id => started'[k] = started[k]
    BY <1>2, <2>1 DEF IInv, Typed
  <2>7. Typed' /\ PlansTrue'
    BY <1>1, <1>2, <2>1, <2>5, <2>6 DEF IInv, Typed, PlansTrue
  <2> QED
    BY <2>5, <2>7 DEF IInv
<1> QED
  BY <1>3, <1>4

LEMMA ManualKeepsIInv ==
  ASSUME IInv, NEW r \in Requests, NEW op \in Ops, NEW picked \in SUBSET Pairs, Manual(r, op, picked)
  PROVE  IInv'
<1> DEFINE q == Run("manual", op, picked, 0)
<1>1. /\ req[r] = Idle /\ Room /\ req' = [req EXCEPT ![r] = q]
      /\ straight' = (straight /\ Alone(r))
      /\ UNCHANGED <<member, token, plan, journal, outside, started, origin>>
  BY DEF Manual
<1>2. q \in RunRecord /\ q.pc = "running" /\ q.kind = "manual" /\ q.ok = {} /\ q.of = 0
  BY DEF Run, RunRecord
<1> HIDE DEF q
<1>3. RequestTrue(q)
  BY <1>2 DEF RequestTrue
<1>4. /\ req' \in [Requests -> {Idle} \union RunRecord]
      /\ RequestsTrue' /\ RoomKept' /\ OneAtATime' /\ ChangesLead'
  BY <1>1, <1>2, <1>3, Begins
<1>5. Typed' /\ PlansTrue'
  BY <1>1, <1>4 DEF IInv, Typed, PlansTrue
<1> QED
  BY <1>4, <1>5 DEF IInv

LEMMA BeginUndoKeepsIInv ==
  ASSUME IInv, NEW r \in Requests, NEW e \in Entries, BeginUndo(r, e)
  PROVE  IInv'
<1> DEFINE q == Run("undo", journal[e].op, journal[e].rows, e)
<1>1. /\ req[r] = Idle /\ Room /\ req' = [req EXCEPT ![r] = q]
      /\ e \in DOMAIN journal /\ journal[e].status = "active"
      /\ straight' = (/\ straight /\ Alone(r)
                      /\ e \in Listed /\ \A k \in Active \cap Listed : k <= e)
      /\ UNCHANGED <<member, token, plan, journal, outside, started, origin>>
  BY DEF BeginUndo
<1>2. journal[e] \in Entry /\ e \in Nat /\ e # 0
  BY <1>1 DEF IInv, Typed, Entries
<1>3. /\ q \in RunRecord /\ q.pc = "running" /\ q.kind = "undo" /\ q.ok = {} /\ q.of = e
      /\ q.op = journal[e].op /\ q.todo = journal[e].rows
  BY <1>2 DEF Run, RunRecord, Entry
<1> HIDE DEF q
<1>4. RequestTrue(q)
  BY <1>1, <1>2, <1>3 DEF RequestTrue
<1>5. e \in Active
  BY <1>1 DEF Active
<1>6. /\ req' \in [Requests -> {Idle} \union RunRecord]
      /\ RequestsTrue' /\ RoomKept' /\ OneAtATime' /\ ChangesLead'
  BY <1>1, <1>3, <1>4, <1>5, Begins
<1>7. Typed' /\ PlansTrue'
  BY <1>1, <1>6 DEF IInv, Typed, PlansTrue
<1> QED
  BY <1>6, <1>7 DEF IInv

LEMMA InitIInv == Init => IInv
<1> SUFFICES ASSUME Init PROVE IInv
  OBVIOUS
<1>1. /\ \A r \in Requests : req[r] = Idle
      /\ journal = <<>> /\ DOMAIN journal = {} /\ Len(journal) = 0
  BY DEF Init
<1>2. \A r \in Requests : ~Busy(r) /\ ~Running(r)
  BY <1>1 DEF Busy, Running, Idle
<1>3. Typed
  <2>1. journal \in Seq(Entry)
    BY <1>1
  <2>2. /\ token \in [TokenIds -> Tokens!TokenStates]
        /\ plan \in [TokenIds -> [op : Ops \union {"none"}, rows : SUBSET Pairs]]
    BY DEF Init, Tokens!PT_Init, Tokens!TokenStates, NoPlan
  <2>3. outside \in 0..MaxOutside /\ straight \in BOOLEAN
    BY UndoLifecycleAssumption DEF Init, UndoLifecycleAssumption
  <2>4. req \in [Requests -> {Idle} \union RunRecord] /\ started \in [TokenIds -> {0, 1}]
    BY DEF Init
  <2>5. member \in SUBSET Pairs /\ origin \in SUBSET Pairs
    BY DEF Init
  <2> QED
    BY <2>1, <2>2, <2>3, <2>4, <2>5 DEF Typed
<1>4. PlansTrue
  BY DEF Init, PlansTrue, NoPlan
<1>5. RequestsTrue /\ OneAtATime
  BY <1>2 DEF RequestsTrue, OneAtATime
<1>6. RoomKept
  <2>1. AtWork = {}
    BY <1>2 DEF AtWork
  <2>2. Cardinality(AtWork) = 0
    BY <2>1, FS_EmptySet
  <2> QED
    BY <1>1, <2>2, UndoLifecycleAssumption DEF RoomKept, UndoLifecycleAssumption
<1>7. ChangesLead
  <2>1. \A p : Changes(p) = {}
    BY <1>1, <1>2 DEF Changes, Journaled, UnderWay, Active
  <2>2. straight => origin = member
    BY DEF Init
  <2> QED
    BY <2>1, <2>2 DEF ChangesLead, Leads
<1> QED
  BY <1>3, <1>4, <1>5, <1>6, <1>7 DEF IInv

(***************************************************************************)
(* The rows of a run                                                       *)
(***************************************************************************)

(* What an ok row does to the changes: nothing to those of another pair.     *)
LEMMA OkRow ==
  ASSUME IInv, NEW r \in Requests, NEW p, Row(r, p), Answered(r, p, TRUE), UNCHANGED journal
  PROVE  /\ \A e, g : TakenBack(e, g)' <=> TakenBack(e, g) \/ (g = p /\ e = req[r].of)
         /\ \A x, g : UnderWay(x, g)' <=>
              \/ UnderWay(x, g)
              \/ /\ g = p /\ req[r].kind # "undo"
                 /\ x.at = Len(journal) + 1 /\ x.op = Flip(req[r].op)
         /\ Active' = Active /\ Listed' = Listed
         /\ \A g : g # p => Changes(g)' = Changes(g)
<1>1. /\ Busy(r) /\ req'[r].pc = "running" /\ req'[r].kind = req[r].kind /\ req'[r].op = req[r].op
      /\ req'[r].of = req[r].of /\ req'[r].ok = req[r].ok \union {p}
      /\ \A s \in Requests \ {r} : req'[s] = req[s]
  BY Answers
<1>2. req[r].pc = "running"
  BY DEF Row
<1>3. \A s \in Requests : (Busy(s)' <=> Busy(s)) /\ (Running(s)' <=> Running(s))
  BY <1>1, <1>2 DEF Busy, Running
<1>4. ASSUME NEW e, NEW g
      PROVE  TakenBack(e, g)' <=> TakenBack(e, g) \/ (g = p /\ e = req[r].of)
  <2>1. \A s \in Requests : s # r => (req'[s].of = req[s].of /\ req'[s].ok = req[s].ok)
    BY <1>1
  <2> QED
    BY <1>1, <1>3, <2>1 DEF TakenBack
<1>5. ASSUME NEW x, NEW g
      PROVE  UnderWay(x, g)' <=>
               \/ UnderWay(x, g)
               \/ /\ g = p /\ req[r].kind # "undo"
                  /\ x.at = Len(journal) + 1 /\ x.op = Flip(req[r].op)
  <2>1. Running(r)
    BY <1>2 DEF Running
  <2>2. \A s \in Requests : s # r => req'[s] = req[s]
    BY <1>1
  <2> QED
    BY <1>1, <1>3, <2>1, <2>2 DEF UnderWay, Flip
<1>6. Active' = Active /\ Listed' = Listed
  BY DEF Active, Listed
<1>7. ASSUME NEW g, g # p PROVE Changes(g)' = Changes(g)
  <2>1. \A x : (Journaled(x, g)' <=> Journaled(x, g)) /\ (UnderWay(x, g)' <=> UnderWay(x, g))
    BY <1>4, <1>5, <1>6, <1>7 DEF Journaled
  <2> QED
    BY <2>1 DEF Changes
<1> QED
  BY <1>4, <1>5, <1>6, <1>7

(* A row of an action: one more change to its pair.                          *)
LEMMA ActionRow ==
  ASSUME IInv, straight, NEW r \in Requests, NEW p, Row(r, p), Answered(r, p, TRUE),
         UNCHANGED <<journal, origin>>, member' = Apply(req[r].op, p),
         req[r].kind # "undo", ~IsWanted(req[r].op, p)
  PROVE  Leads(Changes(p), p, origin, member)'
<1>1. req[r] \in RunRecord /\ Busy(r) /\ p \in Pairs /\ req[r].op \in Ops
  BY Answers DEF RunRecord
<1>2. \A s \in Requests : Busy(s) => s = r
  BY <1>1 DEF IInv, OneAtATime
<1>3. req[r].of = 0 /\ p \notin req[r].ok
  BY <1>1 DEF IInv, RequestsTrue, RequestTrue, Row
<1>4. \A y : ~UnderWay(y, p)
  BY <1>2, <1>3 DEF UnderWay, Running, Busy
<1>5. Len(journal) \in Nat /\ DOMAIN journal = 1..Len(journal)
  BY DEF IInv, Typed
<1> DEFINE x == [at |-> Len(journal) + 1, op |-> Flip(req[r].op)]
<1>6. x \in [at : 1..(Len(journal) + 1), op : Ops]
  BY <1>1, <1>5 DEF Flip, Ops
<1>7. \A y : Journaled(y, p)' <=> Journaled(y, p)
  <2>1. \A y : y.at \in Active => y.at # req[r].of
    BY <1>3, <1>5 DEF Active
  <2>2. ASSUME NEW y PROVE Journaled(y, p)' <=> Journaled(y, p)
    <3>1. y.at \in Active => (TakenBack(y.at, p)' <=> TakenBack(y.at, p))
      BY <2>1, OkRow
    <3>2. Active' = Active /\ Listed' = Listed
      BY OkRow
    <3> QED
      BY <3>1, <3>2 DEF Journaled
  <2> QED
    BY <2>2
<1>8. \A y : UnderWay(y, p)' <=> y.at = Len(journal) + 1 /\ y.op = Flip(req[r].op)
  BY <1>4, OkRow
<1>9. Changes(p)' = Changes(p) \union {x}
  <2>1. \A y \in [at : 1..(Len(journal) + 1), op : Ops] :
           (y.at = Len(journal) + 1 /\ y.op = Flip(req[r].op)) <=> y = x
    OBVIOUS
  <2> HIDE DEF x
  <2> QED
    BY <1>4, <1>6, <1>7, <1>8, <2>1 DEF Changes
<1>10. \A y \in Changes(p) : y.at \in Nat /\ y.op \in Ops /\ y.at < x.at
  BY <1>4, <1>5 DEF Changes, Journaled, Active
<1>11. Leads(Changes(p), p, origin, member)
  BY <1>1 DEF IInv, ChangesLead
<1>12. /\ p \in member <=> x.op = "add"
       /\ p \in member' <=> x.op = "remove"
  BY <1>1 DEF IsWanted, Apply, Flip, Ops
<1>13. x.at \in Nat /\ x.op \in Ops
  BY <1>5, <1>6
<1> HIDE DEF x
<1>14. Leads(Changes(p) \union {x}, p, origin, member')
  BY <1>10, <1>11, <1>12, <1>13, OneMore
<1> QED
  BY <1>9, <1>14 DEF Leads

(* A row of an undo: one change to its pair less.                            *)
LEMMA UndoRow ==
  ASSUME IInv, straight, NEW r \in Requests, NEW p, Row(r, p), Answered(r, p, TRUE),
         UNCHANGED <<journal, origin>>, member' = Apply(req[r].op, p),
         req[r].kind = "undo"
  PROVE  Leads(Changes(p), p, origin, member)'
<1>1. req[r] \in RunRecord /\ Busy(r) /\ p \in Pairs /\ req[r].op \in Ops
  BY Answers DEF RunRecord
<1>2. \A s \in Requests : Busy(s) => s = r
  BY <1>1 DEF IInv, OneAtATime
<1> DEFINE e == req[r].of
<1>3. /\ e \in Active \intersect Listed /\ \A k \in Active \intersect Listed : k <= e
      /\ req[r].op = journal[e].op /\ p \in journal[e].rows /\ p \notin req[r].ok
  BY <1>1 DEF IInv, OneAtATime, RequestsTrue, RequestTrue, Row
<1>4. Len(journal) \in Nat /\ DOMAIN journal = 1..Len(journal) /\ e \in DOMAIN journal
  BY <1>3 DEF IInv, Typed, Active
<1> DEFINE x == [at |-> e, op |-> req[r].op]
<1>5. x \in [at : 1..(Len(journal) + 1), op : Ops]
  BY <1>1, <1>4
<1>6. \A y : ~UnderWay(y, p)
  BY <1>2 DEF UnderWay, Running, Busy
<1>7. \A y : ~UnderWay(y, p)'
  BY <1>6, OkRow
<1>8. \A k : ~TakenBack(k, p)
  BY <1>2, <1>3 DEF TakenBack
<1>9. \A k : TakenBack(k, p)' <=> k = e
  BY <1>8, OkRow
<1>10. Active' = Active /\ Listed' = Listed
  BY OkRow
<1>11. \A y : Journaled(y, p)' <=> Journaled(y, p) /\ y.at # e
  BY <1>8, <1>9, <1>10 DEF Journaled
<1>12. \A y \in [at : 1..(Len(journal) + 1), op : Ops] : Journaled(y, p) => (y.at = e <=> y = x)
  BY <1>3 DEF Journaled
<1>13. Changes(p)' = Changes(p) \ {x}
  <2> HIDE DEF x
  <2> QED
    BY <1>6, <1>7, <1>11, <1>12 DEF Changes
<1>14. x \in Changes(p)
  <2>1. Journaled(x, p)
    BY <1>3, <1>8 DEF Journaled
  <2> QED
    BY <1>5, <2>1 DEF Changes
<1>15. \A y \in Changes(p) : y.at \in Nat /\ y.op \in Ops
  BY <1>4 DEF Changes
<1>16. \A y \in Changes(p) : y # x => y.at < x.at
  <2>1. \A y \in Changes(p) : y # x => y.at # e /\ y.at <= e /\ y.at \in Nat
    BY <1>3, <1>6, <1>12, <1>15 DEF Changes, Journaled
  <2> QED
    BY <1>4, <2>1
<1>17. Leads(Changes(p), p, origin, member)
  BY <1>1 DEF IInv, ChangesLead
<1>18. p \in member' <=> x.op = "add"
  BY <1>1 DEF Apply
<1> HIDE DEF x
<1>19. Leads(Changes(p) \ {x}, p, origin, member')
  BY <1>14, <1>15, <1>16, <1>17, <1>18, OneLess
<1> QED
  BY <1>13, <1>19 DEF Leads

LEMMA ApplyType ==
  ASSUME Typed, NEW op, NEW p \in Pairs
  PROVE  Apply(op, p) \in SUBSET Pairs
  BY DEF Typed, Apply

LEMMA RowDoneKeepsIInv ==
  ASSUME IInv, NEW r \in Requests, NEW p \in Pairs, RowDone(r, p)
  PROVE  IInv'
<1>1. /\ Row(r, p) /\ Answered(r, p, TRUE) /\ member' = Apply(req[r].op, p)
      /\ straight' = (straight /\ ~(req[r].kind # "undo" /\ IsWanted(req[r].op, p)))
      /\ UNCHANGED <<token, plan, journal, outside, started, origin>>
  BY DEF RowDone, Spoils, Others
<1>2. /\ req' \in [Requests -> {Idle} \union RunRecord] /\ RequestsTrue' /\ RoomKept'
      /\ Busy(r) /\ req'[r].pc = "running" /\ req'[r].kind = req[r].kind
      /\ req'[r].of = req[r].of /\ req'[r].todo = req[r].todo \ {p}
      /\ req'[r].ok = req[r].ok \union {p}
      /\ \A s \in Requests \ {r} : req'[s] = req[s]
  BY <1>1, Answers
<1>3. Typed' /\ PlansTrue'
  <2>1. member' \in SUBSET Pairs
    BY <1>1, ApplyType DEF IInv
  <2> QED
    BY <1>1, <1>2, <2>1 DEF IInv, Typed, PlansTrue
<1>4. OneAtATime'
  <2> SUFFICES ASSUME straight' PROVE OneAtATime'
    BY DEF OneAtATime
  <2>1. straight /\ \A s \in Requests : Busy(s) => s = r
    BY <1>1, <1>2 DEF IInv, OneAtATime
  <2>2. \A s \in Requests : Busy(s)' => s = r
    BY <1>2, <2>1 DEF Busy
  <2>3. Active' = Active /\ Listed' = Listed
    BY <1>1 DEF Active, Listed
  <2>4. p \in req[r].todo
    BY <1>1 DEF Row
  <2>5. req[r].kind = "undo" =>
          /\ req[r].of \in Active \intersect Listed
          /\ \A k \in Active \intersect Listed : k <= req[r].of
          /\ req[r].todo \union req[r].ok = journal[req[r].of].rows
    BY <1>2, <2>1 DEF IInv, OneAtATime
  <2>6. req'[r].todo \union req'[r].ok = req[r].todo \union req[r].ok
    BY <1>2, <2>4
  <2> QED
    BY <1>1, <1>2, <2>2, <2>3, <2>5, <2>6 DEF OneAtATime
<1>5. ChangesLead'
  <2> SUFFICES ASSUME straight', NEW g \in Pairs
               PROVE  Leads(Changes(g), g, origin, member)'
    BY DEF ChangesLead
  <2>1. straight /\ (req[r].kind = "undo" \/ ~IsWanted(req[r].op, p))
    BY <1>1
  <2>2. CASE g = p
    BY <1>1, <2>1, <2>2, ActionRow, UndoRow
  <2>3. CASE g # p
    <3>1. Changes(g)' = Changes(g)
      BY <1>1, <2>3, OkRow
    <3>2. Leads(Changes(g), g, origin, member)
      BY <2>1 DEF IInv, ChangesLead
    <3>3. g \in member' <=> g \in member
      BY <1>1, <2>3 DEF Apply
    <3>4. Leads(Changes(g), g, origin, member')
      BY <3>2, <3>3, SameForPair
    <3> QED
      BY <1>1, <3>1, <3>4 DEF Leads
  <2> QED
    BY <2>2, <2>3
<1> QED
  BY <1>2, <1>3, <1>4, <1>5 DEF IInv

LEMMA RowRefusedKeepsIInv ==
  ASSUME IInv, NEW r \in Requests, NEW p \in Pairs, RowRefused(r, p) \/ RowRefused400(r, p)
  PROVE  IInv'
<1>1. PICK ok \in BOOLEAN :
        /\ Row(r, p) /\ Answered(r, p, ok)
        /\ straight' => straight /\ req[r].kind # "undo" /\ ok = FALSE
        /\ straight' \in BOOLEAN
        /\ UNCHANGED <<member, token, plan, journal, outside, started, origin>>
  <2>1. CASE RowRefused(r, p)
    BY <2>1 DEF RowRefused, Spoils, Others, IInv, Typed
  <2>2. CASE RowRefused400(r, p)
    <3>1. PICK ok \in BOOLEAN : ok = (req[r].kind # "manual")
      OBVIOUS
    <3>2. /\ Row(r, p) /\ Answered(r, p, ok)
          /\ straight' = (straight /\ req[r].kind = "manual")
          /\ UNCHANGED <<member, token, plan, journal, outside, started, origin>>
      BY <2>2, <3>1 DEF RowRefused400, Spoils, Others
    <3> QED
      BY <3>1, <3>2
  <2> QED
    BY <2>1, <2>2
<1>2. req' \in [Requests -> {Idle} \union RunRecord] /\ RequestsTrue' /\ RoomKept'
  BY <1>1, Answers
<1>3. Typed' /\ PlansTrue'
  BY <1>1, <1>2 DEF IInv, Typed, PlansTrue
<1>4. OneAtATime' /\ ChangesLead'
  <2>1. CASE straight'
    <3>1. Answered(r, p, FALSE)
      BY <1>1, <2>1
    <3> QED
      BY <1>1, <3>1, <2>1, FailedRow
  <2>2. CASE ~straight'
    BY <2>2 DEF OneAtATime, ChangesLead
  <2> QED
    BY <2>1, <2>2
<1> QED
  BY <1>2, <1>3, <1>4 DEF IInv

LEMMA RowLostKeepsIInv ==
  ASSUME IInv, NEW r \in Requests, NEW p \in Pairs, RowLost(r, p)
  PROVE  IInv'
<1>1. /\ Row(r, p) /\ Answered(r, p, FALSE) /\ member' = Apply(req[r].op, p)
      /\ straight' = FALSE
      /\ UNCHANGED <<token, plan, journal, outside, started, origin>>
  BY DEF RowLost, Spoils, Others
<1>2. req' \in [Requests -> {Idle} \union RunRecord] /\ RequestsTrue' /\ RoomKept'
  BY <1>1, Answers
<1>3. member' \in SUBSET Pairs
  BY <1>1, ApplyType DEF IInv
<1>4. Typed' /\ PlansTrue'
  BY <1>1, <1>2, <1>3 DEF IInv, Typed, PlansTrue
<1>5. OneAtATime' /\ ChangesLead'
  BY <1>1 DEF OneAtATime, ChangesLead
<1> QED
  BY <1>2, <1>4, <1>5 DEF IInv

(***************************************************************************)
(* The end of a run                                                        *)
(***************************************************************************)

LEMMA EntryOfType ==
  ASSUME NEW q \in RunRecord
  PROVE  /\ EntryOf(q) \in Entry /\ EntryOf(q).op = Flip(q.op) /\ EntryOf(q).rows = q.ok
         /\ EntryOf(q).undo = (q.of # 0) /\ EntryOf(q).status = "active"
  BY DEF EntryOf, Entry, RunRecord, Flip, Ops

(* A request is over: its entry, if it undid one, may be marked.             *)
LEMMA Ends ==
  ASSUME IInv, NEW r \in Requests, Busy(r), req' = [req EXCEPT ![r] = Idle],
         \/ UNCHANGED journal
         \/ req[r].kind = "undo" /\ journal' = Marked(req[r].of)
  PROVE  /\ req' \in [Requests -> {Idle} \union RunRecord] /\ journal' \in Seq(Entry)
         /\ RequestsTrue' /\ RoomKept'
         /\ ~Busy(r)' /\ \A s \in Requests \ {r} : req'[s] = req[s]
<1>1. /\ req' \in [Requests -> {Idle} \union RunRecord] /\ req'[r] = Idle
      /\ \A s \in Requests \ {r} : req'[s] = req[s]
  BY DEF IInv, Typed
<1>2. ~Busy(r)' /\ ~Running(r)'
  BY <1>1 DEF Busy, Running, Idle
<1>3. RequestTrue(req[r])
  BY DEF IInv, RequestsTrue
<1>4. journal \in Seq(Entry)
  BY DEF IInv, Typed
<1>5. /\ journal' \in Seq(Entry) /\ Len(journal') = Len(journal)
      /\ DOMAIN journal' = DOMAIN journal
      /\ \A e \in DOMAIN journal : journal'[e].op = journal[e].op /\ journal'[e].rows = journal[e].rows
  <2>1. CASE UNCHANGED journal
    BY <1>4, <2>1
  <2>2. CASE req[r].kind = "undo" /\ journal' = Marked(req[r].of)
    <3>1. PICK f \in DOMAIN journal : f = req[r].of
      BY <1>3, <2>2 DEF RequestTrue
    <3>2. journal' = [journal EXCEPT ![f] = [journal[f] EXCEPT !.status = "rolled_back"]]
      BY <2>2, <3>1 DEF Marked
    <3>3. journal[f] \in Entry
      BY <1>4
    <3>4. PICK n : n = [journal[f] EXCEPT !.status = "rolled_back"]
      OBVIOUS
    <3>5. n \in Entry /\ n.op = journal[f].op /\ n.rows = journal[f].rows
      BY <3>3, <3>4 DEF Entry
    <3> QED
      BY <1>4, <3>2, <3>4, <3>5
  <2> QED
    BY <2>1, <2>2
<1>6. RequestsTrue'
  <2> SUFFICES ASSUME NEW s \in Requests, Busy(s)' PROVE RequestTrue(req[s])'
    BY DEF RequestsTrue
  <2>1. PICK w : w = req'[s]
    OBVIOUS
  <2>2. RequestTrue(w)
    BY <1>1, <1>2, <2>1 DEF IInv, RequestsTrue, Busy
  <2>3. RequestTrue(w)'
    BY <1>5, <2>2, StaysTrue
  <2> QED
    BY <2>1, <2>3 DEF RequestTrue
<1>7. RoomKept'
  <2>1. AtWork' \subseteq AtWork
    BY <1>1, <1>2 DEF AtWork, Running
  <2>2. Cardinality(AtWork') <= Cardinality(AtWork)
    BY <2>1, AtWorkFinite, FS_Subset
  <2>3. Cardinality(AtWork') \in Nat
    BY <2>1, AtWorkFinite, FS_Subset, FS_CardinalityType
  <2>4. Len(journal) \in Nat
    BY <1>4
  <2>5. Len(journal) + Cardinality(AtWork) <= MaxEntries /\ MaxEntries \in Nat
    BY UndoLifecycleAssumption DEF IInv, RoomKept, UndoLifecycleAssumption
  <2> QED
    BY <1>5, <2>2, <2>3, <2>4, <2>5, AtWorkFinite DEF RoomKept
<1> QED
  BY <1>1, <1>2, <1>5, <1>6, <1>7

LEMMA EndKeepsIInv ==
  ASSUME IInv, NEW r \in Requests, End(r)
  PROVE  IInv'
<1>1. /\ req[r].pc = "summary" /\ req' = [req EXCEPT ![r] = Idle]
      /\ journal' = (IF req[r].kind = "undo" THEN Marked(req[r].of) ELSE journal)
      /\ UNCHANGED <<member, token, plan, outside, started, origin, straight>>
  BY DEF End, history
<1>2. Busy(r)
  BY <1>1 DEF Busy
<1>3. /\ req' \in [Requests -> {Idle} \union RunRecord] /\ journal' \in Seq(Entry)
      /\ RequestsTrue' /\ RoomKept'
      /\ ~Busy(r)' /\ \A s \in Requests \ {r} : req'[s] = req[s]
  BY <1>1, <1>2, Ends
<1>4. Typed' /\ PlansTrue'
  BY <1>1, <1>3 DEF IInv, Typed, PlansTrue
<1>5. straight => \A s \in Requests : Busy(s) => s = r
  BY <1>2 DEF IInv, OneAtATime
<1>6. straight => \A s \in Requests : ~Busy(s)'
  BY <1>3, <1>5 DEF Busy
<1>7. OneAtATime'
  BY <1>1, <1>6 DEF OneAtATime
<1>8. ASSUME straight, NEW p PROVE Changes(p)' = Changes(p)
  <2>1. /\ RequestTrue(req[r]) /\ req[r].todo = {}
        /\ req[r].kind = "undo" => req[r].ok = journal[req[r].of].rows
    BY <1>1, <1>2, <1>8 DEF IInv, OneAtATime, RequestsTrue, RequestTrue
  <2>2. /\ \A x : ~UnderWay(x, p)
        /\ \A x : ~UnderWay(x, p)'
    BY <1>1, <1>5, <1>6, <1>8 DEF UnderWay, Running, Busy
  <2>3. \A k : TakenBack(k, p) <=> req[r].of = k /\ p \in req[r].ok
    BY <1>2, <1>5, <1>8 DEF TakenBack
  <2>4. \A k : ~TakenBack(k, p)'
    BY <1>6, <1>8 DEF TakenBack
  <2>5. journal \in Seq(Entry)
    BY DEF IInv, Typed
  <2>6. CASE req[r].kind # "undo"
    <3>1. UNCHANGED journal
      BY <1>1, <2>6
    <3>2. Active' = Active /\ Listed' = Listed
      BY <3>1 DEF Active, Listed
    <3>3. req[r].of = 0
      BY <2>1, <2>6 DEF RequestTrue
    <3>4. \A k \in Active : ~TakenBack(k, p)
      BY <2>3, <2>5, <3>3 DEF Active
    <3>5. \A x : Journaled(x, p)' <=> Journaled(x, p)
      BY <2>4, <3>1, <3>2, <3>4 DEF Journaled
    <3> QED
      BY <2>2, <3>1, <3>5 DEF Changes
  <2>7. CASE req[r].kind = "undo"
    <3>1. PICK f \in DOMAIN journal : f = req[r].of
      BY <2>1, <2>7 DEF RequestTrue
    <3>2. journal' = [journal EXCEPT ![f] = [journal[f] EXCEPT !.status = "rolled_back"]]
      BY <1>1, <2>7, <3>1 DEF Marked
    <3>3. journal[f] \in Entry
      BY <2>5
    <3>4. PICK n : n = [journal[f] EXCEPT !.status = "rolled_back"]
      OBVIOUS
    <3>5. /\ n.op = journal[f].op /\ n.rows = journal[f].rows /\ n.undo = journal[f].undo
          /\ n.status = "rolled_back"
      BY <3>3, <3>4 DEF Entry
    <3>6. /\ DOMAIN journal' = DOMAIN journal /\ Len(journal') = Len(journal)
          /\ journal'[f] = n /\ \A e \in DOMAIN journal : e # f => journal'[e] = journal[e]
      BY <2>5, <3>2, <3>4
    <3>7. Active' = Active \ {f} /\ Listed' = Listed
      BY <3>5, <3>6 DEF Active, Listed
    <3>8. \A k \in Active : k \in DOMAIN journal
      BY DEF Active
    <3>9. \A x : Journaled(x, p)' <=> Journaled(x, p)
      <4> SUFFICES ASSUME NEW x PROVE Journaled(x, p)' <=> Journaled(x, p)
        OBVIOUS
      <4>1. CASE x.at = f
        <5>1. ~Journaled(x, p)
          BY <2>1, <2>3, <2>7, <3>1, <4>1 DEF Journaled
        <5>2. ~Journaled(x, p)'
          BY <3>7, <4>1 DEF Journaled
        <5> QED
          BY <5>1, <5>2
      <4>2. CASE x.at # f
        <5>1. ~TakenBack(x.at, p)
          BY <2>3, <3>1, <4>2
        <5> QED
          BY <2>4, <3>6, <3>7, <3>8, <4>2, <5>1 DEF Journaled
      <4> QED
        BY <4>1, <4>2
    <3> QED
      BY <2>2, <3>6, <3>9 DEF Changes
  <2> QED
    BY <2>6, <2>7
<1>9. ChangesLead'
  BY <1>1, <1>8 DEF IInv, ChangesLead
<1> QED
  BY <1>3, <1>4, <1>7, <1>9 DEF IInv

LEMMA RecordKeepsIInv ==
  ASSUME IInv, NEW r \in Requests, Record(r)
  PROVE  IInv'
<1> DEFINE q == [req[r] EXCEPT !.pc = "summary"]
           new == EntryOf(req[r])
           n == Len(journal) + 1
<1>1. /\ req[r].pc = "running" /\ req[r].todo = {}
      /\ journal' = (IF req[r].ok = {} THEN journal ELSE Append(journal, new))
      /\ UNCHANGED <<member, token, plan, outside, started, origin, straight>>
  BY DEF Record, history
<1>2. Busy(r) /\ Running(r) /\ req[r] \in RunRecord /\ RequestTrue(req[r])
  <2>1. Busy(r) /\ Running(r)
    BY <1>1 DEF Busy, Running
  <2> QED
    BY <2>1, RequestTypes DEF IInv, RequestsTrue
<1>3. /\ q \in RunRecord /\ q.pc = "summary" /\ q.kind = req[r].kind /\ q.op = req[r].op
      /\ q.of = req[r].of /\ q.todo = {} /\ q.ok = req[r].ok
  BY <1>1, <1>2 DEF RunRecord
<1>4. req' = [req EXCEPT ![r] = q]
  BY DEF Record, IInv, Typed
<1>5. /\ new \in Entry /\ new.op = Flip(req[r].op) /\ new.rows = req[r].ok
      /\ new.undo = (req[r].of # 0) /\ new.status = "active"
  BY <1>2, EntryOfType
<1> HIDE DEF q, new
<1>6. /\ req' \in [Requests -> {Idle} \union RunRecord] /\ req'[r] = q
      /\ \A s \in Requests \ {r} : req'[s] = req[s]
  BY <1>3, <1>4 DEF IInv, Typed
<1>7. Busy(r)' /\ ~Running(r)'
  BY <1>3, <1>6 DEF Busy, Running
<1>8. journal \in Seq(Entry) /\ Len(journal) \in Nat /\ DOMAIN journal = 1..Len(journal)
  BY DEF IInv, Typed
<1>9. req[r].ok # {} => /\ journal' \in Seq(Entry) /\ Len(journal') = n
                       /\ DOMAIN journal' = 1..n /\ journal'[n] = new
                       /\ \A e \in DOMAIN journal : journal'[e] = journal[e]
  BY <1>1, <1>5, <1>8
<1>10. /\ journal' \in Seq(Entry) /\ DOMAIN journal \subseteq DOMAIN journal'
       /\ \A e \in DOMAIN journal : journal'[e] = journal[e]
       /\ Len(journal') <= n /\ Len(journal') \in Nat
  BY <1>1, <1>8, <1>9
<1>11. Typed' /\ PlansTrue'
  BY <1>1, <1>6, <1>10 DEF IInv, Typed, PlansTrue
<1>12. RequestsTrue'
  <2>1. RequestTrue(q)
    BY <1>2, <1>3 DEF RequestTrue
  <2> SUFFICES ASSUME NEW s \in Requests, Busy(s)' PROVE RequestTrue(req[s])'
    BY DEF RequestsTrue
  <2>2. PICK w : w = req'[s]
    OBVIOUS
  <2>3. RequestTrue(w)
    BY <1>6, <2>1, <2>2 DEF IInv, RequestsTrue, Busy
  <2>4. RequestTrue(w)'
    BY <1>10, <2>3, StaysTrue
  <2> QED
    BY <2>2, <2>4 DEF RequestTrue
<1>13. RoomKept'
  <2>1. AtWork' = AtWork \ {r} /\ r \in AtWork
    BY <1>2, <1>6, <1>7 DEF AtWork, Running
  <2>2. Cardinality(AtWork') = Cardinality(AtWork) - 1
    BY <2>1, AtWorkFinite, FS_RemoveElement
  <2>3. Len(journal) + Cardinality(AtWork) <= MaxEntries /\ MaxEntries \in Nat
    BY UndoLifecycleAssumption DEF IInv, RoomKept, UndoLifecycleAssumption
  <2> QED
    BY <1>8, <1>10, <2>2, <2>3, AtWorkFinite DEF RoomKept
<1>14. straight => \A s \in Requests : (Busy(s) => s = r) /\ (Busy(s)' => s = r) /\ ~Running(s)'
  <2>1. straight => \A s \in Requests : Busy(s) => s = r
    BY <1>2 DEF IInv, OneAtATime
  <2> QED
    BY <1>6, <1>7, <2>1 DEF Busy, Running
<1>15. /\ Active \subseteq Active' /\ Listed \subseteq Listed'
       /\ \A k \in Active' \intersect Listed' :
            \/ k \in Active \intersect Listed
            \/ k = n /\ req[r].ok # {} /\ req[r].of = 0
  <2>1. Active \subseteq Active' /\ Listed \subseteq Listed'
    BY <1>10 DEF Active, Listed
  <2>2. ASSUME NEW k \in Active' \intersect Listed', k \notin Active \intersect Listed
        PROVE  k = n /\ req[r].ok # {} /\ req[r].of = 0
    <3>1. k \in DOMAIN journal' /\ journal'[k].status = "active" /\ ~journal'[k].undo
      BY DEF Active, Listed
    <3>2. k \notin DOMAIN journal
      BY <1>10, <2>2, <3>1 DEF Active, Listed
    <3>3. req[r].ok # {}
      BY <1>1, <3>1, <3>2
    <3>4. k = n
      BY <1>8, <1>9, <3>1, <3>2, <3>3
    <3> QED
      BY <1>5, <1>9, <3>1, <3>3, <3>4
  <2> QED
    BY <2>1, <2>2
<1>16. req[r].kind = "undo" <=> req[r].of # 0
  BY <1>2 DEF RequestTrue
<1>17. OneAtATime'
  <2> SUFFICES ASSUME straight PROVE OneAtATime'
    BY <1>1 DEF OneAtATime
  <2>1. ASSUME req[r].kind = "undo"
        PROVE  /\ q.of \in Active' \intersect Listed'
               /\ \A k \in Active' \intersect Listed' : k <= q.of
               /\ q.todo \union q.ok = journal'[q.of].rows
    <3>1. /\ req[r].of \in Active \intersect Listed
          /\ \A k \in Active \intersect Listed : k <= req[r].of
          /\ req[r].todo \union req[r].ok = journal[req[r].of].rows
      BY <1>2, <2>1 DEF IInv, OneAtATime
    <3>2. req[r].of \in DOMAIN journal
      BY <3>1 DEF Active
    <3> QED
      BY <1>1, <1>3, <1>10, <1>15, <1>16, <2>1, <3>1, <3>2
  <2> QED
    BY <1>3, <1>6, <1>14, <2>1 DEF OneAtATime
<1>18. ASSUME straight, NEW p PROVE Changes(p)' = Changes(p)
  <2>1. \A k : TakenBack(k, p)' <=> TakenBack(k, p)
    BY <1>2, <1>3, <1>6, <1>7, <1>14, <1>18 DEF TakenBack
  <2>2. \A k : TakenBack(k, p) => k = req[r].of
    BY <1>14, <1>18 DEF TakenBack
  <2>3. \A x : ~UnderWay(x, p)'
    BY <1>14, <1>18 DEF UnderWay
  <2>4. \A x : UnderWay(x, p) <=> /\ x.at = n /\ req[r].kind # "undo" /\ p \in req[r].ok
                                  /\ x.op = Flip(req[r].op)
    BY <1>2, <1>14, <1>18 DEF UnderWay, Running, Busy, Flip
  <2>5. \A x : Journaled(x, p)' <=> Journaled(x, p) \/ UnderWay(x, p)
    <3> SUFFICES ASSUME NEW x PROVE Journaled(x, p)' <=> Journaled(x, p) \/ UnderWay(x, p)
      OBVIOUS
    <3>1. CASE x.at \in Active \intersect Listed
      <4>1. x.at \in DOMAIN journal /\ x.at # n
        BY <1>8, <3>1 DEF Active
      <4> QED
        BY <1>10, <1>15, <2>1, <2>4, <3>1, <4>1 DEF Journaled
    <3>2. CASE x.at \notin Active \intersect Listed
      <4>1. ~Journaled(x, p)
        BY <3>2 DEF Journaled
      <4>2. ASSUME Journaled(x, p)' PROVE UnderWay(x, p)
        <5>1. x.at \in Active' \intersect Listed' /\ p \in journal'[x.at].rows /\ x.op = journal'[x.at].op
          BY <4>2 DEF Journaled
        <5>2. x.at = n /\ req[r].ok # {} /\ req[r].of = 0
          BY <1>15, <3>2, <5>1
        <5> QED
          BY <1>5, <1>9, <1>16, <2>4, <5>1, <5>2
      <4>3. ASSUME UnderWay(x, p) PROVE Journaled(x, p)'
        <5>1. /\ x.at = n /\ req[r].of = 0 /\ p \in req[r].ok /\ x.op = Flip(req[r].op)
          BY <1>16, <2>4, <4>3
        <5>2. /\ n \in DOMAIN journal' /\ journal'[n] = new
          BY <1>8, <1>9, <5>1
        <5>3. n \in Active' /\ n \in Listed'
          BY <1>5, <5>1, <5>2 DEF Active, Listed
        <5>4. ~TakenBack(x.at, p)'
          BY <1>8, <2>1, <2>2, <5>1
        <5>5. /\ x.at \in Active' /\ x.at \in Listed' /\ ~TakenBack(x.at, p)'
              /\ p \in journal'[x.at].rows /\ x.op = journal'[x.at].op
          BY <1>5, <5>1, <5>2, <5>3, <5>4
        <5> QED
          BY <5>5 DEF Journaled
      <4> QED
        BY <4>1, <4>2, <4>3
    <3> QED
      BY <3>1, <3>2
  <2>6. \A x : Journaled(x, p)' => x.at \in 1..Len(journal')
    <3>1. DOMAIN journal' = 1..Len(journal')
      BY <1>10
    <3> QED
      BY <3>1 DEF Journaled, Active
  <2>7. \A x : x.at \in 1..Len(journal') => x.at \in 1..n
    BY <1>8, <1>10
  <2>8. \A x : Journaled(x, p) \/ UnderWay(x, p) => x.at \in 1..(Len(journal') + 1)
    BY <1>10, <2>5, <2>6
  <2> DEFINE All == [at : 1..n, op : Ops]
             AllNow == [at : 1..(Len(journal') + 1), op : Ops]
  <2>9. \A x : x \in AllNow /\ Journaled(x, p)' => x \in All
    BY <2>6, <2>7
  <2>10. \A x : x \in All /\ (Journaled(x, p) \/ UnderWay(x, p)) => x \in AllNow
    BY <2>8
  <2>11. Changes(p) = {x \in All : Journaled(x, p) \/ UnderWay(x, p)}
    BY DEF Changes
  <2>12. Changes(p)' = {x \in AllNow : Journaled(x, p)' \/ UnderWay(x, p)'}
    BY DEF Changes
  <2> HIDE DEF All, AllNow
  <2> QED
    BY <2>3, <2>5, <2>9, <2>10, <2>11, <2>12
<1>19. ChangesLead'
  BY <1>1, <1>18 DEF IInv, ChangesLead
<1> QED
  BY <1>11, <1>12, <1>13, <1>17, <1>19 DEF IInv

LEMMA LeaveKeepsIInv ==
  ASSUME IInv, NEW r \in Requests, Leave(r)
  PROVE  IInv'
<1>1. /\ req[r].pc \in {"running", "summary"} /\ req' = [req EXCEPT ![r] = Idle]
      /\ UNCHANGED member \/ \E p \in req[r].todo : member' = Apply(req[r].op, p)
      /\ straight' = FALSE
      /\ UNCHANGED <<token, plan, journal, outside, started, origin>>
  BY DEF Leave, Spoils, Others
<1>2. Busy(r)
  BY <1>1 DEF Busy
<1>3. req' \in [Requests -> {Idle} \union RunRecord] /\ RequestsTrue' /\ RoomKept'
  BY <1>1, <1>2, Ends
<1>4. member' \in SUBSET Pairs
  <2>1. req[r].todo \subseteq Pairs
    BY <1>2, RequestTypes DEF IInv, RunRecord
  <2>2. \A p \in req[r].todo : Apply(req[r].op, p) \in SUBSET Pairs
    BY <2>1, ApplyType DEF IInv
  <2> QED
    BY <1>1, <2>2 DEF IInv, Typed
<1>5. Typed' /\ PlansTrue'
  BY <1>1, <1>3, <1>4 DEF IInv, Typed, PlansTrue
<1>6. OneAtATime' /\ ChangesLead'
  BY <1>1 DEF OneAtATime, ChangesLead
<1> QED
  BY <1>3, <1>5, <1>6 DEF IInv

LEMMA CrashKeepsIInv ==
  ASSUME IInv, Crash
  PROVE  IInv'
<1>1. /\ req' = [r \in Requests |-> Idle] /\ token' = Tokens!Lapsed(TokenIds)
      /\ straight' = FALSE
      /\ UNCHANGED <<member, plan, journal, outside, started, origin>>
  BY DEF Crash, Spoils
<1>2. \A r \in Requests : ~Busy(r)' /\ ~Running(r)'
  BY <1>1 DEF Busy, Running, Idle
<1>3. /\ token' \in [TokenIds -> Tokens!TokenStates]
      /\ \A id \in TokenIds : token'[id] # "used" => token[id] # "used"
  BY <1>1 DEF IInv, Typed, Tokens!Lapsed, Tokens!TokenStates
<1>4. Typed' /\ PlansTrue'
  BY <1>1, <1>3 DEF IInv, Typed, PlansTrue
<1>5. RequestsTrue' /\ OneAtATime' /\ ChangesLead'
  BY <1>1, <1>2 DEF RequestsTrue, OneAtATime, ChangesLead
<1>6. RoomKept'
  <2>1. AtWork' = {}
    BY <1>2 DEF AtWork
  <2>2. Cardinality(AtWork') = 0
    BY <2>1, FS_EmptySet
  <2>3. Len(journal) + Cardinality(AtWork) <= MaxEntries /\ MaxEntries \in Nat
    BY UndoLifecycleAssumption DEF IInv, RoomKept, UndoLifecycleAssumption
  <2>4. Len(journal) \in Nat /\ Len(journal') = Len(journal)
    BY <1>1 DEF IInv, Typed
  <2> QED
    BY <2>2, <2>3, <2>4, AtWorkFinite DEF RoomKept
<1> QED
  BY <1>4, <1>5, <1>6 DEF IInv

LEMMA OutsideKeepsIInv ==
  ASSUME IInv, NEW p \in Pairs, Outside(p)
  PROVE  IInv'
<1>1. /\ outside < MaxOutside /\ outside' = outside + 1
      /\ member' = (IF p \in member THEN member \ {p} ELSE member \union {p})
      /\ straight' = FALSE
      /\ UNCHANGED <<token, plan, req, journal, started, origin>>
  BY DEF Outside, Spoils
<1>2. outside' \in 0..MaxOutside
  BY <1>1, UndoLifecycleAssumption DEF IInv, Typed, UndoLifecycleAssumption
<1>3. member' \in SUBSET Pairs
  BY <1>1 DEF IInv, Typed
<1>4. Typed' /\ PlansTrue'
  BY <1>1, <1>2, <1>3 DEF IInv, Typed, PlansTrue
<1>5. RequestsTrue' /\ RoomKept'
  BY <1>1 DEF IInv, RequestsTrue, RequestTrue, Busy, RoomKept, AtWork, Running
<1>6. OneAtATime' /\ ChangesLead'
  BY <1>1 DEF OneAtATime, ChangesLead
<1> QED
  BY <1>4, <1>5, <1>6 DEF IInv

(***************************************************************************)
(* Theorems                                                                *)
(***************************************************************************)

LEMMA NextIInv == IInv /\ [Next]_vars => IInv'
<1> SUFFICES ASSUME IInv, [Next]_vars PROVE IInv'
  OBVIOUS
<1>1. CASE UNCHANGED vars
  <2>1. UNCHANGED <<member, token, plan, req, journal, outside, started, origin, straight>>
    BY <1>1 DEF vars
  <2>2. Typed' /\ PlansTrue'
    BY <2>1 DEF IInv, Typed, PlansTrue
  <2>3. RequestsTrue' /\ RoomKept' /\ OneAtATime' /\ ChangesLead'
    BY <2>1, Untouched
  <2> QED
    BY <2>2, <2>3 DEF IInv
<1>2. CASE \E op \in Ops, picked \in SUBSET Pairs : Preview(op, picked)
  BY <1>2, PreviewKeepsIInv
<1>3. CASE Retire
  BY <1>3, RetireKeepsIInv
<1>4. ASSUME NEW r \in Requests, \E id \in TokenIds : Execute(r, id) PROVE IInv'
  BY <1>4, ExecuteKeepsIInv
<1>5. ASSUME NEW r \in Requests, \E op \in Ops, picked \in SUBSET Pairs : Manual(r, op, picked)
      PROVE  IInv'
  BY <1>5, ManualKeepsIInv
<1>6. ASSUME NEW r \in Requests, \E e \in Entries : BeginUndo(r, e) PROVE IInv'
  BY <1>6, BeginUndoKeepsIInv
<1>7. ASSUME NEW r \in Requests, Progress(r) PROVE IInv'
  <2>1. ASSUME NEW p \in Pairs, RowDone(r, p) PROVE IInv'
    BY <2>1, RowDoneKeepsIInv
  <2>2. ASSUME NEW p \in Pairs, RowRefused(r, p) \/ RowRefused400(r, p) PROVE IInv'
    BY <2>2, RowRefusedKeepsIInv
  <2>3. ASSUME NEW p \in Pairs, RowLost(r, p) PROVE IInv'
    BY <2>3, RowLostKeepsIInv
  <2>4. CASE Record(r)
    BY <2>4, RecordKeepsIInv
  <2>5. CASE End(r)
    BY <2>5, EndKeepsIInv
  <2> QED
    BY <1>7, <2>1, <2>2, <2>3, <2>4, <2>5 DEF Progress
<1>8. ASSUME NEW r \in Requests, Leave(r) PROVE IInv'
  BY <1>8, LeaveKeepsIInv
<1>9. CASE Crash
  BY <1>9, CrashKeepsIInv
<1>10. CASE \E p \in Pairs : Outside(p)
  BY <1>10, OutsideKeepsIInv
<1> QED
  BY <1>1, <1>2, <1>3, <1>4, <1>5, <1>6, <1>7, <1>8, <1>9, <1>10 DEF Next

(* What requests, tokens and entries always look like, and how the changes   *)
(* that are not undone lead from the first memberships to those of now.      *)
THEOREM Invariance == Spec => [](IInv /\ TypeOK)
<1>1. IInv => TypeOK
  <2> SUFFICES ASSUME IInv PROVE TypeOK
    OBVIOUS
  <2>1. Len(journal) \in Nat /\ Len(journal) <= MaxEntries
    <3>1. Len(journal) + Cardinality(AtWork) <= MaxEntries /\ MaxEntries \in Nat
      BY UndoLifecycleAssumption DEF IInv, RoomKept, UndoLifecycleAssumption
    <3>2. Len(journal) \in Nat
      BY DEF IInv, Typed
    <3> QED
      BY <3>1, <3>2, AtWorkFinite
  <2>2. ASSUME NEW r \in Requests, req[r] # Idle
        PROVE  /\ req[r].pc \in {"running", "summary"} /\ req[r].todo \union req[r].ok \subseteq Pairs
               /\ req[r].kind = "undo" => req[r].of \in DOMAIN journal
    <3>1. Busy(r) /\ req[r] \in RunRecord
      BY <2>2, RequestTypes DEF IInv
    <3> QED
      BY <3>1 DEF IInv, RequestsTrue, RequestTrue, RunRecord
  <2> QED
    BY <2>1, <2>2 DEF TypeOK, IInv, Typed, Tokens!PT_TypeOK
<1> QED
  BY <1>1, InitIInv, NextIInv, PTL DEF Spec

(* A preview is run once, though its token is offered again, or a newer      *)
(* preview, an undo or a restart comes between.                              *)
THEOREM PreviewRunsOnce == Spec => []PlanRunsOnce
<1>1. IInv => PlanRunsOnce
  BY DEF IInv, Typed, PlanRunsOnce
<1> QED
  BY <1>1, Invariance, PTL

(* The endpoints use the plan store as PlanTokens says it may be used.       *)
THEOREM TokensAreHandledAsPromised == Spec => Tokens!PT_Spec
<1>1. Init => Tokens!PT_Init
  BY DEF Init
<1>2. IInv /\ [Next]_vars => [Tokens!PT_Next]_token
  <2> SUFFICES ASSUME IInv, [Next]_vars, token' # token PROVE Tokens!PT_Next
    OBVIOUS
  <2>1. CASE \E op \in Ops, picked \in SUBSET Pairs : Preview(op, picked)
    <3>1. PICK id \in TokenIds : token[id] = "unissued" /\ token' = [token EXCEPT ![id] = "write"]
      BY <2>1 DEF Preview
    <3>2. Tokens!Lapsed({}) = token
      BY DEF Tokens!Lapsed, IInv, Typed
    <3>3. Tokens!PT_Issue
      BY <3>1, <3>2 DEF Tokens!PT_Issue
    <3> QED
      BY <3>3 DEF Tokens!PT_Next
  <2>2. CASE Retire
    BY <2>2 DEF Retire, Tokens!PT_Next
  <2>3. ASSUME NEW r \in Requests, NEW id \in TokenIds, Execute(r, id) PROVE Tokens!PT_Next
    BY <2>3 DEF Execute, Use, Tokens!PT_Use, Tokens!PT_Next
  <2>4. CASE Crash
    BY <2>4 DEF Crash, Tokens!PT_Retire, Tokens!PT_Next
  <2>5. ASSUME NEW r \in Requests, Progress(r) PROVE UNCHANGED token
    BY <2>5 DEF Progress, RowDone, RowRefused, RowRefused400, RowLost, Others, Record, End
  <2>6. ASSUME NEW r \in Requests, Leave(r) PROVE UNCHANGED token
    BY <2>6 DEF Leave, Others
  <2>7. ASSUME NEW p \in Pairs, Outside(p) PROVE UNCHANGED token
    BY <2>7 DEF Outside
  <2>8. ASSUME NEW r \in Requests, NEW op \in Ops, NEW picked \in SUBSET Pairs, Manual(r, op, picked)
        PROVE  UNCHANGED token
    BY <2>8 DEF Manual
  <2>9. ASSUME NEW r \in Requests, NEW e \in Entries, BeginUndo(r, e) PROVE UNCHANGED token
    BY <2>9 DEF BeginUndo
  <2> QED
    BY <2>1, <2>2, <2>3, <2>4, <2>5, <2>6, <2>7, <2>8, <2>9 DEF Next, vars
<1> QED
  BY <1>1, <1>2, Invariance, PTL DEF Spec, Tokens!PT_Spec

(* Once every listed action is undone, latest first and one at a time, the   *)
(* memberships are those of the start.                                       *)
THEOREM UndoneIsOrigin == Spec => []AllUndoneIsOrigin
<1>1. ASSUME IInv, straight, Active \intersect Listed = {}, \A r \in Requests : req[r] = Idle
      PROVE  member = origin
  <2>1. \A r \in Requests : ~Running(r)
    BY <1>1 DEF Running, Idle
  <2>2. \A p : Changes(p) = {}
    BY <1>1, <2>1 DEF Changes, Journaled, UnderWay
  <2>3. \A p \in Pairs : p \in member <=> p \in origin
    BY <1>1, <2>2 DEF IInv, ChangesLead, Leads
  <2>4. member \subseteq Pairs /\ origin \subseteq Pairs
    BY <1>1 DEF IInv, Typed
  <2> QED
    BY <2>3, <2>4
<1>2. IInv => AllUndoneIsOrigin
  BY <1>1 DEF AllUndoneIsOrigin
<1> QED
  BY <1>2, Invariance, PTL

(* An entry is marked only by the request that sent every row of its undo.   *)
THEOREM MarksAreEarned == Spec => MarkedOnlyAfterFullUndo
<1>1. ASSUME IInv, [Next]_vars, NEW e \in Active, journal'[e].status = "rolled_back"
      PROVE  \E r \in Requests : /\ req[r].pc # "idle" /\ req'[r].pc = "idle"
                                /\ req[r].of = e /\ req[r].todo = {}
  <2>1. e \in DOMAIN journal /\ journal[e].status = "active"
    BY <1>1 DEF Active
  <2>2. journal' # journal
    BY <1>1, <2>1
  <2>3. PICK r \in Requests : Record(r) \/ End(r)
    <3>1. \/ \E r \in Requests : Progress(r)
          \/ UNCHANGED journal
      BY <1>1 DEF Next, vars, Preview, Retire, Execute, Manual, BeginUndo, Leave, Crash, Outside, Others
    <3>2. \A r \in Requests : Progress(r) => Record(r) \/ End(r) \/ UNCHANGED journal
      BY DEF Progress, RowDone, RowRefused, RowRefused400, RowLost, Others
    <3> QED
      BY <2>2, <3>1, <3>2
  <2>4. CASE Record(r)
    <3>1. req[r] \in RunRecord
      <4>1. Busy(r)
        BY <2>4 DEF Record, Busy
      <4> QED
        BY <1>1, <4>1, RequestTypes DEF IInv
    <3>2. EntryOf(req[r]) \in Entry
      BY <3>1, EntryOfType
    <3>3. PICK new \in Entry : journal' = Append(journal, new)
      BY <2>2, <2>4, <3>2 DEF Record
    <3>4. journal'[e] = journal[e]
      BY <1>1, <2>1, <3>3 DEF IInv, Typed
    <3> QED
      BY <1>1, <2>1, <3>4
  <2>5. CASE End(r)
    <3>1. /\ req[r].pc = "summary" /\ req' = [req EXCEPT ![r] = Idle]
          /\ req[r].kind = "undo" /\ journal' = Marked(req[r].of)
      BY <2>2, <2>5 DEF End
    <3>2. Busy(r)
      BY <3>1 DEF Busy
    <3>3. req[r].todo = {} /\ req[r].of \in DOMAIN journal
      BY <1>1, <3>1, <3>2 DEF IInv, RequestsTrue, RequestTrue
    <3>4. req[r].of = e
      <4>1. req[r].of # e => journal'[e] = journal[e]
        BY <1>1, <2>1, <3>1 DEF IInv, Typed, Marked
      <4> QED
        BY <1>1, <2>1, <4>1
    <3>5. req'[r] = Idle
      BY <1>1, <3>1 DEF IInv, Typed
    <3> QED
      BY <3>1, <3>3, <3>4, <3>5 DEF Idle
  <2> QED
    BY <2>3, <2>4, <2>5
<1>2. IInv /\ [Next]_vars =>
        [\A e \in Active :
           journal'[e].status = "rolled_back" =>
             \E r \in Requests : /\ req[r].pc # "idle" /\ req'[r].pc = "idle"
                                /\ req[r].of = e /\ req[r].todo = {}]_vars
  BY <1>1
<1> QED
  BY <1>2, Invariance, PTL DEF MarkedOnlyAfterFullUndo, Spec
=============================================================================
