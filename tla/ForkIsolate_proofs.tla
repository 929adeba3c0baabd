------------------------- MODULE ForkIsolate_proofs -------------------------
(***************************************************************************)
(* Proofs about the isolation of screens, for any number of other projects   *)
(* and issue types: no other project sees a run, its cleanup or its undo; no *)
(* project is left on something deleted; what is reported is what Jira has.  *)
(***************************************************************************)
EXTENDS ForkIsolate, TLAPS, FiniteSetTheorems, SequenceTheorems

Elems(s) == {s[k] : k \in DOMAIN s}

OldSchemes == {"ss0", "ss1"}
OldItsses == {"itss0", "itss1"}
OldScreens == {"scr0", "scr1"}
EditRecord == [obj : OldSchemes \union OldItsses, key : Types \union {""}, to : Clones,
               back : OldSchemes \union OldScreens \union {Absent}]

(* What the plan is about, also while there is none.                         *)
Steps == IF plan = NoPlan THEN {} ELSE Elems(plan.steps)
Edits == IF plan = NoPlan THEN {} ELSE Elems(plan.edits)
Home == IF plan = NoPlan THEN top[Target] ELSE plan.back
Repoints == plan # NoPlan /\ plan.repoint

(* What an edit is about to change, and the path of the target without any.  *)
Value(e) == IF e.obj \in Schemes THEN ss[e.obj] ELSE itss[e.obj][e.key]
Pristine == top[Target] = Home /\ \A e \in Edits : Value(e) = e.back

(* An edit leads a scheme of the path to a clone that was made for it.       *)
EditTyped(e) ==
  /\ e \in EditRecord
  /\ \/ /\ e.obj \in OldSchemes /\ e.key = "" /\ e.to = "screen" /\ e.back \in OldScreens
        /\ Steps = {"screen"}
     \/ /\ e.obj = Home /\ e.key \in Types /\ e.to = "ss"
        /\ e.back \in OldSchemes \union {Absent} /\ (e.key = Default => e.back # Absent)
        /\ "ss" \in Steps

PlanTyped ==
  plan # NoPlan =>
    /\ plan.steps \in {<<"screen">>, <<"screen", "ss">>, <<"screen", "ss", "itss">>,
                       <<"ss">>, <<"ss", "itss">>}
    /\ plan.back \in OldItsses /\ plan.repoint \in BOOLEAN
    /\ plan.edits \in Seq(EditRecord)
    /\ plan.repoint <=> "itss" \in Steps
    /\ plan.repoint <=> plan.edits = <<>>
    /\ \A e \in Edits : EditTyped(e)
    /\ \A e, g \in Edits : e.obj = g.obj /\ e.key = g.key => e = g
    /\ plan.scheme \in OldScreens \union ({"screen"} \intersect Steps)
    /\ plan.mapping \in [Types -> Schemes \union {Absent}] /\ plan.mapping[Default] # Absent

(* Types, and what may be referred to.                                       *)
WorldTyped ==
  /\ top \in [Projects -> Itsses]
  /\ itss \in [Itsses -> [Types -> Schemes \union {Absent}]]
  /\ ss \in [Schemes -> OldScreens \union {"screen"}]
  /\ exists \subseteq Steps /\ mishaps \subseteq {"cleanup", "lost", "joined"}
  /\ failed \in BOOLEAN
  /\ \A i \in Itsses : itss[i][Default] # Absent
  /\ \A i \in Itsses, t \in Types : itss[i][t] = "ss" => "ss" \in Steps
  /\ \A s \in Schemes : ss[s] = "screen" => "screen" \in Steps
  /\ \A p \in Projects : top[p] = "itss" => "itss" \in Steps
  /\ Home \in OldItsses
  /\ ~Repoints => top[Target] = Home

RunTyped ==
  /\ applied \in Seq(EditRecord) /\ created \in Seq(Clones)
  /\ pc \in {"idle", "clone", "edit", "repoint", "revert", "delete", "record",
             "undo_revert", "undo_repoint", "undo_delete"}
  /\ pc \in {"clone", "delete", "undo_delete"} => todo \in Seq(Clones) /\ todo # <<>>
  /\ pc \in {"edit", "revert", "undo_revert"} => todo \in Seq(EditRecord) /\ todo # <<>>
  /\ entry \in {"none", "active", "rolled_back"}

(* Nothing of the path of another project is edited.                         *)
OthersApart ==
  "joined" \notin mishaps =>
    \A p \in Others :
      /\ top[p] \in OldItsses
      /\ \A t \in Types : itss[top[p]][t] \in OldSchemes \union {Absent}
      /\ \A e \in Edits : e.obj # top[p] /\ \A t \in Types : itss[top[p]][t] # e.obj
      /\ Shown[p] = view[p] /\ view[p] \in [Types -> OldScreens]

Running == pc \in {"clone", "edit", "repoint", "revert", "delete", "record"}
Undoing == pc \in {"undo_revert", "undo_repoint", "undo_delete"}

(* How far a run or an undo has come, in terms of the plan.                  *)
PhaseTrue ==
  /\ plan = NoPlan => pc = "idle" /\ outcome = "none"
  /\ (pc = "idle" /\ outcome = "none") =>
       /\ entry = "none" /\ applied = <<>> /\ created = <<>> /\ exists = {}
       /\ Pristine /\ ~failed /\ mishaps \subseteq {"joined"}
  /\ Running => entry = "none" /\ outcome = "none"
  /\ Undoing => entry = "active"
  /\ outcome = "failed" => entry = "none"
  /\ outcome = "ok" => entry # "none"
  /\ entry # "none" => Elems(created) = Steps /\ Elems(applied) = Edits /\ plan # NoPlan
  /\ pc = "clone" => Elems(created) \union Elems(todo) = Steps /\ applied = <<>>
  /\ pc \in {"edit", "revert", "repoint", "record"} => Elems(created) = Steps
  /\ pc = "edit" => Elems(applied) \union Elems(todo) = Edits
  /\ pc = "repoint" => Repoints /\ applied = <<>>
  /\ pc = "record" => Elems(applied) = Edits
  /\ pc \in {"revert", "undo_revert"} => Elems(todo) \subseteq Edits
  /\ pc \in {"delete", "undo_delete"} => Elems(todo) \subseteq Steps
  /\ pc = "undo_repoint" => Repoints

(* A run on its way forward: what it says it made is there.                  *)
ForwardTrue ==
  /\ pc \in {"clone", "edit", "repoint", "record"} =>
       "lost" \notin mishaps /\ exists = Elems(created) /\ ~failed
  /\ pc = "clone" => Pristine
  /\ pc = "edit" => \A e \in Edits \ Elems(applied) : Value(e) = e.back
  /\ pc = "repoint" => Pristine
  /\ pc \in {"edit", "record"} => \A e \in Elems(applied) : Value(e) = e.to
  /\ "ss" \in Elems(created) => ss["ss"] = plan.scheme
  /\ "itss" \in Elems(created) => itss["itss"] = plan.mapping
  /\ pc = "record" \/ (pc = "idle" /\ outcome = "ok") =>
       /\ \A e \in Edits : Value(e) = e.to
       /\ Repoints => top[Target] = "itss"

(* Its cleanup, as long as no answer is lost.                                *)
CleanupTrue ==
  /\ Running /\ failed => "cleanup" \in mishaps
  /\ "lost" \notin mishaps =>
       /\ pc = "revert" => /\ exists = Elems(created)
                           /\ ~failed => \A e \in Edits \ Elems(todo) : Value(e) = e.back
       /\ pc = "delete" => Pristine
       /\ (pc = "delete" /\ "cleanup" \notin mishaps) => exists \subseteq Elems(todo)
       /\ (pc = "idle" /\ outcome = "failed" /\ "cleanup" \notin mishaps) =>
            exists = {} /\ Pristine

(* Clones are there as long as the path may lead to one.                     *)
ClonesStay ==
  "lost" \notin mishaps \/ entry # "none" => Pristine \/ Steps \subseteq exists

(* The undo.                                                                 *)
UndoTrue ==
  /\ (pc = "undo_revert" /\ ~failed) => \A e \in Edits \ Elems(todo) : Value(e) = e.back
  /\ pc = "undo_delete" => Pristine
  /\ (pc = "undo_delete" /\ "cleanup" \notin mishaps) => exists \subseteq Elems(todo)
  /\ (pc = "idle" /\ outcome = "undone") =>
       Pristine /\ ("cleanup" \notin mishaps => exists = {})

(* The mappings and screens that are to become private.                      *)
Forked == {t \in Types : plan.mapping[t] = "ss"}

PlanOf(m) ==
  /\ plan.mapping = [t \in Types |-> IF t \in Forked THEN "ss" ELSE m[t]]
  /\ plan.served = {t \in Types : t \in Forked \/ (m[t] = Absent /\ Default \in Forked)}
  /\ \A e \in Edits : IF e.obj \in OldSchemes THEN Forked = {t \in Types : m[t] = e.obj}
                                              ELSE e.key \in Forked
  /\ "ss" \in Steps => plan.repoint \/ \A t \in Forked : \E e \in Edits : e.key = t
  /\ plan.kind # "screen_scheme" =>
       "screen" \in Steps /\ ("ss" \in Steps => plan.scheme = "screen")

(* The path began with the mappings m and the screens f, which is what the   *)
(* target showed; only what is edited differs from it.                       *)
Began(m, f) ==
  /\ view[Target] = [t \in Types |-> f[SchemeIn(m, t)]]
  /\ \A t \in Types : itss[Home][t] = m[t] \/ \E e \in Edits : e.obj = Home /\ e.key = t
  /\ \A s \in OldSchemes : ss[s] = f[s] \/ \E e \in Edits : e.obj = s
  /\ \A e \in Edits : e.back = IF e.obj \in OldSchemes THEN f[e.obj] ELSE m[e.key]
  /\ plan # NoPlan => PlanOf(m)

Mappings == {m \in [Types -> OldSchemes \union {Absent}] : m[Default] # Absent}
BeganSomehow == \E m \in Mappings, f \in [OldSchemes -> OldScreens] : Began(m, f)

(* The inductive invariant.                                                  *)
IInv ==
  /\ PlanTyped
  /\ WorldTyped
  /\ RunTyped
  /\ OthersApart
  /\ PhaseTrue
  /\ ForwardTrue
  /\ CleanupTrue
  /\ ClonesStay
  /\ UndoTrue
  /\ BeganSomehow

(***************************************************************************)
(* Lemmas about sequences                                                  *)
(***************************************************************************)

LEMMA HeadTailElems ==
  ASSUME NEW S, NEW s \in Seq(S), s # <<>>
  PROVE  /\ Head(s) \in S /\ Tail(s) \in Seq(S)
         /\ Head(s) \in Elems(s) /\ Elems(s) = {Head(s)} \union Elems(Tail(s))
<1>1. /\ Len(s) \in Nat \ {0} /\ DOMAIN s = 1..Len(s) /\ Head(s) = s[1]
      /\ Tail(s) \in Seq(S) /\ Len(Tail(s)) = Len(s) - 1
      /\ \A k \in 1..Len(Tail(s)) : Tail(s)[k] = s[k + 1]
  OBVIOUS
<1>2. DOMAIN Tail(s) = 1..(Len(s) - 1)
  BY <1>1
<1>3. \A k \in DOMAIN s : k = 1 \/ (k - 1 \in DOMAIN Tail(s) /\ Tail(s)[k - 1] = s[k])
  BY <1>1, <1>2
<1>4. \A k \in DOMAIN Tail(s) : k + 1 \in DOMAIN s /\ s[k + 1] = Tail(s)[k]
  BY <1>1, <1>2
<1> DEFINE rest == Tail(s)
<1> HIDE DEF rest
<1>5. Elems(s) = {Head(s)} \union Elems(rest)
  <2>1. ASSUME NEW x \in Elems(s)
        PROVE  x = Head(s) \/ x \in Elems(rest)
    <3>1. PICK k \in DOMAIN s : x = s[k]
      BY DEF Elems
    <3>2. k = 1 \/ (k - 1 \in DOMAIN rest /\ rest[k - 1] = x)
      BY <1>3, <3>1 DEF rest
    <3> QED
      BY <1>1, <3>1, <3>2 DEF Elems
  <2>2. \A x \in Elems(rest) : x \in Elems(s)
    BY <1>1, <1>4 DEF Elems, rest
  <2>3. Head(s) \in Elems(s)
    BY <1>1 DEF Elems
  <2> QED
    BY <2>1, <2>2, <2>3
<1> QED
  BY <1>1, <1>5 DEF rest

LEMMA ConsElems ==
  ASSUME NEW S, NEW s \in Seq(S), NEW x \in S
  PROVE  /\ <<x>> \o s \in Seq(S) /\ <<x>> \o s # <<>>
         /\ Elems(<<x>> \o s) = {x} \union Elems(s)
<1> DEFINE c == <<x>> \o s
<1>1. /\ c \in Seq(S) /\ Len(c) = Len(s) + 1 /\ Len(s) \in Nat
      /\ \A k \in 1..Len(c) : c[k] = IF k = 1 THEN x ELSE s[k - 1]
      /\ DOMAIN s = 1..Len(s) /\ DOMAIN c = 1..Len(c)
  OBVIOUS
<1> HIDE DEF c
<1>2. c # <<>>
  BY <1>1
<1>3. \A k \in DOMAIN s : k + 1 \in DOMAIN c /\ c[k + 1] = s[k]
  BY <1>1
<1>4. \A k \in DOMAIN c : k = 1 \/ (k - 1 \in DOMAIN s /\ c[k] = s[k - 1])
  BY <1>1
<1>5. 1 \in DOMAIN c /\ c[1] = x
  BY <1>1
<1>6. Elems(c) = {x} \union Elems(s)
  BY <1>3, <1>4, <1>5 DEF Elems
<1> QED
  BY <1>1, <1>2, <1>6 DEF c

LEMMA EmptyElems == Elems(<<>>) = {} /\ \A S : \A s \in Seq(S) : Elems(s) \subseteq S /\ (Elems(s) = {} => s = <<>>)
<1>1. Elems(<<>>) = {}
  BY DEF Elems
<1>2. ASSUME NEW S, NEW s \in Seq(S)
      PROVE  Elems(s) \subseteq S /\ (Elems(s) = {} => s = <<>>)
  <2>1. s \in [1..Len(s) -> S] /\ Len(s) \in Nat /\ DOMAIN s = 1..Len(s)
    OBVIOUS
  <2>2. Elems(s) \subseteq S
    BY <2>1 DEF Elems
  <2>3. Elems(s) = {} => Len(s) = 0
    <3>1. Len(s) # 0 => s[1] \in Elems(s)
      BY <2>1 DEF Elems
    <3> QED
      BY <3>1
  <2> QED
    BY <2>2, <2>3
<1> QED
  BY <1>1, <1>2

LEMMA ShortElems ==
  /\ \A x : Elems(<<x>>) = {x}
  /\ \A x, y : Elems(<<x, y>>) = {x, y}
  /\ \A x, y, z : Elems(<<x, y, z>>) = {x, y, z}
  BY DEF Elems

(***************************************************************************)
(* Lemmas about the plan                                                   *)
(***************************************************************************)

(* What follows from PlanTyped once there is a plan.                         *)
LEMMA PlanFacts ==
  ASSUME PlanTyped, plan # NoPlan
  PROVE  /\ Steps = Elems(plan.steps) /\ Edits = Elems(plan.edits) /\ Home = plan.back
         /\ Steps \subseteq Clones /\ Steps # {}
         /\ plan.steps \in Seq(Clones) /\ plan.steps # <<>>
         /\ \A e \in Edits : EditTyped(e)
         /\ Edits = {} <=> plan.repoint
         /\ plan.repoint <=> Repoints
<1>1. Steps = Elems(plan.steps) /\ Edits = Elems(plan.edits) /\ Home = plan.back
  BY DEF Steps, Edits, Home
<1>2. /\ plan.steps \in Seq(Clones) /\ plan.steps # <<>>
      /\ Steps \subseteq Clones /\ Steps # {}
  <2>1. \A x, y, z \in Clones :
          /\ <<x>> \in Seq(Clones) /\ <<x, y>> \in Seq(Clones) /\ <<x, y, z>> \in Seq(Clones)
          /\ <<x>> # <<>> /\ <<x, y>> # <<>> /\ <<x, y, z>> # <<>>
    OBVIOUS
  <2>2. plan.steps \in Seq(Clones) /\ plan.steps # <<>>
    BY <2>1 DEF PlanTyped, Clones
  <2>3. /\ Elems(<<"screen">>) = {"screen"} /\ Elems(<<"ss">>) = {"ss"}
        /\ Elems(<<"screen", "ss">>) = {"screen", "ss"} /\ Elems(<<"ss", "itss">>) = {"ss", "itss"}
        /\ Elems(<<"screen", "ss", "itss">>) = {"screen", "ss", "itss"}
    BY ShortElems
  <2>4. Steps \subseteq Clones /\ Steps # {}
    BY <1>1, <2>3 DEF PlanTyped, Clones
  <2> QED
    BY <2>2, <2>4
<1>3. Edits = {} <=> plan.repoint
  BY <1>1, EmptyElems DEF PlanTyped
<1> QED
  BY <1>1, <1>2, <1>3 DEF PlanTyped, Repoints

(* A step that keeps the plan keeps what is known of it.                     *)
LEMMA PlanStays ==
  ASSUME PlanTyped, plan' = plan, plan # NoPlan \/ top'[Target] = top[Target]
  PROVE  /\ PlanTyped' /\ Steps' = Steps /\ Edits' = Edits /\ Home' = Home
         /\ Repoints' = Repoints /\ Forked' = Forked
         /\ \A m : PlanOf(m)' <=> PlanOf(m)
<1>1. Steps' = Steps /\ Edits' = Edits /\ Home' = Home /\ Repoints' = Repoints /\ Forked' = Forked
  BY DEF Steps, Edits, Home, Repoints, Forked
<1>2. PlanTyped'
  BY <1>1 DEF PlanTyped, EditTyped
<1>3. \A m : PlanOf(m)' <=> PlanOf(m)
  BY <1>1 DEF PlanOf
<1> QED
  BY <1>1, <1>2, <1>3

(* What a PUT of an edit, or of what it replaced, does and does not do.      *)
LEMMA PutKeeps ==
  ASSUME IInv, plan # NoPlan, NEW e \in Edits, NEW v \in {e.to, e.back}, NEW a \in Answers,
         Put(e, v, a), UNCHANGED <<top, plan, view>>
  PROVE  /\ itss' \in [Itsses -> [Types -> Schemes \union {Absent}]]
         /\ ss' \in [Schemes -> OldScreens \union {"screen"}]
         /\ \A i \in Itsses : itss'[i][Default] # Absent
         /\ \A i \in Itsses, t \in Types : itss'[i][t] = "ss" => "ss" \in Steps
         /\ \A s \in Schemes : ss'[s] = "screen" => "screen" \in Steps
         /\ ss'["ss"] = ss["ss"] /\ itss'["itss"] = itss["itss"]
         /\ Value(e)' = IF Lands(a) THEN v ELSE Value(e)
         /\ \A g \in Edits : g # e => Value(g)' = Value(g)
         /\ \A t \in Types : itss'[Home][t] = itss[Home][t] \/ \E g \in Edits : g.obj = Home /\ g.key = t
         /\ \A s \in OldSchemes : ss'[s] = ss[s] \/ \E g \in Edits : g.obj = s
         /\ "joined" \notin mishaps =>
              \A p \in Others : itss'[top[p]] = itss[top[p]] /\ Shown[p]' = Shown[p]
<1>1. /\ \A g \in Edits : EditTyped(g) /\ Home \in OldItsses
      /\ \A g \in Edits : e.obj = g.obj /\ e.key = g.key => e = g
      /\ itss \in [Itsses -> [Types -> Schemes \union {Absent}]]
      /\ ss \in [Schemes -> OldScreens \union {"screen"}]
      /\ \A i \in Itsses : itss[i][Default] # Absent
      /\ \A i \in Itsses, t \in Types : itss[i][t] = "ss" => "ss" \in Steps
      /\ \A s \in Schemes : ss[s] = "screen" => "screen" \in Steps
  BY PlanFacts DEF IInv, WorldTyped, PlanTyped
<1>2. CASE ~Lands(a)
  BY <1>1, <1>2 DEF Put, Value, Shown, Scheme
<1>3. CASE Lands(a) /\ e.obj \in OldSchemes
  <2>1. /\ e.obj \in Schemes /\ ss' = [ss EXCEPT ![e.obj] = v] /\ itss' = itss
        /\ v \in OldScreens \union {"screen"} /\ (v = "screen" => "screen" \in Steps)
    BY <1>1, <1>3 DEF Put, EditTyped, OldSchemes, Schemes, OldItsses, OldScreens
  <2>2. \A g \in Edits : g # e => Value(g)' = Value(g)
    BY <1>1, <1>3, <2>1 DEF Value, EditTyped, OldSchemes, OldItsses, Schemes
  <2>3. ASSUME "joined" \notin mishaps, NEW p \in Others
        PROVE  Shown[p]' = Shown[p]
    <3>1. \A t \in Types : Scheme(p, t)' = Scheme(p, t) /\ Scheme(p, t) \in OldSchemes /\ Scheme(p, t) # e.obj
      BY <2>1, <2>3, <1>1, ForkIsolateAssumption DEF IInv, OthersApart, Scheme, SchemeIn, Absent, OldSchemes, WorldTyped, OldItsses, Itsses
    <3> QED
      BY <2>1, <3>1, <1>1 DEF Shown, Projects, OldSchemes, Schemes
  <2> QED
    BY <1>1, <1>3, <2>1, <2>2, <2>3 DEF Value, OldSchemes, Schemes
<1>4. CASE Lands(a) /\ e.obj \notin OldSchemes
  <2>1. /\ e.obj = Home /\ e.obj \in Itsses /\ e.obj \notin Schemes /\ e.key \in Types
        /\ itss' = [itss EXCEPT ![e.obj][e.key] = v] /\ ss' = ss
        /\ v \in Schemes \union {Absent} /\ (v = "ss" => "ss" \in Steps)
        /\ e.key = Default => v # Absent
    BY <1>1, <1>4 DEF Put, EditTyped, OldSchemes, Schemes, OldItsses, Itsses, Absent
  <2>2. \A i \in Itsses, t \in Types :
          itss'[i][t] = IF i = e.obj /\ t = e.key THEN v ELSE itss[i][t]
    BY <1>1, <2>1
  <2>3. itss' \in [Itsses -> [Types -> Schemes \union {Absent}]]
    BY <1>1, <2>1
  <2>4. \A g \in Edits : g # e => Value(g)' = Value(g)
    BY <1>1, <2>1, <2>2 DEF Value, EditTyped, OldSchemes, OldItsses, Schemes, Itsses
  <2>5. ASSUME "joined" \notin mishaps, NEW p \in Others
        PROVE  itss'[top[p]] = itss[top[p]] /\ Shown[p]' = Shown[p]
    <3>1. itss'[top[p]] = itss[top[p]]
      BY <2>1, <2>5, <1>1 DEF IInv, OthersApart, OldItsses, Itsses
    <3> QED
      BY <2>1, <3>1 DEF Shown, Scheme, Projects
  <2> QED
    BY <1>1, <1>4, <2>1, <2>2, <2>3, <2>4, <2>5, ForkIsolateAssumption DEF Value, OldItsses, Itsses
<1> QED
  BY <1>2, <1>3, <1>4

(***************************************************************************)
(* The beginning, and the preview                                          *)
(***************************************************************************)

LEMMA InitIInv == Init => IInv
<1> SUFFICES ASSUME Init PROVE IInv
  OBVIOUS
<1> USE DEF Itsses, Schemes, OldItsses, OldSchemes, OldScreens, Absent, Projects
<1>1. /\ plan = NoPlan /\ pc = "idle" /\ outcome = "none" /\ entry = "none"
      /\ exists = {} /\ mishaps = {} /\ failed = FALSE
      /\ applied = <<>> /\ created = <<>>
  BY DEF Init
<1>2. /\ Steps = {} /\ Edits = {} /\ Home = top[Target] /\ ~Repoints /\ Pristine
  BY <1>1 DEF Steps, Edits, Home, Repoints, Pristine
<1>3. /\ top \in [Projects -> OldItsses]
      /\ itss \in [Itsses -> [Types -> OldSchemes \union {Absent}]]
      /\ ss \in [Schemes -> OldScreens]
      /\ \A i \in Itsses : itss[i][Default] # Absent
  BY ForkIsolateAssumption DEF Init
<1>4. view = Shown
  BY DEF Init, Shown, Scheme
<1>5. PlanTyped /\ WorldTyped
  <2>1. PlanTyped
    BY <1>1 DEF PlanTyped
  <2>2. top \in [Projects -> Itsses] /\ Home \in OldItsses /\ \A p \in Projects : top[p] # "itss"
    BY <1>2, <1>3
  <2>3. /\ itss \in [Itsses -> [Types -> Schemes \union {Absent}]]
        /\ ss \in [Schemes -> OldScreens \union {"screen"}]
    BY <1>3
  <2>4. /\ \A i \in Itsses, t \in Types : itss[i][t] # "ss"
        /\ \A x \in Schemes : ss[x] # "screen"
    BY <1>3
  <2> QED
    BY <1>1, <1>2, <1>3, <2>1, <2>2, <2>3, <2>4 DEF WorldTyped
<1>6. RunTyped
  BY <1>1 DEF RunTyped
<1>7. OthersApart
  <2>1. \A p \in Others, t \in Types : Scheme(p, t) \in OldSchemes
    BY <1>3, ForkIsolateAssumption DEF Scheme, SchemeIn
  <2>2. \A p \in Others : Shown[p] \in [Types -> OldScreens]
    BY <1>3, <2>1 DEF Shown
  <2> QED
    BY <1>2, <1>3, <1>4, <2>2 DEF OthersApart
<1>8. PhaseTrue /\ ForwardTrue /\ CleanupTrue /\ ClonesStay /\ UndoTrue
  BY <1>1, <1>2, EmptyElems DEF PhaseTrue, ForwardTrue, CleanupTrue, ClonesStay, UndoTrue,
     Running, Undoing
<1>9. BeganSomehow
  <2> DEFINE m == itss[Home]
             f == [s \in OldSchemes |-> ss[s]]
  <2>1. m \in Mappings /\ f \in [OldSchemes -> OldScreens]
    BY <1>2, <1>3 DEF Mappings
  <2>2. \A t \in Types : SchemeIn(m, t) \in OldSchemes
    BY <2>1, ForkIsolateAssumption DEF SchemeIn, Mappings
  <2>3. view[Target] = [t \in Types |-> f[SchemeIn(m, t)]]
    BY <1>2, <1>4, <2>2 DEF Shown, Scheme
  <2> HIDE DEF m
  <2>4. Began(m, f)
    BY <1>1, <1>2, <2>3 DEF Began, m
  <2> QED
    BY <2>1, <2>4 DEF BeganSomehow
<1> QED
  BY <1>5, <1>6, <1>7, <1>8, <1>9 DEF IInv

(* A plan as the preview makes it for the scheme s and the issue types that  *)
(* are to get a private copy; a direct one edits the screen scheme in place. *)
PlanFrom(q, s, types, direct) ==
  /\ s \in OldSchemes /\ types \subseteq Types /\ types # {} /\ q # NoPlan
  /\ q.mapping = MappingOf(top[Target], types) /\ q.back = top[Target]
  /\ q.served = {t \in Types : t \in types \/ (itss[top[Target]][t] = Absent /\ Default \in types)}
  /\ q.repoint \in BOOLEAN
  /\ direct =>
       /\ ~q.repoint /\ q.steps = <<"screen">> /\ q.edits = <<EditScheme(s)>>
       /\ q.scheme = "screen" /\ types = {t \in Types : itss[top[Target]][t] = s}
       /\ FALSE \in SchemeShared(s, top[Target])
  /\ ~direct =>
       /\ q.repoint \in ItssShared(top[Target])
       /\ \/ /\ q.kind = "screen_scheme" /\ q.scheme = ss[s]
             /\ q.steps = IF q.repoint THEN <<"ss", "itss">> ELSE <<"ss">>
          \/ /\ q.scheme = "screen"
             /\ q.steps = IF q.repoint THEN <<"screen", "ss", "itss">> ELSE <<"screen", "ss">>
       /\ IF q.repoint THEN q.edits = <<>>
          ELSE /\ q.edits \in Seq({EditMapping(top[Target], t) : t \in types})
               /\ Elems(q.edits) = {EditMapping(top[Target], t) : t \in types}

LEMMA ListingElems ==
  ASSUME NEW types \in SUBSET Types, NEW listed \in Listings(types)
  PROVE  listed \in Seq(types) /\ Elems(listed) = types
<1>1. IsFiniteSet(types) /\ Cardinality(types) \in Nat
  BY ForkIsolateAssumption, FS_Subset, FS_CardinalityType
<1>2. /\ listed \in [1..Cardinality(types) -> types]
      /\ \A j, k \in DOMAIN listed : listed[j] = listed[k] => j = k
  BY DEF Listings
<1>3. listed \in Injection(1..Cardinality(types), types)
  BY <1>2 DEF Injection, IsInjective
<1>4. Cardinality(1..Cardinality(types)) = Cardinality(types)
  BY <1>1, FS_Interval
<1>5. listed \in Surjection(1..Cardinality(types), types)
  BY <1>1, <1>3, <1>4, FS_Injection
<1>6. listed \in Seq(types)
  BY <1>1, <1>2
<1>7. Elems(listed) = types
  BY <1>2, <1>5 DEF Surjection, Elems
<1> QED
  BY <1>6, <1>7

LEMMA RewiredIsPlan ==
  ASSUME IInv, NEW s \in OldSchemes, NEW types \in SUBSET Types, types # {},
         NEW listed \in Seq(types), Elems(listed) = types,
         NEW shared \in ItssShared(top[Target]),
         NEW kind, NEW before,
         \/ kind = "screen_scheme" /\ before = <<>>
         \/ before = <<"screen">>
  PROVE  PlanFrom(Rewired(kind, before, s, listed, shared), s, types, FALSE)
<1> DEFINE q == Rewired(kind, before, s, listed, shared)
<1>1. {listed[k] : k \in DOMAIN listed} = types
  BY DEF Elems
<1>2. /\ q.kind = kind /\ q.mapping = MappingOf(top[Target], types) /\ q.back = top[Target]
      /\ q.served = {t \in Types : t \in types \/ (itss[top[Target]][t] = Absent /\ Default \in types)}
      /\ q.repoint = shared /\ q.scheme = IF before = <<>> THEN ss[s] ELSE "screen"
      /\ q.steps = before \o IF shared THEN <<"ss", "itss">> ELSE <<"ss">>
      /\ q.edits = IF shared THEN <<>> ELSE EditsOf(top[Target], listed)
      /\ q # NoPlan
  BY <1>1 DEF Rewired, NoPlan
<1>3. shared \in BOOLEAN
  BY DEF ItssShared
<1>4. /\ <<>> \o <<"ss", "itss">> = <<"ss", "itss">> /\ <<>> \o <<"ss">> = <<"ss">>
      /\ <<"screen">> \o <<"ss", "itss">> = <<"screen", "ss", "itss">>
      /\ <<"screen">> \o <<"ss">> = <<"screen", "ss">> /\ <<"screen">> # <<>>
  <2>1. <<>> \o <<"ss", "itss">> = <<"ss", "itss">>
    OBVIOUS
  <2>2. <<>> \o <<"ss">> = <<"ss">>
    OBVIOUS
  <2>3. <<"screen">> \o <<"ss", "itss">> = <<"screen", "ss", "itss">>
    <3> DEFINE c == <<"screen">> \o <<"ss", "itss">>
               d == <<"screen", "ss", "itss">>
    <3>1. c \in Seq(Clones) /\ d \in Seq(Clones) /\ Len(c) = 3 /\ Len(d) = 3
      BY DEF Clones
    <3>2. \A k \in 1..3 : c[k] = d[k]
      OBVIOUS
    <3> HIDE DEF c, d
    <3>3. c = d
      BY <3>1, <3>2, SeqEqual
    <3> QED
      BY <3>3 DEF c, d
  <2>4. <<"screen">> \o <<"ss">> = <<"screen", "ss">>
    <3> DEFINE c == <<"screen">> \o <<"ss">>
               d == <<"screen", "ss">>
    <3>1. c \in Seq(Clones) /\ d \in Seq(Clones) /\ Len(c) = 2 /\ Len(d) = 2
      BY DEF Clones
    <3>2. \A k \in 1..2 : c[k] = d[k]
      OBVIOUS
    <3> HIDE DEF c, d
    <3>3. c = d
      BY <3>1, <3>2, SeqEqual
    <3> QED
      BY <3>3 DEF c, d
  <2>5. <<"screen">> # <<>>
    OBVIOUS
  <2> QED
    BY <2>1, <2>2, <2>3, <2>4, <2>5
<1>5. LET edits == EditsOf(top[Target], listed)
      IN  /\ edits \in Seq({EditMapping(top[Target], t) : t \in types})
          /\ Elems(edits) = {EditMapping(top[Target], t) : t \in types}
  <2> DEFINE edits == EditsOf(top[Target], listed)
  <2>1. /\ listed \in [1..Len(listed) -> types] /\ Len(listed) \in Nat
        /\ DOMAIN listed = 1..Len(listed)
    OBVIOUS
  <2>2. /\ edits \in [1..Len(listed) -> {EditMapping(top[Target], t) : t \in types}]
        /\ \A k \in 1..Len(listed) : edits[k] = EditMapping(top[Target], listed[k])
    BY <2>1 DEF EditsOf
  <2> HIDE DEF edits
  <2>3. edits \in Seq({EditMapping(top[Target], t) : t \in types})
    BY <2>1, <2>2
  <2>4. \A t \in types : \E k \in 1..Len(listed) : listed[k] = t
    BY <2>1 DEF Elems
  <2>5. \A x \in Elems(edits) : x \in {EditMapping(top[Target], t) : t \in types}
    BY <2>1, <2>2 DEF Elems
  <2>6. ASSUME NEW t \in types PROVE EditMapping(top[Target], t) \in Elems(edits)
    <3>1. PICK k \in 1..Len(listed) : listed[k] = t
      BY <2>4
    <3>2. edits[k] = EditMapping(top[Target], t) /\ k \in DOMAIN edits
      BY <2>2, <3>1
    <3> QED
      BY <3>2 DEF Elems
  <2> QED
    BY <2>3, <2>5, <2>6 DEF edits
<1> HIDE DEF q
<1>6. \/ /\ q.kind = "screen_scheme" /\ q.scheme = ss[s]
         /\ q.steps = IF q.repoint THEN <<"ss", "itss">> ELSE <<"ss">>
      \/ /\ q.scheme = "screen"
         /\ q.steps = IF q.repoint THEN <<"screen", "ss", "itss">> ELSE <<"screen", "ss">>
  BY <1>2, <1>3, <1>4
<1> QED
  BY <1>2, <1>3, <1>5, <1>6 DEF PlanFrom, q

(* Every plan of a preview is of that form.                                  *)
LEMMA PreviewIsPlan ==
  ASSUME IInv, Preview
  PROVE  \E s \in OldSchemes, types \in SUBSET Types, direct \in BOOLEAN :
           PlanFrom(plan', s, types, direct)
<1> DEFINE i == top[Target]
<1>1. plan = NoPlan /\ Steps = {} /\ i \in Itsses
      /\ itss \in [Itsses -> [Types -> OldSchemes \union {Absent}]]
      /\ itss[i][Default] # Absent
  BY DEF IInv, WorldTyped, Preview, Steps, Projects, OldSchemes, Schemes
<1>2. ASSUME NEW s \in OldSchemes, NEW t0 \in Types, itss[i][t0] = s,
             plan' \in SchemePlans(s) \union ScreenPlans(s)
      PROVE  \E types \in SUBSET Types, direct \in BOOLEAN : PlanFrom(plan', s, types, direct)
  <2> DEFINE mapped == {t \in Types : itss[i][t] = s}
             cloned == {Rewired("screen", <<"screen">>, s, listed, shared) :
                          shared \in ItssShared(i), listed \in Listings(mapped)}
  <2>1. mapped \in SUBSET Types /\ mapped # {}
    BY <1>2
  <2>2. ASSUME plan' \in SchemePlans(s) PROVE PlanFrom(plan', s, mapped, FALSE)
    <3>1. PICK shared \in ItssShared(i), listed \in Listings(mapped) :
            plan' = Rewired("screen_scheme", <<>>, s, listed, shared)
      BY <2>2 DEF SchemePlans
    <3>2. listed \in Seq(mapped) /\ Elems(listed) = mapped
      BY <2>1, ListingElems
    <3> HIDE DEF mapped
    <3> QED
      BY <2>1, <3>1, <3>2, RewiredIsPlan
  <2>3. ASSUME NEW q \in cloned 
        PROVE  /\ PlanFrom(q, s, mapped, FALSE) /\ q.scheme = "screen"
               /\ DOMAIN q = {"kind", "from", "scheme", "mapping", "steps", "edits", "repoint",
                              "back", "served"}
    <3>1. PICK shared \in ItssShared(i), listed \in Listings(mapped) :
            q = Rewired("screen", <<"screen">>, s, listed, shared)
      BY <2>3
    <3>2. listed \in Seq(mapped) /\ Elems(listed) = mapped
      BY <2>1, ListingElems
    <3>3. q.kind = "screen"
      BY <3>1 DEF Rewired
    <3> HIDE DEF mapped, cloned
    <3>4. PlanFrom(q, s, mapped, FALSE)
      BY <2>1, <3>1, <3>2, RewiredIsPlan
    <3>5. DOMAIN q = {"kind", "from", "scheme", "mapping", "steps", "edits", "repoint", "back", "served"}
      BY <3>1 DEF Rewired
    <3> QED
      BY <3>3, <3>4, <3>5 DEF PlanFrom
  <2>4. ASSUME plan' \in ScreenPlans(s) PROVE \E direct \in BOOLEAN : PlanFrom(plan', s, mapped, direct)
    <3> DEFINE edited == {[q EXCEPT !.steps = <<"screen">>, !.edits = <<EditScheme(s)>>,
                                    !.repoint = FALSE] : q \in cloned}
    <3>3. ScreenPlans(s) = UNION {IF shared THEN cloned ELSE edited : shared \in SchemeShared(s, i)}
      BY DEF ScreenPlans
    <3> HIDE DEF cloned, mapped
    <3>1. CASE plan' \in cloned
      BY <2>3, <3>1
    <3>2. CASE plan' \notin cloned
      <4> HIDE DEF edited
      <4>1. PICK shared \in SchemeShared(s, i) : plan' \in IF shared THEN cloned ELSE edited
        BY <2>4, <3>3
      <4>2. ~shared /\ shared \in BOOLEAN
        BY <3>2, <4>1 DEF SchemeShared
      <4>3. PICK q \in cloned : plan' = [q EXCEPT !.steps = <<"screen">>, !.edits = <<EditScheme(s)>>,
                                                  !.repoint = FALSE]
        BY <4>1, <4>2 DEF edited
      <4>4. /\ PlanFrom(q, s, mapped, FALSE) /\ q.scheme = "screen"
            /\ DOMAIN q = {"kind", "from", "scheme", "mapping", "steps", "edits", "repoint",
                           "back", "served"}
        BY <2>3
      <4>5. /\ plan'.steps = <<"screen">> /\ plan'.edits = <<EditScheme(s)>> /\ plan'.repoint = FALSE
            /\ plan'.scheme = q.scheme /\ plan'.mapping = q.mapping /\ plan'.back = q.back
            /\ plan'.served = q.served /\ DOMAIN plan' = DOMAIN q
        BY <4>3, <4>4
      <4>7. plan' # NoPlan
        BY <4>4, <4>5 DEF NoPlan
      <4>8. FALSE \in SchemeShared(s, i) /\ mapped = {t \in Types : itss[i][t] = s}
        BY <4>2, <4>1 DEF mapped
      <4>6. PlanFrom(plan', s, mapped, TRUE)
        BY <4>4, <4>5, <4>7, <4>8 DEF PlanFrom
      <4> QED
        BY <4>6
    <3> QED
      BY <3>1, <3>2
  <2> QED
    BY <1>2, <2>1, <2>2, <2>4
<1>3. ASSUME NEW t \in Types, plan' \in TypePlans(t)
      PROVE  PlanFrom(plan', Scheme(Target, t), {t}, FALSE) /\ Scheme(Target, t) \in OldSchemes
  <2>1. Scheme(Target, t) \in OldSchemes
    BY <1>1, ForkIsolateAssumption DEF Scheme, SchemeIn
  <2>2. PICK shared \in ItssShared(i) :
          plan' = Rewired("issue_type", <<"screen">>, Scheme(Target, t), <<t>>, shared)
    BY <1>3 DEF TypePlans
  <2>3. <<t>> \in Seq({t}) /\ Elems(<<t>>) = {t}
    BY ShortElems
  <2> QED
    BY <2>1, <2>2, <2>3, RewiredIsPlan
<1>4. \/ \E s \in OldSchemes : (\E t \in Types : itss[i][t] = s) /\ plan' \in SchemePlans(s) \union ScreenPlans(s)
      \/ \E t \in Types : plan' \in TypePlans(t)
  BY DEF Preview, Schemes, Clones, OldSchemes
<1> QED
  BY <1>2, <1>3, <1>4

LEMMA PreviewKeepsIInv ==
  ASSUME IInv, Preview
  PROVE  IInv'
<1>1. PICK s \in OldSchemes, types \in SUBSET Types, direct \in BOOLEAN :
        PlanFrom(plan', s, types, direct)
  BY PreviewIsPlan
<1> DEFINE i == top[Target]
<1>2. /\ plan = NoPlan /\ pc = "idle" /\ outcome = "none"
      /\ UNCHANGED <<top, itss, ss, exists, pc, todo, applied, created, failed, outcome, entry,
                     view, mishaps>>
  BY DEF IInv, PhaseTrue, Preview, jira
<1>3. /\ Steps = {} /\ Edits = {} /\ Home = i /\ i \in OldItsses
      /\ itss \in [Itsses -> [Types -> OldSchemes \union {Absent}]]
      /\ ss \in [Schemes -> OldScreens]
      /\ \A j \in Itsses : itss[j][Default] # Absent
      /\ \A p \in Projects : top[p] \in OldItsses
  BY <1>2 DEF IInv, WorldTyped, Steps, Edits, Home, OldSchemes, Schemes, OldItsses, Itsses
<1>4. /\ plan' # NoPlan /\ types # {} /\ plan'.back = i /\ plan'.repoint \in BOOLEAN
      /\ plan'.mapping = [t \in Types |-> IF t \in types THEN "ss" ELSE itss[i][t]]
      /\ plan'.served = {t \in Types : t \in types \/ (itss[i][t] = Absent /\ Default \in types)}
  BY <1>1 DEF PlanFrom, MappingOf
<1>5. Steps' = Elems(plan'.steps) /\ Edits' = Elems(plan'.edits) /\ Home' = i /\ (Repoints' <=> plan'.repoint)
  BY <1>4 DEF Steps, Edits, Home, Repoints
<1>6. /\ plan'.steps \in {<<"screen">>, <<"screen", "ss">>, <<"screen", "ss", "itss">>, <<"ss">>, <<"ss", "itss">>}
      /\ Steps' = {"screen"} <=> direct
      /\ "ss" \in Steps' <=> ~direct
      /\ "itss" \in Steps' <=> plan'.repoint
      /\ direct => ~plan'.repoint
      /\ plan'.scheme \in OldScreens \union ({"screen"} \intersect Steps')
      /\ plan'.kind # "screen_scheme" => "screen" \in Steps' /\ plan'.scheme = "screen"
  <2>1. /\ Elems(<<"screen">>) = {"screen"} /\ Elems(<<"ss">>) = {"ss"}
        /\ Elems(<<"screen", "ss">>) = {"screen", "ss"} /\ Elems(<<"ss", "itss">>) = {"ss", "itss"}
        /\ Elems(<<"screen", "ss", "itss">>) = {"screen", "ss", "itss"}
    BY ShortElems
  <2>2. CASE direct
    BY <1>1, <1>5, <2>1, <2>2 DEF PlanFrom
  <2>3. CASE ~direct
    BY <1>1, <1>3, <1>5, <2>1, <2>3 DEF PlanFrom, OldSchemes, Schemes
  <2> QED
    BY <2>2, <2>3
<1>7. /\ Edits' = IF direct THEN {EditScheme(s)}
                  ELSE IF plan'.repoint THEN {} ELSE {EditMapping(i, t) : t \in types}
      /\ plan'.edits \in Seq(EditRecord)
  <2>1. EditScheme(s) \in EditRecord /\ \A t \in Types : EditMapping(i, t) \in EditRecord
    BY <1>3 DEF EditScheme, EditMapping, EditRecord, OldSchemes, Schemes, OldItsses, Itsses, Clones
  <2>2. CASE direct
    <3>1. plan'.edits = <<EditScheme(s)>>
      BY <1>1, <2>2 DEF PlanFrom
    <3>2. <<EditScheme(s)>> \in Seq(EditRecord) /\ Elems(<<EditScheme(s)>>) = {EditScheme(s)}
      BY <2>1, ShortElems
    <3> QED
      BY <1>5, <2>2, <3>1, <3>2
  <2>3. CASE ~direct /\ plan'.repoint
    <3>1. plan'.edits = <<>>
      BY <1>1, <2>3 DEF PlanFrom
    <3> QED
      BY <1>5, <2>3, <3>1, EmptyElems
  <2>4. CASE ~direct /\ ~plan'.repoint
    <3> DEFINE made == {EditMapping(i, t) : t \in types}
    <3>1. plan'.edits \in Seq(made) /\ Elems(plan'.edits) = made
      BY <1>1, <2>4 DEF PlanFrom
    <3>2. made \subseteq EditRecord
      BY <2>1
    <3> HIDE DEF made
    <3>3. plan'.edits \in Seq(EditRecord)
      BY <3>1, <3>2
    <3> QED
      BY <1>5, <2>4, <3>1, <3>3 DEF made
  <2> QED
    BY <2>2, <2>3, <2>4
<1>8. \A e \in Edits' :
        \/ /\ direct /\ e = EditScheme(s)
           /\ e.obj = s /\ e.key = "" /\ e.to = "screen" /\ e.back = ss[s] /\ e \in EditRecord
        \/ /\ ~direct /\ ~plan'.repoint
           /\ \E t \in types : e = EditMapping(i, t)
           /\ e.obj = i /\ e.key \in types /\ e.to = "ss" /\ e.back = itss[i][e.key] /\ e \in EditRecord
  <2>1. Edits' \subseteq EditRecord
    BY <1>5, <1>7, EmptyElems
  <2>2. /\ EditScheme(s).obj = s /\ EditScheme(s).key = "" /\ EditScheme(s).to = "screen"
        /\ EditScheme(s).back = ss[s]
    BY DEF EditScheme
  <2>3. \A t \in types : /\ EditMapping(i, t).obj = i /\ EditMapping(i, t).key = t
                         /\ EditMapping(i, t).to = "ss" /\ EditMapping(i, t).back = itss[i][t]
    BY DEF EditMapping
  <2> SUFFICES ASSUME NEW e \in Edits'
               PROVE  \/ /\ direct /\ e = EditScheme(s)
                         /\ e.obj = s /\ e.key = "" /\ e.to = "screen" /\ e.back = ss[s] /\ e \in EditRecord
                      \/ /\ ~direct /\ ~plan'.repoint
                         /\ \E t \in types : e = EditMapping(i, t)
                         /\ e.obj = i /\ e.key \in types /\ e.to = "ss" /\ e.back = itss[i][e.key] /\ e \in EditRecord
    OBVIOUS
  <2> HIDE DEF i
  <2>4. CASE direct
    <3>1. e = EditScheme(s)
      BY <1>7, <2>4
    <3> QED
      BY <2>1, <2>2, <2>4, <3>1
  <2>5. CASE ~direct
    <3>1. ~plan'.repoint
      BY <1>7, <2>5
    <3>2. PICK t \in types : e = EditMapping(i, t)
      BY <1>7, <2>5, <3>1
    <3>3. e.obj = i /\ e.key = t /\ e.to = "ss" /\ e.back = itss[i][t]
      BY <2>3, <3>2
    <3> QED
      BY <2>1, <2>5, <3>1, <3>2, <3>3
  <2> QED
    BY <2>4, <2>5
<1>9. PlanTyped'
  <2>1. ASSUME NEW e \in Edits' PROVE EditTyped(e)'
    <3>1. CASE direct
      <4>1. e = EditScheme(s) /\ e.obj = s /\ e.key = "" /\ e.to = "screen" /\ e.back = ss[s] /\ e \in EditRecord
        BY <1>8, <3>1
      <4>2. ss[s] \in OldScreens /\ Steps' = {"screen"}
        BY <1>3, <1>6, <3>1 DEF OldSchemes, Schemes
      <4> QED
        BY <4>1, <4>2 DEF EditTyped
    <3>2. CASE ~direct
      <4>1. e.obj = i /\ e.key \in types /\ e.to = "ss" /\ e.back = itss[i][e.key] /\ e \in EditRecord
        BY <1>8, <3>2
      <4>2. /\ itss[i][e.key] \in OldSchemes \union {Absent} /\ e.key \in Types
            /\ e.key = Default => itss[i][e.key] # Absent
        BY <1>3, <4>1 DEF OldItsses, Itsses
      <4>3. "ss" \in Steps' /\ Home' = i
        BY <1>5, <1>6, <3>2
      <4> HIDE DEF i
      <4> QED
        BY <4>1, <4>2, <4>3 DEF EditTyped
    <3> QED
      BY <3>1, <3>2
  <2>2. \A e, g \in Edits' : e.obj = g.obj /\ e.key = g.key => e = g
    <3> SUFFICES ASSUME NEW e \in Edits', NEW g \in Edits', e.obj = g.obj, e.key = g.key
                 PROVE  e = g
      OBVIOUS
    <3>1. CASE direct
      BY <1>7, <3>1
    <3>2. CASE ~direct
      <4>1. PICK t \in types : e = EditMapping(i, t)
        BY <1>8, <3>2
      <4>2. PICK u \in types : g = EditMapping(i, u)
        BY <1>8, <3>2
      <4> QED
        BY <4>1, <4>2 DEF EditMapping
    <3> QED
      BY <3>1, <3>2
  <2>3. plan'.repoint <=> plan'.edits = <<>>
    <3>1. plan'.repoint => plan'.edits = <<>>
      BY <1>1, <1>6 DEF PlanFrom
    <3>2. ~plan'.repoint => Edits' # {}
      <4>1. PICK t \in types : TRUE
        BY <1>4
      <4>2. EditMapping(i, t) \in {EditMapping(i, u) : u \in types}
        BY <4>1
      <4> QED
        BY <1>7, <4>2
    <3> QED
      BY <1>5, <3>1, <3>2, EmptyElems
  <2>4. plan'.mapping \in [Types -> Schemes \union {Absent}] /\ plan'.mapping[Default] # Absent
    BY <1>3, <1>4, ForkIsolateAssumption DEF OldSchemes, Schemes, OldItsses, Itsses, Absent
  <2> QED
    BY <1>3, <1>4, <1>6, <1>7, <2>1, <2>2, <2>3, <2>4 DEF PlanTyped
<1>10. Pristine'
  <2>1. \A e \in Edits' : Value(e)' = e.back
    BY <1>2, <1>3, <1>8 DEF Value, OldSchemes, Schemes, OldItsses
  <2> QED
    BY <1>2, <1>5, <2>1 DEF Pristine
<1>11. WorldTyped'
  <2>1. top'[Target] = Home' /\ Home' \in OldItsses /\ exists' = {}
    BY <1>2, <1>3, <1>5 DEF IInv, PhaseTrue
  <2>2. /\ \A j \in Itsses, t \in Types : itss[j][t] # "ss"
        /\ \A x \in Schemes : ss[x] # "screen"
        /\ \A p \in Projects : top[p] # "itss"
    BY <1>3 DEF OldItsses, OldSchemes, OldScreens, Absent
  <2> QED
    BY <1>2, <2>1, <2>2 DEF IInv, WorldTyped
<1>12. RunTyped'
  BY <1>2 DEF IInv, RunTyped
<1>13. OthersApart'
  <2>a. UNCHANGED Shown
    BY <1>2 DEF Shown, Scheme
  <2>b. "joined" \notin mishaps =>
          \A p \in Others :
            /\ top[p] \in OldItsses
            /\ \A t \in Types : itss[top[p]][t] \in OldSchemes \union {Absent}
            /\ Shown[p] = view[p] /\ view[p] \in [Types -> OldScreens]
    BY DEF IInv, OthersApart
  <2> SUFFICES ASSUME "joined" \notin mishaps, NEW p \in Others, NEW e \in Edits'
               PROVE  e.obj # top[p] /\ \A t \in Types : itss[top[p]][t] # e.obj
    BY <1>2, <2>a, <2>b DEF OthersApart
  <2>1. /\ top[p] \in OldItsses /\ \A t \in Types : itss[top[p]][t] \in OldSchemes \union {Absent}
    BY DEF IInv, OthersApart
  <2>2. CASE direct
    <3>1. ~(\/ \E r \in Others : top[r] = i
            \/ \E j \in Itsses \ {i} : Exists(j) /\ \E t \in Types : itss[j][t] = s)
      BY <1>1, <2>2 DEF PlanFrom, SchemeShared
    <3>2. top[p] \in Itsses \ {i} /\ Exists(top[p])
      BY <2>1, <3>1 DEF OldItsses, Itsses, Exists, Clones
    <3>3. \A t \in Types : itss[top[p]][t] # s
      BY <3>1, <3>2
    <3> QED
      BY <1>8, <2>1, <2>2, <3>3 DEF OldItsses, OldSchemes
  <2>3. CASE ~direct
    <3>1. FALSE \in ItssShared(i) /\ e.obj = i
      BY <1>1, <1>8, <2>3 DEF PlanFrom
    <3>2. \A r \in Others : top[r] # i
      BY <3>1 DEF ItssShared
    <3> QED
      BY <1>3, <2>1, <3>1, <3>2 DEF OldItsses, OldSchemes, Absent
  <2> QED
    BY <2>2, <2>3
<1>14. PhaseTrue'
  BY <1>2, <1>4, <1>10 DEF IInv, PhaseTrue, Running, Undoing
<1>15. ForwardTrue' /\ CleanupTrue' /\ ClonesStay' /\ UndoTrue'
  BY <1>2, <1>10, EmptyElems DEF IInv, PhaseTrue, ForwardTrue, CleanupTrue, ClonesStay, UndoTrue, Running
<1>16. BeganSomehow'
  <2>1. PICK m \in Mappings, f \in [OldSchemes -> OldScreens] : Began(m, f)
    BY DEF IInv, BeganSomehow
  <2>2. /\ view[Target] = [t \in Types |-> f[SchemeIn(m, t)]]
        /\ \A t \in Types : itss[i][t] = m[t]
        /\ \A x \in OldSchemes : ss[x] = f[x]
    BY <1>3, <2>1 DEF Began
  <2>3. \A t \in Types : m[t] # "ss"
    BY DEF Mappings, OldSchemes, Absent
  <2>4. Forked' = types
    BY <1>4, <2>2, <2>3 DEF Forked
  <2>5. PlanOf(m)'
    <3>1. plan'.mapping = [t \in Types |-> IF t \in Forked' THEN "ss" ELSE m[t]]
      BY <1>4, <2>2, <2>4
    <3>2. plan'.served = {t \in Types : t \in Forked' \/ (m[t] = Absent /\ Default \in Forked')}
      BY <1>4, <2>2, <2>4
    <3>3. \A e \in Edits' : IF e.obj \in OldSchemes THEN Forked' = {t \in Types : m[t] = e.obj}
                                                    ELSE e.key \in Forked'
      <4> SUFFICES ASSUME NEW e \in Edits'
                   PROVE  IF e.obj \in OldSchemes THEN Forked' = {t \in Types : m[t] = e.obj}
                                                   ELSE e.key \in Forked'
        OBVIOUS
      <4>1. CASE direct
        <5>1. types = {t \in Types : itss[i][t] = s} /\ e.obj = s
          BY <1>1, <1>8, <4>1 DEF PlanFrom
        <5>2. types = {t \in Types : m[t] = s}
          BY <2>2, <5>1
        <5> QED
          BY <2>4, <5>1, <5>2
      <4>2. CASE ~direct
        <5>1. e.obj = i /\ e.key \in types
          BY <1>8, <4>2
        <5>2. i \notin OldSchemes
          BY <1>3 DEF OldSchemes, OldItsses
        <5> QED
          BY <2>4, <5>1, <5>2
      <4> QED
        BY <4>1, <4>2
    <3>4. "ss" \in Steps' => plan'.repoint \/ \A t \in Forked' : \E e \in Edits' : e.key = t
      <4> SUFFICES ASSUME "ss" \in Steps', ~plan'.repoint, NEW t \in types
                   PROVE  \E e \in Edits' : e.key = t
        BY <2>4
      <4>1. Edits' = {EditMapping(i, u) : u \in types}
        BY <1>6, <1>7
      <4>2. EditMapping(i, t) \in Edits' /\ EditMapping(i, t).key = t
        BY <4>1 DEF EditMapping
      <4> QED
        BY <4>2
    <3> QED
      BY <3>1, <3>2, <3>3, <3>4, <1>6 DEF PlanOf
  <2>6. \A e \in Edits' : e.back = IF e.obj \in OldSchemes THEN f[e.obj] ELSE m[e.key]
    BY <1>3, <1>8, <2>2 DEF OldSchemes, OldItsses
  <2>7. Began(m, f)'
    BY <1>2, <1>5, <2>2, <2>5, <2>6 DEF Began
  <2> QED
    BY <2>7 DEF BeganSomehow
<1> QED
  BY <1>9, <1>11, <1>12, <1>13, <1>14, <1>15, <1>16 DEF IInv

(***************************************************************************)
(* What each kind of request leaves of the path                            *)
(***************************************************************************)

PathTrue == PlanTyped /\ WorldTyped /\ OthersApart /\ BeganSomehow

(* What every step after the preview does with the plan and its notes.       *)
Noted ==
  /\ plan' = plan /\ failed' \in BOOLEAN
  /\ mishaps' \subseteq {"cleanup", "lost", "joined"}
  /\ "joined" \in mishaps => "joined" \in mishaps'

(* Nothing, or the delete of a clone.                                        *)
LEMMA DeleteWorld ==
  ASSUME IInv, Noted, UNCHANGED <<top, itss, ss, view>>, exists' \subseteq exists
  PROVE  /\ PathTrue' /\ Steps' = Steps /\ Edits' = Edits /\ Home' = Home
         /\ Repoints' = Repoints /\ Pristine' = Pristine
         /\ \A e : Value(e)' = Value(e)
<1>1. /\ PlanTyped' /\ Steps' = Steps /\ Edits' = Edits /\ Home' = Home /\ Repoints' = Repoints
      /\ \A m : PlanOf(m)' <=> PlanOf(m)
  BY PlanStays DEF IInv, Noted
<1>2. UNCHANGED Shown
  BY DEF Shown, Scheme
<1>3. \A e : Value(e)' = Value(e)
  BY DEF Value
<1>4. WorldTyped'
  BY <1>1 DEF IInv, WorldTyped, Noted
<1>5. OthersApart'
  BY <1>1, <1>2 DEF IInv, OthersApart, Noted
<1>6. BeganSomehow'
  <2>1. PICK m \in Mappings, f \in [OldSchemes -> OldScreens] : Began(m, f)
    BY DEF IInv, BeganSomehow
  <2>2. Began(m, f)'
    BY <1>1, <2>1 DEF Began, Noted
  <2> QED
    BY <2>2 DEF BeganSomehow
<1>7. Pristine' = Pristine
  BY <1>1, <1>3 DEF Pristine
<1> QED
  BY <1>1, <1>3, <1>4, <1>5, <1>6, <1>7 DEF PathTrue

(* A PUT of an edit, or of what it replaced.                                 *)
LEMMA PutWorld ==
  ASSUME IInv, Noted, plan # NoPlan, NEW e \in Edits, NEW v \in {e.to, e.back}, NEW a \in Answers,
         Put(e, v, a), UNCHANGED <<top, exists, view>>
  PROVE  /\ PathTrue' /\ Steps' = Steps /\ Edits' = Edits /\ Home' = Home
         /\ Repoints' = Repoints
         /\ ss'["ss"] = ss["ss"] /\ itss'["itss"] = itss["itss"]
         /\ Value(e)' = IF Lands(a) THEN v ELSE Value(e)
         /\ \A g \in Edits : g # e => Value(g)' = Value(g)
         /\ ~Repoints /\ top[Target] = Home
<1>1. /\ PlanTyped' /\ Steps' = Steps /\ Edits' = Edits /\ Home' = Home /\ Repoints' = Repoints
      /\ \A m : PlanOf(m)' <=> PlanOf(m)
  BY PlanStays DEF IInv, Noted
<1>2. /\ itss' \in [Itsses -> [Types -> Schemes \union {Absent}]]
      /\ ss' \in [Schemes -> OldScreens \union {"screen"}]
      /\ \A i \in Itsses : itss'[i][Default] # Absent
      /\ \A i \in Itsses, t \in Types : itss'[i][t] = "ss" => "ss" \in Steps
      /\ \A s \in Schemes : ss'[s] = "screen" => "screen" \in Steps
      /\ ss'["ss"] = ss["ss"] /\ itss'["itss"] = itss["itss"]
      /\ Value(e)' = IF Lands(a) THEN v ELSE Value(e)
      /\ \A g \in Edits : g # e => Value(g)' = Value(g)
      /\ \A t \in Types : itss'[Home][t] = itss[Home][t] \/ \E g \in Edits : g.obj = Home /\ g.key = t
      /\ \A s \in OldSchemes : ss'[s] = ss[s] \/ \E g \in Edits : g.obj = s
      /\ "joined" \notin mishaps =>
           \A p \in Others : itss'[top[p]] = itss[top[p]] /\ Shown[p]' = Shown[p]
  BY PutKeeps DEF Noted
<1>3. WorldTyped'
  BY <1>1, <1>2 DEF IInv, WorldTyped, Noted
<1>4. OthersApart'
  BY <1>1, <1>2 DEF IInv, OthersApart, Noted
<1>5. BeganSomehow'
  <2>1. PICK m \in Mappings, f \in [OldSchemes -> OldScreens] : Began(m, f)
    BY DEF IInv, BeganSomehow
  <2>2. Began(m, f)'
    BY <1>1, <1>2, <2>1 DEF Began, Noted
  <2> QED
    BY <2>2 DEF BeganSomehow
<1>6. ~Repoints /\ top[Target] = Home
  BY PlanFacts DEF IInv, WorldTyped
<1> QED
  BY <1>1, <1>2, <1>3, <1>4, <1>5, <1>6 DEF PathTrue

(* A re-point of the project, to the clone or back.                          *)
LEMMA PointWorld ==
  ASSUME IInv, Noted, plan # NoPlan, Repoints, NEW i \in {"itss", Home}, NEW a \in Answers,
         Point(i, a), UNCHANGED <<itss, ss, exists, view>>
  PROVE  /\ PathTrue' /\ Steps' = Steps /\ Edits' = Edits /\ Home' = Home
         /\ Repoints' = Repoints /\ Edits = {}
         /\ top'[Target] = IF Lands(a) THEN i ELSE top[Target]
         /\ \A e : Value(e)' = Value(e)
<1>1. /\ PlanTyped' /\ Steps' = Steps /\ Edits' = Edits /\ Home' = Home /\ Repoints' = Repoints
      /\ \A m : PlanOf(m)' <=> PlanOf(m)
  BY PlanStays DEF IInv, Noted
<1>2. Edits = {} /\ "itss" \in Steps /\ Home \in OldItsses /\ top \in [Projects -> Itsses]
  BY PlanFacts DEF IInv, WorldTyped, PlanTyped
<1>3. /\ top' \in [Projects -> Itsses] /\ \A p \in Others : top'[p] = top[p]
      /\ top'[Target] = IF Lands(a) THEN i ELSE top[Target]
  BY <1>2, ForkIsolateAssumption DEF Point, Projects, Itsses, OldItsses
<1>4. WorldTyped'
  <2>1. \A p \in Projects : top'[p] = "itss" => "itss" \in Steps
    BY <1>2
  <2> QED
    BY <1>1, <1>3, <2>1 DEF IInv, WorldTyped, Noted
<1>5. OthersApart'
  <2>1. \A p \in Others : Shown[p]' = Shown[p]
    BY <1>3 DEF Shown, Scheme, Projects
  <2> QED
    BY <1>1, <1>3, <2>1 DEF IInv, OthersApart, Noted
<1>6. BeganSomehow'
  <2>1. PICK m \in Mappings, f \in [OldSchemes -> OldScreens] : Began(m, f)
    BY DEF IInv, BeganSomehow
  <2>2. Began(m, f)'
    BY <1>1, <2>1 DEF Began, Noted
  <2> QED
    BY <2>2 DEF BeganSomehow
<1>7. \A e : Value(e)' = Value(e)
  BY DEF Value
<1> QED
  BY <1>1, <1>2, <1>3, <1>4, <1>5, <1>6, <1>7 DEF PathTrue

(* The POST of a clone.                                                      *)
LEMMA PostWorld ==
  ASSUME IInv, Noted, plan # NoPlan, NEW x \in Steps, NEW a \in Answers,
         Post(x, a), UNCHANGED <<top, view>>
  PROVE  /\ PathTrue' /\ Steps' = Steps /\ Edits' = Edits /\ Home' = Home
         /\ Repoints' = Repoints /\ Pristine' = Pristine
         /\ \A e \in Edits : Value(e)' = Value(e)
         /\ exists' = IF Lands(a) THEN exists \union {x} ELSE exists
         /\ ss'["ss"] = IF Lands(a) /\ x = "ss" THEN plan.scheme ELSE ss["ss"]
         /\ itss'["itss"] = IF Lands(a) /\ x = "itss" THEN plan.mapping ELSE itss["itss"]
<1>1. /\ PlanTyped' /\ Steps' = Steps /\ Edits' = Edits /\ Home' = Home /\ Repoints' = Repoints
      /\ \A m : PlanOf(m)' <=> PlanOf(m)
  BY PlanStays DEF IInv, Noted
<1>2. /\ itss \in [Itsses -> [Types -> Schemes \union {Absent}]]
      /\ ss \in [Schemes -> OldScreens \union {"screen"}]
      /\ \A i \in Itsses : itss[i][Default] # Absent
      /\ \A i \in Itsses, t \in Types : itss[i][t] = "ss" => "ss" \in Steps
      /\ \A s \in Schemes : ss[s] = "screen" => "screen" \in Steps
      /\ Home \in OldItsses
      /\ plan.mapping \in [Types -> Schemes \union {Absent}] /\ plan.mapping[Default] # Absent
      /\ plan.scheme \in OldScreens \union ({"screen"} \intersect Steps)
      /\ \A e \in Edits : EditTyped(e)
  BY DEF IInv, WorldTyped, PlanTyped
<1>3. "itss" \in Steps => "ss" \in Steps
  <2>1. /\ Elems(<<"screen">>) = {"screen"} /\ Elems(<<"ss">>) = {"ss"}
        /\ Elems(<<"screen", "ss">>) = {"screen", "ss"} /\ Elems(<<"ss", "itss">>) = {"ss", "itss"}
        /\ Elems(<<"screen", "ss", "itss">>) = {"screen", "ss", "itss"}
    BY ShortElems
  <2>2. Steps = Elems(plan.steps)
    BY DEF Steps
  <2>3. plan.steps \in {<<"screen">>, <<"screen", "ss">>, <<"screen", "ss", "itss">>,
                       <<"ss">>, <<"ss", "itss">>}
    BY DEF IInv, PlanTyped
  <2> QED
    BY <2>1, <2>2, <2>3
<1>4. /\ exists' = IF Lands(a) THEN exists \union {x} ELSE exists
      /\ ss' = IF Lands(a) /\ x = "ss" THEN [ss EXCEPT !["ss"] = plan.scheme] ELSE ss
      /\ itss' = IF Lands(a) /\ x = "itss" THEN [itss EXCEPT !["itss"] = plan.mapping] ELSE itss
  BY DEF Post
<1>5. /\ ss' \in [Schemes -> OldScreens \union {"screen"}]
      /\ \A s \in Schemes : ss'[s] = "screen" => "screen" \in Steps
      /\ \A s \in OldSchemes : ss'[s] = ss[s]
      /\ ss'["ss"] = IF Lands(a) /\ x = "ss" THEN plan.scheme ELSE ss["ss"]
  BY <1>2, <1>4 DEF Schemes, OldSchemes, OldScreens
<1>6. /\ itss' \in [Itsses -> [Types -> Schemes \union {Absent}]]
      /\ \A i \in Itsses : itss'[i][Default] # Absent
      /\ \A i \in Itsses, t \in Types : itss'[i][t] = "ss" => "ss" \in Steps
      /\ \A i \in OldItsses : itss'[i] = itss[i]
      /\ itss'["itss"] = IF Lands(a) /\ x = "itss" THEN plan.mapping ELSE itss["itss"]
  BY <1>2, <1>3, <1>4 DEF Itsses, OldItsses
<1>7. WorldTyped'
  BY <1>1, <1>4, <1>5, <1>6 DEF IInv, WorldTyped, Noted
<1>8. \A e \in Edits : Value(e)' = Value(e)
  BY <1>2, <1>5, <1>6 DEF Value, EditTyped, OldSchemes, Schemes, OldItsses
<1>9. Pristine' = Pristine
  BY <1>1, <1>8 DEF Pristine
<1>10. OthersApart'
  <2>1. ASSUME "joined" \notin mishaps, NEW p \in Others
        PROVE  itss'[top[p]] = itss[top[p]] /\ Shown[p]' = Shown[p]
    <3>1. itss'[top[p]] = itss[top[p]] /\ \A t \in Types : itss[top[p]][t] \in OldSchemes \union {Absent}
      BY <1>6, <2>1 DEF IInv, OthersApart
    <3>2. itss[top[p]][Default] # Absent
      BY <1>2, <2>1 DEF IInv, OthersApart, OldItsses, Itsses
    <3>3. \A t \in Types : Scheme(p, t)' = Scheme(p, t) /\ Scheme(p, t) \in OldSchemes
      BY <3>1, <3>2, ForkIsolateAssumption DEF Scheme, SchemeIn
    <3> QED
      BY <1>5, <3>1, <3>3 DEF Shown, Projects
  <2> QED
    BY <1>1, <2>1 DEF IInv, OthersApart, Noted
<1>11. BeganSomehow'
  <2>1. PICK m \in Mappings, f \in [OldSchemes -> OldScreens] : Began(m, f)
    BY DEF IInv, BeganSomehow
  <2>2. Began(m, f)'
    BY <1>1, <1>2, <1>5, <1>6, <2>1 DEF Began, Noted
  <2> QED
    BY <2>2 DEF BeganSomehow
<1> QED
  BY <1>1, <1>4, <1>5, <1>6, <1>7, <1>8, <1>9, <1>10, <1>11 DEF PathTrue

(***************************************************************************)
(* The steps of a run                                                      *)
(***************************************************************************)

RunTrue == RunTyped /\ PhaseTrue /\ ForwardTrue /\ CleanupTrue /\ ClonesStay /\ UndoTrue

LEMMA Together == IInv <=> PathTrue /\ RunTrue
  BY DEF IInv, PathTrue, RunTrue

LEMMA ExecuteKeepsIInv ==
  ASSUME IInv, Execute
  PROVE  IInv'
<1>1. /\ pc = "idle" /\ plan # NoPlan /\ outcome = "none" /\ pc' = "clone" /\ todo' = plan.steps
      /\ UNCHANGED <<top, itss, ss, exists, plan, applied, created, failed, outcome, entry, view, mishaps>>
  BY DEF Execute, jira
<1>2. Noted
  BY <1>1 DEF IInv, WorldTyped, Noted
<1>3. /\ PathTrue' /\ Steps' = Steps /\ Edits' = Edits /\ Home' = Home /\ Repoints' = Repoints
      /\ Pristine' = Pristine /\ \A e : Value(e)' = Value(e)
  BY <1>1, <1>2, DeleteWorld
<1>4. /\ entry = "none" /\ applied = <<>> /\ created = <<>> /\ exists = {}
      /\ Pristine /\ ~failed /\ mishaps \subseteq {"joined"}
  BY <1>1 DEF IInv, PhaseTrue
<1>5. plan.steps \in Seq(Clones) /\ plan.steps # <<>> /\ Steps = Elems(plan.steps)
  BY <1>1, PlanFacts DEF IInv
<1>6. Elems(created) = {}
  BY <1>4, EmptyElems
<1>7. RunTyped'
  BY <1>1, <1>5 DEF IInv, RunTyped
<1>8. PhaseTrue'
  BY <1>1, <1>3, <1>4, <1>5, <1>6 DEF PhaseTrue, Running, Undoing
<1>9. ForwardTrue' /\ CleanupTrue' /\ ClonesStay' /\ UndoTrue'
  BY <1>1, <1>3, <1>4, <1>6 DEF ForwardTrue, CleanupTrue, ClonesStay, UndoTrue
<1> QED
  BY <1>3, <1>7, <1>8, <1>9, Together DEF RunTrue, IInv, PathTrue

LEMMA StopKeepsIInv ==
  ASSUME IInv, Stop
  PROVE  IInv'
<1>1. /\ pc # "idle" /\ pc' = "idle" /\ outcome' = "stopped"
      /\ UNCHANGED <<top, itss, ss, exists, plan, applied, created, failed, entry, view, mishaps>>
  BY DEF Stop, jira
<1>2. Noted
  BY <1>1 DEF IInv, WorldTyped, Noted
<1>3. /\ PathTrue' /\ Steps' = Steps /\ Edits' = Edits /\ Home' = Home /\ Repoints' = Repoints
      /\ Pristine' = Pristine /\ \A e : Value(e)' = Value(e)
  BY <1>1, <1>2, DeleteWorld
<1>4. RunTyped'
  BY <1>1 DEF IInv, RunTyped
<1>5. PhaseTrue'
  BY <1>1, <1>3 DEF IInv, PhaseTrue, Running, Undoing
<1>6. ForwardTrue' /\ CleanupTrue' /\ ClonesStay' /\ UndoTrue'
  BY <1>1, <1>3 DEF IInv, ForwardTrue, CleanupTrue, ClonesStay, UndoTrue, Running
<1> QED
  BY <1>3, <1>4, <1>5, <1>6 DEF IInv, PathTrue

LEMMA RecordKeepsIInv ==
  ASSUME IInv, Record
  PROVE  IInv'
<1>1. /\ pc = "record" /\ pc' = "idle" /\ outcome' = "ok" /\ entry' = "active"
      /\ UNCHANGED <<top, itss, ss, exists, plan, applied, created, failed, view, mishaps>>
  BY DEF Record, jira
<1>2. Noted
  BY <1>1 DEF IInv, WorldTyped, Noted
<1>3. /\ PathTrue' /\ Steps' = Steps /\ Edits' = Edits /\ Home' = Home /\ Repoints' = Repoints
      /\ Pristine' = Pristine /\ \A e : Value(e)' = Value(e)
  BY <1>1, <1>2, DeleteWorld
<1>4. RunTyped'
  BY <1>1 DEF IInv, RunTyped
<1>5. /\ plan # NoPlan /\ Elems(created) = Steps /\ Elems(applied) = Edits /\ exists = Elems(created)
  BY <1>1 DEF IInv, PhaseTrue, ForwardTrue
<1>6. PhaseTrue'
  BY <1>1, <1>3, <1>5 DEF PhaseTrue, Running, Undoing
<1>7. ForwardTrue'
  BY <1>1, <1>3 DEF IInv, ForwardTrue
<1>8. CleanupTrue' /\ ClonesStay' /\ UndoTrue'
  BY <1>1, <1>3, <1>5 DEF CleanupTrue, ClonesStay, UndoTrue, Running
<1> QED
  BY <1>3, <1>4, <1>6, <1>7, <1>8 DEF IInv, PathTrue

(* The beginning of a cleanup, after whatever made it necessary.             *)
LEMMA CleanupStarts ==
  ASSUME IInv, Noted, plan # NoPlan, pc \in {"clone", "edit", "repoint"},
         UNCHANGED <<applied, failed, entry>>, StartCleanup(created'),
         Steps' = Steps, Edits' = Edits, Home' = Home, Repoints' = Repoints,
         created' \in Seq(Clones), Elems(created') \subseteq Steps, Elems(applied) \subseteq Edits,
         applied # <<>> => Elems(created') = Steps,
         "ss" \in Elems(created') => ss'["ss"] = plan.scheme,
         "itss" \in Elems(created') => itss'["itss"] = plan.mapping,
         "lost" \notin mishaps' =>
           /\ exists' = Elems(created') /\ top'[Target] = Home
           /\ \A e \in Edits \ Elems(applied) : Value(e)' = e.back
  PROVE  RunTrue'
<1>1. entry = "none" /\ outcome = "none" /\ ~failed /\ entry' = "none" /\ applied' = applied /\ ~failed'
  BY DEF IInv, PhaseTrue, ForwardTrue, Running
<1>2. applied \in Seq(EditRecord) /\ (applied = <<>> => Elems(applied) = {})
      /\ (created' = <<>> => Elems(created') = {})
  BY EmptyElems DEF IInv, RunTyped
<1>3. \/ applied # <<>> /\ pc' = "revert" /\ todo' = applied /\ outcome' = "none"
      \/ applied = <<>> /\ created' = <<>> /\ pc' = "idle" /\ todo' = <<>> /\ outcome' = "failed"
      \/ applied = <<>> /\ created' # <<>> /\ pc' = "delete" /\ todo' = created' /\ outcome' = "none"
  BY <1>1 DEF StartCleanup, StartDelete
<1>4. "lost" \notin mishaps' /\ applied = <<>> => Pristine'
  BY <1>2 DEF Pristine
<1>5. RunTyped'
  BY <1>1, <1>2, <1>3 DEF RunTyped
<1>6. PhaseTrue'
  BY <1>1, <1>3 DEF PhaseTrue, Running, Undoing, Noted
<1>7. ForwardTrue'
  BY <1>1, <1>3 DEF ForwardTrue, Noted
<1>8. CleanupTrue'
  BY <1>1, <1>2, <1>3, <1>4 DEF CleanupTrue
<1>9. ClonesStay'
  BY <1>1, <1>4 DEF ClonesStay
<1>10. UndoTrue'
  BY <1>3 DEF UndoTrue
<1> QED
  BY <1>5, <1>6, <1>7, <1>8, <1>9, <1>10 DEF RunTrue

LEMMA CloneKeepsIInv ==
  ASSUME IInv, NEW a \in Answers, Clone(a)
  PROVE  IInv'
<1> DEFINE x == Head(todo)
<1>1. /\ pc = "clone" /\ Post(x, a) /\ mishaps' = mishaps \union Lost(a)
      /\ UNCHANGED <<top, plan, applied, failed, entry, view>>
  BY DEF Clone
<1>2. plan # NoPlan
  BY <1>1 DEF IInv, PhaseTrue
<1>3. /\ todo \in Seq(Clones) /\ todo # <<>> /\ Elems(created) \union Elems(todo) = Steps
      /\ applied = <<>> /\ applied \in Seq(EditRecord) /\ created \in Seq(Clones)
      /\ entry = "none" /\ outcome = "none" /\ ~failed /\ failed \in BOOLEAN
      /\ "lost" \notin mishaps /\ exists = Elems(created) /\ Pristine
      /\ "ss" \in Elems(created) => ss["ss"] = plan.scheme
      /\ "itss" \in Elems(created) => itss["itss"] = plan.mapping
  BY <1>1 DEF IInv, RunTyped, PhaseTrue, ForwardTrue, Running, WorldTyped
<1>4. /\ x \in Clones /\ Tail(todo) \in Seq(Clones) /\ x \in Elems(todo)
      /\ Elems(todo) = {x} \union Elems(Tail(todo))
  BY <1>3, HeadTailElems
<1>5. x \in Steps /\ Elems(applied) = {} /\ (Tail(todo) = <<>> => Elems(Tail(todo)) = {})
  BY <1>3, <1>4, EmptyElems
<1>6. Noted
  BY <1>1 DEF IInv, WorldTyped, Noted, Lost
<1> HIDE DEF x
<1>7. /\ PathTrue' /\ Steps' = Steps /\ Edits' = Edits /\ Home' = Home
      /\ Repoints' = Repoints /\ Pristine' = Pristine
      /\ \A e \in Edits : Value(e)' = Value(e)
      /\ exists' = IF Lands(a) THEN exists \union {x} ELSE exists
      /\ ss'["ss"] = IF Lands(a) /\ x = "ss" THEN plan.scheme ELSE ss["ss"]
      /\ itss'["itss"] = IF Lands(a) /\ x = "itss" THEN plan.mapping ELSE itss["itss"]
  BY <1>1, <1>2, <1>5, <1>6, PostWorld
<1>8. CASE a = "ok"
  <2>1. /\ created' = <<x>> \o created
        /\ todo' = IF Tail(todo) = <<>> /\ plan.edits # <<>> THEN plan.edits ELSE Tail(todo)
        /\ pc' = IF Tail(todo) = <<>> THEN AfterClones ELSE "clone"
        /\ outcome' = outcome
    BY <1>8 DEF Clone, x
  <2>2. created' \in Seq(Clones) /\ Elems(created') = {x} \union Elems(created)
    BY <1>3, <1>4, <2>1, ConsElems
  <2>3. Lands(a) /\ Lost(a) = {}
    BY <1>8 DEF Lands, Lost
  <2>4. /\ exists' = Elems(created') /\ mishaps' = mishaps
        /\ "ss" \in Elems(created') => ss'["ss"] = plan.scheme
        /\ "itss" \in Elems(created') => itss'["itss"] = plan.mapping
    BY <1>1, <1>3, <1>7, <2>2, <2>3
  <2>5. Elems(created') \union Elems(Tail(todo)) = Steps
    BY <1>3, <1>4, <2>2
  <2>6. /\ plan.edits \in Seq(EditRecord) /\ Elems(plan.edits) = Edits
        /\ plan.edits = <<>> <=> Edits = {}
        /\ plan.edits = <<>> <=> Repoints
    BY <1>2, PlanFacts DEF IInv, PlanTyped
  <2>7. \/ Tail(todo) # <<>> /\ pc' = "clone" /\ todo' = Tail(todo)
        \/ Elems(created') = Steps /\ pc' = "edit" /\ todo' = plan.edits /\ plan.edits # <<>>
        \/ Elems(created') = Steps /\ pc' = "repoint" /\ Repoints
    BY <1>5, <2>1, <2>5, <2>6, <1>2 DEF AfterClones, AfterEdits, Repoints
  <2>8. RunTyped'
    BY <1>1, <1>3, <1>4, <2>2, <2>6, <2>7 DEF RunTyped
  <2>9. PhaseTrue'
    BY <1>1, <1>2, <1>3, <1>5, <1>7, <2>1, <2>5, <2>6, <2>7 DEF PhaseTrue, Running, Undoing
  <2>10. ForwardTrue'
    BY <1>1, <1>3, <1>5, <1>7, <2>4, <2>7 DEF ForwardTrue, Pristine
  <2>11. CleanupTrue' /\ ClonesStay' /\ UndoTrue'
    BY <1>1, <1>3, <1>7, <2>7 DEF CleanupTrue, ClonesStay, UndoTrue
  <2> QED
    BY <1>7, <2>8, <2>9, <2>10, <2>11, Together DEF RunTrue, IInv, PathTrue
<1>9. CASE a # "ok"
  <2>1. StartCleanup(created') /\ created' = created
    BY <1>9 DEF Clone
  <2>2. "lost" \notin mishaps' => ~Lands(a)
    BY <1>1, <1>9 DEF Lands, Lost
  <2>3. a # "lost" => ~Lands(a)
    BY <1>9 DEF Lands
  <2>4. /\ "ss" \in Elems(created) => ss'["ss"] = plan.scheme
        /\ "itss" \in Elems(created) => itss'["itss"] = plan.mapping
    BY <1>3, <1>7
  <2>5. "lost" \notin mishaps' =>
           /\ exists' = Elems(created) /\ top'[Target] = Home
           /\ \A e \in Edits \ Elems(applied) : Value(e)' = e.back
    BY <1>1, <1>3, <1>7, <2>2 DEF Pristine
  <2>6. RunTrue'
    BY <1>1, <1>2, <1>3, <1>5, <1>6, <1>7, <2>1, <2>4, <2>5, CleanupStarts
  <2> QED
    BY <1>7, <2>6 DEF RunTrue, IInv, PathTrue
<1> QED
  BY <1>8, <1>9

LEMMA CopyFailsKeepsIInv ==
  ASSUME IInv, CopyFails
  PROVE  IInv'
<1> DEFINE x == "screen"
<1>1. /\ pc = "clone" /\ Head(todo) = x /\ Post(x, "ok") /\ created' = <<x>> \o created
      /\ StartCleanup(created')
      /\ UNCHANGED <<top, plan, applied, failed, entry, view, mishaps>>
  BY DEF CopyFails
<1>2. plan # NoPlan
  BY <1>1 DEF IInv, PhaseTrue
<1>3. /\ todo \in Seq(Clones) /\ todo # <<>> /\ Elems(created) \union Elems(todo) = Steps
      /\ applied = <<>> /\ created \in Seq(Clones)
      /\ exists = Elems(created) /\ Pristine
      /\ "ss" \in Elems(created) => ss["ss"] = plan.scheme
      /\ "itss" \in Elems(created) => itss["itss"] = plan.mapping
  BY <1>1 DEF IInv, RunTyped, PhaseTrue, ForwardTrue
<1>4. x \in Clones /\ x \in Elems(todo) /\ x \in Steps /\ Elems(applied) = {}
  BY <1>1, <1>3, HeadTailElems, EmptyElems
<1>5. Noted
  BY <1>1 DEF IInv, WorldTyped, Noted
<1>6. "ok" \in Answers /\ Lands("ok")
  BY DEF Answers, Lands
<1>7. /\ PathTrue' /\ Steps' = Steps /\ Edits' = Edits /\ Home' = Home
      /\ Repoints' = Repoints /\ Pristine' = Pristine
      /\ \A e \in Edits : Value(e)' = Value(e)
      /\ exists' = exists \union {x} /\ ss'["ss"] = ss["ss"] /\ itss'["itss"] = itss["itss"]
  BY <1>1, <1>2, <1>4, <1>5, <1>6, PostWorld
<1>8. created' \in Seq(Clones) /\ Elems(created') = {x} \union Elems(created)
  BY <1>1, <1>3, <1>4, ConsElems
<1>9. Elems(created') \subseteq Steps /\ exists' = Elems(created')
  BY <1>3, <1>4, <1>7, <1>8
<1>10. /\ "ss" \in Elems(created') => ss'["ss"] = plan.scheme
       /\ "itss" \in Elems(created') => itss'["itss"] = plan.mapping
       /\ top'[Target] = Home /\ \A e \in Edits : Value(e)' = e.back
  BY <1>1, <1>3, <1>7, <1>8 DEF Pristine
<1>11. RunTrue'
  BY <1>1, <1>2, <1>3, <1>4, <1>5, <1>7, <1>8, <1>9, <1>10, CleanupStarts
<1> QED
  BY <1>7, <1>11 DEF RunTrue, IInv, PathTrue

LEMMA EditKeepsIInv ==
  ASSUME IInv, NEW a \in Answers, Edit(a)
  PROVE  IInv'
<1>0. PICK e : e = Head(todo)
  OBVIOUS
<1>1. /\ pc = "edit" /\ Put(e, e.to, a) /\ mishaps' = mishaps \union Lost(a)
      /\ UNCHANGED <<top, exists, plan, created, failed, entry, view>>
  BY <1>0 DEF Edit
<1>2. plan # NoPlan
  BY <1>1 DEF IInv, PhaseTrue
<1>3. /\ todo \in Seq(EditRecord) /\ todo # <<>> /\ Elems(applied) \union Elems(todo) = Edits
      /\ applied \in Seq(EditRecord) /\ created \in Seq(Clones) /\ Elems(created) = Steps
      /\ entry = "none" /\ outcome = "none" /\ ~failed /\ failed \in BOOLEAN
      /\ "lost" \notin mishaps /\ exists = Elems(created)
      /\ \A g \in Edits \ Elems(applied) : Value(g) = g.back
      /\ \A g \in Elems(applied) : Value(g) = g.to
      /\ "ss" \in Elems(created) => ss["ss"] = plan.scheme
      /\ "itss" \in Elems(created) => itss["itss"] = plan.mapping
  BY <1>1 DEF IInv, RunTyped, PhaseTrue, ForwardTrue, Running, WorldTyped
<1>4. /\ e \in EditRecord /\ Tail(todo) \in Seq(EditRecord) /\ e \in Elems(todo)
      /\ Elems(todo) = {e} \union Elems(Tail(todo))
  BY <1>0, <1>3, HeadTailElems
<1>5. e \in Edits /\ (Tail(todo) = <<>> => Elems(Tail(todo)) = {})
  BY <1>3, <1>4, EmptyElems
<1>6. Noted
  BY <1>1 DEF IInv, WorldTyped, Noted, Lost
<1>7. /\ PathTrue' /\ Steps' = Steps /\ Edits' = Edits /\ Home' = Home
      /\ Repoints' = Repoints
      /\ ss'["ss"] = ss["ss"] /\ itss'["itss"] = itss["itss"]
      /\ Value(e)' = IF Lands(a) THEN e.to ELSE Value(e)
      /\ \A g \in Edits : g # e => Value(g)' = Value(g)
      /\ ~Repoints /\ top[Target] = Home
  BY <1>1, <1>2, <1>5, <1>6, PutWorld
<1>8. CASE a = "ok"
  <2>1. /\ applied' = <<e>> \o applied /\ todo' = Tail(todo) /\ outcome' = outcome
        /\ pc' = IF Tail(todo) = <<>> THEN AfterEdits ELSE "edit"
    BY <1>0, <1>8 DEF Edit
  <2>2. applied' \in Seq(EditRecord) /\ Elems(applied') = {e} \union Elems(applied)
    BY <1>3, <1>4, <2>1, ConsElems
  <2>3. Lands(a) /\ mishaps' = mishaps
    BY <1>1, <1>8 DEF Lands, Lost
  <2>4. AfterEdits = "record"
    BY <1>2, <1>7 DEF AfterEdits, Repoints
  <2>5. /\ Elems(applied') \union Elems(Tail(todo)) = Edits
        /\ Tail(todo) = <<>> => Elems(applied') = Edits
    BY <1>3, <1>4, <1>5, <2>2
  <2>6. /\ \A g \in Edits \ Elems(applied') : Value(g)' = g.back
        /\ \A g \in Elems(applied') : Value(g)' = g.to
    BY <1>3, <1>7, <2>2, <2>3
  <2>7. RunTyped'
    BY <1>1, <1>3, <1>4, <2>1, <2>2, <2>4 DEF IInv, RunTyped
  <2>8. PhaseTrue'
    BY <1>1, <1>2, <1>3, <1>7, <2>1, <2>4, <2>5 DEF PhaseTrue, Running, Undoing
  <2>9. ForwardTrue'
    BY <1>1, <1>3, <1>7, <2>1, <2>3, <2>4, <2>5, <2>6 DEF ForwardTrue
  <2>10. CleanupTrue' /\ ClonesStay' /\ UndoTrue'
    BY <1>1, <1>3, <1>7, <2>1, <2>4 DEF CleanupTrue, ClonesStay, UndoTrue
  <2> QED
    BY <1>7, <2>7, <2>8, <2>9, <2>10 DEF IInv, PathTrue
<1>9. CASE a # "ok"
  <2>1. StartCleanup(created') /\ applied' = applied
    BY <1>1, <1>9 DEF Edit
  <2>2. "lost" \notin mishaps' => ~Lands(a)
    BY <1>1, <1>9 DEF Lands, Lost
  <2>3. "lost" \notin mishaps' =>
           /\ exists' = Elems(created') /\ top'[Target] = Home
           /\ \A g \in Edits \ Elems(applied) : Value(g)' = g.back
    BY <1>1, <1>3, <1>7, <2>2
  <2>4. RunTrue'
    BY <1>1, <1>2, <1>3, <1>6, <1>7, <2>1, <2>3, CleanupStarts
  <2> QED
    BY <1>7, <2>4 DEF RunTrue, IInv, PathTrue
<1> QED
  BY <1>8, <1>9

LEMMA RepointKeepsIInv ==
  ASSUME IInv, NEW a \in Answers, Repoint(a)
  PROVE  IInv'
<1>1. /\ pc = "repoint" /\ Point("itss", a) /\ mishaps' = mishaps \union Lost(a)
      /\ UNCHANGED <<itss, ss, exists, plan, applied, created, failed, entry, view>>
  BY DEF Repoint
<1>2. plan # NoPlan
  BY <1>1 DEF IInv, PhaseTrue
<1>3. /\ Repoints /\ applied = <<>> /\ created \in Seq(Clones) /\ Elems(created) = Steps
      /\ entry = "none" /\ outcome = "none" /\ ~failed /\ failed \in BOOLEAN
      /\ "lost" \notin mishaps /\ exists = Elems(created) /\ Pristine
      /\ "ss" \in Elems(created) => ss["ss"] = plan.scheme
      /\ "itss" \in Elems(created) => itss["itss"] = plan.mapping
  BY <1>1 DEF IInv, RunTyped, PhaseTrue, ForwardTrue, Running, WorldTyped
<1>4. Elems(applied) = {}
  BY <1>3, EmptyElems
<1>5. Noted
  BY <1>1 DEF IInv, WorldTyped, Noted, Lost
<1>6. /\ PathTrue' /\ Steps' = Steps /\ Edits' = Edits /\ Home' = Home
      /\ Repoints' = Repoints /\ Edits = {}
      /\ top'[Target] = IF Lands(a) THEN "itss" ELSE top[Target]
      /\ \A e : Value(e)' = Value(e)
  BY <1>1, <1>2, <1>3, <1>5, PointWorld
<1>7. CASE a = "ok"
  <2>1. pc' = "record" /\ outcome' = outcome /\ mishaps' = mishaps /\ top'[Target] = "itss"
    BY <1>1, <1>6, <1>7 DEF Repoint, Lost, Lands
  <2>2. RunTyped'
    BY <1>1, <2>1 DEF IInv, RunTyped
  <2>3. PhaseTrue'
    BY <1>1, <1>2, <1>3, <1>4, <1>6, <2>1 DEF PhaseTrue, Running, Undoing
  <2>4. ForwardTrue'
    BY <1>1, <1>3, <1>4, <1>6, <2>1 DEF ForwardTrue
  <2>5. CleanupTrue' /\ ClonesStay' /\ UndoTrue'
    BY <1>1, <1>3, <1>6, <2>1 DEF CleanupTrue, ClonesStay, UndoTrue
  <2> QED
    BY <1>6, <2>2, <2>3, <2>4, <2>5 DEF IInv, PathTrue
<1>8. CASE a # "ok"
  <2>1. StartCleanup(created')
    BY <1>1, <1>8 DEF Repoint
  <2>2. "lost" \notin mishaps' => ~Lands(a)
    BY <1>1, <1>8 DEF Lands, Lost
  <2>3. "lost" \notin mishaps' =>
           /\ exists' = Elems(created') /\ top'[Target] = Home
           /\ \A g \in Edits \ Elems(applied) : Value(g)' = g.back
    BY <1>1, <1>3, <1>6, <2>2 DEF Pristine
  <2>4. RunTrue'
    BY <1>1, <1>2, <1>3, <1>4, <1>5, <1>6, <2>1, <2>3, CleanupStarts
  <2> QED
    BY <1>6, <2>4 DEF RunTrue, IInv, PathTrue
<1> QED
  BY <1>7, <1>8

LEMMA RevertKeepsIInv ==
  ASSUME IInv, NEW a \in Answers, Revert(a)
  PROVE  IInv'
<1>0. PICK e : e = Head(todo)
  OBVIOUS
<1>1. /\ pc = "revert" /\ Put(e, e.back, a) /\ failed' = (failed \/ a # "ok")
      /\ mishaps' = mishaps \union Lost(a) \union Botched(a)
      /\ UNCHANGED <<top, exists, plan, applied, created, entry, view>>
  BY <1>0 DEF Revert
<1>2. plan # NoPlan
  BY <1>1 DEF IInv, PhaseTrue
<1>3. /\ todo \in Seq(EditRecord) /\ todo # <<>> /\ Elems(todo) \subseteq Edits
      /\ created \in Seq(Clones) /\ Elems(created) = Steps
      /\ entry = "none" /\ outcome = "none" /\ failed \in BOOLEAN
      /\ failed => "cleanup" \in mishaps
      /\ "lost" \notin mishaps =>
           /\ exists = Elems(created)
           /\ ~failed => \A g \in Edits \ Elems(todo) : Value(g) = g.back
      /\ "ss" \in Elems(created) => ss["ss"] = plan.scheme
      /\ "itss" \in Elems(created) => itss["itss"] = plan.mapping
  BY <1>1 DEF IInv, RunTyped, PhaseTrue, ForwardTrue, CleanupTrue, Running, WorldTyped
<1>4. /\ Tail(todo) \in Seq(EditRecord) /\ e \in Elems(todo)
      /\ Elems(todo) = {e} \union Elems(Tail(todo))
  BY <1>0, <1>3, HeadTailElems
<1>5. e \in Edits /\ (Tail(todo) = <<>> => Elems(Tail(todo)) = {}) /\ created # <<>>
  BY <1>2, <1>3, <1>4, EmptyElems, PlanFacts DEF IInv
<1>6. Noted
  BY <1>1, <1>3 DEF IInv, WorldTyped, Noted, Lost, Botched
<1>7. /\ PathTrue' /\ Steps' = Steps /\ Edits' = Edits /\ Home' = Home
      /\ Repoints' = Repoints
      /\ ss'["ss"] = ss["ss"] /\ itss'["itss"] = itss["itss"]
      /\ Value(e)' = IF Lands(a) THEN e.back ELSE Value(e)
      /\ \A g \in Edits : g # e => Value(g)' = Value(g)
      /\ ~Repoints /\ top[Target] = Home
  BY <1>1, <1>2, <1>5, <1>6, PutWorld
<1>8. /\ failed' => "cleanup" \in mishaps'
      /\ "lost" \notin mishaps' => "lost" \notin mishaps
      /\ ~failed' => ~failed /\ Lands(a)
  BY <1>1, <1>3 DEF Botched, Lands
<1>9. "lost" \notin mishaps' /\ ~failed' => \A g \in Edits \ Elems(Tail(todo)) : Value(g)' = g.back
  BY <1>3, <1>4, <1>7, <1>8
<1>10. \/ Tail(todo) # <<>> /\ pc' = "revert" /\ todo' = Tail(todo) /\ outcome' = "none"
       \/ failed' /\ pc' = "idle" /\ outcome' = "failed"
       \/ Tail(todo) = <<>> /\ ~failed' /\ pc' = "delete" /\ todo' = created /\ outcome' = "none"
  BY <1>1, <1>3, <1>5 DEF Revert, StartDelete
<1>11. Tail(todo) = <<>> /\ ~failed' /\ "lost" \notin mishaps' => Pristine'
  BY <1>1, <1>5, <1>7, <1>9 DEF Pristine
<1>12. RunTyped'
  BY <1>1, <1>3, <1>4, <1>5, <1>10 DEF IInv, RunTyped
<1>13. PhaseTrue'
  BY <1>1, <1>2, <1>3, <1>4, <1>7, <1>10 DEF PhaseTrue, Running, Undoing
<1>14. ForwardTrue'
  BY <1>1, <1>3, <1>7, <1>10 DEF ForwardTrue
<1>15. CleanupTrue'
  BY <1>1, <1>3, <1>7, <1>8, <1>9, <1>10, <1>11 DEF CleanupTrue
<1>16. ClonesStay' /\ UndoTrue'
  BY <1>1, <1>3, <1>7, <1>8, <1>10 DEF ClonesStay, UndoTrue
<1> QED
  BY <1>7, <1>12, <1>13, <1>14, <1>15, <1>16 DEF IInv, PathTrue

LEMMA CleanDeleteKeepsIInv ==
  ASSUME IInv, NEW a \in Answers, CleanDelete(a)
  PROVE  IInv'
<1>1. /\ pc = "delete" /\ Delete(Head(todo), a) /\ todo' = Tail(todo)
      /\ mishaps' = mishaps \union Lost(a) \union Botched(a)
      /\ UNCHANGED <<top, itss, ss, plan, applied, created, failed, entry, view>>
      /\ \/ Tail(todo) = <<>> /\ pc' = "idle" /\ outcome' = "failed"
         \/ Tail(todo) # <<>> /\ pc' = "delete" /\ outcome' = outcome
  BY DEF CleanDelete
<1>2. plan # NoPlan
  BY <1>1 DEF IInv, PhaseTrue
<1>3. /\ todo \in Seq(Clones) /\ todo # <<>> /\ Elems(todo) \subseteq Steps
      /\ entry = "none" /\ outcome = "none" /\ failed \in BOOLEAN
      /\ failed => "cleanup" \in mishaps
      /\ "lost" \notin mishaps => Pristine
      /\ "lost" \notin mishaps /\ "cleanup" \notin mishaps => exists \subseteq Elems(todo)
  BY <1>1 DEF IInv, RunTyped, PhaseTrue, CleanupTrue, Running, WorldTyped
<1>4. /\ Tail(todo) \in Seq(Clones)
      /\ Elems(todo) = {Head(todo)} \union Elems(Tail(todo))
      /\ Tail(todo) = <<>> => Elems(Tail(todo)) = {}
  BY <1>3, HeadTailElems, EmptyElems
<1>5. Noted
  BY <1>1, <1>3 DEF IInv, WorldTyped, Noted, Lost, Botched
<1>6. exists' \subseteq exists /\ (a = "ok" => exists' = exists \ {Head(todo)})
  BY <1>1 DEF Delete, Lands
<1>7. /\ PathTrue' /\ Steps' = Steps /\ Edits' = Edits /\ Home' = Home
      /\ Repoints' = Repoints /\ Pristine' = Pristine /\ \A e : Value(e)' = Value(e)
  BY <1>1, <1>5, <1>6, DeleteWorld
<1>8. /\ "lost" \notin mishaps' => Pristine' /\ "lost" \notin mishaps
      /\ "lost" \notin mishaps' /\ "cleanup" \notin mishaps' => exists' \subseteq Elems(Tail(todo))
      /\ failed' => "cleanup" \in mishaps'
  BY <1>1, <1>3, <1>4, <1>6, <1>7 DEF Botched
<1>9. RunTyped'
  BY <1>1, <1>4 DEF IInv, RunTyped
<1>10. PhaseTrue'
  BY <1>1, <1>2, <1>3, <1>4, <1>7 DEF PhaseTrue, Running, Undoing
<1>11. ForwardTrue'
  BY <1>1, <1>3, <1>7 DEF IInv, ForwardTrue
<1>12. CleanupTrue' /\ ClonesStay' /\ UndoTrue'
  BY <1>1, <1>3, <1>4, <1>7, <1>8 DEF CleanupTrue, ClonesStay, UndoTrue
<1> QED
  BY <1>7, <1>9, <1>10, <1>11, <1>12 DEF IInv, PathTrue

(***************************************************************************)
(* The steps of an undo                                                    *)
(***************************************************************************)

LEMMA UndoKeepsIInv ==
  ASSUME IInv, Undo
  PROVE  IInv'
<1>1. /\ pc = "idle" /\ entry = "active" /\ failed' = FALSE /\ mishaps' = mishaps \ {"cleanup"}
      /\ UNCHANGED <<top, itss, ss, exists, plan, applied, created, view>>
  BY DEF Undo, jira
<1>2. /\ plan # NoPlan /\ Elems(created) = Steps /\ Elems(applied) = Edits
      /\ applied \in Seq(EditRecord) /\ created \in Seq(Clones)
      /\ Pristine \/ Steps \subseteq exists
      /\ "ss" \in Elems(created) => ss["ss"] = plan.scheme
      /\ "itss" \in Elems(created) => itss["itss"] = plan.mapping
  BY <1>1 DEF IInv, PhaseTrue, RunTyped, ClonesStay, ForwardTrue
<1>3. (applied = <<>> => Repoints) /\ created # <<>>
  BY <1>2, EmptyElems, PlanFacts DEF IInv
<1>4. Noted
  BY <1>1 DEF IInv, WorldTyped, Noted
<1>5. /\ PathTrue' /\ Steps' = Steps /\ Edits' = Edits /\ Home' = Home
      /\ Repoints' = Repoints /\ Pristine' = Pristine /\ \A e : Value(e)' = Value(e)
  BY <1>1, <1>4, DeleteWorld
<1>6. /\ entry' = "active" /\ outcome' = outcome
      /\ \/ pc' = "undo_revert" /\ todo' = applied /\ applied # <<>>
         \/ pc' = "undo_repoint" /\ Repoints
  BY <1>1, <1>3 DEF Undo, AfterUndoReverts, Repoints
<1>7. RunTyped'
  BY <1>1, <1>2, <1>6 DEF RunTyped
<1>8. PhaseTrue'
  BY <1>1, <1>2, <1>5, <1>6 DEF IInv, PhaseTrue, Running, Undoing
<1>9. ForwardTrue'
  BY <1>1, <1>2, <1>5, <1>6 DEF ForwardTrue
<1>10. CleanupTrue' /\ ClonesStay' /\ UndoTrue'
  BY <1>1, <1>2, <1>5, <1>6 DEF CleanupTrue, ClonesStay, UndoTrue, Running
<1> QED
  BY <1>5, <1>7, <1>8, <1>9, <1>10 DEF IInv, PathTrue

(* What is known when an undo breaks off or ends without success.            *)
LEMMA UndoStops ==
  ASSUME IInv, PathTrue', Noted, plan # NoPlan, Undoing, pc' = "idle",
         outcome' \in {"undo_broken", "undo_failed"}, entry' \in {"active", "rolled_back"},
         UNCHANGED <<applied, created>>,
         Steps' = Steps, Edits' = Edits, ss'["ss"] = ss["ss"], itss'["itss"] = itss["itss"],
         Pristine' \/ Steps \subseteq exists'
  PROVE  RunTrue'
<1>1. Elems(created) = Steps /\ Elems(applied) = Edits
  BY DEF IInv, PhaseTrue, Undoing
<1>2. RunTyped'
  BY DEF IInv, RunTyped
<1>3. PhaseTrue'
  BY <1>1 DEF PhaseTrue, Running, Undoing, Noted
<1>4. ForwardTrue'
  BY DEF IInv, ForwardTrue, Noted
<1>5. CleanupTrue' /\ ClonesStay' /\ UndoTrue'
  BY DEF CleanupTrue, ClonesStay, UndoTrue, Running
<1> QED
  BY <1>2, <1>3, <1>4, <1>5 DEF RunTrue

(* What is known when everything is back and the clones come next.           *)
LEMMA UndoDeletes ==
  ASSUME IInv, PathTrue', Noted, plan # NoPlan, Undoing, pc' = "undo_delete",
         todo' = created, entry' = "active", UNCHANGED <<applied, created, outcome>>,
         Steps' = Steps, Edits' = Edits, ss'["ss"] = ss["ss"], itss'["itss"] = itss["itss"],
         Pristine'
  PROVE  RunTrue'
<1>1. Elems(created) = Steps /\ Elems(applied) = Edits /\ created \in Seq(Clones)
  BY DEF IInv, PhaseTrue, Undoing, RunTyped
<1>2. created # <<>> /\ exists' \subseteq Elems(created)
  BY <1>1, EmptyElems, PlanFacts DEF IInv, PathTrue, WorldTyped
<1>3. RunTyped'
  BY <1>1, <1>2 DEF IInv, RunTyped
<1>4. PhaseTrue'
  BY <1>1 DEF IInv, PhaseTrue, Running, Undoing, Noted
<1>5. ForwardTrue'
  BY DEF IInv, ForwardTrue, Noted
<1>6. CleanupTrue' /\ ClonesStay' /\ UndoTrue'
  BY <1>2 DEF CleanupTrue, ClonesStay, UndoTrue, Running
<1> QED
  BY <1>3, <1>4, <1>5, <1>6 DEF RunTrue

LEMMA UndoRevertKeepsIInv ==
  ASSUME IInv, NEW a \in Answers, UndoRevert(a)
  PROVE  IInv'
<1>0. PICK e : e = Head(todo)
  OBVIOUS
<1>1. /\ pc = "undo_revert" /\ Put(e, e.back, a) /\ failed' = (failed \/ a = "refused")
      /\ mishaps' = mishaps \union Lost(a)
      /\ UNCHANGED <<top, exists, plan, applied, created, view>>
  BY <1>0 DEF UndoRevert
<1>2. entry = "active" /\ Undoing
  BY <1>1 DEF IInv, PhaseTrue, Undoing
<1>3. /\ plan # NoPlan /\ todo \in Seq(EditRecord) /\ todo # <<>> /\ Elems(todo) \subseteq Edits
      /\ Elems(created) = Steps /\ failed \in BOOLEAN
      /\ Pristine \/ Steps \subseteq exists
      /\ ~failed => \A g \in Edits \ Elems(todo) : Value(g) = g.back
  BY <1>1, <1>2 DEF IInv, RunTyped, PhaseTrue, UndoTrue, ClonesStay, WorldTyped
<1>4. /\ Tail(todo) \in Seq(EditRecord) /\ e \in Elems(todo)
      /\ Elems(todo) = {e} \union Elems(Tail(todo))
  BY <1>0, <1>3, HeadTailElems
<1>5. e \in Edits /\ (Tail(todo) = <<>> => Elems(Tail(todo)) = {})
  BY <1>3, <1>4, EmptyElems
<1>6. Noted
  BY <1>1, <1>3 DEF IInv, WorldTyped, Noted, Lost
<1>7. /\ PathTrue' /\ Steps' = Steps /\ Edits' = Edits /\ Home' = Home
      /\ Repoints' = Repoints
      /\ ss'["ss"] = ss["ss"] /\ itss'["itss"] = itss["itss"]
      /\ Value(e)' = IF Lands(a) THEN e.back ELSE Value(e)
      /\ \A g \in Edits : g # e => Value(g)' = Value(g)
      /\ ~Repoints /\ top[Target] = Home
  BY <1>1, <1>3, <1>5, <1>6, PutWorld
<1>8. Pristine' \/ Steps \subseteq exists'
  <2>1. Pristine => Pristine'
    BY <1>1, <1>5, <1>7 DEF Pristine
  <2> QED
    BY <1>1, <1>3, <2>1
<1>9. CASE a \in {"broken", "lost"}
  <2>1. pc' = "idle" /\ outcome' = "undo_broken" /\ entry' = "active"
    BY <1>2, <1>9 DEF UndoRevert, BreaksOff
  <2>2. RunTrue'
    BY <1>1, <1>2, <1>3, <1>6, <1>7, <1>8, <2>1, UndoStops
  <2> QED
    BY <1>7, <2>2 DEF IInv, PathTrue, RunTrue
<1>10. CASE a \notin {"broken", "lost"}
  <2>1. /\ mishaps' = mishaps /\ (~failed' => ~failed /\ a = "ok" /\ Lands(a))
    BY <1>1, <1>10 DEF Lost, Lands, Answers
  <2>2. ~failed' => \A g \in Edits \ Elems(Tail(todo)) : Value(g)' = g.back
    BY <1>3, <1>4, <1>7, <2>1
  <2>3. CASE Tail(todo) # <<>>
    <3>1. todo' = Tail(todo) /\ pc' = "undo_revert" /\ UNCHANGED <<outcome, entry>>
      BY <1>1, <1>10, <2>3 DEF UndoRevert
    <3>2. RunTyped'
      BY <1>1, <1>4, <2>3, <3>1 DEF IInv, RunTyped
    <3>3. PhaseTrue'
      BY <1>1, <1>2, <1>3, <1>4, <1>7, <3>1 DEF IInv, PhaseTrue, Running, Undoing
    <3>4. ForwardTrue'
      BY <1>1, <1>7, <2>1, <3>1 DEF IInv, ForwardTrue
    <3>5. CleanupTrue' /\ ClonesStay' /\ UndoTrue'
      BY <1>7, <1>8, <2>2, <3>1 DEF CleanupTrue, ClonesStay, UndoTrue, Running
    <3> QED
      BY <1>7, <3>2, <3>3, <3>4, <3>5 DEF IInv, PathTrue
  <2>4. CASE Tail(todo) = <<>>
    <3>1. \/ failed' /\ pc' = "idle" /\ outcome' = "undo_failed" /\ entry' = "rolled_back"
          \/ ~failed' /\ pc' = "undo_delete" /\ todo' = created /\ entry' = "active" /\ outcome' = outcome
      BY <1>2, <1>3, <1>7, <1>10, <2>4 DEF UndoRevert, AfterUndoReverts, StartUndoDelete, UndoEnds, Repoints
    <3>2. ~failed' => Pristine'
      BY <1>1, <1>5, <1>7, <2>2, <2>4 DEF Pristine
    <3>3. RunTrue'
      BY <1>1, <1>2, <1>3, <1>6, <1>7, <1>8, <3>1, <3>2, UndoStops, UndoDeletes
    <3> QED
      BY <1>7, <3>3 DEF IInv, PathTrue, RunTrue
  <2> QED
    BY <2>3, <2>4
<1> QED
  BY <1>9, <1>10

LEMMA UndoRepointKeepsIInv ==
  ASSUME IInv, NEW a \in Answers, UndoRepoint(a)
  PROVE  IInv'
<1>1. /\ pc = "undo_repoint" /\ Point(plan.back, a) /\ mishaps' = mishaps \union Lost(a)
      /\ UNCHANGED <<itss, ss, exists, plan, applied, created, failed, view>>
  BY DEF UndoRepoint
<1>2. entry = "active" /\ Undoing /\ Repoints
  BY <1>1 DEF IInv, PhaseTrue, Undoing
<1>3. /\ plan # NoPlan /\ plan.back = Home /\ failed \in BOOLEAN
      /\ Pristine \/ Steps \subseteq exists
  BY <1>2 DEF IInv, PhaseTrue, ClonesStay, WorldTyped, Home, Repoints
<1>4. Noted
  BY <1>1, <1>3 DEF IInv, WorldTyped, Noted, Lost
<1>5. /\ PathTrue' /\ Steps' = Steps /\ Edits' = Edits /\ Home' = Home
      /\ Repoints' = Repoints /\ Edits = {}
      /\ top'[Target] = IF Lands(a) THEN Home ELSE top[Target]
      /\ \A e : Value(e)' = Value(e)
  BY <1>1, <1>2, <1>3, <1>4, PointWorld
<1>6. (Lands(a) => Pristine') /\ (Pristine' \/ Steps \subseteq exists')
  BY <1>1, <1>3, <1>5 DEF Pristine
<1>7. \/ pc' = "idle" /\ outcome' \in {"undo_broken", "undo_failed"} /\ entry' \in {"active", "rolled_back"}
      \/ Lands(a) /\ pc' = "undo_delete" /\ todo' = created /\ entry' = "active" /\ outcome' = outcome
  BY <1>2 DEF UndoRepoint, StartUndoDelete, UndoEnds, BreaksOff, Lands
<1>8. RunTrue'
  BY <1>1, <1>2, <1>3, <1>4, <1>5, <1>6, <1>7, UndoStops, UndoDeletes
<1> QED
  BY <1>5, <1>8 DEF IInv, PathTrue, RunTrue

LEMMA UndoDeleteKeepsIInv ==
  ASSUME IInv, NEW a \in Answers, UndoDelete(a)
  PROVE  IInv'
<1>1. /\ pc = "undo_delete" /\ Delete(Head(todo), a)
      /\ mishaps' = mishaps \union Lost(a) \union Botched(a)
      /\ UNCHANGED <<top, itss, ss, plan, applied, created, failed, view>>
  BY DEF UndoDelete
<1>2. entry = "active" /\ Undoing
  BY <1>1 DEF IInv, PhaseTrue, Undoing
<1>3. /\ plan # NoPlan /\ todo \in Seq(Clones) /\ todo # <<>> /\ Elems(todo) \subseteq Steps
      /\ Elems(created) = Steps /\ Elems(applied) = Edits /\ Pristine /\ failed \in BOOLEAN
      /\ "cleanup" \notin mishaps => exists \subseteq Elems(todo)
  BY <1>1, <1>2 DEF IInv, RunTyped, PhaseTrue, UndoTrue, WorldTyped
<1>4. /\ Tail(todo) \in Seq(Clones)
      /\ Elems(todo) = {Head(todo)} \union Elems(Tail(todo))
      /\ Tail(todo) = <<>> => Elems(Tail(todo)) = {}
  BY <1>3, HeadTailElems, EmptyElems
<1>5. Noted
  BY <1>1, <1>3 DEF IInv, WorldTyped, Noted, Lost, Botched
<1>6. exists' \subseteq exists /\ (a = "ok" => exists' = exists \ {Head(todo)})
  BY <1>1 DEF Delete, Lands
<1>7. /\ PathTrue' /\ Steps' = Steps /\ Edits' = Edits /\ Home' = Home
      /\ Repoints' = Repoints /\ Pristine' = Pristine /\ \A e : Value(e)' = Value(e)
  BY <1>1, <1>5, <1>6, DeleteWorld
<1>8. CASE a \in {"broken", "lost"}
  <2>1. pc' = "idle" /\ outcome' = "undo_broken" /\ entry' = "active"
    BY <1>2, <1>8 DEF UndoDelete, BreaksOff
  <2>2. RunTrue'
    BY <1>1, <1>2, <1>3, <1>5, <1>7, <2>1, UndoStops
  <2> QED
    BY <1>7, <2>2 DEF IInv, PathTrue, RunTrue
<1>9. CASE a \notin {"broken", "lost"}
  <2>1. "cleanup" \notin mishaps' => exists' \subseteq Elems(Tail(todo))
    BY <1>1, <1>3, <1>4, <1>6 DEF Botched
  <2>2. \/ Tail(todo) # <<>> /\ todo' = Tail(todo) /\ pc' = "undo_delete" /\ entry' = "active" /\ outcome' = outcome
        \/ Tail(todo) = <<>> /\ pc' = "idle" /\ outcome' = "undone" /\ entry' = "rolled_back"
    BY <1>1, <1>2, <1>9 DEF UndoDelete, UndoEnds
  <2>3. RunTyped'
    BY <1>1, <1>4, <2>2 DEF IInv, RunTyped
  <2>4. PhaseTrue'
    BY <1>1, <1>2, <1>3, <1>4, <1>7, <2>2 DEF IInv, PhaseTrue, Running, Undoing
  <2>5. ForwardTrue'
    BY <1>1, <1>7, <2>2 DEF IInv, ForwardTrue
  <2>6. CleanupTrue' /\ ClonesStay' /\ UndoTrue'
    BY <1>1, <1>3, <1>4, <1>7, <2>1, <2>2 DEF CleanupTrue, ClonesStay, UndoTrue, Running
  <2> QED
    BY <1>7, <2>3, <2>4, <2>5, <2>6 DEF IInv, PathTrue
<1> QED
  BY <1>8, <1>9

(***************************************************************************)
(* Everything else, and all of it together                                 *)
(***************************************************************************)

LEMMA JoinKeepsIInv ==
  ASSUME IInv, NEW p \in Others, Join(p)
  PROVE  IInv'
<1>1. /\ top' = [top EXCEPT ![p] = top[Target]] /\ mishaps' = mishaps \union {"joined"}
      /\ view' = [view EXCEPT ![p] = Shown[Target]]
      /\ UNCHANGED <<itss, ss, exists, plan, pc, todo, applied, created, failed, outcome, entry>>
  BY DEF Join, run
<1>2. top \in [Projects -> Itsses] /\ p # Target /\ p \in Projects /\ Target \in Projects
  BY ForkIsolateAssumption DEF IInv, WorldTyped, Projects
<1>3. /\ top' \in [Projects -> Itsses] /\ top'[Target] = top[Target] /\ view'[Target] = view[Target]
      /\ \A q \in Projects : top'[q] = "itss" => \E r \in Projects : top[r] = "itss"
  BY <1>1, <1>2
<1>4. /\ PlanTyped' /\ Steps' = Steps /\ Edits' = Edits /\ Home' = Home /\ Repoints' = Repoints
      /\ \A m : PlanOf(m)' <=> PlanOf(m)
  BY <1>1, <1>3, PlanStays DEF IInv
<1>5. /\ \A e : Value(e)' = Value(e)
      /\ Pristine' <=> Pristine
  <2>1. \A e : Value(e)' = Value(e)
    BY <1>1 DEF Value
  <2> QED
    BY <1>3, <1>4, <2>1 DEF Pristine
<1>6. WorldTyped'
  BY <1>1, <1>3, <1>4 DEF IInv, WorldTyped
<1>7. OthersApart'
  BY <1>1 DEF OthersApart
<1>8. BeganSomehow'
  <2>1. PICK m \in Mappings, f \in [OldSchemes -> OldScreens] : Began(m, f)
    BY DEF IInv, BeganSomehow
  <2>2. Began(m, f)'
    BY <1>1, <1>3, <1>4, <2>1 DEF Began
  <2> QED
    BY <2>2 DEF BeganSomehow
<1>9. RunTyped'
  BY <1>1 DEF IInv, RunTyped
<1>10. PhaseTrue'
  BY <1>1, <1>4, <1>5 DEF IInv, PhaseTrue, Running, Undoing
<1>11. ForwardTrue'
  BY <1>1, <1>3, <1>4, <1>5 DEF IInv, ForwardTrue
<1>12. CleanupTrue' /\ ClonesStay' /\ UndoTrue'
  BY <1>1, <1>4, <1>5 DEF IInv, CleanupTrue, ClonesStay, UndoTrue, Running
<1> QED
  BY <1>4, <1>6, <1>7, <1>8, <1>9, <1>10, <1>11, <1>12 DEF IInv

LEMMA StutterKeepsIInv ==
  ASSUME IInv, UNCHANGED vars
  PROVE  IInv'
<1>1. UNCHANGED <<top, itss, ss, exists, plan, pc, todo, applied, created, failed, outcome, entry, view, mishaps>>
  BY DEF vars, jira, run
<1>2. Noted
  BY <1>1 DEF IInv, WorldTyped, Noted
<1>3. /\ PathTrue' /\ Steps' = Steps /\ Edits' = Edits /\ Home' = Home /\ Repoints' = Repoints
      /\ Pristine' = Pristine /\ \A e : Value(e)' = Value(e)
  BY <1>1, <1>2, DeleteWorld
<1>4. RunTyped'
  BY <1>1 DEF IInv, RunTyped
<1>5. PhaseTrue'
  BY <1>1, <1>3 DEF IInv, PhaseTrue, Running, Undoing
<1>6. ForwardTrue'
  BY <1>1, <1>3 DEF IInv, ForwardTrue
<1>7. CleanupTrue' /\ ClonesStay' /\ UndoTrue'
  BY <1>1, <1>3 DEF IInv, CleanupTrue, ClonesStay, UndoTrue, Running
<1> QED
  BY <1>3, <1>4, <1>5, <1>6, <1>7 DEF IInv, PathTrue

LEMMA NextIInv == IInv /\ [Next]_vars => IInv'
<1> SUFFICES ASSUME IInv, [Next]_vars PROVE IInv'
  OBVIOUS
<1>1. CASE Preview
  BY <1>1, PreviewKeepsIInv
<1>2. CASE Execute
  BY <1>2, ExecuteKeepsIInv
<1>3. CASE CopyFails
  BY <1>3, CopyFailsKeepsIInv
<1>4. CASE Record
  BY <1>4, RecordKeepsIInv
<1>5. CASE Undo
  BY <1>5, UndoKeepsIInv
<1>6. CASE Stop
  BY <1>6, StopKeepsIInv
<1>7. ASSUME NEW a \in Answers, Clone(a) \/ Edit(a) \/ Repoint(a) \/ Revert(a) \/ CleanDelete(a)
      PROVE  IInv'
  BY <1>7, CloneKeepsIInv, EditKeepsIInv, RepointKeepsIInv, RevertKeepsIInv, CleanDeleteKeepsIInv
<1>8. ASSUME NEW a \in Answers, UndoRevert(a) \/ UndoRepoint(a) \/ UndoDelete(a)
      PROVE  IInv'
  BY <1>8, UndoRevertKeepsIInv, UndoRepointKeepsIInv, UndoDeleteKeepsIInv
<1>9. ASSUME NEW p \in Others, Join(p) PROVE IInv'
  BY <1>9, JoinKeepsIInv
<1>10. CASE UNCHANGED vars
  BY <1>10, StutterKeepsIInv
<1> QED
  BY <1>1, <1>2, <1>3, <1>4, <1>5, <1>6, <1>7, <1>8, <1>9, <1>10 DEF Next

(* Without a trace of the run, the project shows what it showed.             *)
LEMMA PristineShows ==
  ASSUME IInv, Pristine
  PROVE  /\ top[Target] = Home /\ Home \in OldItsses /\ Shown[Target] = view[Target]
         /\ \A t \in Types : Scheme(Target, t) \in OldSchemes /\ Shown[Target][t] \in OldScreens
<1>1. PICK m \in Mappings, f \in [OldSchemes -> OldScreens] : Began(m, f)
  BY DEF IInv, BeganSomehow
<1>2. top[Target] = Home /\ Home \in OldItsses /\ \A e \in Edits : Value(e) = e.back
  BY DEF IInv, WorldTyped, Pristine
<1>3. \A t \in Types : itss[Home][t] = m[t]
  <2>1. ASSUME NEW t \in Types, NEW e \in Edits, e.obj = Home, e.key = t
        PROVE  itss[Home][t] = m[t]
    <3>1. e.obj \notin Schemes /\ e.obj \notin OldSchemes
      BY <1>2, <2>1 DEF OldItsses, Schemes, OldSchemes
    <3>2. Value(e) = itss[Home][t] /\ e.back = m[t]
      BY <1>1, <2>1, <3>1 DEF Value, Began
    <3> QED
      BY <1>2, <3>2
  <2> QED
    BY <1>1, <2>1 DEF Began
<1>4. \A s \in OldSchemes : ss[s] = f[s]
  <2>1. ASSUME NEW s \in OldSchemes, NEW e \in Edits, e.obj = s
        PROVE  ss[s] = f[s]
    <3>1. Value(e) = ss[s] /\ e.back = f[s]
      BY <1>1, <2>1 DEF Value, Began, OldSchemes, Schemes
    <3> QED
      BY <1>2, <3>1
  <2> QED
    BY <1>1, <2>1 DEF Began
<1>5. \A t \in Types : Scheme(Target, t) = SchemeIn(m, t) /\ SchemeIn(m, t) \in OldSchemes
  BY <1>2, <1>3, ForkIsolateAssumption DEF Scheme, SchemeIn, Mappings
<1>6. Shown[Target] = [t \in Types |-> f[SchemeIn(m, t)]]
  BY <1>4, <1>5 DEF Shown, Projects
<1>7. \A t \in Types : Shown[Target][t] \in OldScreens
  BY <1>5, <1>6
<1> QED
  BY <1>1, <1>2, <1>5, <1>6, <1>7 DEF Began

LEMMA IInvTypeOK == IInv => TypeOK
<1> SUFFICES ASSUME IInv PROVE TypeOK
  OBVIOUS
<1>1. Steps \subseteq Clones
  BY PlanFacts DEF IInv, Steps
<1>2. \A k \in DOMAIN created : created[k] \in Clones
  BY DEF IInv, RunTyped
<1> QED
  BY <1>1, <1>2 DEF IInv, WorldTyped, RunTyped, TypeOK, OldScreens

LEMMA IInvOthersUntouched == IInv => OthersUntouched
  BY DEF IInv, OthersApart, OthersUntouched, OthersAsBefore

LEMMA IInvNoDangling == IInv => NoDangling
<1> SUFFICES ASSUME IInv, "lost" \notin mishaps, "joined" \notin mishaps,
                    NEW p \in Projects, NEW t \in Types
             PROVE  Exists(top[p]) /\ Exists(Scheme(p, t)) /\ Exists(ss[Scheme(p, t)])
  BY DEF NoDangling, NothingDangles
<1>1. \A x : x \in OldItsses \union OldSchemes \union OldScreens => Exists(x)
  BY DEF Exists, Clones, OldItsses, OldSchemes, OldScreens
<1>2. /\ itss \in [Itsses -> [Types -> Schemes \union {Absent}]]
      /\ ss \in [Schemes -> OldScreens \union {"screen"}] /\ top[p] \in Itsses
      /\ \A i \in Itsses : itss[i][Default] # Absent
      /\ \A i \in Itsses, u \in Types : itss[i][u] = "ss" => "ss" \in Steps
      /\ \A s \in Schemes : ss[s] = "screen" => "screen" \in Steps
      /\ top[p] = "itss" => "itss" \in Steps
  BY DEF IInv, WorldTyped
<1>3. Scheme(p, t) \in Schemes /\ (Scheme(p, t) = "ss" => "ss" \in Steps)
  BY <1>2, ForkIsolateAssumption DEF Scheme, SchemeIn
<1>4. CASE p \in Others
  <2>1. /\ top[p] \in OldItsses /\ \A u \in Types : itss[top[p]][u] \in OldSchemes \union {Absent}
        /\ Shown[p] = view[p] /\ view[p] \in [Types -> OldScreens]
    BY <1>4 DEF IInv, OthersApart
  <2>2. Scheme(p, t) \in OldSchemes
    BY <1>2, <2>1, ForkIsolateAssumption DEF Scheme, SchemeIn
  <2>3. ss[Scheme(p, t)] \in OldScreens
    BY <2>1 DEF Shown
  <2> QED
    BY <1>1, <2>1, <2>2, <2>3
<1>5. CASE p = Target /\ Pristine
  BY <1>1, <1>5, PristineShows DEF Shown, Projects
<1>6. CASE Steps \subseteq exists
  BY <1>2, <1>3, <1>6 DEF Exists, Clones, Itsses, Schemes, OldScreens
<1> QED
  BY <1>4, <1>5, <1>6 DEF IInv, ClonesStay, Projects

(* A finished run: what the mapping of the path has become.                  *)
LEMMA IInvIsolatedWhenOk == IInv => IsolatedWhenOk
<1> SUFFICES ASSUME IInv, pc = "idle", outcome = "ok", NEW t \in Types
             PROVE  IF t \in plan.served
                    THEN /\ "ss" \in exists => Scheme(Target, t) = "ss"
                         /\ plan.kind # "screen_scheme" => Shown[Target][t] = "screen"
                         /\ "joined" \in mishaps
                            \/ \A p \in Others, u \in Types : Scheme(p, u) # Scheme(Target, t)
                    ELSE Shown[Target][t] = view[Target][t]
  BY DEF IsolatedWhenOk
<1>1. PICK m \in Mappings, f \in [OldSchemes -> OldScreens] : Began(m, f)
  BY DEF IInv, BeganSomehow
<1>2. /\ plan # NoPlan /\ Elems(created) = Steps
      /\ \A e \in Edits : Value(e) = e.to
      /\ Repoints => top[Target] = "itss"
      /\ ~Repoints => top[Target] = Home
      /\ "ss" \in Steps => ss["ss"] = plan.scheme
      /\ "itss" \in Steps => itss["itss"] = plan.mapping
      /\ exists \subseteq Steps /\ Home \in OldItsses
  BY DEF IInv, PhaseTrue, ForwardTrue, WorldTyped
<1>3. PlanOf(m) /\ view[Target] = [u \in Types |-> f[SchemeIn(m, u)]]
  BY <1>1, <1>2 DEF Began
<1>4. /\ \A e \in Edits : EditTyped(e)
      /\ Edits = {} <=> Repoints
      /\ Repoints <=> "itss" \in Steps
      /\ Repoints <=> plan.repoint
  BY <1>2, PlanFacts DEF IInv, PlanTyped
<1>5. \A u \in Types : SchemeIn(m, u) \in OldSchemes
  BY ForkIsolateAssumption DEF SchemeIn, Mappings
<1>6. Shown[Target][t] = ss[Scheme(Target, t)] /\ Default \in Types
  BY ForkIsolateAssumption DEF Shown, Projects
<1>7. ASSUME "joined" \notin mishaps, NEW p \in Others, NEW u \in Types
      PROVE  Scheme(p, u) \in OldSchemes /\ \A e \in Edits : Scheme(p, u) # e.obj
  <2>1. /\ top[p] \in Itsses /\ itss[top[p]][Default] # Absent
        /\ \A v \in Types : itss[top[p]][v] \in OldSchemes \union {Absent}
        /\ \A e \in Edits : \A v \in Types : itss[top[p]][v] # e.obj
    BY <1>7 DEF IInv, WorldTyped, OthersApart, OldItsses, Itsses
  <2> QED
    BY <2>1, ForkIsolateAssumption DEF Scheme, SchemeIn
<1>8. CASE "ss" \in Steps
  <2>1. \A e \in Edits : e.obj = Home /\ e.key \in Types /\ e.to = "ss" /\ e.obj \notin Schemes
    BY <1>2, <1>4, <1>8 DEF EditTyped, OldItsses, Schemes
  <2>2. \A s \in OldSchemes : ss[s] = f[s]
    BY <1>1, <2>1 DEF Began, OldSchemes, Schemes
  <2>3. \A u \in Types : itss[top[Target]][u] = plan.mapping[u]
    <3>1. CASE Repoints
      BY <1>2, <1>4, <3>1
    <3>2. CASE ~Repoints
      <4> TAKE u \in Types
      <4>1. CASE u \in Forked
        <5>1. PICK e \in Edits : e.key = u
          BY <1>3, <1>4, <1>8, <3>2, <4>1 DEF PlanOf
        <5>2. Value(e) = itss[Home][u] /\ Value(e) = "ss"
          BY <1>2, <2>1, <5>1 DEF Value
        <5> QED
          BY <1>2, <3>2, <4>1, <5>2 DEF Forked
      <4>2. CASE u \notin Forked
        <5>1. plan.mapping[u] = m[u]
          BY <1>3, <4>2 DEF PlanOf
        <5>2. \A e \in Edits : e.key \in Forked
          BY <1>3, <2>1 DEF PlanOf, OldSchemes, Schemes
        <5>3. itss[Home][u] = m[u]
          BY <1>1, <4>2, <5>2 DEF Began
        <5> QED
          BY <1>2, <3>2, <5>1, <5>3
      <4> QED
        BY <4>1, <4>2
    <3> QED
      BY <3>1, <3>2
  <2>4. Scheme(Target, t) = SchemeIn(plan.mapping, t)
    BY <1>6, <2>3 DEF Scheme, SchemeIn
  <2>5. CASE t \in plan.served
    <3>1. \/ t \in Forked
          \/ t \notin Forked /\ m[t] = Absent /\ Default \in Forked
      BY <1>3, <2>5 DEF PlanOf
    <3>2. Scheme(Target, t) = "ss"
      BY <1>3, <1>6, <2>4, <3>1 DEF PlanOf, SchemeIn, Absent
    <3>3. plan.kind # "screen_scheme" => ss["ss"] = "screen"
      BY <1>2, <1>3, <1>8 DEF PlanOf
    <3> QED
      BY <1>6, <1>7, <2>5, <3>2, <3>3 DEF OldSchemes
  <2>6. CASE t \notin plan.served
    <3>1. t \notin Forked /\ (m[t] = Absent => Default \notin Forked)
      BY <1>3, <2>6 DEF PlanOf
    <3>2. SchemeIn(plan.mapping, t) = SchemeIn(m, t)
      BY <1>3, <1>6, <3>1 DEF PlanOf, SchemeIn
    <3> QED
      BY <1>3, <1>5, <1>6, <2>2, <2>4, <2>6, <3>2
  <2> QED
    BY <2>5, <2>6
<1>9. CASE "ss" \notin Steps
  <2>1. /\ ~Repoints /\ top[Target] = Home
        /\ \A e \in Edits : e.obj \in OldSchemes /\ e.to = "screen" /\ Value(e) = ss[e.obj]
    <3>1. \A e \in Edits : e.obj \in OldSchemes /\ e.to = "screen"
      BY <1>4, <1>9 DEF EditTyped
    <3>2. \A e \in Edits : Value(e) = ss[e.obj]
      BY <3>1 DEF Value, OldSchemes, Schemes
    <3>3. ~Repoints
      <4>1. /\ Elems(<<"screen", "ss", "itss">>) = {"screen", "ss", "itss"}
            /\ Elems(<<"screen">>) = {"screen"} /\ Elems(<<"screen", "ss">>) = {"screen", "ss"}
            /\ Elems(<<"ss">>) = {"ss"} /\ Elems(<<"ss", "itss">>) = {"ss", "itss"}
        BY ShortElems
      <4>2. Steps = Elems(plan.steps)
        BY <1>2 DEF Steps
      <4>3. plan.steps \in {<<"screen">>, <<"screen", "ss">>, <<"screen", "ss", "itss">>,
                            <<"ss">>, <<"ss", "itss">>}
        BY <1>2 DEF IInv, PlanTyped
      <4>4. "itss" \notin Steps
        BY <1>9, <4>1, <4>2, <4>3
      <4> QED
        BY <1>4, <4>4
    <3> QED
      BY <1>2, <3>1, <3>2, <3>3
  <2>2. PICK e \in Edits : TRUE
    BY <1>4, <2>1
  <2>3. \A u \in Types : itss[Home][u] = m[u]
    BY <1>1, <1>2, <2>1 DEF Began, OldItsses, OldSchemes
  <2>4. Scheme(Target, t) = SchemeIn(m, t)
    BY <1>6, <2>1, <2>3 DEF Scheme, SchemeIn
  <2>5. \A g \in Edits : Forked = {u \in Types : m[u] = g.obj}
    BY <1>3, <2>1 DEF PlanOf
  <2>6. CASE t \in plan.served
    <3>1. t \in Forked \/ (m[t] = Absent /\ Default \in Forked)
      BY <1>3, <2>6 DEF PlanOf
    <3>2. Scheme(Target, t) = e.obj
      BY <1>6, <2>1, <2>2, <2>4, <2>5, <3>1 DEF SchemeIn, OldSchemes, Absent
    <3>3. ss[e.obj] = "screen" /\ "ss" \notin exists
      BY <1>2, <1>9, <2>1, <2>2
    <3> QED
      BY <1>6, <1>7, <2>2, <2>6, <3>2, <3>3
  <2>7. CASE t \notin plan.served
    <3>1. t \notin Forked /\ (m[t] = Absent => Default \notin Forked)
      BY <1>3, <2>7 DEF PlanOf
    <3>2. \A g \in Edits : g.obj # SchemeIn(m, t)
      BY <1>6, <2>5, <3>1 DEF SchemeIn
    <3>3. ss[SchemeIn(m, t)] = f[SchemeIn(m, t)]
      BY <1>1, <1>5, <3>2 DEF Began
    <3> QED
      BY <1>3, <1>6, <2>4, <2>7, <3>3
  <2> QED
    BY <2>6, <2>7
<1> QED
  BY <1>8, <1>9

LEMMA IInvOutcomeTrue == IInv => OutcomeTrue
<1> SUFFICES ASSUME IInv PROVE OutcomeTrue
  OBVIOUS
<1>1. outcome # "none" => plan # NoPlan /\ Home = plan.back
  BY DEF IInv, PhaseTrue, Home
<1>2. FailedLeavesNothing
  BY <1>1, PristineShows DEF IInv, CleanupTrue, FailedLeavesNothing, NothingHalfMoved
<1>3. UndoneIsRestored
  <2> SUFFICES ASSUME pc = "idle", outcome = "undone"
               PROVE  /\ top[Target] = plan.back /\ Shown[Target] = view[Target]
                      /\ \A t \in Types : Scheme(Target, t) # "ss" /\ Exists(Shown[Target][t])
                      /\ "cleanup" \notin mishaps => exists = {}
    BY DEF UndoneIsRestored
  <2>1. Pristine /\ ("cleanup" \notin mishaps => exists = {})
    BY DEF IInv, UndoTrue
  <2> QED
    BY <1>1, <2>1, PristineShows DEF OldSchemes, OldScreens, Exists, Clones
<1> QED
  BY <1>2, <1>3, IInvIsolatedWhenOk DEF OutcomeTrue

(***************************************************************************)
(* Theorems                                                                *)
(***************************************************************************)

(* The inductive invariant holds of every behaviour, whichever requests are  *)
(* refused, lost or never arrive, whenever the run or its undo is stopped,   *)
(* and with it the types.                                                    *)
THEOREM Invariance == Spec => [](IInv /\ TypeOK)
<1>1. Spec => []IInv
  BY InitIInv, NextIInv, PTL DEF Spec
<1> QED
  BY <1>1, IInvTypeOK, PTL

(* "other projects are untouched": at every step of a run, of its cleanup    *)
(* and of its undo every other project shows what it showed, until one comes *)
(* to the path after the preview.                                            *)
THEOREM OthersAreUntouched == Spec => []OthersUntouched
  BY Invariance, IInvOthersUntouched, PTL

(* As long as every answer is read, no project is left on a clone that was   *)
(* deleted: _cleanup and _apply_fork_restore delete none that may be in use. *)
THEOREM NothingIsLeftDangling == Spec => []NoDangling
  BY Invariance, IInvNoDangling, PTL

(* What the stream reports and rollback_entry answers is what Jira has: a    *)
(* private copy on a private path, nothing at all, or the path as it was.    *)
THEOREM OutcomesAreTrue == Spec => []OutcomeTrue
  BY Invariance, IInvOutcomeTrue, PTL
=============================================================================
