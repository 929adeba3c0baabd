----------------------------- MODULE ForkIsolate -----------------------------
(***************************************************************************)
(* tasks/config_isolate.py, the screens family: give one project a private  *)
(* copy of a screen, of a screen scheme, or of what one issue type shows,   *)
(* by cloning the shared part of the path                                   *)
(*                                                                         *)
(*   project -> issue type screen scheme (ITSS) -> screen scheme -> screen  *)
(*                                                                         *)
(* and editing in place what already is private.  Every step is a request   *)
(* to Jira that may be refused or whose answer may never come; a failed run *)
(* takes back what it did, a finished one can be undone from the journal.   *)
(*                                                                         *)
(* One preview, one run and its undo (tried again if it broke off).  A      *)
(* screen scheme shows one screen here (its operations are collapsed).      *)
(***************************************************************************)
EXTENDS Naturals, FiniteSets, Sequences

CONSTANTS
  Target,    \* the project to isolate
  Others,    \* the other projects
  Types,     \* issue types
  Default    \* the entry "default" of an ITSS mapping, one of them

ASSUME ForkIsolateAssumption ==
  /\ Target \notin Others
  /\ Default \in Types /\ IsFiniteSet(Types)

VARIABLES
  top,      \* Jira: the ITSS of each project
  itss,     \* Jira: the mappings of each ITSS, issue type -> screen scheme
  ss,       \* Jira: the screen of each screen scheme
  exists,   \* Jira: the clones that exist
  plan,     \* Change.after of the preview, or NoPlan
  pc,       \* what the run or the undo is doing
  todo,     \* what is left of the loop it is in
  applied,  \* in-place edits made, newest first
  created,  \* clones made, newest first
  failed,   \* not revert_ok of the cleanup; essential_err of the undo
  outcome,  \* of the last run or undo: the ItemResult, or how it broke off
  entry,    \* the journal entry of the run
  view,     \* history: what each project shows, the program's doing left out
  mishaps   \* history: "cleanup" (a step of the last cleanup or undo did not
            \* work), "lost" (an answer was), "joined" (see Join)

jira == <<top, itss, ss, exists>>
run == <<plan, pc, todo, applied, created, failed, outcome, entry>>
vars == <<jira, run, view, mishaps>>

Projects == Others \union {Target}

(* A clone is named by the ref of the step that makes it. *)
Clones == {"screen", "ss", "itss"}
Itsses == {"itss0", "itss1", "itss"}
Schemes == {"ss0", "ss1", "ss"}
Absent == "absent"

NoPlan == [kind |-> "none"]
Exists(x) == x \notin Clones \/ x \in exists

(* An issue type without a mapping of its own rides the default. *)
SchemeIn(mapping, t) == IF mapping[t] = Absent THEN mapping[Default] ELSE mapping[t]
Scheme(p, t) == SchemeIn(itss[top[p]], t)
Shown == [p \in Projects |-> [t \in Types |-> ss[Scheme(p, t)]]]

Init ==
  /\ top \in [Projects -> {"itss0", "itss1"}] /\ top[Target] = "itss0"
  /\ itss \in [Itsses -> [Types -> {"ss0", "ss1", Absent}]]
  /\ \A i \in Itsses : itss[i][Default] # Absent
  /\ itss["itss"] = [t \in Types |-> "ss0"]
  /\ ss \in [Schemes -> {"scr0", "scr1"}] /\ ss["ss0"] = "scr0" /\ ss["ss"] = "scr0"
  /\ exists = {}
  /\ plan = NoPlan /\ pc = "idle"
  /\ todo = <<>> /\ applied = <<>> /\ created = <<>>
  /\ failed = FALSE /\ mishaps = {}
  /\ outcome = "none" /\ entry = "none"
  /\ view = [p \in Projects |-> [t \in Types |-> ss[SchemeIn(itss[top[p]], t)]]]

(***************************************************************************)
(* Preview                                                                 *)
(***************************************************************************)

(* _itss_shared_live: read from Jira now; a failed or partial read counts as *)
(* shared.                                                                   *)
ItssShared(i) == {TRUE, \E p \in Others : top[p] = i}

SchemeShared_OwnProjectsOnly(s, i) == ItssShared(i)
(* _screen_scheme_shared_live *)
SchemeShared(s, i) ==
  {TRUE, \/ \E p \in Others : top[p] = i
         \/ \E j \in Itsses \ {i} : Exists(j) /\ \E t \in Types : itss[j][t] = s}

EditScheme(s) == [obj |-> s, key |-> "", to |-> "screen", back |-> ss[s]]
EditMapping(i, t) == [obj |-> i, key |-> t, to |-> "ss", back |-> itss[i][t]]
EditsOf(i, listed) == [k \in DOMAIN listed |-> EditMapping(i, listed[k])]

(* The orders in which the mapping endpoint may list some issue types. *)
Listings(types) ==
  {s \in [1..Cardinality(types) -> types] : \A j, k \in DOMAIN s : s[j] = s[k] => j = k}

(* The part of the plan that both planners share: a clone of the screen      *)
(* scheme s is made after the clones in before, and the mappings of the      *)
(* issue types listed are to lead to it.                                     *)
MappingOf(i, types) == [t \in Types |-> IF t \in types THEN "ss" ELSE itss[i][t]]
Rewired(kind, before, s, listed, itssShared) ==
  LET i == top[Target]
      types == {listed[k] : k \in DOMAIN listed}
  IN [kind |-> kind, from |-> s, scheme |-> IF before = <<>> THEN ss[s] ELSE "screen",
      mapping |-> MappingOf(i, types),
      steps |-> before \o IF itssShared THEN <<"ss", "itss">> ELSE <<"ss">>,
      edits |-> IF itssShared THEN <<>> ELSE EditsOf(i, listed),
      repoint |-> itssShared, back |-> i,
      served |-> {t \in Types : \/ t \in types
                                \/ itss[i][t] = Absent /\ Default \in types}]

(* _plan_screen_fork for a node of kind "screen_scheme" or "screen". *)
SchemePlans(s) ==
  LET i == top[Target]
      mapped == {t \in Types : itss[i][t] = s}
  IN {Rewired("screen_scheme", <<>>, s, listed, shared) :
        shared \in ItssShared(i), listed \in Listings(mapped)}
ScreenPlans(s) ==
  LET i == top[Target]
      mapped == {t \in Types : itss[i][t] = s}
      cloned == {Rewired("screen", <<"screen">>, s, listed, shared) :
                   shared \in ItssShared(i), listed \in Listings(mapped)}
      direct == {[plans EXCEPT !.steps = <<"screen">>, !.edits = <<EditScheme(s)>>,
                               !.repoint = FALSE] : plans \in cloned}
  IN UNION {IF shared THEN cloned ELSE direct : shared \in SchemeShared(s, i)}

(* _plan_issue_type_screen for one issue type. *)
TypePlans(t) ==
  {Rewired("issue_type", <<"screen">>, Scheme(Target, t), <<t>>, shared) :
     shared \in ItssShared(top[Target])}

Preview ==
  /\ plan = NoPlan
  /\ \/ \E s \in Schemes \ Clones :
          /\ \E t \in Types : itss[top[Target]][t] = s
          /\ plan' \in SchemePlans(s) \union ScreenPlans(s)
     \/ \E t \in Types : plan' \in TypePlans(t)
  /\ UNCHANGED <<jira, pc, todo, applied, created, failed, outcome, entry, view, mishaps>>

(***************************************************************************)
(* Requests                                                                *)
(***************************************************************************)

(* Answered 2xx, answered otherwise, never arrived, or arrived but the       *)
(* answer did not come back (every attempt of the retry loop spent).         *)
Answers == {"ok", "refused", "broken", "lost"}
Lands(a) == a \in {"ok", "lost"}
Lost(a) == {"lost"} \intersect {a}
Botched(a) == IF a = "ok" THEN {} ELSE {"cleanup"}

Put(e, value, a) ==
  IF ~Lands(a) THEN UNCHANGED <<itss, ss>>
  ELSE IF e.obj \in Schemes
       THEN ss' = [ss EXCEPT ![e.obj] = value] /\ UNCHANGED itss
       ELSE itss' = [itss EXCEPT ![e.obj][e.key] = value] /\ UNCHANGED ss

Point(i, a) == top' = IF Lands(a) THEN [top EXCEPT ![Target] = i] ELSE top

Delete(x, a) == exists' = IF Lands(a) THEN exists \ {x} ELSE exists

(* POST of a clone: its contents come with it (a screen gets its tabs and    *)
(* fields by further requests, see CopyFails).                               *)
Post(x, a) ==
  IF ~Lands(a) THEN UNCHANGED <<itss, ss, exists>>
  ELSE /\ exists' = exists \union {x}
       /\ ss' = IF x = "ss" THEN [ss EXCEPT !["ss"] = plan.scheme] ELSE ss
       /\ itss' = IF x = "itss" THEN [itss EXCEPT !["itss"] = plan.mapping] ELSE itss

(***************************************************************************)
(* _apply_fork_isolate                                                     *)
(***************************************************************************)

Execute ==
  /\ pc = "idle" /\ plan # NoPlan /\ outcome = "none"
  /\ pc' = "clone" /\ todo' = plan.steps
  /\ UNCHANGED <<jira, plan, applied, created, failed, outcome, entry, view, mishaps>>

AfterEdits == IF plan.repoint THEN "repoint" ELSE "record"
AfterClones == IF plan.edits = <<>> THEN AfterEdits ELSE "edit"

(* _cleanup, once the edits are reverted (or not). *)
StartDelete(cre, bad) ==
  IF bad \/ cre = <<>>
  THEN pc' = "idle" /\ todo' = <<>> /\ outcome' = "failed"
  ELSE pc' = "delete" /\ todo' = cre /\ outcome' = outcome

StartCleanup(cre) ==
  IF applied # <<>>
  THEN pc' = "revert" /\ todo' = applied /\ outcome' = outcome
  ELSE StartDelete(cre, FALSE)

Clone(a) ==
  LET x == Head(todo)
  IN /\ pc = "clone"
     /\ Post(x, a)
     /\ IF a = "ok"
        THEN /\ created' = <<x>> \o created
             /\ todo' = IF Tail(todo) = <<>> /\ plan.edits # <<>> THEN plan.edits ELSE Tail(todo)
             /\ pc' = IF Tail(todo) = <<>> THEN AfterClones ELSE "clone"
             /\ UNCHANGED outcome
        ELSE StartCleanup(created) /\ UNCHANGED created
     /\ mishaps' = mishaps \union Lost(a)
     /\ UNCHANGED <<top, plan, applied, failed, entry, view>>

(* _copy_screen_contents raises after the screen was made. *)
CopyFails ==
  /\ pc = "clone" /\ Head(todo) = "screen"
  /\ Post("screen", "ok")
  /\ created' = <<"screen">> \o created
  /\ StartCleanup(created')
  /\ UNCHANGED <<top, plan, applied, failed, entry, view, mishaps>>

Edit(a) ==
  LET e == Head(todo)
  IN /\ pc = "edit"
     /\ Put(e, e.to, a)
     /\ IF a = "ok"
        THEN /\ applied' = <<e>> \o applied
             /\ todo' = Tail(todo)
             /\ pc' = IF Tail(todo) = <<>> THEN AfterEdits ELSE "edit"
             /\ UNCHANGED outcome
        ELSE StartCleanup(created) /\ UNCHANGED applied
     /\ mishaps' = mishaps \union Lost(a)
     /\ UNCHANGED <<top, exists, plan, created, failed, entry, view>>

Repoint(a) ==
  /\ pc = "repoint"
  /\ Point("itss", a)
  /\ IF a = "ok" THEN pc' = "record" /\ UNCHANGED <<todo, outcome>> ELSE StartCleanup(created)
  /\ mishaps' = mishaps \union Lost(a)
  /\ UNCHANGED <<itss, ss, exists, plan, applied, created, failed, entry, view>>

Revert_StopsAtFirst(a) ==
  LET e == Head(todo)
  IN /\ pc = "revert"
     /\ Put(e, e.back, a)
     /\ failed' = (failed \/ a # "ok")
     /\ StartDelete(created, FALSE)
     /\ mishaps' = mishaps \union Lost(a) \union Botched(a)
     /\ UNCHANGED <<top, exists, plan, applied, created, entry, view>>
Revert(a) ==
  LET e == Head(todo)
  IN /\ pc = "revert"
     /\ Put(e, e.back, a)
     /\ failed' = (failed \/ a # "ok")
     /\ IF Tail(todo) # <<>>
        THEN todo' = Tail(todo) /\ UNCHANGED <<pc, outcome>>
        ELSE StartDelete(created, failed')
     /\ mishaps' = mishaps \union Lost(a) \union Botched(a)
     /\ UNCHANGED <<top, exists, plan, applied, created, entry, view>>

CleanDelete(a) ==
  /\ pc = "delete"
  /\ Delete(Head(todo), a)
  /\ todo' = Tail(todo)
  /\ IF Tail(todo) = <<>> THEN pc' = "idle" /\ outcome' = "failed" ELSE UNCHANGED <<pc, outcome>>
  /\ mishaps' = mishaps \union Lost(a) \union Botched(a)
  /\ UNCHANGED <<top, itss, ss, plan, applied, created, failed, entry, view>>

(* execute_stream: the undo data is journaled. *)
Record ==
  /\ pc = "record"
  /\ pc' = "idle" /\ todo' = <<>>
  /\ outcome' = "ok" /\ entry' = "active"
  /\ UNCHANGED <<jira, plan, applied, created, failed, view, mishaps>>

(***************************************************************************)
(* _apply_fork_restore, through rollback_entry (app.py)                    *)
(***************************************************************************)

(* The loops of the undo: revert, re-point, delete; an empty one is passed.  *)
UndoEnds(result) ==
  /\ pc' = "idle" /\ todo' = <<>>
  /\ outcome' = result
  /\ entry' = "rolled_back"   \* whatever the result of the item was

(* Nothing is deleted once a revert was refused. *)
StartUndoDelete_Always(bad) == pc' = "undo_delete" /\ todo' = created /\ UNCHANGED <<outcome, entry>>
StartUndoDelete(bad) ==
  IF bad THEN UndoEnds("undo_failed")
  ELSE pc' = "undo_delete" /\ todo' = created /\ UNCHANGED <<outcome, entry>>

AfterUndoReverts(bad) ==
  IF plan.repoint
  THEN pc' = "undo_repoint" /\ todo' = <<>> /\ UNCHANGED <<outcome, entry>>
  ELSE StartUndoDelete(bad)

Undo ==
  /\ pc = "idle" /\ entry = "active"
  /\ failed' = FALSE /\ mishaps' = mishaps \ {"cleanup"}
  /\ IF applied # <<>>
     THEN pc' = "undo_revert" /\ todo' = applied /\ UNCHANGED <<outcome, entry>>
     ELSE AfterUndoReverts(FALSE)
  /\ UNCHANGED <<jira, plan, applied, created, view>>

(* A request that fails for good raises out of the undo, and out of the run: *)
(* the entry stays active.                                                   *)
BreaksOff ==
  /\ pc' = "idle" /\ todo' = <<>>
  /\ outcome' = "undo_broken"
  /\ UNCHANGED entry

UndoRevert(a) ==
  LET e == Head(todo)
  IN /\ pc = "undo_revert"
     /\ Put(e, e.back, a)
     /\ failed' = (failed \/ a = "refused")
     /\ IF a \in {"broken", "lost"} THEN BreaksOff
        ELSE IF Tail(todo) # <<>> THEN todo' = Tail(todo) /\ UNCHANGED <<pc, outcome, entry>>
        ELSE AfterUndoReverts(failed')
     /\ mishaps' = mishaps \union Lost(a)
     /\ UNCHANGED <<top, exists, plan, applied, created, view>>

UndoRepoint(a) ==
  /\ pc = "undo_repoint"
  /\ Point(plan.back, a)
  /\ IF a = "ok" THEN StartUndoDelete(failed)
     ELSE IF a = "refused" THEN UndoEnds("undo_failed") ELSE BreaksOff
  /\ mishaps' = mishaps \union Lost(a)
  /\ UNCHANGED <<itss, ss, exists, plan, applied, created, failed, view>>

(* A refused delete leaves an unused clone behind, and is only noted. *)
UndoDelete(a) ==
  /\ pc = "undo_delete"
  /\ Delete(Head(todo), a)
  /\ IF a \in {"broken", "lost"} THEN BreaksOff
     ELSE IF Tail(todo) # <<>> THEN todo' = Tail(todo) /\ UNCHANGED <<pc, outcome, entry>>
     ELSE UndoEnds("undone")
  /\ mishaps' = mishaps \union Lost(a) \union Botched(a)
  /\ UNCHANGED <<top, itss, ss, plan, applied, created, failed, view>>

(***************************************************************************)
(* Interruptions, and the rest of the world                                *)
(***************************************************************************)

(* The operator leaves or the process dies: CancelledError is passed on      *)
(* without a cleanup, and nothing is journaled or marked.  (A request under  *)
(* way may still land: that is the state one step later.)                    *)
Stop ==
  /\ pc # "idle"
  /\ pc' = "idle" /\ todo' = <<>>
  /\ outcome' = "stopped"
  /\ UNCHANGED <<jira, plan, applied, created, failed, entry, view, mishaps>>

(* An administrator moves another project to the ITSS of the target. *)
Join(p) ==
  /\ top[p] # top[Target]
  /\ top' = [top EXCEPT ![p] = top[Target]]
  /\ view' = [view EXCEPT ![p] = Shown[Target]]
  /\ mishaps' = mishaps \union {"joined"}
  /\ UNCHANGED <<itss, ss, exists, run>>

Next ==
  \/ Preview \/ Execute \/ CopyFails \/ Record \/ Undo \/ Stop
  \/ \E a \in Answers : \/ Clone(a) \/ Edit(a) \/ Repoint(a)
                        \/ Revert(a) \/ CleanDelete(a)
                        \/ UndoRevert(a) \/ UndoRepoint(a) \/ UndoDelete(a)
  \/ \E p \in Others : Join(p)

Spec == Init /\ [][Next]_vars

(***************************************************************************)
(* Properties                                                              *)
(***************************************************************************)

(* Shapes; the undo data only names clones and edits of the plan. *)
TypeOK ==
  /\ top \in [Projects -> Itsses]
  /\ itss \in [Itsses -> [Types -> Schemes \union {Absent}]]
  /\ ss \in [Schemes -> {"scr0", "scr1", "screen"}]
  /\ exists \subseteq Clones
  /\ pc \in {"idle", "clone", "edit", "repoint", "revert", "delete", "record",
             "undo_revert", "undo_repoint", "undo_delete"}
  /\ pc \in {"clone", "edit", "revert", "delete", "undo_revert", "undo_delete"}
       => todo # <<>>
  /\ \A k \in DOMAIN created : created[k] \in Clones
  /\ entry \in {"none", "active", "rolled_back"}

(* "other projects are untouched" (config_isolate.py:773).  At every step of *)
(* a run, a cleanup or an undo they show what they showed before,            *)
(* whatever was shared with them, whichever answers get lost and however the *)
(* run ends; only a project that came to the path after the preview does not. *)
OthersAsBefore == \A p \in Others : Shown[p] = view[p]
OthersUntouched == "joined" \notin mishaps => OthersAsBefore

(* No project is left on something deleted (_cleanup and _apply_fork_restore *)
(* keep the clones if a reference to them may be left), as long as every     *)
(* answer is read and nobody joins.  Jira may answer a delete of something   *)
(* in use with a refusal; the code is not to count on it.                    *)
NothingDangles ==
  \A p \in Projects, t \in Types :
    Exists(top[p]) /\ Exists(Scheme(p, t)) /\ Exists(ss[Scheme(p, t)])
NoDangling == mishaps \intersect {"lost", "joined"} = {} => NothingDangles

(* What a finished run did: the issue types it was about show a private      *)
(* copy, reached through a path no other project uses unless it joined; the  *)
(* other issue types of the project show what they showed.                   *)
IsolatedWhenOk ==
  (pc = "idle" /\ outcome = "ok") =>
    \A t \in Types :
      IF t \in plan.served
      THEN /\ "ss" \in exists => Scheme(Target, t) = "ss"
           /\ plan.kind # "screen_scheme" => Shown[Target][t] = "screen"
           /\ "joined" \in mishaps
              \/ \A p \in Others, u \in Types : Scheme(p, u) # Scheme(Target, t)
      ELSE Shown[Target][t] = view[Target][t]

(* "Revert applied in-place edits and delete created clones so nothing is    *)
(* left half-moved" (_apply_fork_isolate): a run that failed leaves the      *)
(* project as it was, and no clone, unless a step of the cleanup itself did  *)
(* not work.  The second form leaves out the failures with a lost answer.    *)
NothingHalfMoved ==
  (pc = "idle" /\ outcome = "failed" /\ "cleanup" \notin mishaps) =>
    exists = {} /\ top[Target] = plan.back /\ Shown[Target] = view[Target]
FailedLeavesNothing == "lost" \notin mishaps => NothingHalfMoved

(* "Restores the exact prior association and trashes the clone": after an    *)
(* undo that says it worked, the project is where it was and shows what it   *)
(* showed, whoever came to share its path in between and whichever answers   *)
(* were lost before; clones remain only if their delete was refused.         *)
UndoneIsRestored ==
  (pc = "idle" /\ outcome = "undone") =>
    /\ top[Target] = plan.back /\ Shown[Target] = view[Target]
    /\ \A t \in Types : Scheme(Target, t) # "ss" /\ Exists(Shown[Target][t])
    /\ "cleanup" \notin mishaps => exists = {}

(* What the stream reported, and rollback_entry answered, is what Jira has:  *)
(* isolated, left alone, or restored.                                        *)
OutcomeTrue == IsolatedWhenOk /\ FailedLeavesNothing /\ UndoneIsRestored

(* _apply_fork_restore, comment at essential_err: the clones are left intact *)
(* and failure is reported "so the revert can be retried".  rollback_entry   *)
(* marks the entry undone all the same, and an undone entry is refused.      *)
RevertCanBeRetried ==
  (pc = "idle" /\ outcome = "undo_failed") => entry = "active"
=============================================================================
