--------------------------- MODULE WorkflowIsolate ---------------------------
(***************************************************************************)
(* tasks/config_isolate.py, the workflow family: give one project a private *)
(* copy of a workflow, for every issue type that uses it or for one.        *)
(*                                                                         *)
(* The workflow is cloned.  A scheme that the audit showed as shared is     *)
(* cloned too and the project moved to the clone; one that the audit showed *)
(* as private is edited in place, and since Jira puts an edit of a scheme   *)
(* in use into a draft, the draft is published.  Every request may be       *)
(* refused, never arrive, or land while its answer is lost; a failed run    *)
(* takes back what it did, a finished one can be undone, an undone one done *)
(* again.                                                                   *)
(***************************************************************************)
EXTENDS Naturals

CONSTANTS
  Target,    \* the project to isolate
  Others,    \* the other projects
  Types,     \* issue types with or without a mapping of their own
  Default,   \* the default of a scheme, for the others
  MaxRuns    \* bound: runs and undos

ASSUME WorkflowIsolateAssumption ==
  Target \notin Others /\ Default \notin Types /\ MaxRuns \in Nat

VARIABLES
  assigned,  \* Jira: the workflow scheme of each project
  mapping,   \* Jira: what each scheme maps
  draft,     \* Jira: the draft of ws0: at most one
  pending,   \* Jira: the draft of ws0 is being published
  clones,    \* Jira: which of the clones exist, "wf" and "ws"
  plan,      \* Change.after of the preview, or NoPlan
  pc,        \* the next request of the run
  undoing,   \* the run is an undo (or the undo of one)
  runs,      \* how many runs there were
  outcome,   \* of the last run
  entry,     \* the journal entry that can be undone, or NoEntry
  view,      \* history: what each project uses, the program's doing left out
  mishaps    \* history: "cleanup", "lost" (see ForkIsolate), "accepted" (Jira
             \* publishes in its own time), "joined", "edited", "unknown"
             \* (the audit could not tell whether the scheme is shared)

jira == <<assigned, mapping, draft, pending, clones>>
run == <<plan, pc, undoing, runs, outcome, entry>>
vars == <<jira, run, view, mishaps>>

Absent == "absent"
NoPlan == [mode |-> "none"]
NoEntry == [op |-> "none", status |-> "none"]
Projects == Others \union {Target}
Keys == Types \union {Default}
Mappings == {m \in [Keys -> {"wf0", "wf1", Absent}] : m[Default] # Absent}

(* An issue type without a mapping of its own rides the default. *)
Used(m) == [t \in Types |-> IF m[t] = Absent THEN m[Default] ELSE m[t]]
Uses(p) == Used(mapping[assigned[p]])

Init ==
  /\ assigned \in [Projects -> {"ws0", "ws1"}] /\ assigned[Target] = "ws0"
  /\ \E zero, one \in Mappings :
       mapping = [s \in {"ws0", "ws1", "ws"} |-> IF s = "ws1" THEN one ELSE zero]
  /\ draft = {} /\ pending = FALSE /\ clones = {}
  /\ plan = NoPlan /\ pc = "idle" /\ undoing = FALSE /\ runs = 0
  /\ outcome = "none" /\ entry = NoEntry
  /\ view = [p \in Projects |-> Used(mapping[assigned[p]])]
  /\ mishaps = {}

(***************************************************************************)
(* Preview                                                                 *)
(***************************************************************************)

(* Every scheme is edited in place. *)
AuditSays_Private == {[shared |-> FALSE, known |-> TRUE]}
(* ws_shared comes with the request and is not read again: what the audit    *)
(* saw, and FALSE if it could not tell (see ConfigAudit!UnknownIsCloned).    *)
AuditSays ==
  LET shared == \E p \in Others : assigned[p] = "ws0"
  IN {[shared |-> shared, known |-> TRUE], [shared |-> FALSE, known |-> ~shared]}

(* _plan_workflow_fork *)
WorkflowBody(m, w) == [k \in Keys |-> IF m[k] = w THEN "wf" ELSE m[k]]

(* _plan_issue_type_workflow: a type riding the default gets a mapping.     *)
TypeBody(m, t) == [m EXCEPT ![t] = "wf"]

Plan(wsShared, body, served) ==
  [mode |-> IF wsShared THEN "clone" ELSE "inplace",
   body |-> body, back |-> mapping["ws0"], served |-> served]

Preview ==
  /\ plan = NoPlan
  /\ LET m == mapping["ws0"] IN
     \E audit \in AuditSays :
       /\ \/ \E w \in {m[k] : k \in Keys} \ {Absent} :
               plan' = Plan(audit.shared, WorkflowBody(m, w), {t \in Types : Used(m)[t] = w})
          \/ \E t \in Types : plan' = Plan(audit.shared, TypeBody(m, t), {t})
       /\ mishaps' = IF audit.known THEN mishaps ELSE mishaps \union {"unknown"}
  /\ UNCHANGED <<jira, pc, undoing, runs, outcome, entry, view>>

(***************************************************************************)
(* Requests                                                                *)
(***************************************************************************)

Answers == {"ok", "refused", "broken", "lost"}
Lands(a) == a \in {"ok", "lost"}
Broke(a) == a \in {"broken", "lost"}
Lost(a) == {"lost"} \intersect {a}
Botched(a) == IF a = "ok" THEN {} ELSE {"cleanup"}

InUse(s) == \E p \in Projects : assigned[p] = s
Names(m, w) == \E k \in Keys : m[k] = w

(* POST /workflows/create and POST /workflowscheme: a name is taken once.   *)
Post(x, a) ==
  /\ Lands(a) => x \notin clones
  /\ clones' = IF Lands(a) THEN clones \union {x} ELSE clones

(* PUT /workflowscheme/ws0 with updateDraftIfNeeded. *)
PutScheme(m, a) ==
  /\ Lands(a) => ~pending /\ (Names(m, "wf") => "wf" \in clones)
  /\ draft' = IF Lands(a) /\ InUse("ws0") THEN {m} ELSE draft
  /\ mapping' = IF Lands(a) /\ ~InUse("ws0") THEN [mapping EXCEPT !["ws0"] = m] ELSE mapping

(* _publish_draft_if_any: looks for a draft and posts it.  "accepted" is     *)
(* answer 303.                                                              *)
Published == [mapping EXCEPT !["ws0"] = CHOOSE m \in draft : TRUE]
Publish(a) ==
  /\ a \in {"ok", "accepted", "lost"} =>
       \A m \in draft : ~pending /\ (Names(m, "wf") => "wf" \in clones)
  /\ a \in {"accepted", "lost"} => draft # {}
  /\ mapping' = IF Lands(a) /\ draft # {} THEN Published ELSE mapping
  /\ draft' = IF Lands(a) THEN {} ELSE draft
  /\ pending' = (pending \/ a = "accepted")
Accepted(a) == {"accepted"} \intersect {a}

(* A scheme in use, and a workflow that one uses, cannot be deleted.         *)
Delete(x, a) ==
  /\ Lands(a) => /\ x = "ws" => ~InUse("ws")
                 /\ x = "wf" => \A s \in DOMAIN mapping : InUse(s) => ~Names(mapping[s], "wf")
  /\ clones' = IF Lands(a) THEN clones \ {x} ELSE clones

Point(s, a) == assigned' = IF Lands(a) THEN [assigned EXCEPT ![Target] = s] ELSE assigned

(***************************************************************************)
(* A run: how it starts, goes on and ends                                  *)
(***************************************************************************)

Goes(next) == pc' = next /\ UNCHANGED <<outcome, entry>>

(* The item failed: nothing new is journaled; rollback_entry marks the entry *)
(* it undoes all the same.                                                  *)
Fails ==
  /\ pc' = "idle" /\ outcome' = IF undoing THEN "undo_failed" ELSE "failed"
  /\ entry' = IF undoing THEN [entry EXCEPT !.status = "rolled_back"] ELSE entry

(* The item worked: its undo is journaled, unless the stream is gone when    *)
(* the item is reported.                                                     *)
Succeeds(op, result) ==
  /\ pc' = "idle"
  /\ \/ outcome' = result /\ entry' = [op |-> op, status |-> "active"]
     \/ outcome' = "stopped" /\ UNCHANGED entry

(* An error in an undo goes out through execute_stream. *)
BreaksOff == pc' = "idle" /\ outcome' = "undo_broken" /\ UNCHANGED entry

Starts(op) ==
  /\ runs < MaxRuns /\ runs' = runs + 1
  /\ pc' = IF op = "isolate" THEN "post_wf"
           ELSE IF plan.mode = "inplace" THEN "undo_put" ELSE "undo_point"
  /\ UNCHANGED <<jira, plan, outcome, entry, view, mishaps>>

Execute == plan # NoPlan /\ runs = 0 /\ undoing' = FALSE /\ Starts("isolate")
Undo ==
  /\ pc = "idle" /\ entry.status = "active"
  /\ undoing' = TRUE /\ Starts(entry.op)

Still == UNCHANGED <<plan, undoing, runs, view>>

(***************************************************************************)
(* _apply_workflow_isolate                                                 *)
(***************************************************************************)

CreateWorkflow(a) ==
  /\ pc = "post_wf" /\ Post("wf", a)
  /\ IF a # "ok" THEN Fails
     ELSE Goes(IF plan.mode = "inplace" THEN "put" ELSE "post_ws")
  /\ mishaps' = mishaps \union Lost(a)
  /\ UNCHANGED <<assigned, mapping, draft, pending>> /\ Still

CreateScheme(a) ==
  /\ pc = "post_ws" /\ Post("ws", a)
  /\ mapping' = IF Lands(a) THEN [mapping EXCEPT !["ws"] = plan.body] ELSE mapping
  /\ Goes(IF a = "ok" THEN "point" ELSE "drop_wf")
  /\ mishaps' = mishaps \union Lost(a)
  /\ UNCHANGED <<assigned, draft, pending>> /\ Still

MoveProject(a) ==
  /\ pc = "point" /\ Point("ws", a)
  /\ IF a = "ok" THEN Succeeds("restore", "ok") ELSE Goes("drop_ws")
  /\ mishaps' = mishaps \union Lost(a)
  /\ UNCHANGED <<mapping, draft, pending, clones>> /\ Still

EditScheme(a) ==
  /\ pc = "put" /\ PutScheme(plan.body, a)
  /\ Goes(CASE a = "ok" -> "publish" [] a = "refused" -> "drop_wf" [] OTHER -> "put_back")
  /\ mishaps' = mishaps \union Lost(a)
  /\ UNCHANGED <<assigned, pending, clones>> /\ Still

(* A draft that could not be published is left to the cleanup of the clone. *)
PublishEdit_NoPutBack(a) ==
  /\ pc = "publish" /\ Publish(a)
  /\ IF a \in {"ok", "accepted"} THEN Succeeds("restore", "ok") ELSE Goes("drop_wf")
  /\ mishaps' = mishaps \union Lost(a) \union Accepted(a)
  /\ UNCHANGED <<assigned, clones>> /\ Still
PublishEdit(a) ==
  /\ pc = "publish" /\ Publish(a)
  /\ IF a \in {"ok", "accepted"} THEN Succeeds("restore", "ok") ELSE Goes("put_back")
  /\ mishaps' = mishaps \union Lost(a) \union Accepted(a)
  /\ UNCHANGED <<assigned, clones>> /\ Still

(* The edit is taken back: a refused PUT is not looked at, and what the      *)
(* draft then holds is published, whatever comes of it.                      *)
PutBack(a) ==
  /\ pc = "put_back" /\ PutScheme(plan.back, a)
  /\ Goes(IF Broke(a) THEN "drop_wf" ELSE "publish_back")
  /\ mishaps' = mishaps \union Lost(a) \union Botched(a)
  /\ UNCHANGED <<assigned, pending, clones>> /\ Still

PublishBack(a) ==
  /\ pc = "publish_back" /\ Publish(a)
  /\ Goes("drop_wf")
  /\ mishaps' = mishaps \union Lost(a) \union Botched(a) \union Accepted(a)
  /\ UNCHANGED <<assigned, clones>> /\ Still

DropScheme(a) ==
  /\ pc = "drop_ws" /\ Delete("ws", a)
  /\ Goes("drop_wf")
  /\ mishaps' = mishaps \union Lost(a) \union Botched(a)
  /\ UNCHANGED <<assigned, mapping, draft, pending>> /\ Still

DropWorkflow(a) ==
  /\ pc = "drop_wf" /\ Delete("wf", a)
  /\ Fails
  /\ mishaps' = mishaps \union Lost(a) \union Botched(a)
  /\ UNCHANGED <<assigned, mapping, draft, pending>> /\ Still

(***************************************************************************)
(* _apply_workflow_restore                                                 *)
(***************************************************************************)

Onwards(a, next) ==
  IF Broke(a) THEN BreaksOff ELSE IF a = "refused" THEN Fails ELSE Goes(next)

UndoEdit(a) ==
  /\ pc = "undo_put" /\ PutScheme(plan.back, a)
  /\ Onwards(a, "undo_publish")
  /\ mishaps' = mishaps \union Lost(a)
  /\ UNCHANGED <<assigned, pending, clones>> /\ Still

UndoPublish(a) ==
  /\ pc = "undo_publish" /\ Publish(a)
  /\ Onwards(a, "undo_drop_wf")
  /\ mishaps' = mishaps \union Lost(a) \union Accepted(a)
  /\ UNCHANGED <<assigned, clones>> /\ Still

UndoMove(a) ==
  /\ pc = "undo_point" /\ Point("ws0", a)
  /\ Onwards(a, "undo_drop_ws")
  /\ mishaps' = mishaps \union Lost(a)
  /\ UNCHANGED <<mapping, draft, pending, clones>> /\ Still

UndoDropScheme(a) ==
  /\ pc = "undo_drop_ws" /\ Delete("ws", a)
  /\ IF Broke(a) THEN BreaksOff ELSE Goes("undo_drop_wf")
  /\ mishaps' = mishaps \union Lost(a) \union Botched(a)
  /\ UNCHANGED <<assigned, mapping, draft, pending>> /\ Still

UndoDropWorkflow(a) ==
  /\ pc = "undo_drop_wf" /\ Delete("wf", a)
  /\ Succeeds("isolate", "undone")
  /\ mishaps' = mishaps \union Lost(a) \union Botched(a)
  /\ UNCHANGED <<assigned, mapping, draft, pending>> /\ Still

(***************************************************************************)
(* Interruptions, Jira's own work, and the rest of the world               *)
(***************************************************************************)

Stop ==
  /\ pc # "idle"
  /\ pc' = "idle" /\ outcome' = "stopped"
  /\ UNCHANGED <<jira, plan, undoing, runs, entry, view, mishaps>>

(* The publication that was accepted comes through, or does not.             *)
PublicationEnds ==
  /\ pending /\ pending' = FALSE
  /\ \/ mapping' = Published /\ draft' = {}
     \/ UNCHANGED <<mapping, draft>>
  /\ UNCHANGED <<assigned, clones, run, view, mishaps>>

(* A project is moved to the scheme of the target. *)
Join(p) ==
  /\ assigned[p] # assigned[Target]
  /\ assigned' = [assigned EXCEPT ![p] = assigned[Target]]
  /\ view' = [view EXCEPT ![p] = Uses(Target)]
  /\ mishaps' = mishaps \union {"joined"}
  /\ UNCHANGED <<mapping, draft, pending, clones, run>>

(* The scheme is edited between the preview and the run. *)
EditedElsewhere(m) ==
  /\ plan # NoPlan /\ runs = 0 /\ m # mapping["ws0"]
  /\ mapping' = [mapping EXCEPT !["ws0"] = m]
  /\ view' = [p \in Projects |-> IF assigned[p] = "ws0" THEN Used(m) ELSE view[p]]
  /\ mishaps' = mishaps \union {"edited"}
  /\ UNCHANGED <<assigned, draft, pending, clones, run>>

Next ==
  \/ Preview \/ Execute \/ Undo \/ Stop \/ PublicationEnds
  \/ \E a \in Answers : \/ CreateWorkflow(a) \/ CreateScheme(a) \/ MoveProject(a)
                        \/ EditScheme(a) \/ PutBack(a) \/ DropScheme(a) \/ DropWorkflow(a)
                        \/ UndoEdit(a) \/ UndoMove(a) \/ UndoDropScheme(a)
                        \/ UndoDropWorkflow(a)
  \/ \E a \in Answers \union {"accepted"} :
       PublishEdit(a) \/ PublishBack(a) \/ UndoPublish(a)
  \/ \E p \in Others : Join(p)
  \/ \E m \in Mappings : EditedElsewhere(m)

Spec == Init /\ [][Next]_vars

(***************************************************************************)
(* Properties                                                              *)
(***************************************************************************)

(* A draft is only ever one of the two bodies of the plan. *)
TypeOK ==
  /\ assigned \in [Projects -> {"ws0", "ws1", "ws"}]
  /\ clones \subseteq {"wf", "ws"}
  /\ draft = {} \/ draft \in {{plan.body}, {plan.back}}
  /\ pending => draft # {}
  /\ entry.op \in {"none", "restore", "isolate"} /\ runs \in 0..MaxRuns

(* "other projects are untouched" (config_isolate.py:1091).  Refuted: a      *)
(* scheme that another project joined after the audit, or of which the audit *)
(* could not tell, is edited in place.                                       *)
OthersAsBefore == \A p \in Others : Uses(p) = view[p]

(* It holds for those that shared the scheme when the audit was made, at     *)
(* every step of a run, a cleanup, an undo or a redo, and also when the      *)
(* scheme was edited after the preview.                                      *)
OthersKeepWorkflows == mishaps \intersect {"joined", "unknown"} = {} => OthersAsBefore

(* A finished run: the chosen issue types use the clone and nobody else      *)
(* does; the other types of the project, those that ride the default         *)
(* included, use what they used, in either mode and after a redo.            *)
ForkedWhenOk ==
  (pc = "idle" /\ outcome = "ok" /\ mishaps \intersect {"edited", "accepted", "joined", "unknown"} = {}) =>
    \A t \in Types :
      /\ Uses(Target)[t] = IF t \in plan.served THEN "wf" ELSE view[Target][t]
      /\ \A p \in Others : Uses(p)[t] # "wf"

(* "On any later failure, undo what we did" (_apply_workflow_isolate), and   *)
(* an undo that reports success gives the project back the scheme and the    *)
(* workflows it had.  Clones and drafts are left only where a step of the    *)
(* cleanup or undo itself did not work, or an answer was lost.               *)
NothingLeftOver ==
  mishaps \intersect {"cleanup", "lost"} = {} => clones = {} /\ draft = {}
TakenBack ==
  (/\ pc = "idle" /\ outcome \in {"failed", "undone"}
   /\ mishaps \intersect {"edited", "accepted"} = {}
   /\ outcome = "failed" => mishaps \intersect {"cleanup", "lost"} = {}) =>
     /\ assigned[Target] = "ws0" /\ Uses(Target) = view[Target]
     /\ NothingLeftOver

(* What the stream reported is what Jira has: isolated, left alone, restored. *)
OutcomeTrue == ForkedWhenOk /\ TakenBack

(* "Surfacing it prevents reporting success while an active scheme's change  *)
(* never took effect" (_publish_draft_if_any).  Refuted: an answer 303 is    *)
(* taken for success before the publication has ended.                       *)
SuccessIsInEffect ==
  (pc = "idle" /\ outcome = "ok" /\ ~pending /\ mishaps \subseteq {"accepted"}) =>
    \A t \in plan.served : Uses(Target)[t] = "wf"

(* The error of a failed publication says that the scheme was restored       *)
(* (config_isolate.py:1470).  Refuted: the answer of the restoring PUT is    *)
(* not looked at, and the draft it was to replace is published after it.     *)
FailedIsRestored ==
  (pc = "idle" /\ outcome = "failed" /\ "lost" \notin mishaps) => Uses(Target) = view[Target]
=============================================================================
