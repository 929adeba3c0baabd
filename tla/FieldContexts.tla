---------------------------- MODULE FieldContexts ----------------------------
(***************************************************************************)
(* tasks/field_inventory.py and the field endpoints of app.py: the contexts *)
(* of one custom field, changed directly from the field view and undone     *)
(* through the journal.                                                     *)
(*                                                                         *)
(* An edit is a row of requests: rename, add and remove projects, add and   *)
(* remove issue types, set the default.  Each may be refused, or land while *)
(* its answer is lost; the first failure ends the request with what was     *)
(* done before left in place.  The journal entry is written after the field *)
(* has been read once more.  In Jira a context without projects applies to  *)
(* all of them (is global), one without issue types to any type.            *)
(***************************************************************************)
EXTENDS Naturals, Sequences, FiniteSets, Functions

CONSTANTS
  Names,       \* name and description
  Projects,
  IssueTypes,
  Defaults,    \* default values, and
  NoDefault,   \* ... none
  TypesPage,   \* issue types on one page of issuetypemapping
  MaxIds,      \* bound: contexts Jira ever makes
  MaxEntries,  \* bound: journal entries
  MaxRequests,  \* bound: requests that are not an undo
  MaxOutside   \* bound: changes by another administrator

ASSUME FieldContextsAssumption ==
  /\ NoDefault \in Defaults /\ IsFiniteSet(IssueTypes) /\ TypesPage \in Nat \ {0}
  /\ MaxIds \in Nat /\ MaxEntries \in Nat /\ MaxRequests \in Nat /\ MaxOutside \in Nat

VARIABLES
  ctx,      \* Jira: the state of each context there is
  lastId,   \* Jira: the id given last
  journal,  \* the entries of this task
  req,      \* the request at work
  changes,  \* how many requests there were that are not an undo
  outside,  \* history: changes by another administrator
  odd,      \* history: what went wrong that the program does not see
  told,     \* history: a request was answered with a failure, or not at all
  trail     \* history: the contexts as the last recorded change left them

FC_vars == <<ctx, lastId, journal, req, changes, outside, odd, told, trail>>

States == [name : Names, projects : SUBSET Projects, types : SUBSET IssueTypes,
           default : Defaults]
Ids == 1..MaxIds

(* A stored change: what an entry's inverse holds (Change.after).  redo is   *)
(* the parameters that would create the context again, a set of at most one. *)
EditOf(c, state, global) == [op |-> "edit", ctx |-> c, state |-> {state}, global |-> global]
DeleteOf(c, redo) == [op |-> "delete", ctx |-> c, state |-> redo, global |-> FALSE]
CreateOf(redo) == [op |-> "create", ctx |-> 0, state |-> redo, global |-> FALSE]

NoRequest == [op |-> "none"]
Global(c) == ctx[c].projects = {}

FC_Init ==
  /\ \E first \in States : ctx = [c \in {1} |-> first]
  /\ lastId = 1
  /\ journal = <<>> /\ req = NoRequest /\ changes = 0
  /\ outside = 0 /\ odd = {} /\ told = FALSE /\ trail = ctx

(***************************************************************************)
(* Requests                                                                *)
(***************************************************************************)

(* change is what is asked for, undoOf the entry being undone, or 0; before  *)
(* what capture_context_state saw; todo the requests to Jira still to send.  *)
Request(change, undoOf, phase) ==
  [op |-> change.op, change |-> change, undoOf |-> undoOf, phase |-> phase,
   before |-> {}, todo |-> <<>>, was |-> ctx,
   exact |-> undoOf # 0 /\ ctx = journal[IF undoOf = 0 THEN 1 ELSE undoOf].made]

(* The state asked for. *)
Wanted == CHOOSE state \in req.change.state : TRUE

Free == req = NoRequest /\ Len(journal) < MaxEntries
Asked == Free /\ changes < MaxRequests /\ changes' = changes + 1

(* The page sends whether the context was global when it was shown.         *)
BeginEdit(c, state) ==
  /\ Asked /\ c \in DOMAIN ctx
  /\ \E global \in (IF outside > 0 THEN BOOLEAN ELSE {Global(c)}) :
       req' = Request(EditOf(c, state, global), 0, "capture")
  /\ UNCHANGED <<ctx, lastId, journal, outside, odd, told, trail>>

(* The dialog for a new context does not ask for a default.                 *)
BeginCreate(state) ==
  /\ Asked /\ state.default = NoDefault
  /\ req' = Request(CreateOf({state}), 0, "write")
  /\ UNCHANGED <<ctx, lastId, journal, outside, odd, told, trail>>

BeginDelete(c) ==
  /\ Asked /\ c \in DOMAIN ctx
  /\ req' = Request(DeleteOf(c, {}), 0, "capture")
  /\ UNCHANGED <<ctx, lastId, journal, outside, odd, told, trail>>

(* rollback_entry, then _apply_one: only an edit reads the context first.   *)
BeginUndo(e) ==
  /\ Free /\ e \in DOMAIN journal
  /\ journal[e].status = "active" /\ journal[e].inverse # {}
  /\ \E change \in journal[e].inverse :
       req' = Request(change, e, IF change.op = "edit" THEN "capture" ELSE "write")
  /\ UNCHANGED <<changes, ctx, lastId, journal, outside, odd, told, trail>>

(* How a request ends: in the forward direction the journal entry and the    *)
(* answer; an undo marks its entry whether or not its row failed.            *)
Marked(undoOf, log) ==
  IF undoOf = 0 THEN log ELSE [log EXCEPT ![undoOf].status = "rolled_back"]

Entry(inverse) ==
  [inverse |-> inverse, status |-> "active", undo |-> req.undoOf # 0,
   was |-> req.was, made |-> ctx]

Failed ==
  /\ req' = NoRequest /\ told' = TRUE
  /\ journal' = Marked(req.undoOf, journal)

(* An undo records nothing. *)
Recorded_UndoSilent(inverse) ==
  /\ journal' = IF req.undoOf # 0 THEN Marked(req.undoOf, journal)
                ELSE Append(journal, Entry(inverse))
  /\ req' = [req EXCEPT !.phase = "done"]
  /\ trail' = IF req.undoOf # 0 THEN trail ELSE ctx
Recorded(inverse) ==
  /\ journal' = Marked(req.undoOf, Append(journal, Entry(inverse)))
  /\ req' = [req EXCEPT !.phase = "done"]
  /\ trail' = ctx

(* A read fails: the capture, a mapping, or the field after the change.      *)
ReadFails ==
  /\ req.op # "none"
  /\ \/ req.phase = "capture"
     \/ req.phase \in {"name", "projects"} /\ req.todo = <<>>
     \/ req.phase = "refresh" /\ req.undoOf = 0
  /\ Failed
  /\ UNCHANGED <<changes, ctx, lastId, outside, odd, trail>>

(***************************************************************************)
(* apply_context                                                           *)
(***************************************************************************)

Order == [capture |-> "name", name |-> "projects", projects |-> "types",
          types |-> "default", default |-> "refresh"]

Put(field, value) == [field |-> field, value |-> value, how |-> "set"]
Add(field, more) == IF more = {} THEN <<>>
                    ELSE <<[field |-> field, value |-> more, how |-> "add"]>>
TakeOut(field, less) == IF less = {} THEN <<>>
                       ELSE <<[field |-> field, value |-> less, how |-> "remove"]>>

(* The mapping is read page by page for projects, but only its first page    *)
(* for issue types.                                                          *)
FirstPage(all) ==
  {page \in SUBSET all : Cardinality(page) = (IF Cardinality(all) > TypesPage
                                              THEN TypesPage ELSE Cardinality(all))}

(* Only what is new is added. *)
Requests_AddsOnly(phase, state, c, page) ==
  CASE phase = "name" -> <<Put("name", state.name)>>
    [] phase = "projects" -> IF req.change.global THEN <<>>
                             ELSE Add("projects", state.projects \ ctx[c].projects)
    [] phase = "types" -> Add("types", state.types \ page)
    [] phase = "default" -> <<Put("default", state.default)>>
    [] OTHER -> <<>>
Requests(phase, state, c, page) ==
  CASE phase = "name" -> <<Put("name", state.name)>>
    [] phase = "projects" ->
         IF req.change.global THEN <<>>
         ELSE Add("projects", state.projects \ ctx[c].projects)
              \o TakeOut("projects", ctx[c].projects \ state.projects)
    [] phase = "types" ->
         IF state.types = {} THEN TakeOut("types", page)
         ELSE Add("types", state.types \ page) \o TakeOut("types", page \ state.types)
    [] phase = "default" -> <<Put("default", state.default)>>
    [] OTHER -> <<>>

(* capture_context_state: nothing, if the context is gone.                  *)
Capture ==
  /\ req.op \in {"edit", "delete"} /\ req.phase = "capture"
  /\ LET c == req.change.ctx
     IN req' = [req EXCEPT !.before = IF c \in DOMAIN ctx
                                      THEN {EditOf(c, ctx[c], Global(c))} ELSE {},
                           !.phase = IF req.op = "edit" THEN "name" ELSE "write",
                           !.todo = IF req.op = "edit"
                                    THEN <<Put("name", Wanted.name)>> ELSE <<>>]
  /\ UNCHANGED <<changes, ctx, lastId, journal, outside, odd, told, trail>>

(* The next part of the edit, after the reads it needs.                     *)
Advance ==
  /\ req.op = "edit" /\ req.phase \in DOMAIN Order \ {"capture"} /\ req.todo = <<>>
  /\ LET c == req.change.ctx
         phase == Order[req.phase]
     IN /\ \E page \in FirstPage(ctx[c].types) :
             req' = [req EXCEPT !.phase = phase, !.todo = Requests(phase, Wanted, c, page)]
        /\ odd' = IF phase = "types" /\ Cardinality(ctx[c].types) > TypesPage
                  THEN odd \union {"paged"} ELSE odd
  /\ UNCHANGED <<changes, ctx, lastId, journal, outside, told, trail>>

Applied(state, write) ==
  [state EXCEPT ![write.field] =
     CASE write.how = "set" -> write.value
       [] write.how = "add" -> @ \union write.value
       [] OTHER -> @ \ write.value]

(* One request of an edit: done, refused, or done with its answer lost.      *)
Write ==
  /\ req.op = "edit" /\ req.todo # <<>>
  /\ LET c == req.change.ctx
         lands == c \in DOMAIN ctx
         after == [ctx EXCEPT ![c] = Applied(ctx[c], Head(req.todo))]
     IN \/ /\ lands /\ ctx' = after
           /\ req' = [req EXCEPT !.todo = Tail(@)]
           /\ UNCHANGED <<journal, told>>
        \/ Failed /\ UNCHANGED ctx
        \/ lands /\ Failed /\ ctx' = after
  /\ UNCHANGED <<changes, lastId, outside, odd, trail>>

(* The inverse holds the state after the edit. *)
EditEnds_AsEdited ==
  /\ req.op = "edit" /\ req.phase = "refresh"
  /\ IF req.before = {}
     THEN req' = NoRequest /\ journal' = Marked(req.undoOf, journal) /\ UNCHANGED trail
     ELSE Recorded({EditOf(req.change.ctx, Wanted, FALSE)})
  /\ UNCHANGED <<changes, ctx, lastId, outside, odd, told>>
(* The field is read again (not in an undo), then the edit is journaled with *)
(* the state captured before it.                                             *)
EditEnds ==
  /\ req.op = "edit" /\ req.phase = "refresh"
  /\ IF req.before = {}
     THEN req' = NoRequest /\ journal' = Marked(req.undoOf, journal) /\ UNCHANGED trail
     ELSE Recorded(req.before)
  /\ UNCHANGED <<changes, ctx, lastId, outside, odd, told>>

(***************************************************************************)
(* create_context, delete_context                                          *)
(***************************************************************************)

Creates ==
  /\ req.op = "create" /\ req.phase = "write" /\ lastId < MaxIds
  /\ LET after(state) == [c \in DOMAIN ctx \union {lastId + 1} |->
                            IF c = lastId + 1 THEN state ELSE ctx[c]]
     IN \/ Failed /\ UNCHANGED <<ctx, lastId>>
        \/ \E state \in req.change.state :
             /\ ctx' = after(state) /\ lastId' = lastId + 1
             /\ \/ Failed
                \/ /\ req' = [req EXCEPT !.phase = "refresh", !.change.ctx = lastId + 1]
                   /\ UNCHANGED <<journal, told>>
  /\ UNCHANGED <<changes, outside, odd, trail>>

CreateEnds ==
  /\ req.op = "create" /\ req.phase = "refresh"
  /\ Recorded({DeleteOf(req.change.ctx, req.change.state)})
  /\ UNCHANGED <<changes, ctx, lastId, outside, odd, told>>

(* The answer of DELETE is not looked at: a refusal passes for a deletion    *)
(* (Jira keeps the last context).  Only a request that never got an answer   *)
(* fails.                                                                    *)
Deletes ==
  /\ req.op = "delete" /\ req.phase = "write"
  /\ LET c == req.change.ctx
         after == Restrict(ctx, DOMAIN ctx \ {c})
         goes == c \in DOMAIN ctx /\ Cardinality(DOMAIN ctx) > 1
         onwards == req' = [req EXCEPT !.phase = "refresh"] /\ UNCHANGED <<journal, told>>
     IN \/ goes /\ ctx' = after /\ onwards /\ UNCHANGED odd
        \/ onwards /\ odd' = odd \union {"refused"} /\ UNCHANGED ctx
        \/ Failed /\ UNCHANGED <<ctx, odd>>
        \/ goes /\ Failed /\ ctx' = after /\ UNCHANGED odd
  /\ UNCHANGED <<changes, lastId, outside, trail>>

(* journal_delete has no inverse; the deletion that undid a creation can be   *)
(* undone in turn.                                                           *)
DeleteEnds ==
  /\ req.op = "delete" /\ req.phase = "refresh"
  /\ Recorded(IF req.undoOf = 0 THEN {} ELSE {CreateOf(req.change.state)})
  /\ UNCHANGED <<changes, ctx, lastId, outside, odd, told>>

(* The answer is out. *)
Answered ==
  /\ req.op # "none" /\ req.phase = "done"
  /\ req' = NoRequest
  /\ UNCHANGED <<changes, ctx, lastId, journal, outside, odd, told, trail>>

(* The operator leaves an undo, or the process ends.                        *)
Abandoned ==
  /\ req.op # "none" /\ req.phase # "done"
  /\ req' = NoRequest /\ told' = TRUE
  /\ UNCHANGED <<changes, ctx, lastId, journal, outside, odd, trail>>

Elsewhere(c, state) ==
  /\ outside < MaxOutside /\ c \in DOMAIN ctx
  /\ ctx' = [ctx EXCEPT ![c] = state] /\ outside' = outside + 1
  /\ UNCHANGED <<changes, lastId, journal, req, odd, told, trail>>

FC_Next ==
  \/ \E state \in States : \/ BeginCreate(state)
                           \/ \E c \in Ids : BeginEdit(c, state) \/ Elsewhere(c, state)
  \/ \E c \in Ids : BeginDelete(c)
  \/ \E e \in 1..MaxEntries : BeginUndo(e)
  \/ Capture \/ Advance \/ Write \/ EditEnds \/ ReadFails
  \/ Creates \/ CreateEnds \/ Deletes \/ DeleteEnds
  \/ Answered \/ Abandoned

FC_Spec == FC_Init /\ [][FC_Next]_FC_vars

(***************************************************************************)
(* Properties                                                              *)
(***************************************************************************)

FC_TypeOK ==
  /\ DOMAIN ctx \subseteq 1..lastId /\ \A c \in DOMAIN ctx : ctx[c] \in States
  /\ lastId \in 1..MaxIds /\ changes \in 0..MaxRequests /\ Len(journal) <= MaxEntries
  /\ outside \in 0..MaxOutside /\ odd \subseteq {"paged", "refused"} /\ told \in BOOLEAN

(* The same contexts, whatever their ids. *)
Alike(a, b) ==
  \E f \in Bijection(DOMAIN a, DOMAIN b) : \A c \in DOMAIN a : a[c] = b[f[c]]

Succeeded == req.op # "none" /\ req.phase = "done"

(* What an undo creates again is not what the deletion took away.           *)
EditsLost ==
  /\ req.op = "create"
  /\ LET entry == journal[req.undoOf] IN
     \E c \in DOMAIN entry.was \ DOMAIN entry.made : entry.was[c] # Wanted

(* "snapshot the current state BEFORE editing, so [the history] can offer an *)
(* undo that re-applies exactly this state" (app.py:795), and an undo can be *)
(* undone like it: an undo that succeeds and starts from what its entry left *)
(* gives back what was there before, the number of requests it takes and     *)
(* the order of adding and removing notwithstanding.  Excepted are a context *)
(* that the undone change made global, or stopped being (GlobalIsUndone), one *)
(* that was edited between its creation and the deletion that undid it       *)
(* (RedoneAsItWas), and refusals and pages that the program does not see.    *)
UndoGivesBack ==
  (Succeeded /\ req.undoOf # 0 /\ req.exact /\ odd = {} /\ outside = 0
     /\ ~(req.change.global /\ Wanted.projects # ctx[req.change.ctx].projects)
     /\ ~EditsLost) =>
    Alike(ctx, journal[req.undoOf].was)

(* A request answered as done did what was asked (app.py:784, 823, 853),     *)
(* except that projects of a global context are left alone, that issue types *)
(* beyond the first page stay, and that a refused deletion is not noticed.   *)
SuccessIsAsAsked ==
  (Succeeded /\ outside = 0) =>
    LET c == req.change.ctx IN
    CASE req.op = "edit" ->
           /\ ctx[c].name = Wanted.name /\ ctx[c].default = Wanted.default
           /\ req.change.global \/ ctx[c].projects = Wanted.projects
           /\ "paged" \in odd \/ ctx[c].types = Wanted.types
      [] req.op = "create" -> c \in DOMAIN ctx /\ ctx[c] = Wanted
      [] OTHER -> c \notin DOMAIN ctx \/ "refused" \in odd

(* Whatever the field view changed is in the journal, unless the operator    *)
(* was told of a failure or got no answer: also when only the reading after  *)
(* the change failed, which leaves a change that worked unjournaled          *)
(* (app.py:803).                                                             *)
TrailComplete ==
  (req = NoRequest \/ Succeeded) => (ctx = trail \/ told \/ outside > 0)

(* "Delete a context" (field_inventory.py:339): a deletion reported and      *)
(* journaled is one.  Refuted: the answer is not looked at.                  *)
DeletedIsGone ==
  (Succeeded /\ req.op = "delete") => req.change.ctx \notin DOMAIN ctx

(* The same of an undo across the border of being global. Refuted: the       *)
(* captured is_global keeps the projects from being compared.                *)
GlobalIsUndone ==
  (Succeeded /\ req.undoOf # 0 /\ req.exact /\ odd = {} /\ outside = 0) =>
    Alike(ctx, journal[req.undoOf].was)

(* "Each op re-journals its inverse so the undo is itself redoable"          *)
(* (field_inventory.py:505): undoing the undo of a creation brings back what *)
(* was there.  Refuted: the context is created with its first parameters, and*)
(* what was edited since is lost.                                            *)
RedoneAsItWas ==
  (Succeeded /\ req.op = "create" /\ req.undoOf # 0 /\ req.exact /\ odd = {} /\ outside = 0) =>
    Alike(ctx, journal[req.undoOf].was)
=============================================================================
