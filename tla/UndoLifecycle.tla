---------------------------- MODULE UndoLifecycle ----------------------------
(***************************************************************************)
(* The life of a change across the endpoints of app.py: preview, execute,   *)
(* journal, undo.  It composes the plan store (as PlanTokens promises it),  *)
(* the journal (core/rollback.py, without the torn appends RollbackJournal  *)
(* studies) and the group writes: the bulk task behind previews and undos,  *)
(* and the group view's direct add and remove.                             *)
(*                                                                         *)
(* A run is a request at work: which rows it still has to send and which    *)
(* were answered ok.  How rows share the connection is BulkRun's subject;   *)
(* here a row is one step with one outcome, and rows of different requests, *)
(* another administrator, a closed page and a restart come in between.      *)
(* All rows of a plan carry one op, and so do those of its inverse.         *)
(***************************************************************************)
EXTENDS Naturals, FiniteSets, Sequences

CONSTANTS
  Pairs,       \* (account, group) pairs
  Requests,    \* HTTP requests the server can be working on at once
  TokenIds,    \* bound: previews (a set of numbers, see PlanTokens)
  MaxEntries,  \* bound: journal entries
  MaxOutside,  \* bound: changes by another administrator
  Mishaps,     \* which of the things below may go wrong
  Watched      \* what straight may begin with (TRUE: origin is kept)

ASSUME UndoLifecycleAssumption ==
  /\ TokenIds \subseteq Nat /\ IsFiniteSet(Requests)
  /\ MaxEntries \in Nat /\ MaxOutside \in Nat
  /\ Mishaps \subseteq {"refused", "refused400", "lost", "leave", "crash"}
  /\ Watched \subseteq BOOLEAN

VARIABLES
  member,    \* Jira: the pairs that are memberships
  token,     \* the plan store
  plan,      \* what each issued token stands for
  req,       \* the requests at work
  journal,   \* logs/rollbacks.jsonl
  outside,   \* how many changes another administrator made
  started,   \* history: runs started from each token
  origin,    \* history: the memberships at the start
  straight   \* history: nothing yet that an undo is not meant to repair

vars == <<member, token, plan, req, journal, outside, started, origin, straight>>
history == <<started, origin, straight>>

Tokens == INSTANCE PlanTokens

Ops == {"add", "remove"}
Flip(op) == IF op = "add" THEN "remove" ELSE "add"
IsWanted(op, p) == (p \in member) <=> (op = "add")
Apply(op, p) == IF op = "add" THEN member \union {p} ELSE member \ {p}

NoPlan == [op |-> "none", rows |-> {}]
Entries == 1..MaxEntries

(* An entry: the inverse (what an undo executes) and its marks. *)
Entry == [op : Ops, rows : SUBSET Pairs, undo : BOOLEAN,
          status : {"active", "rolled_back"}]
Listed == {e \in DOMAIN journal : ~journal[e].undo}
Active == {e \in DOMAIN journal : journal[e].status = "active"}

Idle == [pc |-> "idle"]
Run(kind, op, rows, of) ==
  [pc |-> "running", kind |-> kind, op |-> op, todo |-> rows, ok |-> {}, of |-> of]

Init ==
  /\ member \in SUBSET Pairs
  /\ Tokens!PT_Init
  /\ plan = [id \in TokenIds |-> NoPlan]
  /\ req = [r \in Requests |-> Idle]
  /\ journal = <<>>
  /\ outside = 0
  /\ started = [id \in TokenIds |-> 0]
  /\ straight \in Watched
  /\ origin = IF straight THEN member ELSE {}

(* A run that begins beside another may be journaled in another order than   *)
(* its rows were written.                                                    *)
Alone(r) == \A s \in Requests \ {r} : req[s] = Idle

(* A run may append an entry: keep room for one per request at work. *)
Room == Len(journal) + Cardinality({r \in Requests : req[r].pc = "running"}) < MaxEntries

(***************************************************************************)
(* Preview and execute                                                     *)
(***************************************************************************)

(* classify_stream: only the pairs not yet as wanted become rows.  register  *)
(* issues the lowest unused token.  (The pairs are read one after the other; *)
(* reading them at once loses nothing, since what is read may be stale by    *)
(* the time it is used either way.)                                          *)
Preview(op, picked) ==
  /\ \E id \in TokenIds :
       /\ token[id] = "unissued"
       /\ \A k \in TokenIds : k < id => token[k] # "unissued"
       /\ token' = [token EXCEPT ![id] = "write"]
       /\ plan' = [plan EXCEPT ![id] =
                     [op |-> op, rows |-> {p \in picked : ~IsWanted(op, p)}]]
  /\ UNCHANGED <<member, req, journal, outside, history>>

(* Expiry, or eviction by newer previews and by the plan an undo registers.  *)
Retire ==
  /\ Tokens!PT_Retire
  /\ UNCHANGED <<member, plan, req, journal, outside, history>>

Use(id) == token[id] = "write" /\ token' = [token EXCEPT ![id] = "used"]

(* execute_task: the token is consumed before anything else; a plan without  *)
(* changes is then refused (409) and is gone.                                *)
Execute(r, id) ==
  /\ req[r] = Idle
  /\ Room
  /\ Use(id)
  /\ IF plan[id].rows = {}
     THEN UNCHANGED <<req, started, straight>>
     ELSE /\ req' = [req EXCEPT ![r] = Run("bulk", plan[id].op, plan[id].rows, 0)]
          /\ started' = [started EXCEPT ![id] = @ + 1]
          /\ straight' = (straight /\ Alone(r))
  /\ UNCHANGED <<member, plan, journal, outside, origin>>

(* add_group_members and remove_group_member: no preview, no token.          *)
Manual(r, op, picked) ==
  /\ req[r] = Idle
  /\ Room
  /\ picked # {} /\ (op = "remove" => Cardinality(picked) = 1)
  /\ req' = [req EXCEPT ![r] = Run("manual", op, picked, 0)]
  /\ straight' = (straight /\ Alone(r))
  /\ UNCHANGED <<member, token, plan, journal, outside, started, origin>>

(***************************************************************************)
(* Undo                                                                    *)
(***************************************************************************)

(* rollback_entry, up to the start of the stream: the entry must be active;  *)
(* the plan it registers is consumed at once, so no token is left over.      *)
BeginUndo(r, e) ==
  /\ req[r] = Idle /\ e \in DOMAIN journal
  /\ journal[e].status = "active"
  /\ Room
  /\ req' = [req EXCEPT ![r] = Run("undo", journal[e].op, journal[e].rows, e)]
  /\ straight' = (/\ straight /\ Alone(r)
                  /\ e \in Listed /\ \A k \in Active \cap Listed : k <= e)
  /\ UNCHANGED <<member, token, plan, journal, outside, started, origin>>

(***************************************************************************)
(* The rows of a run                                                       *)
(***************************************************************************)

Answered(r, p, ok) ==
  req' = [req EXCEPT ![r].todo = @ \ {p},
                     ![r].ok = IF ok THEN @ \union {p} ELSE @]

Row(r, p) == req[r].pc = "running" /\ p \in req[r].todo
Spoils(condition) == straight' = (straight /\ ~condition)
Others == <<token, plan, journal, outside, started, origin>>

(* Done, or found done (400 "already", 404): ok either way. *)
RowDone(r, p) ==
  /\ Row(r, p)
  /\ member' = Apply(req[r].op, p)
  /\ Answered(r, p, TRUE)
  /\ Spoils(req[r].kind # "undo" /\ IsWanted(req[r].op, p))
  /\ UNCHANGED Others

RowRefused(r, p) ==
  /\ "refused" \in Mishaps
  /\ Row(r, p)
  /\ Answered(r, p, FALSE)
  /\ Spoils(req[r].kind = "undo")
  /\ UNCHANGED <<member, Others>>

(* The bulk task counts every 400 on a removal as done; remove_member of the *)
(* group view does not.                                                      *)
RowRefused400(r, p) ==
  /\ "refused400" \in Mishaps
  /\ Row(r, p) /\ req[r].op = "remove" /\ ~IsWanted("remove", p)
  /\ Answered(r, p, req[r].kind # "manual")
  /\ Spoils(req[r].kind # "manual")
  /\ UNCHANGED <<member, Others>>

(* The write lands, every answer is lost: reported as failed. *)
RowLost(r, p) ==
  /\ "lost" \in Mishaps
  /\ Row(r, p)
  /\ member' = Apply(req[r].op, p)
  /\ Answered(r, p, FALSE)
  /\ Spoils(TRUE)
  /\ UNCHANGED Others

(***************************************************************************)
(* The end of a run                                                        *)
(***************************************************************************)

EntryOf_NotFlipped(q) ==
  [op |-> q.op, rows |-> q.ok, undo |-> q.of # 0, status |-> "active"]
EntryOf(q) ==
  [op |-> Flip(q.op), rows |-> q.ok, undo |-> q.of # 0, status |-> "active"]

(* The inverse of the ok rows is journaled; nothing if there is none.        *)
Record(r) ==
  /\ req[r].pc = "running" /\ req[r].todo = {}
  /\ journal' = IF req[r].ok = {} THEN journal ELSE Append(journal, EntryOf(req[r]))
  /\ req' = [req EXCEPT ![r].pc = "summary"]
  /\ UNCHANGED <<member, token, plan, outside, history>>

(* mark_rolled_back *)
Marked(e) == [journal EXCEPT ![e].status = "rolled_back"]

(* The stream is read to its end; an undo then marks its entry, whatever its *)
(* rows were answered.                                                       *)
End(r) ==
  /\ req[r].pc = "summary"
  /\ journal' = IF req[r].kind = "undo" THEN Marked(req[r].of) ELSE journal
  /\ req' = [req EXCEPT ![r] = Idle]
  /\ UNCHANGED <<member, token, plan, outside, history>>

(* The page is closed or the run stopped: rows not yet sent never are, a row *)
(* under way may still land; nothing is journaled, nothing marked.  A direct *)
(* change is not streamed and runs on.                                       *)
Leave_Marks(r) ==
  /\ "leave" \in Mishaps
  /\ req[r].pc \in {"running", "summary"} /\ req[r].kind # "manual"
  /\ journal' = IF req[r].kind = "undo" THEN Marked(req[r].of) ELSE journal
  /\ req' = [req EXCEPT ![r] = Idle]
  /\ UNCHANGED <<member, token, plan, outside, history>>
Leave(r) ==
  /\ "leave" \in Mishaps
  /\ req[r].pc \in {"running", "summary"} /\ req[r].kind # "manual"
  /\ \/ UNCHANGED member
     \/ \E p \in req[r].todo : member' = Apply(req[r].op, p)
  /\ req' = [req EXCEPT ![r] = Idle]
  /\ Spoils(TRUE)
  /\ UNCHANGED Others

(* A restart forgets requests and previews, and keeps the journal.           *)
Crash ==
  /\ "crash" \in Mishaps
  /\ \E r \in Requests : req[r] # Idle
  /\ req' = [r \in Requests |-> Idle]
  /\ token' = Tokens!Lapsed(TokenIds)
  /\ Spoils(TRUE)
  /\ UNCHANGED <<member, plan, journal, outside, started, origin>>

Outside(p) ==
  /\ outside < MaxOutside
  /\ outside' = outside + 1
  /\ member' = IF p \in member THEN member \ {p} ELSE member \union {p}
  /\ Spoils(TRUE)
  /\ UNCHANGED <<token, plan, req, journal, started, origin>>

Progress(r) == \/ \E p \in Pairs : RowDone(r, p) \/ RowRefused(r, p)
                                   \/ RowRefused400(r, p) \/ RowLost(r, p)
               \/ Record(r) \/ End(r)

Next ==
  \/ \E op \in Ops, picked \in SUBSET Pairs : Preview(op, picked)
  \/ Retire
  \/ \E r \in Requests :
       \/ \E id \in TokenIds : Execute(r, id)
       \/ \E op \in Ops, picked \in SUBSET Pairs : Manual(r, op, picked)
       \/ \E e \in Entries : BeginUndo(r, e)
       \/ Progress(r)
       \/ Leave(r)
  \/ Crash
  \/ \E p \in Pairs : Outside(p)

Spec == Init /\ [][Next]_vars

(***************************************************************************)
(* Properties                                                              *)
(***************************************************************************)

(* Shapes; an undo run always refers to an entry that exists. *)
TypeOK ==
  /\ member \subseteq Pairs
  /\ Tokens!PT_TypeOK
  /\ journal \in Seq(Entry) /\ Len(journal) <= MaxEntries
  /\ \A r \in Requests :
       req[r] = Idle \/ /\ req[r].pc \in {"running", "summary"}
                        /\ req[r].todo \union req[r].ok \subseteq Pairs
                        /\ req[r].kind = "undo" => req[r].of \in DOMAIN journal
  /\ outside \in 0..MaxOutside

(* README.md: a double click or a replayed request does not apply a preview  *)
(* twice, whatever happens between the two.                                  *)
PlanRunsOnce == \A id \in TokenIds : started[id] <= 1

(* "Mark the original undone only if the undo actually ran to the end"       *)
(* (rollback_entry): an entry is marked only by a request that has sent and  *)
(* heard back every row of it, also when another undo of the same entry is   *)
(* under way or was left half way before.                                    *)
MarkedOnlyAfterFullUndo ==
  [][ \A e \in Active :
        journal'[e].status = "rolled_back" =>
          \E r \in Requests : /\ req[r].pc # "idle" /\ req'[r].pc = "idle"
                             /\ req[r].of = e /\ req[r].todo = {} ]_vars

(* What the undo button is for: once every listed action is undone, latest   *)
(* first, the memberships are what they were before the first one.  Except   *)
(* where the undo does not claim to help: a change by somebody else, a lost  *)
(* answer, a refused undo row, a run left early or begun beside another, an  *)
(* action that found a row already as wanted.                                *)
AllUndoneIsOrigin ==
  (straight /\ Active \cap Listed = {} /\ \A r \in Requests : req[r] = Idle)
    => member = origin

(* rollback_entry, comment at the consume: "single-use, mirror the normal    *)
(* path".  The plan of an undo is used once, but each request registers its  *)
(* own, and the entry is marked only at the end.                             *)
UndoIsSingleUse ==
  \A r, s \in Requests :
    (r # s /\ req[r] # Idle /\ req[s] # Idle /\ req[r].of # 0) => req[r].of # req[s].of

(* core/rollback.py, docstring: every listed action is either undoable or    *)
(* already undone.  An undo whose rows failed marks its entry all the same.  *)
MarkedMeansReverted ==
  [][ \A e \in Active :
        journal'[e].status = "rolled_back" =>
          \E r \in Requests : /\ req[r].pc # "idle" /\ req'[r].pc = "idle"
                             /\ req[r].of = e /\ req[r].ok = journal[e].rows ]_vars

(* add_group_members: "the inverse removes exactly who was added": an        *)
(* account is counted as added only by the step that made it a member.  One  *)
(* that already was a member is counted too.                                 *)
ManualInverseExact ==
  [][ \A r \in Requests :
        (req[r].pc = "running" /\ req[r].kind = "manual" /\ req[r].op = "add"
           /\ req'[r].pc = "running")
          => req'[r].ok \ req[r].ok \subseteq member' \ member ]_vars
=============================================================================
