------------------------------- MODULE BulkRun -------------------------------
(***************************************************************************)
(* One execution of a previewed change set: execute_task (app.py) streaming *)
(* group_membership_bulk.execute_stream, which sends one request per row    *)
(* through map_bounded and the retry loop of core/http.py, audits the run   *)
(* and journals its inverse at the end.                                     *)
(*                                                                         *)
(* Row i is one (account, group) pair with its own operation.  Jira is the  *)
(* environment: member[i] is the truth there, an administrator may change   *)
(* it behind the program's back, and an answer may be lost after the write  *)
(* landed.  The operator may close the page at any moment and the process   *)
(* may die.  The run begins when map_bounded does: leaving at the "start"   *)
(* event, before any request, has nothing to lose.                          *)
(***************************************************************************)
EXTENDS Naturals, FiniteSets, Sequences

CONSTANTS
  N,           \* rows of the plan
  Limit,       \* opts.concurrency
  Removals,    \* the rows whose op is "remove"; the others are "add"
  MaxSends,    \* max_retries: requests sent for one row at most
  MaxOutside   \* bound: changes by another administrator

ASSUME BulkRunAssumption ==
  /\ N \in Nat /\ Limit \in Nat \ {0}
  /\ Removals \subseteq 1..N
  /\ MaxSends \in Nat \ {0} /\ MaxOutside \in Nat

VARIABLES
  ordered, task, source, batch, held, out, pc, stopped,   \* map_bounded
  member,    \* Jira: is the account of row i in its group
  sends,     \* requests sent for row i
  verdict,   \* ItemResult.ok of row i, once its worker has returned
  wire,      \* rows whose request is still under way though nobody waits for it
  phase,     \* progress of execute_stream
  journal,   \* rows whose inverse was recorded, or NoEntry
  audit,     \* the audit record of the run, or NoRecord
  mine,      \* history: rows whose membership was changed by this run
  outside,   \* history: rows another administrator touched
  unheeded   \* history: rows answered with a 400 that changed nothing

vars == <<ordered, task, source, batch, held, out, pc, stopped, member, sends, verdict,
          wire, phase, journal, audit, mine, outside, unheeded>>

NoEntry == {0}
NoRecord == [cancelled |-> "none"]

Map == INSTANCE MapBounded
mapvars == <<ordered, task, source, batch, held, out, pc, stopped>>
Rows == Map!Items

Wanted(i) == i \notin Removals

Yielded == {out[k] : k \in DOMAIN out}
OkRows == {i \in Yielded : verdict[i] = "ok"}

Init ==
  /\ Map!MBInit /\ ordered = FALSE
  /\ N > 0   \* an empty change set is refused with 409 before it gets here
  /\ member = [i \in Rows |-> ~Wanted(i)]   \* what the preview saw
  /\ sends = [i \in Rows |-> 0]
  /\ verdict = [i \in Rows |-> "none"]
  /\ wire = {}
  /\ phase = "running"
  /\ journal = NoEntry /\ audit = NoRecord
  /\ mine = {} /\ outside = {} /\ unheeded = {}

runvars == <<phase, journal, audit>>
jiravars == <<member, wire, mine, outside, unheeded>>

(***************************************************************************)
(* Jira and the workers                                                    *)
(***************************************************************************)

Alive == phase # "crashed"

(* The write of row i takes effect. *)
Landing(i) ==
  /\ member' = [member EXCEPT ![i] = Wanted(i)]
  /\ mine' = IF member[i] # Wanted(i) THEN mine \union {i} ELSE mine

Answer(i, ok) ==
  /\ Map!Finish(i)
  /\ verdict' = [verdict EXCEPT ![i] = IF ok THEN "ok" ELSE "failed"]
  /\ sends' = [sends EXCEPT ![i] = @ + 1]
  /\ UNCHANGED <<wire, outside, runvars>>

Sending(i) == Alive /\ task[i] = "running" /\ sends[i] < MaxSends

(* 2xx; or the 400 "already a member" / 404 that counts as done, which is    *)
(* also what a retry gets when an earlier attempt landed unseen.             *)
AnsweredDone(i) ==
  /\ Sending(i)
  /\ Landing(i)
  /\ Answer(i, TRUE)
  /\ UNCHANGED unheeded

(* Any other 4xx: the row fails at once, without a retry. *)
AnsweredRefused(i) ==
  /\ Sending(i)
  /\ Answer(i, FALSE)
  /\ UNCHANGED <<member, mine, unheeded>>

(* A 400 on a removal, for whatever reason, counts as done. *)
AnsweredRefused400(i) ==
  /\ Sending(i) /\ i \in Removals
  /\ member[i]
  /\ Answer(i, TRUE)
  /\ unheeded' = unheeded \union {i}
  /\ UNCHANGED <<member, mine>>

(* A row given up is taken for done. *)
AnswerLost_GivenUpOk(i) ==
  /\ Sending(i)
  /\ Landing(i) \/ UNCHANGED <<member, mine>>
  /\ IF sends[i] + 1 = MaxSends
     THEN Answer(i, TRUE)
     ELSE /\ sends' = [sends EXCEPT ![i] = @ + 1]
          /\ UNCHANGED <<mapvars, verdict, wire, outside, runvars>>
  /\ UNCHANGED unheeded
(* Timeout, broken connection, 429 or 5xx: whether the write landed is not   *)
(* known.  The last attempt fails the row; any other is sent again.          *)
AnswerLost(i) ==
  /\ Sending(i)
  /\ Landing(i) \/ UNCHANGED <<member, mine>>
  /\ IF sends[i] + 1 = MaxSends
     THEN Answer(i, FALSE)
     ELSE /\ sends' = [sends EXCEPT ![i] = @ + 1]
          /\ UNCHANGED <<mapvars, verdict, wire, outside, runvars>>
  /\ UNCHANGED unheeded

(* A cancelled worker leaves its last request to the network. *)
Unwind(i) ==
  /\ Alive
  /\ Map!Unwind(i)
  /\ wire' = wire \union {i}
  /\ UNCHANGED <<member, sends, verdict, mine, outside, unheeded, runvars>>

(* ... where it lands or not, whoever is still there to see it. *)
Stray(i) ==
  /\ i \in wire
  /\ Landing(i) \/ UNCHANGED <<member, mine>>
  /\ wire' = wire \ {i}
  /\ UNCHANGED <<mapvars, sends, verdict, outside, unheeded, runvars>>

Outside(i) ==
  /\ Cardinality(outside) < MaxOutside /\ i \notin outside
  /\ member' = [member EXCEPT ![i] = ~@]
  /\ outside' = outside \union {i}
  /\ UNCHANGED <<mapvars, sends, verdict, wire, mine, unheeded, runvars>>

(***************************************************************************)
(* execute_stream                                                          *)
(***************************************************************************)

(* The fan-out goes on while execute_stream iterates over it.                *)
Iterate ==
  /\ Alive
  /\ \/ Map!Wake
     \/ \E i \in Rows : Map!Take(i)
     \/ Map!Resume
     \/ Map!EndCleanup
  /\ UNCHANGED <<sends, verdict, jiravars, runvars>>

(* The operator goes away while rows are awaited: the cancellation passes    *)
(* through map_bounded first.                                                *)
LeaveWaiting ==
  /\ phase = "running"
  /\ Map!CancelWait
  /\ UNCHANGED <<sends, verdict, jiravars, runvars>>

(* Only the confirmed rows are written down. *)
AuditRun_OkOnly(cancelled) ==
  /\ phase' = "ended"
  /\ audit' = [cancelled |-> IF cancelled THEN "yes" ELSE "no",
               attempted |-> OkRows, succeeded |-> OkRows]
AuditRun(cancelled) ==
  /\ phase' = "ended"
  /\ audit' = [cancelled |-> IF cancelled THEN "yes" ELSE "no",
               attempted |-> Yielded, succeeded |-> OkRows]

(* The audit is not in a finally block. *)
AuditCancelled_NotInFinally ==
  /\ phase = "running" /\ stopped /\ pc = "ended"
  /\ phase' = "ended"
  /\ UNCHANGED <<mapvars, sends, verdict, jiravars, journal, audit>>
AuditCancelled ==
  /\ phase = "running" /\ stopped /\ pc = "ended"
  /\ AuditRun(TRUE)
  /\ UNCHANGED <<mapvars, sends, verdict, jiravars, journal>>

(* The operator goes away while an event is written to the socket:           *)
(* execute_stream is closed first and audits, map_bounded is closed after.   *)
LeaveYielding ==
  /\ phase = "running"
  /\ Map!Drop
  /\ AuditRun(TRUE)
  /\ UNCHANGED <<sends, verdict, jiravars, journal>>

Finalize ==
  /\ Alive
  /\ Map!Finalize
  /\ UNCHANGED <<sends, verdict, jiravars, runvars>>

(* The rows of a round that is still open are missed. *)
RecordInverse_DropsLast ==
  /\ phase = "running" /\ pc = "ended" /\ ~stopped
  /\ journal' = OkRows \ {out[Len(out)]}
  /\ phase' = "summary"
  /\ UNCHANGED <<mapvars, sends, verdict, jiravars, audit>>
(* All rows are in: the inverse of what succeeded is journaled (unless there *)
(* is none, or the append fails), then the summary event is offered.         *)
RecordInverse ==
  /\ phase = "running" /\ pc = "ended" /\ ~stopped
  /\ journal' \in {IF OkRows = {} THEN NoEntry ELSE OkRows, NoEntry}
  /\ phase' = "summary"
  /\ UNCHANGED <<mapvars, sends, verdict, jiravars, audit>>

(* The summary is read, or the operator leaves at that very moment. *)
EndRun ==
  /\ phase = "summary"
  /\ \E cancelled \in BOOLEAN : AuditRun(cancelled)
  /\ UNCHANGED <<mapvars, sends, verdict, jiravars, journal>>

(* The process dies.  Requests under way stay under way.                     *)
Crash ==
  /\ phase \in {"running", "summary"}
  /\ phase' = "crashed"
  /\ wire' = wire \union Map!InFlight
  /\ UNCHANGED <<mapvars, member, sends, verdict, mine, outside, unheeded, journal, audit>>

Worker(i) == \/ AnsweredDone(i) \/ AnsweredRefused(i) \/ AnsweredRefused400(i)
             \/ AnswerLost(i)
Stream == Iterate \/ AuditCancelled \/ Finalize \/ RecordInverse \/ EndRun

Next ==
  \/ \E i \in Rows : Worker(i) \/ Unwind(i) \/ Stray(i) \/ Outside(i)
  \/ Stream
  \/ LeaveWaiting \/ LeaveYielding \/ Crash

(* Requests end (httpx timeouts, capped retries), the event loop runs what   *)
(* is ready, the browser that is still there reads.  Nothing obliges Jira to *)
(* say yes, another administrator to act or the operator to stay.            *)
Fairness ==
  /\ \A i \in Rows : WF_vars(Worker(i)) /\ WF_vars(Unwind(i))
  /\ WF_vars(Stream)

Spec == Init /\ [][Next]_vars /\ Fairness

(***************************************************************************)
(* Properties                                                              *)
(***************************************************************************)

(* Shapes of the run's variables. *)
TypeOK ==
  /\ Map!MBTypeOK
  /\ member \in [Rows -> BOOLEAN] /\ sends \in [Rows -> 0..MaxSends]
  /\ verdict \in [Rows -> {"none", "ok", "failed"}]
  /\ wire \subseteq Rows /\ mine \subseteq Rows /\ outside \subseteq Rows
  /\ phase \in {"running", "summary", "ended", "crashed"}
  /\ journal = NoEntry \/ journal \subseteq Rows

Journaled == IF journal = NoEntry THEN {} ELSE journal

(* An ok result is true: the membership is what the row asked for, unless    *)
(* somebody else touched it or the row is a removal answered with a 400.     *)
OkIsTrue ==
  \A i \in Rows :
    (verdict[i] = "ok" /\ i \notin outside \union unheeded) => member[i] = Wanted(i)

(* Undo data is sound: what the journal would take back is a change this run *)
(* made and saw confirmed, unless somebody else interfered.                  *)
JournalSound ==
  /\ \A i \in Journaled : verdict[i] = "ok"
  /\ Journaled \ (outside \union unheeded) \subseteq mine

(* Every write that escapes the journal has one of four reasons: the         *)
(* operator left, the process died, the append failed, or the row's answer   *)
(* was lost to the end and it was reported as failed.                        *)
EscapesExplained ==
  (phase = "ended" /\ audit.cancelled = "no" /\ journal # NoEntry)
    => \A i \in mine \ Journaled : verdict[i] = "failed"

(* Between what the run changed and what its undo will take back there is no *)
(* difference but those.                                                     *)
JournalAccounts == JournalSound /\ EscapesExplained

(* An interrupted run hides little: of the memberships it changed, at most   *)
(* Limit are missing from its audit record, however late the interruption    *)
(* and whatever lands afterwards.                                            *)
AuditGapBounded ==
  audit # NoRecord => Cardinality(mine \ audit.attempted) <= Limit

(* Every run ends in the audit log, also when the operator leaves; only a    *)
(* crash prevents it.                                                        *)
EventuallyAudited == <>(audit # NoRecord \/ phase = "crashed")

(* README.md: successful writes are recorded in the journal with their       *)
(* inverse and can be undone.  Not those of a run that was left early.       *)
SuccessIsJournaled ==
  audit # NoRecord => audit.succeeded \subseteq Journaled

(* group_membership_bulk.py, docstring: the inverse removes what the run     *)
(* added.  A stale preview row whose add is answered "already a member" is   *)
(* counted as added.                                                         *)
InverseOnlyOwnChanges == Journaled \subseteq mine \union unheeded

(* group_membership_bulk.py: the answers counted as done are "idempotent     *)
(* no-ops".  A 400 on a removal is counted whatever it says.                 *)
DoneMeansDone ==
  \A i \in Rows : (verdict[i] = "ok" /\ i \notin outside) => member[i] = Wanted(i)
=============================================================================
