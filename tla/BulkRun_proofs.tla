--------------------------- MODULE BulkRun_proofs ---------------------------
(***************************************************************************)
(* Proofs about one execution of a change set, for any number of rows, any   *)
(* limit, any number of attempts and of changes by another administrator:    *)
(* what is reported as done is true, the journal accounts for what the run   *)
(* changed, and an interrupted run hides at most Limit changes.              *)
(***************************************************************************)
EXTENDS BulkRun, TLAPS, FiniteSetTheorems

(* The run goes through map_bounded, whose invariant is proved there.        *)
MapProofs == INSTANCE MapBounded_proofs

(* Rows whose task was started and whose result was not taken.               *)
Untaken == Map!With({"running", "done", "raised", "cancelling", "cancelled"})

(* Results are streamed as they come, and no worker of this run raises:      *)
(* _add_one and _remove_one turn every failure into an ItemResult.           *)
NoWorkerRaises == ordered = FALSE /\ Map!With({"raised"}) = {}

(* A row has a result from the moment its worker returned.                   *)
VerdictWhenDone == \A i \in Rows : verdict[i] # "none" <=> task[i] \in {"done", "taken"}

(* A request nobody waits for belonged to a worker that was cancelled, or    *)
(* was under way when the process died.                                      *)
StraysWereSent ==
  \A i \in wire : \/ task[i] = "cancelled"
                  \/ phase = "crashed" /\ task[i] \in {"running", "cancelling"}

(* Only a row whose worker was started is changed by this run, and a         *)
(* membership nobody else touched differs from the preview exactly when this *)
(* run changed it.                                                           *)
MineIsMine ==
  /\ \A i \in mine : task[i] # "new"
  /\ \A i \in Rows \ outside : member[i] = Wanted(i) <=> i \in mine

(* Those are never more than there are slots: cancelled ones included,       *)
(* because nothing is started once the finally block was entered.            *)
SlotsHold == Cardinality(Untaken) <= Limit

(* The summary comes after the last result, and the journal has then every   *)
(* row that succeeded, or no entry.                                          *)
JournalIsOfAll ==
  /\ phase = "summary" => pc = "ended"
  /\ phase = "summary" \/ journal # NoEntry => \A i \in Rows : task[i] = "taken"
  /\ journal # NoEntry => journal = {i \in Rows : verdict[i] = "ok"}

(* The audit is written when no further result will be yielded.              *)
AuditIsOfYielded ==
  audit # NoRecord => /\ audit.attempted = Yielded
                      /\ pc \in {"dropped", "finally", "ended"}

(* Shapes, with those TypeOK leaves out.                                     *)
RunTyped == TypeOK /\ unheeded \subseteq Rows

(* The inductive invariant.                                                  *)
IInv ==
  /\ MapProofs!IInv
  /\ RunTyped
  /\ NoWorkerRaises
  /\ VerdictWhenDone
  /\ StraysWereSent
  /\ MineIsMine
  /\ SlotsHold
  /\ JournalIsOfAll
  /\ AuditIsOfYielded
  /\ OkIsTrue

(***************************************************************************)
(* Lemmas                                                                  *)
(***************************************************************************)

TaskStates == {"new", "running", "done", "raised", "taken", "cancelling", "cancelled"}

(* What is known of the fan-out, in the terms of this module.                *)
LEMMA MapFacts ==
  ASSUME MapProofs!IInv
  PROVE  /\ task \in [Rows -> TaskStates]
         /\ out \in Seq(Rows)
         /\ pc \in {"wait", "loop", "drain", "yield", "dropped", "finally", "ended"}
         /\ Yielded \subseteq Rows
         /\ \A i \in Yielded : task[i] = "taken"
         /\ ordered = FALSE => \A i \in Rows : task[i] = "taken" => i \in Yielded
<1> USE DEF MapProofs!IInv
<1>1. /\ task \in [Rows -> TaskStates]
      /\ out \in Seq(Rows)
      /\ pc \in {"wait", "loop", "drain", "yield", "dropped", "finally", "ended"}
  BY DEF MapProofs!MBTypeOK, MapProofs!Items, Rows, Map!Items, TaskStates
<1>2. Yielded \subseteq Rows
  BY <1>1 DEF Yielded
<1>3. \A i \in Yielded : task[i] = "taken"
  BY DEF MapProofs!TakenIsYielded, Yielded
<1>4. ordered = FALSE => \A i \in Rows : task[i] = "taken" => i \in Yielded
  BY DEF MapProofs!TakenIsYielded, MapProofs!Items, Rows, Map!Items, Yielded
<1> QED
  BY <1>1, <1>2, <1>3, <1>4

(* Both modules count alike.                                                 *)
LEMMA SameCount == \A S : MapProofs!Cardinality(S) = Cardinality(S)
  BY DEF MapProofs!Cardinality, Cardinality

(* A step of map_bounded keeps its invariant here as it does there.          *)
LEMMA MapKeepsIInv == MapProofs!IInv /\ [Map!MBNext]_mapvars => MapProofs!IInv'
<1>1. MapProofs!MapBoundedAssumption
  BY BulkRunAssumption DEF MapProofs!MapBoundedAssumption
<1>2. [MapProofs!MBNext]_(MapProofs!mbvars) <=> [Map!MBNext]_mapvars
  BY DEF mapvars, MapProofs!mbvars, MapProofs!MBNext, Map!MBNext,
     Map!Generator, MapProofs!Generator, Map!Workers, MapProofs!Workers,
     Map!Consumer, MapProofs!Consumer, Map!Wake, MapProofs!Wake, Map!Drain, MapProofs!Drain,
     Map!Finalize, MapProofs!Finalize, Map!EndCleanup, MapProofs!EndCleanup,
     Map!Take, MapProofs!Take, Map!TakeRaised, MapProofs!TakeRaised,
     Map!Finish, MapProofs!Finish, Map!Raise, MapProofs!Raise, Map!Unwind, MapProofs!Unwind,
     Map!Resume, MapProofs!Resume, Map!CancelWait, MapProofs!CancelWait,
     Map!Drop, MapProofs!Drop, Map!Pending, MapProofs!Pending, Map!With, MapProofs!With,
     Map!InFlight, MapProofs!InFlight, Map!Suspended, MapProofs!Suspended,
     Map!Spawned, MapProofs!Spawned, Map!Offered, MapProofs!Offered,
     Map!CancelAll, MapProofs!CancelAll, Map!NextRound, MapProofs!NextRound,
     Map!Items, MapProofs!Items
<1> QED
  BY <1>1, <1>2, MapProofs!NextIInv

(* The steps of map_bounded that a run takes.                                *)
MapStep ==
  \/ \E i \in Rows : Map!Finish(i) \/ Map!Unwind(i) \/ Map!Take(i)
  \/ Map!Wake \/ Map!Resume \/ Map!EndCleanup \/ Map!CancelWait \/ Map!Drop \/ Map!Finalize
  \/ UNCHANGED mapvars

(* They keep what the invariant says of the fan-out.  No row goes back: once *)
(* started it stays so, once taken it stays taken.                           *)
LEMMA MapStepKeeps ==
  ASSUME IInv, MapStep
  PROVE  /\ MapProofs!IInv' /\ NoWorkerRaises' /\ SlotsHold'
         /\ \A i \in Rows : /\ task[i] # "new" => task'[i] # "new"
                            /\ task[i] \in {"taken", "cancelled"} => task'[i] = task[i]
                            /\ task'[i] = "taken" => task[i] \in {"done", "taken"}
                            /\ task'[i] = "done" /\ ~Map!Finish(i) => task[i] = "done"
                            /\ task[i] = "done" => task'[i] \in {"done", "taken"}
<1>1. MapProofs!IInv'
  <2>1. [Map!MBNext]_mapvars
    BY DEF MapStep, Map!MBNext, Map!Generator, Map!Workers, Map!Consumer, Rows
  <2> QED
    BY <2>1, MapKeepsIInv DEF IInv
<1>2. task \in [Rows -> TaskStates] /\ task' \in [Rows -> TaskStates]
  BY <1>1, MapFacts DEF IInv, MapProofs!IInv, MapProofs!MBTypeOK, MapProofs!Items,
     TaskStates, Rows, Map!Items
<1>3. /\ \A i \in Rows : source = i => task[i] = "new"
      /\ \A i \in Rows : task[i] # "raised"
      /\ ordered = FALSE
  BY BulkRunAssumption DEF IInv, MapProofs!IInv, MapProofs!ItemsInOrder, MapProofs!Items, Map!Items, Rows,
     NoWorkerRaises, Map!With
<1>4. CASE \E i \in Rows : Map!Take(i)
  <2>1. PICK i \in Rows : Map!Take(i)
    BY <1>4
  <2>2. /\ task[i] = "done" /\ pc' = "yield" /\ ordered' = FALSE
        /\ \A j \in Rows : task'[j] = IF j = source THEN "running"
                                       ELSE IF j = i THEN "taken" ELSE task[j]
    BY <2>1, <1>2, <1>3 DEF Map!Take, Map!Offered, Map!Spawned, Rows, Map!Items
  <2>3. NoWorkerRaises'
    BY <2>2, <1>3 DEF NoWorkerRaises, Map!With, Map!Items, Rows
  <2>4. Untaken' = MapProofs!Watched'
    BY <2>2, <1>1 DEF MapProofs!IInv, MapProofs!CancelledInFinally, MapProofs!Closing,
       MapProofs!With, MapProofs!Watched, MapProofs!Items, Untaken, Map!With, Map!Items
  <2>5. SlotsHold'
    BY <2>4, <1>1, SameCount DEF SlotsHold, MapProofs!IInv, MapProofs!SlotsFilled
  <2>6. \A j \in Rows : ~Map!Finish(j)
    BY <2>2, <2>1, BulkRunAssumption DEF Map!Take, Map!Finish, Map!Suspended
  <2> QED
    BY <1>1, <1>3, <2>2, <2>3, <2>5, <2>6
<1>5. CASE ~ \E i \in Rows : Map!Take(i)
  <2>1. /\ ordered' = ordered
        /\ \A j \in Rows : \/ task'[j] = task[j] 
                           \/ task[j] = "running" /\ task'[j] = "cancelling"
                           \/ task[j] = "running" /\ task'[j] = "done" /\ Map!Finish(j)
                           \/ task[j] = "cancelling" /\ task'[j] = "cancelled"
    BY <1>2, <1>5 DEF MapStep, Map!Finish, Map!Unwind, Map!Wake, Map!Resume, Map!EndCleanup,
       Map!CancelWait, Map!Drop, Map!Finalize, Map!CancelAll, Map!Items, Rows, mapvars
  <2>2. Untaken' = Untaken /\ NoWorkerRaises'
    BY <2>1, <1>3 DEF Untaken, NoWorkerRaises, Map!With, Map!Items, Rows
  <2> QED
    BY <1>1, <2>1, <2>2 DEF IInv, SlotsHold
<1> QED
  BY <1>4, <1>5

(* What the other parts of the invariant need of a step in which rows change *)
(* neither in Jira nor in their result.                                      *)
LEMMA RowsUntouched ==
  ASSUME IInv, MapStep, \A i \in Rows : ~Map!Finish(i),
         UNCHANGED <<member, sends, verdict, mine, outside, unheeded>>
  PROVE  VerdictWhenDone' /\ MineIsMine' /\ OkIsTrue'
<1>1. \A i \in Rows : /\ task[i] # "new" => task'[i] # "new"
                      /\ task'[i] \in {"done", "taken"} <=> task[i] \in {"done", "taken"}
  BY MapStepKeeps
<1>2. mine \subseteq Rows
  BY DEF IInv, RunTyped, TypeOK
<1> QED
  BY <1>1, <1>2 DEF IInv, VerdictWhenDone, MineIsMine, OkIsTrue, Wanted

(* A worker comes back with a result, or sends its request again.            *)
LEMMA WorkerKeepsIInv ==
  ASSUME IInv, NEW i \in Rows, Worker(i)
  PROVE  IInv'
<1>1. /\ task[i] = "running" /\ phase # "crashed" /\ sends[i] < MaxSends
      /\ sends' = [sends EXCEPT ![i] = @ + 1]
      /\ UNCHANGED <<wire, outside, phase, journal, audit>>
      /\ \/ /\ member' = [member EXCEPT ![i] = Wanted(i)]
            /\ mine' = IF member[i] # Wanted(i) THEN mine \union {i} ELSE mine
         \/ UNCHANGED <<member, mine>>
      /\ unheeded' = unheeded \/ unheeded' = unheeded \union {i}
  BY DEF Worker, AnsweredDone, AnsweredRefused, AnsweredRefused400, AnswerLost, Sending, Alive,
     Answer, Landing, runvars
<1>2. \/ /\ Map!Finish(i)
         /\ \/ verdict' = [verdict EXCEPT ![i] = "failed"]
            \/ /\ verdict' = [verdict EXCEPT ![i] = "ok"]
               /\ member' = [member EXCEPT ![i] = Wanted(i)] \/ i \in unheeded'
      \/ UNCHANGED <<mapvars, verdict>>
  BY DEF Worker, AnsweredDone, AnsweredRefused, AnsweredRefused400, AnswerLost, Answer, Landing
<1>3. RunTyped /\ task \in [Rows -> TaskStates]
  BY MapFacts DEF IInv
<1>4. MapStep
  BY <1>2 DEF MapStep
<1>5. /\ MapProofs!IInv' /\ NoWorkerRaises' /\ SlotsHold'
      /\ out' = out /\ pc' = pc
      /\ \A j \in Rows : IF j = i /\ Map!Finish(i) THEN task'[j] = "done" ELSE task'[j] = task[j]
  BY <1>2, <1>3, <1>4, MapStepKeeps DEF Map!Finish, mapvars
<1>6. RunTyped'
  <2>1. sends' \in [Rows -> 0..MaxSends]
    BY <1>1, <1>3, BulkRunAssumption DEF RunTyped, TypeOK
  <2>2. Map!MBTypeOK'
    BY <1>5 DEF MapProofs!IInv, MapProofs!MBTypeOK, MapProofs!Items, Map!MBTypeOK, Map!Items
  <2>3. verdict' \in [Rows -> {"none", "ok", "failed"}]
    BY <1>2, <1>3 DEF RunTyped, TypeOK
  <2>4. member' \in [Rows -> BOOLEAN] /\ mine' \subseteq Rows /\ unheeded' \subseteq Rows
    BY <1>1, <1>3 DEF RunTyped, TypeOK, Wanted
  <2> QED
    BY <1>1, <1>3, <2>1, <2>2, <2>3, <2>4 DEF RunTyped, TypeOK
<1>7. VerdictWhenDone'
  BY <1>1, <1>2, <1>3, <1>5 DEF IInv, VerdictWhenDone, RunTyped, TypeOK, mapvars
<1>8. StraysWereSent'
  BY <1>1, <1>5 DEF IInv, StraysWereSent, RunTyped, TypeOK
<1>9. MineIsMine'
  BY <1>1, <1>3, <1>5 DEF IInv, MineIsMine, RunTyped, TypeOK, Wanted
<1>10. JournalIsOfAll'
  BY <1>1, <1>5 DEF IInv, JournalIsOfAll
<1>11. AuditIsOfYielded'
  BY <1>1, <1>5 DEF IInv, AuditIsOfYielded, Yielded
<1>12. OkIsTrue'
  BY <1>1, <1>2, <1>3 DEF IInv, OkIsTrue, RunTyped, TypeOK, VerdictWhenDone, Wanted, mapvars
<1> QED
  BY <1>5, <1>6, <1>7, <1>8, <1>9, <1>10, <1>11, <1>12 DEF IInv

(* map_bounded goes on, or is told to stop, while execute_stream waits.      *)
LEMMA FanKeepsIInv ==
  ASSUME IInv, Iterate \/ LeaveWaiting \/ Finalize
  PROVE  IInv'
<1>1. /\ MapStep /\ \A i \in Rows : ~Map!Finish(i)
      /\ UNCHANGED <<member, sends, verdict, wire, mine, outside, unheeded, phase, journal, audit>>
      /\ phase # "crashed" /\ pc # "ended"
      /\ \/ pc \in {"wait", "loop", "yield"}
         \/ pc' \in {"finally", "ended"} /\ out' = out
  <2>1. /\ MapStep
        /\ UNCHANGED <<member, sends, verdict, wire, mine, outside, unheeded, phase, journal, audit>>
        /\ phase # "crashed"
    BY DEF Iterate, LeaveWaiting, Finalize, MapStep, Alive, jiravars, runvars
  <2>2. \/ Map!Wake \/ Map!Resume \/ Map!CancelWait \/ \E i \in Rows : Map!Take(i)
        \/ Map!EndCleanup \/ Map!Finalize
    BY DEF Iterate, LeaveWaiting, Finalize
  <2>3. /\ \/ pc \in {"wait", "loop", "yield"}
           \/ pc \in {"dropped", "finally"} /\ pc' \in {"finally", "ended"} /\ out' = out
        /\ pc' # pc
    BY <2>2 DEF Map!Wake, Map!Resume, Map!CancelWait, Map!Take, Map!Offered, Map!EndCleanup,
       Map!Finalize, Map!NextRound
  <2>4. \A i \in Rows : ~Map!Finish(i)
    BY <2>3 DEF Map!Finish
  <2> QED
    BY <2>1, <2>3, <2>4
<1>2. MapProofs!IInv' /\ NoWorkerRaises' /\ SlotsHold'
  BY <1>1, MapStepKeeps
<1>3. \A i \in Rows : task[i] \in {"taken", "cancelled"} => task'[i] = task[i]
  BY <1>1, MapStepKeeps
<1>4. VerdictWhenDone' /\ MineIsMine' /\ OkIsTrue'
  BY <1>1, RowsUntouched
<1>5. RunTyped'
  BY <1>1, <1>2 DEF IInv, RunTyped, TypeOK, MapProofs!IInv, MapProofs!MBTypeOK, MapProofs!Items,
     Map!MBTypeOK, Map!Items
<1>6. StraysWereSent'
  BY <1>1, <1>3 DEF IInv, StraysWereSent, RunTyped, TypeOK
<1>7. JournalIsOfAll'
  BY <1>1, <1>3 DEF IInv, JournalIsOfAll
<1>8. AuditIsOfYielded'
  BY <1>1 DEF IInv, AuditIsOfYielded, Yielded
<1> QED
  BY <1>2, <1>4, <1>5, <1>6, <1>7, <1>8 DEF IInv

(* A cancelled worker leaves its request behind.                             *)
LEMMA UnwindKeepsIInv ==
  ASSUME IInv, NEW i \in Rows, Unwind(i)
  PROVE  IInv'
<1>1. /\ MapStep /\ \A j \in Rows : ~Map!Finish(j)
      /\ UNCHANGED <<member, sends, verdict, mine, outside, unheeded, phase, journal, audit>>
      /\ out' = out /\ pc' = pc
      /\ task[i] = "cancelling" /\ task' = [task EXCEPT ![i] = "cancelled"]
      /\ wire' = wire \union {i}
  <2>1. task \in [Rows -> TaskStates]
    BY MapFacts DEF IInv
  <2> QED
    BY <2>1 DEF Unwind, Map!Unwind, Map!Finish, MapStep, runvars
<1>2. MapProofs!IInv' /\ NoWorkerRaises' /\ SlotsHold'
  BY <1>1, MapStepKeeps
<1>3. \A j \in Rows : task'[j] = IF j = i THEN "cancelled" ELSE task[j]
  BY <1>1, MapFacts DEF IInv
<1>4. VerdictWhenDone' /\ MineIsMine' /\ OkIsTrue'
  BY <1>1, RowsUntouched
<1>5. RunTyped'
  BY <1>1, <1>2 DEF IInv, RunTyped, TypeOK, MapProofs!IInv, MapProofs!MBTypeOK, MapProofs!Items,
     Map!MBTypeOK, Map!Items
<1>6. StraysWereSent'
  BY <1>1, <1>3 DEF IInv, StraysWereSent, RunTyped, TypeOK
<1>7. JournalIsOfAll' /\ AuditIsOfYielded'
  BY <1>1, <1>3 DEF IInv, JournalIsOfAll, AuditIsOfYielded, Yielded
<1> QED
  BY <1>2, <1>4, <1>5, <1>6, <1>7 DEF IInv

(* A request that outlived its worker lands or not; an administrator changes *)
(* a membership; nothing else moves.                                         *)
LEMMA JiraKeepsIInv ==
  ASSUME IInv, NEW i \in Rows, Stray(i) \/ Outside(i)
  PROVE  IInv'
<1>1. /\ UNCHANGED <<ordered, task, source, batch, held, out, pc, stopped>>
      /\ UNCHANGED <<sends, verdict, unheeded, phase, journal, audit>>
      /\ MapStep
  BY DEF Stray, Outside, MapStep, runvars, mapvars
<1>2. MapProofs!IInv' /\ NoWorkerRaises' /\ SlotsHold'
  BY <1>1, MapStepKeeps
<1>3. \/ /\ wire' = wire \ {i} /\ i \in wire /\ outside' = outside
         /\ \/ /\ member' = [member EXCEPT ![i] = Wanted(i)]
               /\ mine' = IF member[i] # Wanted(i) THEN mine \union {i} ELSE mine
            \/ UNCHANGED <<member, mine>>
      \/ /\ wire' = wire /\ outside' = outside \union {i} /\ mine' = mine
         /\ member' = [member EXCEPT ![i] = ~@]
  BY DEF Stray, Outside, Landing
<1>4. RunTyped'
  BY <1>1, <1>2, <1>3 DEF IInv, RunTyped, TypeOK, Wanted, MapProofs!IInv, MapProofs!MBTypeOK,
     MapProofs!Items, Map!MBTypeOK, Map!Items
<1>5. VerdictWhenDone' /\ JournalIsOfAll' /\ AuditIsOfYielded'
  BY <1>1 DEF IInv, VerdictWhenDone, JournalIsOfAll, AuditIsOfYielded, Yielded
<1>6. StraysWereSent'
  BY <1>1, <1>3 DEF IInv, StraysWereSent
<1>7. MineIsMine'
  BY <1>1, <1>3 DEF IInv, StraysWereSent, MineIsMine, RunTyped, TypeOK, Wanted
<1>8. OkIsTrue'
  BY <1>1, <1>3 DEF IInv, OkIsTrue, RunTyped, TypeOK, Wanted
<1> QED
  BY <1>2, <1>4, <1>5, <1>6, <1>7, <1>8 DEF IInv

(* When map_bounded ended without interruption, every row was taken.         *)
LEMMA AllTakenAtTheEnd ==
  ASSUME IInv, pc = "ended", ~stopped
  PROVE  /\ \A i \in Rows : task[i] = "taken"
         /\ Yielded = Rows
<1>1. /\ source > N /\ MapProofs!Watched = {} /\ MapProofs!With({"cancelled"}) = {}
  BY DEF IInv, NoWorkerRaises, MapProofs!IInv, MapProofs!CancelledInFinally, Map!With,
     MapProofs!With, Map!Items, MapProofs!Items
<1>2. \A i \in Rows : task[i] # "new"
  BY <1>1, BulkRunAssumption DEF IInv, MapProofs!IInv, MapProofs!MBTypeOK, MapProofs!ItemsInOrder, MapProofs!Items, Rows,
     Map!Items
<1>3. \A i \in Rows : task[i] = "taken"
  BY <1>1, <1>2, MapFacts DEF IInv, TaskStates, MapProofs!Watched, MapProofs!With,
     MapProofs!Items, Rows, Map!Items
<1> QED
  BY <1>3, MapFacts DEF IInv, NoWorkerRaises

(* execute_stream ends, one way or another.                                  *)
LEMMA StreamKeepsIInv ==
  ASSUME IInv, AuditCancelled \/ LeaveYielding \/ RecordInverse \/ EndRun \/ Crash
  PROVE  IInv'
<1>1. /\ UNCHANGED <<ordered, task, source, batch, held, out>>
      /\ UNCHANGED <<member, sends, verdict, mine, outside, unheeded>>
      /\ phase \in {"running", "summary"}
      /\ MapStep
  BY DEF AuditCancelled, LeaveYielding, RecordInverse, EndRun, Crash, MapStep, mapvars,
     jiravars, Map!Drop, AuditRun
<1>2. MapProofs!IInv' /\ NoWorkerRaises' /\ SlotsHold'
  BY <1>1, MapStepKeeps
<1>3. VerdictWhenDone' /\ MineIsMine' /\ OkIsTrue'
  BY <1>1 DEF IInv, VerdictWhenDone, MineIsMine, OkIsTrue
<1>4. Yielded \subseteq Rows /\ Yielded' = Yielded /\ OkRows \subseteq Rows
  BY <1>1, MapFacts DEF IInv, Yielded, OkRows
<1>5. RunTyped'
  <2>1. Map!MBTypeOK'
    BY <1>2 DEF MapProofs!IInv, MapProofs!MBTypeOK, MapProofs!Items, Map!MBTypeOK, Map!Items
  <2>2. phase' \in {"running", "summary", "ended", "crashed"}
    BY DEF AuditCancelled, LeaveYielding, RecordInverse, EndRun, Crash, AuditRun
  <2>3. journal' = NoEntry \/ journal' \subseteq Rows
    BY <1>4 DEF IInv, RunTyped, TypeOK, AuditCancelled, LeaveYielding, RecordInverse, EndRun, Crash
  <2>4. wire' \subseteq Rows
    BY DEF IInv, RunTyped, TypeOK, AuditCancelled, LeaveYielding, RecordInverse, EndRun, Crash,
       jiravars, Map!InFlight, Map!With, Rows
  <2> QED
    BY <1>1, <2>1, <2>2, <2>3, <2>4 DEF IInv, RunTyped, TypeOK
<1>6. StraysWereSent'
  BY <1>1 DEF IInv, StraysWereSent, AuditCancelled, LeaveYielding, RecordInverse, EndRun, Crash,
     jiravars, Map!InFlight, Map!With
<1>7. JournalIsOfAll'
  <2>1. CASE RecordInverse
    <3>1. /\ \A i \in Rows : task[i] = "taken"
          /\ OkRows = {i \in Rows : verdict[i] = "ok"}
      BY <2>1, AllTakenAtTheEnd DEF RecordInverse, OkRows
    <3> QED
      BY <2>1, <1>1, <3>1 DEF RecordInverse, JournalIsOfAll, mapvars
  <2>2. CASE ~RecordInverse
    BY <2>2, <1>1 DEF IInv, JournalIsOfAll, AuditCancelled, LeaveYielding, EndRun, Crash, AuditRun
  <2> QED
    BY <2>1, <2>2
<1>8. AuditIsOfYielded'
  <2>1. CASE RecordInverse \/ Crash
    BY <2>1, <1>4 DEF IInv, AuditIsOfYielded, RecordInverse, Crash, mapvars
  <2>2. CASE AuditCancelled \/ LeaveYielding \/ EndRun
    <3>1. audit'.attempted = Yielded
      BY <2>2 DEF AuditCancelled, LeaveYielding, EndRun, AuditRun
    <3>2. pc' \in {"dropped", "ended"}
      BY <2>2 DEF IInv, JournalIsOfAll, AuditCancelled, LeaveYielding, EndRun, Map!Drop, mapvars
    <3> QED
      BY <3>1, <3>2, <1>4 DEF AuditIsOfYielded
  <2> QED
    BY <2>1, <2>2
<1> QED
  BY <1>2, <1>3, <1>5, <1>6, <1>7, <1>8 DEF IInv

(* The run begins with no row changed and the first rows in their slots.     *)
LEMMA InitIInv == Init => IInv
<1> SUFFICES ASSUME Init PROVE IInv
  OBVIOUS
<1>1. MapProofs!IInv
  <2>1. MapProofs!MapBoundedAssumption
    BY BulkRunAssumption DEF MapProofs!MapBoundedAssumption
  <2>2. MapProofs!MBInit
    BY DEF Init, Map!MBInit, MapProofs!MBInit, Map!Items, MapProofs!Items
  <2> QED
    BY <2>1, <2>2, MapProofs!InitIInv
<1>2. /\ ordered = FALSE /\ pc # "ended" /\ phase = "running" /\ journal = NoEntry
      /\ audit = NoRecord /\ mine = {} /\ wire = {} /\ outside = {} /\ unheeded = {}
      /\ \A i \in Rows : task[i] \in {"new", "running"}
      /\ \A i \in Rows : verdict[i] = "none" /\ member[i] = ~Wanted(i)
  BY BulkRunAssumption DEF Init, Map!MBInit, Rows
<1>3. RunTyped
  BY <1>1, BulkRunAssumption DEF Init, RunTyped, TypeOK, Wanted, MapProofs!IInv,
     MapProofs!MBTypeOK, MapProofs!Items, Map!MBTypeOK, Map!Items
<1>4. NoWorkerRaises /\ VerdictWhenDone /\ StraysWereSent /\ MineIsMine
  BY <1>2 DEF NoWorkerRaises, VerdictWhenDone, StraysWereSent, MineIsMine, Map!With, Map!Items,
     Rows, Wanted
<1>5. SlotsHold
  <2>1. Untaken = MapProofs!Watched
    BY <1>2 DEF Untaken, Map!With, Map!Items, Rows, MapProofs!Watched, MapProofs!With,
       MapProofs!Items
  <2> QED
    BY <1>1, <2>1, SameCount DEF SlotsHold, MapProofs!IInv, MapProofs!SlotsFilled
<1>6. JournalIsOfAll /\ AuditIsOfYielded /\ OkIsTrue
  BY <1>2 DEF JournalIsOfAll, AuditIsOfYielded, OkIsTrue
<1> QED
  BY <1>1, <1>3, <1>4, <1>5, <1>6 DEF IInv

(* Every step keeps the invariant.                                           *)
LEMMA NextIInv == IInv /\ [Next]_vars => IInv'
<1> SUFFICES ASSUME IInv, [Next]_vars PROVE IInv'
  OBVIOUS
<1>1. CASE \E i \in Rows : Worker(i) \/ Unwind(i) \/ Stray(i) \/ Outside(i)
  BY <1>1, WorkerKeepsIInv, UnwindKeepsIInv, JiraKeepsIInv
<1>2. CASE Stream \/ LeaveWaiting \/ LeaveYielding \/ Crash
  BY <1>2, FanKeepsIInv, StreamKeepsIInv DEF Stream
<1>3. CASE UNCHANGED vars
  <2>1. MapStep /\ UNCHANGED vars
    BY <1>3 DEF vars, mapvars, MapStep
  <2>2. MapProofs!IInv' /\ NoWorkerRaises' /\ SlotsHold'
    BY <2>1, MapStepKeeps
  <2>3. RunTyped'
    BY <2>1, <2>2 DEF vars, IInv, RunTyped, TypeOK, MapProofs!IInv, MapProofs!MBTypeOK,
       MapProofs!Items, Map!MBTypeOK, Map!Items
  <2> QED
    BY <2>1, <2>2, <2>3 DEF vars, IInv, VerdictWhenDone, StraysWereSent, MineIsMine,
       JournalIsOfAll, AuditIsOfYielded, OkIsTrue, Yielded
<1> QED
  BY <1>1, <1>2, <1>3 DEF Next

(* What a journal entry says of the rows.                                    *)
LEMMA IInvJournal ==
  ASSUME IInv
  PROVE  JournalAccounts
<1>1. JournalSound
  <2>1. \A i \in Journaled : i \in Rows /\ verdict[i] = "ok"
    BY DEF IInv, JournalIsOfAll, Journaled
  <2> QED
    BY <2>1 DEF IInv, JournalSound, OkIsTrue, MineIsMine
<1>2. EscapesExplained
  <2> SUFFICES ASSUME journal # NoEntry, NEW i \in mine \ Journaled
               PROVE  verdict[i] = "failed"
    BY DEF EscapesExplained
  <2>1. i \in Rows /\ verdict[i] \in {"none", "ok", "failed"}
    BY DEF IInv, RunTyped, TypeOK
  <2>2. verdict[i] # "ok" /\ verdict[i] # "none"
    BY <2>1 DEF IInv, JournalIsOfAll, VerdictWhenDone, Journaled
  <2> QED
    BY <2>1, <2>2
<1> QED
  BY <1>1, <1>2 DEF JournalAccounts

(* What the audit record leaves out are rows that still hold a slot, or held *)
(* one when they were cancelled.                                             *)
LEMMA IInvAudit ==
  ASSUME IInv
  PROVE  AuditGapBounded
<1> SUFFICES ASSUME audit # NoRecord
             PROVE  Cardinality(mine \ audit.attempted) <= Limit
  BY DEF AuditGapBounded
<1>1. mine \ audit.attempted \subseteq Untaken
  <2> SUFFICES ASSUME NEW i \in mine \ audit.attempted
               PROVE  i \in Untaken
    OBVIOUS
  <2>1. i \in Rows /\ task[i] \in TaskStates /\ task[i] # "new"
    BY MapFacts DEF IInv, RunTyped, TypeOK, MineIsMine
  <2>2. task[i] # "taken"
    BY <2>1, MapFacts DEF IInv, AuditIsOfYielded, NoWorkerRaises
  <2> QED
    BY <2>1, <2>2 DEF Untaken, Map!With, Rows, TaskStates
<1>2. IsFiniteSet(Untaken)
  <2>1. IsFiniteSet(1..N)
    BY BulkRunAssumption, FS_Interval
  <2> QED
    BY <2>1, FS_Subset DEF Untaken, Map!With, Map!Items
<1>3. /\ Cardinality(mine \ audit.attempted) <= Cardinality(Untaken)
      /\ Cardinality(mine \ audit.attempted) \in Nat /\ Cardinality(Untaken) \in Nat
  BY <1>1, <1>2, FS_Subset, FS_CardinalityType
<1> QED
  BY <1>3, BulkRunAssumption DEF IInv, SlotsHold

(***************************************************************************)
(* Theorems                                                                *)
(***************************************************************************)

(* The run's variables have the types they have in the source.               *)
THEOREM TypeCorrect == Spec => []TypeOK
<1>1. IInv => TypeOK
  BY DEF IInv, RunTyped
<1> QED
  BY <1>1, InitIInv, NextIInv, PTL DEF Spec

(* A row reported as ok has the membership it asked for, unless another      *)
(* administrator touched it or it is a removal answered with a 400.          *)
THEOREM OkMeansDone == Spec => []OkIsTrue
<1>1. IInv => OkIsTrue
  BY DEF IInv
<1> QED
  BY <1>1, InitIInv, NextIInv, PTL DEF Spec

(* What the journal of a run would take back are confirmed changes of this   *)
(* run, and a change that a written journal entry leaves out is one whose    *)
(* row was reported as failed.                                               *)
THEOREM JournalIsSound == Spec => []JournalAccounts
<1>1. IInv => JournalAccounts
  BY IInvJournal
<1> QED
  BY <1>1, InitIInv, NextIInv, PTL DEF Spec

(* An interrupted run leaves at most Limit of its changes out of the audit.  *)
THEOREM AuditHidesLittle == Spec => []AuditGapBounded
<1>1. IInv => AuditGapBounded
  BY IInvAudit
<1> QED
  BY <1>1, InitIInv, NextIInv, PTL DEF Spec
=============================================================================
