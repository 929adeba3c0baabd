----------------------------- MODULE MapBounded -----------------------------
(***************************************************************************)
(* core/concurrency.py, map_bounded: the async generator every fan-out of   *)
(* the program goes through.  One asyncio task per item, at most Limit at a *)
(* time, results handed to the consumer as they finish or, when ordered, in *)
(* input order.                                                             *)
(*                                                                         *)
(* The generator only lets go of the event loop where it is suspended: in   *)
(* asyncio.wait ("wait"), at a yield ("yield"), in the gather of its finally *)
(* block ("finally").  Workers move on and consumers go away only then.     *)
(***************************************************************************)
EXTENDS Naturals, FiniteSets, Sequences

CONSTANTS
  N,        \* len(items)
  Limit     \* limit

ASSUME MapBoundedAssumption == N \in Nat /\ Limit \in Nat \ {0}

VARIABLES
  ordered,  \* the argument ordered of the call
  task,     \* task[i]: life of the asyncio task of item i
  source,   \* the item the iterator hands out next
  batch,    \* what is left of the done set returned by asyncio.wait
  held,     \* buffered: finished early, waiting for their turn
  out,      \* the items yielded so far
  pc,       \* where the generator is suspended
  stopped   \* the consumer stopped iterating before the end

mbvars == <<ordered, task, source, batch, held, out, pc, stopped>>

Items == 1..N
With(states) == {i \in Items : task[i] \in states}

(* The Python variable pending: created, and not returned by a wait yet. *)
Pending == With({"running", "done", "raised", "cancelling"}) \ batch
InFlight == With({"running", "cancelling"})

Suspended == pc \in {"wait", "yield", "finally", "dropped"}

MBInit ==
  /\ ordered \in BOOLEAN
  /\ task = [i \in Items |-> IF i <= Limit THEN "running" ELSE "new"]
  /\ source = IF Limit < N THEN Limit + 1 ELSE N + 1
  /\ batch = {} /\ held = {}
  /\ out = <<>>
  /\ pc = IF N = 0 THEN "ended" ELSE "wait"
  /\ stopped = FALSE

(***************************************************************************)
(* The workers                                                             *)
(***************************************************************************)

Finish(i) ==
  /\ Suspended
  /\ task[i] = "running"
  /\ task' = [task EXCEPT ![i] = "done"]
  /\ UNCHANGED <<ordered, source, batch, held, out, pc, stopped>>

Raise(i) ==
  /\ Suspended
  /\ task[i] = "running"
  /\ task' = [task EXCEPT ![i] = "raised"]
  /\ UNCHANGED <<ordered, source, batch, held, out, pc, stopped>>

(* A cancelled worker notices at its next step. *)
Unwind(i) ==
  /\ Suspended
  /\ task[i] = "cancelling"
  /\ task' = [task EXCEPT ![i] = "cancelled"]
  /\ UNCHANGED <<ordered, source, batch, held, out, pc, stopped>>

(***************************************************************************)
(* The generator                                                           *)
(***************************************************************************)

(* asyncio.wait(FIRST_COMPLETED) returns with every task done by then. *)
Wake ==
  LET finished == Pending \cap With({"done", "raised"})
  IN /\ pc = "wait"
     /\ finished # {}
     /\ batch' = finished
     /\ pc' = "loop"
     /\ UNCHANGED <<ordered, task, source, held, out, stopped>>

(* spawn(): the task of the next item, if there is one. *)
Spawned(states) ==
  IF source <= N THEN [states EXCEPT ![source] = "running"] ELSE states

Offered(i) ==
  IF ordered
  THEN held' = held \union {i} /\ pc' = "drain" /\ UNCHANGED out
  ELSE out' = Append(out, i) /\ pc' = "yield" /\ UNCHANGED held

(* task.result() and spawn(), for a task that came back normally. *)
Take(i) ==
  /\ pc = "loop" /\ i \in batch
  /\ task[i] = "done"
  /\ task' = Spawned([task EXCEPT ![i] = "taken"])
  /\ source' = IF source <= N THEN source + 1 ELSE source
  /\ batch' = batch \ {i}
  /\ Offered(i)
  /\ UNCHANGED <<ordered, stopped>>

CancelAll(states) ==
  [i \in Items |-> IF i \in Pending /\ states[i] = "running" THEN "cancelling" ELSE states[i]]

(* task.result() raises: the finally block cancels what is still pending. *)
TakeRaised(i) ==
  /\ pc = "loop" /\ i \in batch
  /\ task[i] = "raised"
  /\ task' = CancelAll(task)
  /\ batch' = {}
  /\ pc' = "finally"
  /\ UNCHANGED <<ordered, source, held, out, stopped>>

(* The rest of the done set is dropped. *)
NextRound_DropsRest == IF Pending # {} THEN "wait" ELSE "ended"
(* while True instead of while pending. *)
NextRound_NoEnd == IF batch # {} THEN "loop" ELSE "wait"
NextRound ==
  IF batch # {} THEN "loop" ELSE IF Pending # {} THEN "wait" ELSE "ended"

(* while next_out in buffered: yield; otherwise on with the loop. *)
Drain ==
  LET turn == Len(out) + 1
  IN /\ pc = "drain"
     /\ IF turn \in held
        THEN out' = Append(out, turn) /\ held' = held \ {turn} /\ pc' = "yield"
        ELSE pc' = NextRound /\ UNCHANGED <<out, held>>
     /\ UNCHANGED <<ordered, task, source, batch, stopped>>

(* The consumer asks for the next result. *)
Resume ==
  /\ pc = "yield"
  /\ pc' = IF ordered THEN "drain" ELSE NextRound
  /\ UNCHANGED <<ordered, task, source, batch, held, out, stopped>>

(* The consumer is cancelled while it waits: CancelledError comes out of      *)
(* asyncio.wait and the finally block runs at once.                          *)
CancelWait ==
  /\ pc = "wait"
  /\ task' = CancelAll(task)
  /\ pc' = "finally" /\ stopped' = TRUE
  /\ UNCHANGED <<ordered, source, batch, held, out>>

(* The consumer leaves its loop between two results.  async for does not     *)
(* close the generator: its finally block runs later, when the event loop's  *)
(* finalizer gets to it, and the workers go on until then.                   *)
Drop ==
  /\ pc = "yield"
  /\ pc' = "dropped" /\ stopped' = TRUE
  /\ UNCHANGED <<ordered, task, source, batch, held, out>>

Finalize ==
  /\ pc = "dropped"
  /\ task' = CancelAll(task)
  /\ batch' = {}
  /\ pc' = "finally"
  /\ UNCHANGED <<ordered, source, held, out, stopped>>

EndCleanup_NotAwaited ==
  /\ pc = "finally"
  /\ pc' = "ended"
  /\ UNCHANGED <<ordered, task, source, batch, held, out, stopped>>
(* The gather over pending came back. *)
EndCleanup ==
  /\ pc = "finally"
  /\ InFlight = {}
  /\ pc' = "ended"
  /\ UNCHANGED <<ordered, task, source, batch, held, out, stopped>>

Generator == \/ Wake \/ Drain \/ Finalize \/ EndCleanup
             \/ \E i \in Items : Take(i) \/ TakeRaised(i)
Workers   == \E i \in Items : Finish(i) \/ Raise(i) \/ Unwind(i)
Consumer  == Resume \/ CancelWait \/ Drop

MBNext == Generator \/ Workers \/ Consumer

(* Every request of a worker ends (httpx timeouts), the event loop runs what *)
(* is ready, and a consumer that has not left asks for the next result.      *)
MBFairness ==
  /\ WF_mbvars(Generator)
  /\ \A i \in Items : WF_mbvars(Finish(i) \/ Raise(i)) /\ WF_mbvars(Unwind(i))
  /\ WF_mbvars(Resume)

MBSpec == MBInit /\ [][MBNext]_mbvars /\ MBFairness

(***************************************************************************)
(* Properties                                                              *)
(***************************************************************************)

(* The generator's variables have the shape they have in the source. *)
MBTypeOK ==
  /\ ordered \in BOOLEAN
  /\ task \in [Items -> {"new", "running", "done", "raised", "taken",
                         "cancelling", "cancelled"}]
  /\ source \in 1..(N + 1)
  /\ batch \subseteq Items /\ held \subseteq Items
  /\ out \in Seq(Items)
  /\ pc \in {"wait", "loop", "drain", "yield", "dropped", "finally", "ended"}
  /\ stopped \in BOOLEAN

(* "at most limit in flight" (docstring), while the generator spawns, drains *)
(* and cleans up.                                                            *)
LimitRespected == Cardinality(InFlight) <= Limit

(* No slot is lost: as long as there are items left, a wait always watches   *)
(* Limit tasks, however many finished at once in the round before.           *)
SlotsKept == (pc = "wait" /\ source <= N) => Cardinality(Pending) = Limit

(* Each result reaches the consumer once, and in input order if asked for,   *)
(* and a run that nobody interrupted and no worker broke delivers them all.  *)
(* (A result that finished but was still in batch when the consumer left is  *)
(* lost: that is the only other way to end.)                                 *)
AllDelivered ==
  /\ \A j, k \in DOMAIN out : out[j] = out[k] => j = k
  /\ ordered => \A k \in DOMAIN out : out[k] = k
  /\ (pc = "ended" /\ ~stopped /\ With({"raised"}) = {}) => Len(out) = N

(* Neither a slot nor a result is lost or doubled when several workers       *)
(* finish in one round, or at the end of the items.                          *)
NothingLost == LimitRespected /\ SlotsKept /\ AllDelivered

(* "so nothing outlives this iterator" (docstring): once the finally block   *)
(* is through, no worker runs.                                               *)
NothingOutlives == pc = "ended" => InFlight = {}

(* The generator always comes to its end, whether it is drained, dropped,    *)
(* cancelled or broken by a worker.                                          *)
AlwaysEnds == <>(pc = "ended")
=============================================================================
