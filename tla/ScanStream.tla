----------------------------- MODULE ScanStream -----------------------------
(***************************************************************************)
(* core/http.py: reading a whole collection page by page (pages_offset,     *)
(* scan_all) and reporting progress on the way (ScanStream).                *)
(*                                                                         *)
(* The collection lives in Jira and changes while it is read.  scan_all     *)
(* runs as an asyncio task; each page it reads puts a tick in a queue,      *)
(* which ScanStream's iterator empties through a getter task, waiting for   *)
(* the scan at the same time.  The iterator is suspended in asyncio.wait    *)
(* ("wait"), at one of its two yields ("yield", "drain yield") or in its    *)
(* finally block ("finally"); its consumer may go away meanwhile.           *)
(***************************************************************************)
EXTENDS Naturals, SequencesExt

CONSTANTS
  Initial,     \* bound: how many items there are at first
  MaxChanges,  \* bound: items added and removed while the scan is under way
  PageSize,    \* page_size
  Clamps,      \* bound: how many items the server puts on a page at most
  NoLimit,     \* limit=None
  Limits       \* limits a caller asks for, NoLimit among them

ASSUME ScanAssumption ==
  /\ Initial \in Nat /\ MaxChanges \in Nat
  /\ PageSize \in Nat \ {0} /\ Clamps \subseteq 1..PageSize
  /\ NoLimit \notin Nat /\ Limits \subseteq (Nat \ {0}) \union {NoLimit}

VARIABLES
  coll,       \* Jira: the collection, in the order the endpoint lists it
  endpoint,   \* Jira: its page size, and which of total and isLast it reports
  limit,      \* the argument limit
  scan,       \* life of the scan task
  expected,   \* total as the probe saw it: a set of one number, or empty
  collected,  \* the rows so far
  complete,   \* ScanIntegrity.complete, once the scan is done
  queue,      \* ticks not taken yet
  getter,     \* the getter task: its state, and the tick it has taken
  it,         \* where the iterator is suspended
  out,        \* the ticks its consumer was given
  ticks,      \* history: the ticks scan_all reported
  throughout, \* history: items that were there all the time since the probe
  added,      \* history: how many items were added since the probe
  removed     \* history: how many were removed

jira == <<coll, endpoint, throughout, added, removed>>
reading == <<limit, scan, expected, collected, complete, ticks>>
iterator == <<getter, it, out>>
vars == <<jira, reading, iterator, queue>>

None == [state |-> "none", tick |-> <<>>]
Waiting == [state |-> "waiting", tick |-> <<>>]
Got(n) == [state |-> "got", tick |-> <<n>>]
Items == 1..(Initial + MaxChanges)

Running == {"probe", "pages", "cancelling"}

Init ==
  /\ coll = [k \in 1..Initial |-> k]
  /\ endpoint \in [size : Clamps, total : BOOLEAN, isLast : BOOLEAN]
  /\ limit \in Limits
  /\ scan = "probe"
  /\ expected = {}
  /\ collected = <<>> /\ complete = FALSE
  /\ queue = <<>>
  /\ getter = Waiting /\ it = "wait"
  /\ out = <<>> /\ ticks = <<>>
  /\ throughout = {} /\ added = 0 /\ removed = 0

(***************************************************************************)
(* Jira                                                                    *)
(***************************************************************************)

Changeable == scan = "pages" /\ added + removed < MaxChanges

ItemAdded(k) ==
  /\ Changeable
  /\ coll' = InsertAt(coll, k, Initial + added + removed + 1)
  /\ added' = added + 1
  /\ UNCHANGED <<endpoint, throughout, removed, reading, iterator, queue>>

ItemRemoved(k) ==
  /\ Changeable
  /\ coll' = RemoveAt(coll, k)
  /\ throughout' = throughout \ {coll[k]}
  /\ removed' = removed + 1
  /\ UNCHANGED <<endpoint, added, reading, iterator, queue>>

(* What the endpoint answers for startAt = start. *)
Page(start) ==
  LET last == start + endpoint.size
  IN SubSeq(coll, start + 1, IF last < Len(coll) THEN last ELSE Len(coll))

(***************************************************************************)
(* scan_all                                                                *)
(***************************************************************************)

Probe ==
  /\ scan = "probe"
  /\ expected' = IF endpoint.total THEN {Len(coll)} ELSE {}
  /\ throughout' = {coll[k] : k \in DOMAIN coll}
  /\ scan' = "pages"
  /\ UNCHANGED <<coll, endpoint, added, removed, limit, collected, complete, ticks,
                 iterator, queue>>

(* Only a scan that read too much is noticed. *)
Verdict_AtMost(rows) == \E n \in expected : Len(rows) <= n
(* The verdict without and with the cap. *)
Verdict(rows) == expected = {Len(rows)}
CappedVerdict(rows) == \E n \in expected : Len(rows) >= n

(* pages_offset, after a page that is not empty: isLast, then total, then a  *)
(* short page if neither is there.                                           *)
Ends(start, page) ==
  LET next == start + Len(page)
      last == next >= Len(coll)
  IN \/ endpoint.isLast /\ last
     \/ endpoint.total /\ next >= Len(coll)
     \/ ~endpoint.total /\ ~endpoint.isLast /\ Len(page) < PageSize

(* start_at: every page moves it by what came, not by what was asked for.    *)
Offset == Len(collected)

Report(n) ==
  /\ queue' = Append(queue, n)
  /\ ticks' = Append(ticks, n)

(* One request and what is done with its page before the next one.           *)
ReadPage ==
  LET page == Page(Offset)
      rows == collected \o page
      capped == limit # NoLimit /\ Len(rows) >= limit
  IN /\ scan = "pages"
     /\ IF page = <<>>
        THEN /\ scan' = "done" /\ complete' = Verdict(collected)
             /\ UNCHANGED <<collected, queue, ticks>>
        ELSE /\ Report(Len(rows))
             /\ collected' = IF capped THEN SubSeq(rows, 1, limit) ELSE rows
             /\ IF capped
                THEN scan' = "done" /\ complete' = CappedVerdict(collected')
                ELSE IF Ends(Offset, page)
                THEN scan' = "done" /\ complete' = Verdict(rows)
                ELSE UNCHANGED <<scan, complete>>
     /\ UNCHANGED <<jira, limit, expected, iterator>>

(* A request is refused or keeps failing: UpstreamError ends the task. *)
ScanFails ==
  /\ scan \in {"probe", "pages"}
  /\ scan' = "failed"
  /\ UNCHANGED <<jira, limit, expected, collected, complete, ticks, iterator, queue>>

ScanUnwinds ==
  /\ scan = "cancelling"
  /\ scan' = "cancelled"
  /\ UNCHANGED <<jira, limit, expected, collected, complete, ticks, iterator, queue>>

(***************************************************************************)
(* ScanStream.__aiter__                                                    *)
(***************************************************************************)

(* The getter task takes a tick as soon as there is one.                     *)
GetterTakes ==
  /\ getter = Waiting /\ queue # <<>>
  /\ getter' = Got(Head(queue))
  /\ queue' = Tail(queue)
  /\ UNCHANGED <<jira, reading, it, out>>

(* The wait returned for the scan: what the getter holds is forgotten. *)
Wake_ScanFirst ==
  /\ it = "wait"
  /\ getter.state = "got" \/ scan \notin Running
  /\ getter' = None
  /\ IF getter.state # "got" \/ scan \notin Running
     THEN it' = "drain" /\ UNCHANGED out
     ELSE it' = "yield" /\ out' = out \o getter.tick
  /\ UNCHANGED <<jira, reading, queue>>
(* Only the getter is waited for. *)
Wake_GetterOnly ==
  /\ it = "wait"
  /\ getter.state = "got"
  /\ getter' = None
  /\ it' = "yield" /\ out' = out \o getter.tick
  /\ UNCHANGED <<jira, reading, queue>>
(* asyncio.wait: a tick that was taken goes first, also when the scan is     *)
(* done as well; otherwise the getter is cancelled, and the queue keeps      *)
(* what it has not taken.                                                    *)
Wake ==
  /\ it = "wait"
  /\ getter' = None
  /\ \/ /\ getter.state = "got"
        /\ it' = "yield" /\ out' = out \o getter.tick
     \/ /\ getter = Waiting /\ scan \notin Running
        /\ it' = "drain" /\ UNCHANGED out
  /\ UNCHANGED <<jira, reading, queue>>

(* while not queue.empty(): yield; then task.result(), which raises what the *)
(* scan raised.  (The finally block finds the task done.)                    *)
Drain ==
  /\ it = "drain"
  /\ IF queue # <<>>
     THEN it' = "drain yield" /\ out' = Append(out, Head(queue)) /\ queue' = Tail(queue)
     ELSE it' = (IF scan = "done" THEN "ended" ELSE "raised") /\ UNCHANGED <<out, queue>>
  /\ UNCHANGED <<jira, reading, getter>>

(* The consumer asks for the next tick. *)
Resume ==
  /\ \/ it = "yield" /\ it' = "wait" /\ getter' = Waiting
     \/ it = "drain yield" /\ it' = "drain" /\ UNCHANGED getter
  /\ UNCHANGED <<jira, reading, out, queue>>

Close ==
  IF scan \in {"probe", "pages"}
  THEN it' = "finally" /\ scan' = "cancelling"
  ELSE it' = "abandoned" /\ UNCHANGED scan

(* The consumer is cancelled while it waits. *)
CancelWait ==
  /\ it = "wait"
  /\ Close
  /\ UNCHANGED <<jira, limit, expected, collected, complete, ticks, getter, out, queue>>

(* The consumer leaves its loop at a yield; the event loop's finalizer comes *)
(* later.                                                                    *)
Drop ==
  /\ it \in {"yield", "drain yield"}
  /\ it' = "dropped"
  /\ UNCHANGED <<jira, reading, getter, out, queue>>

Finalize ==
  /\ it = "dropped"
  /\ Close
  /\ UNCHANGED <<jira, limit, expected, collected, complete, ticks, getter, out, queue>>

EndCleanup ==
  /\ it = "finally" /\ scan \notin Running
  /\ it' = "abandoned"
  /\ UNCHANGED <<jira, reading, getter, out, queue>>

Scan == Probe \/ ReadPage
Iterator == Wake \/ Drain \/ Finalize \/ EndCleanup

Next ==
  \/ \E k \in 1..(Len(coll) + 1) : ItemAdded(k)
  \/ \E k \in DOMAIN coll : ItemRemoved(k)
  \/ Scan \/ ScanFails \/ ScanUnwinds
  \/ GetterTakes \/ Iterator
  \/ Resume \/ CancelWait \/ Drop

(* Requests end, the event loop runs what is ready, and a consumer that has  *)
(* not left asks for the next tick.  The collection need not stay as it is.  *)
Fairness ==
  /\ WF_vars(Scan) /\ WF_vars(ScanUnwinds)
  /\ WF_vars(GetterTakes) /\ WF_vars(Iterator)
  /\ WF_vars(Resume)

Spec == Init /\ [][Next]_vars /\ Fairness

(***************************************************************************)
(* Properties                                                              *)
(***************************************************************************)

(* Shapes; the getter exists exactly while the iterator waits for it, or was *)
(* left waiting by a consumer that was cancelled.                            *)
TypeOK ==
  /\ coll \in Seq(Items) /\ collected \in Seq(Items)
  /\ scan \in {"probe", "pages", "done", "failed", "cancelling", "cancelled"}
  /\ expected \in {{}, {Initial}}
  /\ complete \in BOOLEAN
  /\ it \in {"wait", "yield", "drain", "drain yield", "dropped", "finally",
             "ended", "raised", "abandoned"}
  /\ getter \in {None, Waiting} \union {Got(n) : n \in 1..(Initial + MaxChanges)}
  /\ it = "wait" => getter # None
  /\ getter # None => it \in {"wait", "finally", "abandoned"}

(* No tick is lost, doubled or overtaken between the scan and its consumer,  *)
(* however the end of the scan falls together with the last page: what was   *)
(* given out, what the getter holds and what is queued are what was reported, *)
(* and an iteration that ends has shown all of it before result() is there.  *)
TicksDelivered ==
  /\ out \o getter.tick \o queue = ticks
  /\ it \in {"ended", "raised"} => out = ticks

(* "Abandoning the iterator cancels the scan" (docstring): once it is        *)
(* through, in whatever way, no request goes on.                             *)
NothingOutlives == it \in {"ended", "raised", "abandoned"} => scan \notin Running

Seen == {collected[k] : k \in DOMAIN collected}

(* "Whether a full-collection scan actually saw the whole collection": a     *)
(* scan said to be complete holds every item that was there all the time,    *)
(* whatever the server's page size, unless the collection both grew and      *)
(* shrank (the count can then come out right by accident), or it grew and    *)
(* the scan was cut at the limit.                                            *)
CompleteIsWhole ==
  (scan = "done" /\ complete) =>
    \/ throughout \subseteq Seen
    \/ added > 0 /\ (removed > 0 \/ limit # NoLimit)

(* No false alarm: a collection that was left alone and fits under the limit *)
(* is read completely, in order and without doubles, and said to be whole if *)
(* the endpoint reports a total, however short its pages are.                *)
QuietScanSucceeds ==
  (scan = "done" /\ added + removed = 0 /\ endpoint.total
     /\ (limit = NoLimit \/ limit >= Initial))
    => complete /\ collected = coll

(* What a scan says of itself may be relied upon both ways: an audit calls    *)
(* something private only on a whole scan (project_config_audit.py:510), and  *)
(* is of no use if none ever is.                                             *)
VerdictTrue == CompleteIsWhole /\ QuietScanSucceeds

(* Every iteration ends, also when it is abandoned.                          *)
IterationEnds == <>(it \in {"ended", "raised", "abandoned"})

(* ScanIntegrity: expected and collected agree unless "the collection        *)
(* changed mid-scan".  With a limit, a collection that only grew is called   *)
(* complete though items that were there from the start were cut off.        *)
GrowthIsNoticed ==
  (scan = "done" /\ complete /\ removed = 0) => throughout \subseteq Seen
=============================================================================
