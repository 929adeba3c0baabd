------------------------------ MODULE EventLog ------------------------------
(***************************************************************************)
(* The licence change log (app.py, license_events_stream): events of the    *)
(* organisation, newest first, gathered by one query for each group that    *)
(* grants a licence and one for direct grants, each read page by page with  *)
(* a cursor (core/http.py, paginate_token).                                 *)
(*                                                                         *)
(* A query is cut after so many rows, but not before their last day is      *)
(* whole; or after so many events; and all queries together after so many.  *)
(* A query is a text search, so an event may be found by several.  What the *)
(* log may be trusted for goes out at its end as the coverage: for each     *)
(* product the oldest day that is whole.  Events arrive during the reading; *)
(* a cursor is a position, so what is next may then come a second time; and *)
(* a server may repeat a cursor.                                            *)
(***************************************************************************)
EXTENDS Naturals, Sequences, SequencesExt, FiniteSetsExt, Positions

CONSTANTS
  Terms,      \* the queries: groups that grant a licence, in order
  Direct,     \* the query for direct grants of a product
  OtherGroup, \* a group that grants none
  Products,
  LastDay,    \* bound: days are 1..LastDay
  Length,     \* bound: events there are at the start
  EL_PageSize,
  MaxRead,    \* _PER_QUERY_ROWS
  MaxScan,    \* _PER_QUERY_SCAN
  MaxTotal,   \* _TOTAL_SCAN
  BatchSize,  \* _BATCH
  MaxArrivals \* bound: events that arrive during the reading

ASSUME EventLogAssumption ==
  /\ Terms \in Seq(ToSet(Terms)) /\ Direct \notin ToSet(Terms)
  /\ {EL_PageSize, MaxRead, MaxScan, MaxTotal, BatchSize, LastDay} \subseteq Nat \ {0}
  /\ Length \in Nat /\ MaxArrivals \in Nat

VARIABLES
  events,   \* the audit log, newest first
  named,    \* which other groups a search for a group finds as well
  label,    \* the product of each group, and of direct grants
  state,    \* "reading", "done", "broken"
  todo,     \* queries still to make, the current one first
  page,     \* what is left of the page at hand
  cursor,   \* {} at the end, else what asks for the next page
  followed, \* seen_tokens
  scanned, local, got,
  capDay,   \* the day the cap fell on, or 0
  dayDone, batch, seen,
  coverage, \* of products met: the oldest whole day, or 0 when not capped
  shown,    \* history: what the page was sent
  stopped, repeated \* history: a scan was stopped short; a cursor came twice
ev == <<events, named, label, state, todo, page, cursor, followed, scanned, local,
        got, capDay, dayDone, batch, seen, coverage, shown, stopped, repeated>>

Groups == ToSet(Terms)
Queries == Terms \o <<Direct>>
Subjects == Groups \union {Direct, OtherGroup}

EL_Init ==
  /\ \E about \in [1..Length -> Subjects], day \in [1..Length -> 1..LastDay] :
       /\ \A j, k \in 1..Length : j < k => day[j] >= day[k]
       /\ events = [k \in 1..Length |-> [id |-> k, about |-> about[k], day |-> day[k]]]
  /\ named \in SUBSET {pair \in Groups \X (Groups \union {OtherGroup}) : pair[1] # pair[2]}
  /\ label \in [Groups \union {Direct} -> Products]
  /\ state = "reading" /\ todo = Queries /\ page = <<>> /\ cursor = {0} /\ followed = {}
  /\ scanned = 0 /\ local = 0 /\ got = 0 /\ capDay = 0 /\ dayDone = FALSE
  /\ batch = <<>> /\ seen = {} /\ coverage = [p \in {} |-> 0] /\ shown = <<>>
  /\ stopped = FALSE /\ repeated = FALSE

Jira == <<events, named, label>>
Finds(query, e) ==
  IF query = Direct THEN e.about = Direct
  ELSE e.about = query \/ <<query, e.about>> \in named

Results == Selected(events, {i \in DOMAIN events : Finds(Head(todo), events[i])})

(* paginate_token: a cursor is followed once.                                *)
NextCursor(next, items) ==
  IF next = {} \/ items = <<>> \/ next \subseteq followed THEN {} ELSE next

(* One page: as many events as the server likes, and a cursor unless there   *)
(* are no more; a cursor may be one it gave before.                          *)
FetchPage(length, again) ==
  /\ state = "reading" /\ page = <<>> /\ cursor # {}
  /\ \E from \in cursor :
       LET rest == SubSeq(Results, from + 1, Len(Results))
           next == IF again # {} THEN again
                   ELSE IF length < Len(rest) THEN {from + length} ELSE {}
       IN /\ length <= Len(rest) /\ (rest # <<>> => length > 0)
          /\ again # {} => length < Len(rest) /\ again \subseteq followed
          /\ page' = SubSeq(rest, 1, length)
          /\ cursor' = NextCursor(next, page') /\ followed' = followed \union next
          /\ repeated' = (repeated \/ again # {})
  /\ UNCHANGED <<Jira, state, todo, scanned, local, got, capDay, dayDone, batch, seen,
                 coverage, shown, stopped>>

(* classify_license_event: the groups that grant no licence are left out.    *)
Row(e) == e.id \notin seen /\ e.about # OtherGroup
Older(e) == Row(e) /\ capDay # 0 /\ e.day < capDay
Covered(products, floor) ==
  [p \in DOMAIN coverage \union products |->
     LET known == IF p \in DOMAIN coverage THEN coverage[p] ELSE 0
     IN IF p \in products THEN Max({known, floor}) ELSE known]

(* The row is kept, and completes a batch or reaches the cap.                *)
Keep(e) ==
  LET filled == Append(batch, e.id) IN
  /\ seen' = seen \union {e.id} /\ got' = got + 1
  /\ IF Len(filled) >= BatchSize THEN shown' = shown \o filled /\ batch' = <<>>
     ELSE batch' = filled /\ UNCHANGED shown
  /\ capDay' = IF got' >= MaxRead /\ capDay = 0 THEN e.day ELSE capDay
  /\ coverage' = Covered(IF Head(todo) = Direct THEN {label[Direct]} ELSE {}, 0)

(* An event that was seen before does not count towards all queries.         *)
Stops(e) ==
  \/ Older(e)
  \/ local' >= MaxScan
  \/ e.id \notin seen /\ scanned' >= MaxTotal

(* One event of the page. *)
ReadEvent ==
  /\ page # <<>>
  /\ LET e == Head(page) IN
     /\ scanned' = scanned + 1 /\ local' = local + 1
     /\ dayDone' = (dayDone \/ Older(e))
     /\ IF Row(e) /\ ~Older(e) THEN Keep(e)
        ELSE UNCHANGED <<seen, got, batch, shown, capDay, coverage>>
     /\ IF Stops(e) THEN page' = <<>> /\ cursor' = {}
        ELSE page' = Tail(page) /\ UNCHANGED cursor
     /\ stopped' = (stopped \/ (Stops(e) /\ capDay' = 0 /\ (Tail(page) # <<>> \/ cursor # {})))
  /\ UNCHANGED <<Jira, state, todo, followed, repeated>>

(* The cap's day, whether or not it is whole. *)
CapFloor_CapDay == capDay
(* The oldest day that is whole, 0 if there was no cap.                      *)
CapFloor ==
  IF capDay = 0 THEN 0
  ELSE IF dayDone THEN capDay   \* older days were dropped
  ELSE capDay + 1               \* stopped within it

(* The end of a query, and with it of the log if it was the last or all      *)
(* queries have read enough.                                                 *)
EndQuery ==
  /\ state = "reading" /\ page = <<>> /\ cursor = {}
  /\ shown' = shown \o batch /\ batch' = <<>>
  /\ coverage' = Covered(IF Head(todo) = Direct THEN DOMAIN coverage ELSE {label[Head(todo)]},
                         CapFloor)
  /\ IF Len(todo) = 1 \/ scanned >= MaxTotal
     THEN state' = "done" /\ UNCHANGED <<todo, cursor>>
     ELSE todo' = Tail(todo) /\ cursor' = {0} /\ UNCHANGED state
  /\ followed' = {} /\ local' = 0 /\ got' = 0 /\ capDay' = 0 /\ dayDone' = FALSE
  /\ UNCHANGED <<Jira, page, scanned, seen, stopped, repeated>>

(* A page cannot be read: an error is sent in place of the coverage.         *)
Breaks ==
  /\ state = "reading" /\ page = <<>> /\ cursor # {} /\ state' = "broken"
  /\ UNCHANGED <<Jira, todo, page, cursor, followed, scanned, local, got, capDay, dayDone,
                 batch, seen, coverage, shown, stopped, repeated>>

Arrives(about) ==
  /\ state = "reading" /\ Len(events) < Length + MaxArrivals
  /\ events' = <<[id |-> Len(events) + 1, about |-> about, day |-> LastDay]>> \o events
  /\ UNCHANGED <<named, label, state, todo, page, cursor, followed, scanned, local, got,
                 capDay, dayDone, batch, seen, coverage, shown, stopped, repeated>>

EL_Next ==
  \/ \E length \in 0..EL_PageSize, again \in {{}} \union {{c} : c \in followed} :
       FetchPage(length, again)
  \/ ReadEvent \/ EndQuery \/ Breaks
  \/ \E about \in Subjects : Arrives(about)

EL_Spec == EL_Init /\ [][EL_Next]_ev

(***************************************************************************)
(* Properties                                                              *)
(***************************************************************************)

(* The rows of days that the coverage calls whole.                           *)
Promised ==
  {e \in ToSet(events) :
     /\ e.id <= Length /\ e.about # OtherGroup /\ label[e.about] \in DOMAIN coverage
     /\ e.day >= coverage[label[e.about]]}
AllPromisedShown == \A e \in Promised : e.id \in ToSet(shown)

(* "There are no partial days" (app.py:1376): at the end of a log that does  *)
(* not call itself capped as a whole, every change of a product on a day     *)
(* from its floor on was sent, once, whichever queries found it, wherever    *)
(* caps fell, whatever arrived meanwhile; and each product that was asked    *)
(* for has its floor.  Excepted are a query that the scan limit stopped      *)
(* before its rows reached their cap, and a cursor that came twice.          *)
CoverageTrue ==
  /\ IsInjective(shown)
  /\ (state = "done" /\ scanned < MaxTotal) =>
       /\ \A g \in Groups : label[g] \in DOMAIN coverage
       /\ stopped \/ repeated \/ AllPromisedShown

(* The same without the exceptions.  Refuted: the limit and the repeated     *)
(* cursor end a query as if it had no more events.                           *)
NoPartialDays == (state = "done" /\ scanned < MaxTotal) => AllPromisedShown
=============================================================================
