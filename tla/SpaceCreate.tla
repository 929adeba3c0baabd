----------------------------- MODULE SpaceCreate -----------------------------
(***************************************************************************)
(* tasks/space_create.py: a Jira project ("space") is created from a        *)
(* preview, then completed by a PUT that may fail without making the run    *)
(* fail; its undo moves it to the trash, and the undo can be undone.        *)
(*                                                                         *)
(* Everything is addressed by the key of the space.  Requests are retried   *)
(* when no answer comes, so a POST may meet its own effect; several runs    *)
(* may be at work, on one key too; and administrators delete, empty the     *)
(* trash and create on their own.  The workflow scan that audits keep (see  *)
(* ShareAnalysis) is dropped after a change.                                *)
(*                                                                         *)
(* Names begin with SC_ where FieldContexts or FieldOptions have the same.  *)
(***************************************************************************)
EXTENDS Naturals, Sequences

CONSTANTS
  Keys,          \* keys of spaces
  Runs,          \* runs at work at a time
  SC_MaxSends,   \* max_retries
  SC_MaxRuns,    \* bound: runs
  SC_MaxOutside  \* bound: changes by others

ASSUME SpaceCreateAssumption ==
  /\ SC_MaxSends \in Nat \ {0} /\ SC_MaxRuns \in Nat /\ SC_MaxOutside \in Nat
  /\ "other" \notin Runs

VARIABLES
  space,    \* Jira: what each key names
  checked,  \* previews: keys that were free
  run,      \* the runs at work
  log,      \* journal entries of this task
  cached,   \* the kept workflow scan: "none", "fresh" or "stale"
  begun,    \* how many runs there were
  sc_outside,
  sc_told,     \* history: keys a run failed on, or was left at
  handed    \* history: keys somebody else has changed
sp == <<space, checked, run, log, cached, begun, sc_outside, sc_told, handed>>

(* Who made a space, the scheme its template gave it, and what it has now.   *)
FreeKey == [state |-> "free"]
Made(by, template) ==
  [state |-> "live", by |-> by, template |-> template, scheme |-> template, completed |-> FALSE]
Live(k) == space[k].state = "live"
Gone(k) == [space EXCEPT ![k].state = "trash"]

SC_Idle == [step |-> "idle"]
Active(e) == e \in DOMAIN log /\ log[e].status = "active"

SC_Init ==
  /\ space \in [Keys -> {FreeKey, Made("other", "template")}]
  /\ checked = {} /\ run = [r \in Runs |-> SC_Idle] /\ log = <<>>
  /\ cached \in {"none", "fresh"} /\ begun = 0 /\ sc_outside = 0 /\ sc_told = {} /\ handed = {}

(* plan_stream: the key must be free, which a space in the trash seems to be.*)
SC_Preview(k) ==
  /\ k \notin checked /\ ~Live(k) /\ begun < SC_MaxRuns
  /\ checked' = checked \union {k}
  /\ UNCHANGED <<space, run, log, cached, begun, sc_outside, sc_told, handed>>

(* of is the entry that is undone, or 0. *)
Starts(r, op, k, of) ==
  /\ run[r] = SC_Idle /\ begun < SC_MaxRuns /\ begun' = begun + 1
  /\ run' = [run EXCEPT ![r] =
       [step |-> "send", op |-> op, key |-> k, of |-> of, sends |-> 0,
        scheme |-> "none", ok |-> FALSE, caveat |-> FALSE]]
  /\ UNCHANGED <<space, log, cached, sc_outside, sc_told, handed>>
SC_Execute(r, k) == k \in checked /\ checked' = checked \ {k} /\ Starts(r, "create", k, 0)
SC_Undo(r, e) == Active(e) /\ Starts(r, log[e].op, log[e].key, e) /\ UNCHANGED checked

At(r, step) == run[r].step = step
Goes(r, step) == run' = [run EXCEPT ![r].step = step]
Result(r, ok, caveat) ==
  run' = [run EXCEPT ![r].step = "item", ![r].ok = ok, ![r].caveat = caveat]
Quiet == UNCHANGED <<checked, log, begun, sc_outside, sc_told, handed>>

(* A scan kept before this is older than what the program made or trashed.   *)
Ages == cached' = IF cached = "fresh" THEN "stale" ELSE cached

(* Given up, it passes for done. *)
NoAnswer_GivenUpIsDone(r) ==
  IF run[r].sends + 1 < SC_MaxSends THEN run' = [run EXCEPT ![r].sends = @ + 1]
  ELSE Result(r, TRUE, FALSE)
(* No answer: sent again, or given up. *)
NoAnswer(r) ==
  IF run[r].sends + 1 < SC_MaxSends THEN run' = [run EXCEPT ![r].sends = @ + 1]
  ELSE Result(r, FALSE, FALSE)

(* POST /project: refused while the key is taken, be it by the trash.        *)
Post(r) ==
  /\ At(r, "send") /\ run[r].op = "create"
  /\ LET k == run[r].key IN
     \/ /\ space[k] = FreeKey /\ Ages
        /\ \E template \in {"none", "template"} :
             space' = [space EXCEPT ![k] = Made(r, template)]
        /\ Goes(r, "scheme") \/ NoAnswer(r)
     \/ (Result(r, FALSE, FALSE) \/ NoAnswer(r)) /\ UNCHANGED <<space, cached>>
  /\ Quiet

(* DELETE by key: 404 counts as done. *)
Trash(r) ==
  /\ At(r, "send") /\ run[r].op = "delete"
  /\ LET k == run[r].key IN
     \/ Live(k) /\ space' = Gone(k) /\ Ages /\ (Result(r, TRUE, FALSE) \/ NoAnswer(r))
     \/ ~Live(k) /\ Result(r, TRUE, FALSE) /\ UNCHANGED <<space, cached>>
     \/ (Result(r, FALSE, FALSE) \/ NoAnswer(r)) /\ UNCHANGED <<space, cached>>
  /\ Quiet

(* _missing_notification_scheme: 404 means missing, an error that it is not. *)
MissingScheme(k) == {FALSE, ~Live(k) \/ space[k].scheme = "none"}

(* The default scheme, if one is missing and the default can be read.        *)
ReadSchemes(r) ==
  /\ At(r, "scheme")
  /\ \E missing \in MissingScheme(run[r].key), read \in BOOLEAN :
       run' = [run EXCEPT ![r].step = "put",
                          ![r].scheme = IF missing /\ read THEN "default" ELSE "none"]
  /\ UNCHANGED <<space, cached>> /\ Quiet

(* PUT of lead, assignee and scheme: its failure is a caveat.                *)
Complete(r) ==
  /\ At(r, "put")
  /\ LET k == run[r].key IN
     \/ /\ Live(k)
        /\ space' = [space EXCEPT ![k].completed = TRUE,
                       ![k].scheme = IF run[r].scheme = "none" THEN @ ELSE run[r].scheme]
        /\ \E caveat \in BOOLEAN : Result(r, TRUE, caveat)
     \/ Result(r, TRUE, TRUE) /\ UNCHANGED space
  /\ UNCHANGED cached /\ Quiet

Flip(op) == IF op = "create" THEN "delete" ELSE "create"
MarkedUndone(of, entries) ==
  [e \in DOMAIN entries |-> IF e = of THEN [entries[e] EXCEPT !.status = "undone"] ELSE entries[e]]

Journaled(r) ==
  IF run[r].ok
  THEN Append(log, [op |-> Flip(run[r].op), key |-> run[r].key, status |-> "active"])
  ELSE log

(* After the item is reported: the scan is dropped, the inverse journaled,   *)
(* and an undo marked in any case.                                           *)
SC_Ends(r) ==
  /\ At(r, "item")
  /\ cached' = IF run[r].ok THEN "none" ELSE cached
  /\ log' = MarkedUndone(run[r].of, Journaled(r))
  /\ sc_told' = IF run[r].ok THEN sc_told ELSE sc_told \union {run[r].key}
  /\ run' = [run EXCEPT ![r] = SC_Idle]
  /\ UNCHANGED <<space, checked, begun, sc_outside, handed>>

(* The page is closed, the run stopped, or the program ends.                 *)
SC_Leave(r) ==
  /\ run[r] # SC_Idle
  /\ sc_told' = sc_told \union {run[r].key} /\ run' = [run EXCEPT ![r] = SC_Idle]
  /\ UNCHANGED <<space, checked, log, cached, begun, sc_outside, handed>>

(* Others: a space is created, deleted, or purged from the trash.            *)
SC_Outside(k) ==
  /\ sc_outside < SC_MaxOutside /\ sc_outside' = sc_outside + 1
  /\ \/ space[k] = FreeKey /\ space' = [space EXCEPT ![k] = Made("other", "template")]
     \/ Live(k) /\ space' = Gone(k)
     \/ space[k].state = "trash" /\ space' = [space EXCEPT ![k] = FreeKey]
  /\ handed' = handed \union {k}
  /\ UNCHANGED <<checked, run, log, cached, begun, sc_told>>

AtRest == \A r \in Runs : run[r] = SC_Idle

(* Jira empties its trash after some 60 days: no run lasts as long.          *)
Purged(k) ==
  /\ AtRest
  /\ space[k].state = "trash" /\ space' = [space EXCEPT ![k] = FreeKey]
  /\ UNCHANGED <<checked, run, log, cached, begun, sc_outside, sc_told, handed>>

(* An audit scans the workflows and keeps the result. *)
KeepScan ==
  /\ cached' = "fresh" /\ cached # "fresh"
  /\ UNCHANGED <<space, checked, run, log, begun, sc_outside, sc_told, handed>>

SC_Next ==
  \/ KeepScan
  \/ \E k \in Keys : Purged(k)
  \/ \E k \in Keys : SC_Preview(k) \/ SC_Outside(k)
  \/ \E r \in Runs :
       \/ \E k \in Keys : SC_Execute(r, k)
       \/ \E e \in 1..SC_MaxRuns : SC_Undo(r, e)
       \/ Post(r) \/ Trash(r) \/ ReadSchemes(r) \/ Complete(r) \/ SC_Ends(r) \/ SC_Leave(r)

SC_Spec == SC_Init /\ [][SC_Next]_sp

(***************************************************************************)
(* Properties                                                              *)
(***************************************************************************)

(* A space the program made is live if and only if an entry of the journal   *)
(* undoes it, unless the operator was told of a failure or left a run, or    *)
(* somebody else had the key: also when two runs are for one key, an answer  *)
(* is lost and the retry meets its own effect, or an entry is undone twice   *)
(* at a time.  And a workflow scan from before a change that worked is not   *)
(* kept.                                                                     *)
SpacesAccounted ==
  AtRest =>
    /\ \A k \in Keys \ (sc_told \union handed) :
         (Live(k) /\ space[k].by # "other") <=>
           \E e \in DOMAIN log : Active(e) /\ log[e].key = k /\ log[e].op = "delete"
    /\ cached = "stale" => sc_told # {}

(* "So we never overwrite a scheme the template did set"                     *)
(* (space_create.py:245), whichever reads fail and whichever runs meet on a  *)
(* key, as long as the key stays with the program; and a space reported as   *)
(* created without a caveat has been completed.                              *)
TemplateKept ==
  \A k \in Keys \ handed :
    /\ (Live(k) /\ space[k].template # "none") => space[k].scheme = space[k].template
    /\ \A r \in Runs :
         (At(r, "item") /\ run[r].op = "create" /\ run[r].ok /\ ~run[r].caveat)
           => (Live(k) /\ space[k].by = r /\ run[r].key = k => space[k].completed)

(* Jira, the journal and the reports agree on the spaces there are.          *)
SpacesInOrder == SpacesAccounted /\ TemplateKept

(* "Rollback moves the created project to the trash" (space_create.py:9).    *)
(* Refuted: it deletes by key, which by then may be another space's.         *)
UndoSparesOthers ==
  [][ \A r \in Runs, k \in Keys :
        (run[r] # SC_Idle /\ run[r].op = "delete" /\ run'[r] # run[r] /\ Live(k) /\ space'[k] = Gone(k)[k])
          => space[k].by # "other" ]_sp

(* "A new or removed project brings its own workflows: the cached global     *)
(* scan is stale" (space_create.py:372).  Refuted: the cache is dropped only *)
(* after the item was reported, and stays when the run is left there.        *)
ScanDropped == AtRest => cached # "stale"

(* A space is there only if its creation was reported. Refuted: the POST is  *)
(* sent again when its answer is lost, and is then refused for its own key.  *)
FailedIsNotThere ==
  [][ \A r \in Runs :
        (At(r, "item") /\ run'[r] = SC_Idle /\ run[r].op = "create" /\ ~run[r].ok)
          => (Live(run[r].key) => space[run[r].key].by # r) ]_sp
=============================================================================
