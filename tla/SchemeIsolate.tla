---------------------------- MODULE SchemeIsolate ----------------------------
(***************************************************************************)
(* tasks/config_isolate.py, whole schemes: the scheme a project shares is   *)
(* cloned and the project moved to the clone; the undo moves it back and    *)
(* deletes the clone.  For a security scheme the issues have to keep their  *)
(* level, and the levels of the clone are other levels of the same names:   *)
(* the request that moves the project carries a table from old to new ones. *)
(*                                                                         *)
(* A scheme that is not about security is one without levels.  Names of the *)
(* definitions begin with SI_ where WorkflowIsolate has the same.           *)
(***************************************************************************)
EXTENDS Naturals, FiniteSets

CONSTANTS
  SI_Target, SI_Others,
  LevelNames,   \* names a security level can have
  SI_MaxRuns    \* bound: runs, undos, redos

ASSUME SchemeIsolateAssumption == SI_Target \notin SI_Others /\ SI_MaxRuns \in Nat

VARIABLES
  scheme,    \* Jira: the scheme of each project, 0 or that of a clone
  levels,    \* Jira: the levels of each scheme, a function from id to name
  issue,     \* Jira: the level of the project's issue, or NoLevel
  made,      \* Jira: how many clones were made
  gone,      \* Jira: the clones that are deleted again
  body,      \* the names of create_body and the source, or NoBody
  si_pc,     \* the next request
  clone,     \* new_id, or delete_scheme_id of the journaled undo
  table,     \* oldToNewSecurityLevelMappings
  si_runs, si_outcome, si_entry,
  had,         \* history: the name of the level the issue has
  si_mishaps   \* history: "lost", "cleanup", "renamed"

schemeJira == <<scheme, levels, issue, made, gone>>
sv == <<schemeJira, body, si_pc, clone, table, si_runs, si_outcome, si_entry, had, si_mishaps>>

SI_Projects == SI_Others \union {SI_Target}
NoLevel == [of |-> 0, name |-> "none"]
NoBody == {"none"}
Schemes == 0..SI_MaxRuns

(* The levels of a scheme have names of their own; a level's id says which   *)
(* scheme it is of and what it was called when it was made.                  *)
Ids(s, names) == {[of |-> s, name |-> n] : n \in names}
Fresh(s, names) == [id \in Ids(s, names) |-> id.name]
NamesOf(s) == {levels[s][id] : id \in DOMAIN levels[s]}

SI_Init ==
  /\ scheme \in [SI_Projects -> {0}]
  /\ \E names \in SUBSET LevelNames :
       /\ levels = [s \in Schemes |-> IF s = 0 THEN Fresh(0, names) ELSE Fresh(s, {})]
       /\ issue \in Ids(0, names) \union {NoLevel} /\ had = issue.name
  /\ made = 0 /\ gone = {} /\ body = NoBody /\ si_pc = "idle" /\ clone = 0
  /\ table = [id \in {} |-> id] /\ si_runs = 0
  /\ si_outcome = "none" /\ si_entry = "none" /\ si_mishaps = {}

(* plan_stream: _resolve_scheme looks at all projects now, and a scheme that *)
(* no other project uses is not isolated.                                    *)
SI_Preview ==
  /\ body = NoBody
  /\ \E p \in SI_Others : scheme[p] = scheme[SI_Target]
  /\ body' = NamesOf(0)
  /\ UNCHANGED <<schemeJira, si_pc, clone, table, si_runs, si_outcome, si_entry, had, si_mishaps>>

SI_Answers == {"ok", "refused", "broken", "lost"}
SI_Lands(a) == a \in {"ok", "lost"}
SI_Lost(a) == {"lost"} \intersect {a}
SI_Botched(a) == IF a = "ok" THEN {} ELSE {"cleanup"}

SI_Goes(pc) == si_pc' = pc /\ UNCHANGED <<si_outcome, si_entry>>

(* ok is FALSE: an undo marks its entry all the same.                       *)
SI_Fails ==
  /\ si_pc' = "idle"
  /\ IF si_runs = 1 THEN si_outcome' = "failed" /\ UNCHANGED si_entry
     ELSE si_outcome' = "undo_failed" /\ si_entry' = "rolled_back"

(* The undo is journaled, unless the stream is gone when this is reported.   *)
SI_Succeeds(outcome, entry) ==
  /\ si_pc' = "idle"
  /\ \/ si_outcome' = outcome /\ si_entry' = entry
     \/ si_outcome' = "stopped" /\ UNCHANGED si_entry

SI_Start ==
  /\ si_pc = "idle" /\ si_runs < SI_MaxRuns
  /\ \/ body # NoBody /\ si_runs = 0 /\ si_pc' = "create"
     \/ si_entry = "isolated" /\ si_pc' = "undo_read"
     \/ si_entry = "restored" /\ si_pc' = "create"
  /\ si_runs' = si_runs + 1
  /\ UNCHANGED <<schemeJira, body, clone, table, si_outcome, si_entry, had, si_mishaps>>

SI_Still == UNCHANGED <<body, si_runs, had>>

(* POST: the clone comes with the levels the preview read.  Its name is     *)
(* refused while there is an earlier one.                                    *)
SI_Create(a) ==
  /\ si_pc = "create"
  /\ SI_Lands(a) => made = Cardinality(gone)
  /\ IF SI_Lands(a)
     THEN /\ made' = made + 1
          /\ levels' = [levels EXCEPT ![made + 1] = Fresh(made + 1, body)]
     ELSE UNCHANGED <<made, levels>>
  /\ IF a = "ok" THEN clone' = made + 1 /\ SI_Goes("read") ELSE SI_Fails /\ UNCHANGED clone
  /\ si_mishaps' = si_mishaps \union SI_Lost(a)
  /\ UNCHANGED <<scheme, issue, gone, table>> /\ SI_Still

(* The table by name; a level without a namesake is left out.                *)
ByName(from, to) ==
  LET known == {id \in DOMAIN levels[from] : levels[from][id] \in NamesOf(to)}
  IN [id \in known |-> CHOOSE new \in DOMAIN levels[to] : levels[to][new] = levels[from][id]]

(* The undo sends the table of the run. *)
SI_Read_OneTable(a) ==
  /\ si_pc \in {"read", "undo_read"} /\ (a = "ok" \/ body # {})
  /\ IF a = "ok" THEN SI_Goes(IF si_pc = "read" THEN "point" ELSE "undo_point") ELSE SI_Fails
  /\ table' = IF si_pc = "read" THEN ByName(0, clone) ELSE table
  /\ si_mishaps' = IF a # "ok" /\ si_pc = "read" THEN si_mishaps \union {"cleanup"} ELSE si_mishaps
  /\ UNCHANGED <<schemeJira, clone>> /\ SI_Still
(* Both schemes are read.  A failure goes past the deletion of the clone.    *)
SI_Read(a) ==
  /\ si_pc \in {"read", "undo_read"} /\ (a = "ok" \/ body # {})
  /\ IF a = "ok" THEN SI_Goes(IF si_pc = "read" THEN "point" ELSE "undo_point") ELSE SI_Fails
  /\ table' = IF si_pc = "read" THEN ByName(0, clone) ELSE ByName(clone, 0)
  /\ si_mishaps' = IF a # "ok" /\ si_pc = "read" THEN si_mishaps \union {"cleanup"} ELSE si_mishaps
  /\ UNCHANGED <<schemeJira, clone>> /\ SI_Still

(* PUT of the project's scheme: Jira moves the issues by the table.          *)
SI_Point(s, a) ==
  /\ scheme' = IF SI_Lands(a) THEN [scheme EXCEPT ![SI_Target] = s] ELSE scheme
  /\ issue' = IF ~SI_Lands(a) \/ issue = NoLevel \/ issue.of = s THEN issue
              ELSE IF issue \in DOMAIN table THEN table[issue] ELSE NoLevel

(* The clone is left when the PUT is refused. *)
SI_Move_LeavesClone(a) ==
  /\ si_pc = "point" /\ SI_Point(clone, a)
  /\ CASE a = "ok" -> SI_Succeeds("ok", "isolated")
       [] OTHER -> SI_Fails
  /\ si_mishaps' = si_mishaps \union SI_Lost(a) \union (IF a = "broken" THEN {"cleanup"} ELSE {})
  /\ UNCHANGED <<levels, made, gone, clone, table>> /\ SI_Still
SI_Move(a) ==
  /\ si_pc = "point" /\ SI_Point(clone, a)
  /\ CASE a = "ok" -> SI_Succeeds("ok", "isolated")
       [] a = "refused" -> SI_Goes("drop")
       [] OTHER -> SI_Fails
  /\ si_mishaps' = si_mishaps \union SI_Lost(a) \union (IF a = "broken" THEN {"cleanup"} ELSE {})
  /\ UNCHANGED <<levels, made, gone, clone, table>> /\ SI_Still

SI_UndoMove(a) ==
  /\ si_pc = "undo_point" /\ SI_Point(0, a)
  /\ IF a = "ok" THEN SI_Goes("undo_drop") ELSE SI_Fails
  /\ si_mishaps' = si_mishaps \union SI_Lost(a)
  /\ UNCHANGED <<levels, made, gone, clone, table>> /\ SI_Still

(* DELETE of the clone.  A refusal is not looked at after a run that failed, *)
(* and noted after an undo; a failed request makes the undo fail though the  *)
(* project is back.                                                         *)
SI_Drop(a) ==
  /\ si_pc \in {"drop", "undo_drop"}
  /\ SI_Lands(a) => \A p \in SI_Projects : scheme[p] # clone
  /\ gone' = IF SI_Lands(a) THEN gone \union {clone} ELSE gone
  /\ IF si_pc = "drop" \/ a \in {"broken", "lost"} THEN SI_Fails
     ELSE SI_Succeeds("undone", "restored")
  /\ si_mishaps' = si_mishaps \union SI_Lost(a) \union SI_Botched(a)
  /\ UNCHANGED <<scheme, levels, issue, made, clone, table>> /\ SI_Still

SI_Stop ==
  /\ si_pc # "idle" /\ si_pc' = "idle" /\ si_outcome' = "stopped"
  /\ UNCHANGED <<schemeJira, body, clone, table, si_runs, si_entry, had, si_mishaps>>

(* An administrator renames a level, or moves another project off or onto    *)
(* the scheme of the target.                                                 *)
RenamedElsewhere(s, id, name) ==
  /\ "renamed" \notin si_mishaps /\ id \in DOMAIN levels[s] /\ name \notin NamesOf(s)
  /\ levels' = [levels EXCEPT ![s][id] = name]
  /\ si_mishaps' = si_mishaps \union {"renamed"}
  /\ UNCHANGED <<scheme, issue, made, gone, body, si_pc, clone, table, si_runs, si_outcome,
                 si_entry, had>>
SI_Join(p) ==
  /\ scheme[p] # scheme[SI_Target]
  /\ scheme' = [scheme EXCEPT ![p] = scheme[SI_Target]]
  /\ UNCHANGED <<levels, issue, made, gone, body, si_pc, clone, table, si_runs, si_outcome,
                 si_entry, had, si_mishaps>>

SI_Next ==
  \/ SI_Preview \/ SI_Start \/ SI_Stop
  \/ \E a \in SI_Answers : \/ SI_Create(a) \/ SI_Read(a) \/ SI_Move(a)
                           \/ SI_UndoMove(a) \/ SI_Drop(a)
  \/ \E s \in Schemes, name \in LevelNames : \E id \in DOMAIN levels[s] :
       RenamedElsewhere(s, id, name)
  \/ \E p \in SI_Others : SI_Join(p)

SI_Spec == SI_Init /\ [][SI_Next]_sv

(***************************************************************************)

SI_TypeOK ==
  /\ \A p \in SI_Projects : scheme[p] \in 0..made /\ scheme[p] \notin gone
  /\ gone \subseteq 1..made /\ clone \in 0..made /\ si_runs \in 0..SI_MaxRuns

(* "Map old->new by name so issues keep their level ... or they'd point at a *)
(* gone level" (config_isolate.py:1600, 1635): at every step of a run, an    *)
(* undo or a redo, with whichever failures, the issue has a level that the   *)
(* project's scheme has, of the name it had; only a level renamed between    *)
(* the two may cost it.                                                     *)
LevelsKept ==
  /\ issue # NoLevel => issue \in DOMAIN levels[scheme[SI_Target]]
  /\ "renamed" \notin si_mishaps =>
       (IF issue = NoLevel THEN had = "none" ELSE levels[issue.of][issue] = had)

(* "Do not leave an orphan clone" (config_isolate.py:1613), and "restores    *)
(* the exact prior association": a failed run and a finished undo leave the  *)
(* project on its scheme and no clone, except where the request to delete it *)
(* failed, or was not reached as another one raised.                         *)
NoOrphan ==
  (si_pc = "idle" /\ si_outcome \in {"failed", "undone"}) =>
    /\ "lost" \notin si_mishaps => scheme[SI_Target] = 0
    /\ si_mishaps \intersect {"lost", "cleanup"} = {} => made = Cardinality(gone)

(* The first half of it without the exception. Refuted: only a refusal of    *)
(* the PUT is followed by the deletion, a PUT that could not be sent is not. *)
NoOrphanEver ==
  (si_pc = "idle" /\ si_outcome = "failed" /\ "lost" \notin si_mishaps) =>
    made = Cardinality(gone)
=============================================================================
