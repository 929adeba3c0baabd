---------------------------- MODULE ShareAnalysis ----------------------------
(***************************************************************************)
(* tasks/screen_share_analysis.py: which parts of the screen configuration  *)
(* of a project are shared with others?                                     *)
(*                                                                         *)
(*   project <- issue type screen scheme (ITSS) <- screen scheme <- screen  *)
(*                                                     <- workflow         *)
(*                                                                         *)
(* An audit collects an index of these references in phases, each of which  *)
(* may miss something, and then walks them backwards.  The verdict          *)
(* "target_only" lets an object be edited in place.  The scan of all        *)
(* workflows is kept for later audits and reused while the number of        *)
(* workflows is still the same.                                            *)
(*                                                                         *)
(* A screen scheme shows one screen here, and one screen (Watched) is the   *)
(* one workflows refer to.                                                  *)
(***************************************************************************)
EXTENDS Naturals, FiniteSets, Functions

CONSTANTS
  Target, Others,
  Itsses, Schemes, Screens, Workflows,
  Watched,
  Caps, Modes, \* max_workflows and workflow_verdict_mode an audit may have
  MaxAudits, MaxGaps, MaxChanges   \* bounds

ASSUME ShareAnalysisAssumption ==
  /\ Target \notin Others /\ Watched \in Screens /\ Caps \subseteq Nat /\ MaxGaps \in Nat
  /\ Modes \subseteq {"conservative", "attributed", "no workflows"}
  /\ IsFiniteSet(Itsses) /\ IsFiniteSet(Schemes)
  /\ IsFiniteSet(Screens) /\ IsFiniteSet(Workflows)
  /\ Itsses \intersect Schemes = {} /\ (Itsses \union Schemes) \intersect Screens = {}
  /\ "GLOBAL" \notin Others \union {Target}

VARIABLES
  assigned,  \* Jira: the ITSS of each project
  mapped,    \* Jira: the screen schemes each ITSS maps
  shows,     \* Jira: the screen of each screen scheme
  flows,     \* Jira: the workflows there are
  phase,     \* of the audit, or "idle"
  index,     \* ChainIndex
  cap, mode, \* Params
  cache,     \* _wf_scan_cache: at most one _WorkflowScan
  verdicts,  \* of the audit, once it came to its end
  audits, gaps, changes,  \* how many there were
  moved      \* history: something changed since the audit began

jira == <<assigned, mapped, shows, flows>>
params == <<cap, mode>>
audit == <<phase, index, params, verdicts>>
SA_vars == <<jira, audit, cache, audits, gaps, changes, moved>>

Projects == Others \union {Target}

(* A workflow: "GLOBAL" or the project it is limited to, whether one of its  *)
(* transitions shows the watched screen, and the projects that use it.       *)
Workflow ==
  {w \in [scope : Projects \union {"GLOBAL"}, shows : BOOLEAN, users : SUBSET Projects] :
     w.scope # "GLOBAL" => w.users = {w.scope}}

Unknown == {"unknown"}
Empty == [id \in {} |-> id]

(* A _WorkflowScan; "of" is history: the workflows there were.               *)
NoScan == [rows |-> Empty, active |-> Unknown, cap |-> 0, total |-> {},
           complete |-> FALSE, of |-> Empty]

EmptyIndex ==
  [itss |-> Empty,            \* listed ITSS -> project ids
   cut |-> {},                \* ITSS with projects_truncated
   maps |-> {},               \* <<ITSS, screen scheme>>
   schemes |-> Empty,         \* listed screen scheme -> screen
   screens |-> {},
   mine |-> {},               \* target_workflow_ids
   scan |-> NoScan,           \* cached
   minesComplete |-> TRUE,    \* history: the integrity of target_workflow_ids
   complete |-> TRUE,         \* every scan so far is, and nothing degrades
   mappingsComplete |-> TRUE]

SA_Init ==
  /\ assigned \in [Projects -> Itsses]
  /\ mapped \in [Itsses -> (SUBSET Schemes) \ {{}}]
  /\ shows \in [Schemes -> Screens]
  /\ \E ws \in SUBSET Workflows : flows \in [ws -> Workflow]
  /\ phase = "idle" /\ index = EmptyIndex /\ cap \in Caps /\ mode \in Modes
  /\ cache = {} /\ verdicts = Empty
  /\ audits = 0 /\ gaps = 0 /\ changes = 0 /\ moved = FALSE

(***************************************************************************)
(* Phases                                                                  *)
(***************************************************************************)

Begin ==
  /\ phase = "idle" /\ audits < MaxAudits
  /\ audits' = audits + 1 /\ phase' = "itss" /\ index' = EmptyIndex /\ moved' = FALSE
  /\ cap' \in Caps /\ mode' \in Modes /\ verdicts' = Empty
  /\ UNCHANGED <<jira, cache, gaps, changes>>

(* A phase misses the things in lost, and says so or does not.               *)
Misses(lost) == gaps + Cardinality(lost) <= MaxGaps /\ gaps' = gaps + Cardinality(lost)
Says(lost, noticed) == index.complete /\ (lost = {} \/ ~noticed)
Still == UNCHANGED <<jira, params, verdicts, cache, audits, changes, moved>>

UsersOf(i) == {p \in Projects : assigned[p] = i}

(* list_itss with the nested page of projects, which may be cut short.       *)
ListItss(lost, cut) ==
  /\ phase = "itss" /\ phase' = "mappings"
  /\ Misses(lost \union cut)
  /\ cut \intersect lost = {} /\ \A i \in cut : UsersOf(i) # {}
  /\ \E hidden \in Projects :
       index' = [index EXCEPT
         !.itss = [i \in Itsses \ lost |-> IF i \in cut THEN UsersOf(i) \ {hidden} ELSE UsersOf(i)],
         !.cut = {i \in cut : hidden \in UsersOf(i)}, !.complete = Says(lost, TRUE)]
  /\ Still

(* _ingest_mappings, asked for the ITSSs that were listed.                   *)
Mappings(lost) ==
  /\ phase = "mappings" /\ phase' = "schemes"
  /\ LET rows == {row \in (DOMAIN index.itss) \X Schemes : row[2] \in mapped[row[1]]} IN
     /\ lost \subseteq rows
     /\ index' = [index EXCEPT !.maps = rows \ lost, !.complete = Says(lost, TRUE),
                               !.mappingsComplete = (lost = {})]
  /\ Misses(lost)
  /\ Still

(* Rows that appear while a scan pages can be missed without notice.         *)
ListSchemes(lost, noticed) ==
  /\ phase = "schemes" /\ phase' = "screens" /\ Misses(lost)
  /\ index' = [index EXCEPT !.schemes = Restrict(shows, Schemes \ lost),
                            !.complete = Says(lost, noticed)]
  /\ Still
ListScreens(lost, noticed) ==
  /\ phase = "screens" /\ phase' = "verify" /\ Misses(lost)
  /\ index' = [index EXCEPT !.screens = Screens \ lost, !.complete = Says(lost, noticed)]
  /\ Still

MyItsses == {i \in DOMAIN index.itss : Target \in index.itss[i]}
MySchemes == {s \in DOMAIN index.schemes : \E i \in MyItsses : <<i, s>> \in index.maps}
MyScreens == {index.schemes[s] : s \in MySchemes}
Referring(s) == {i \in DOMAIN index.itss : <<i, s>> \in index.maps}
SchemesOf(screen) == {s \in DOMAIN index.schemes : index.schemes[s] = screen}

(* _itss_needing_verification, mode "reachable" *)
NeedingVerification ==
  MyItsses \union index.cut
    \union UNION {Referring(s) : s \in UNION {SchemesOf(screen) : screen \in MyScreens}}

(* Without an ITSS of the target the audit ends in an error.                 *)
Verify(failed) ==
  /\ phase = "verify"
  /\ LET asked == NeedingVerification IN
     /\ failed \subseteq asked /\ Misses(failed)
     /\ IF MyItsses = {} THEN phase' = "idle" /\ UNCHANGED index
        ELSE /\ phase' = IF mode = "no workflows" THEN "probe" ELSE "mine"
             /\ index' = [index EXCEPT
                  !.itss = [i \in DOMAIN @ |-> IF i \in asked \ failed THEN UsersOf(i) ELSE @[i]],
                  !.cut = @ \ (asked \ failed), !.complete = Says(failed, TRUE)]
  /\ Still

(* The workflows of the target. *)
MyWorkflows(lost) ==
  /\ phase = "mine" /\ phase' = "cache"
  /\ lost \subseteq DOMAIN flows /\ Misses(lost)
  /\ index' = [index EXCEPT !.mine = {w \in DOMAIN flows \ lost : Target \in flows[w].users},
                            !.minesComplete = (lost = {}), !.complete = Says(lost, TRUE)]
  /\ Still

(* _wf_cache_get and _wf_cache_is_fresh: the probe asks for the count.       *)
Reusable(scan) == scan.cap >= cap /\ scan.total = {Cardinality(DOMAIN flows)}

WithScan(scan) == [index EXCEPT !.scan = scan, !.complete = @ /\ scan.complete]

(* When the probe fails the scan is made again.                              *)
Take ==
  /\ phase = "cache"
  /\ \/ \E scan \in cache :
          Reusable(scan) /\ phase' = "probe" /\ index' = WithScan(scan)
     \/ phase' = "scan" /\ UNCHANGED index
  /\ UNCHANGED gaps /\ Still

(* The active ones, then all with their transitions, up to the cap; either   *)
(* answer may lack its total.                                                *)
Scan(lost, activeKnown, told) ==
  /\ phase = "scan" /\ phase' = "cache_put"
  /\ lost \subseteq DOMAIN flows
  /\ Misses(lost \union (IF activeKnown THEN {} ELSE {"active"})
                  \union (IF told THEN {} ELSE {"total"}))
  /\ \E rows \in SUBSET (DOMAIN flows \ lost) :
       /\ IF Cardinality(DOMAIN flows \ lost) > cap THEN Cardinality(rows) = cap
          ELSE rows = DOMAIN flows \ lost
       /\ index' = WithScan(
            [rows |-> Restrict(flows, rows), cap |-> cap,
             active |-> IF activeKnown THEN {w \in DOMAIN flows : flows[w].users # {}} ELSE Unknown,
             total |-> IF told THEN {Cardinality(DOMAIN flows)} ELSE {},
             complete |-> told /\ rows = DOMAIN flows, of |-> flows])
  /\ Still

(* _wf_cache_put, when the scan has come to its end.                         *)
Put ==
  /\ phase = "cache_put" /\ phase' = "probe"
  /\ cache' = {index.scan}
  /\ UNCHANGED <<jira, index, params, verdicts, audits, gaps, changes, moved>>

(* workflow_scan_complete: a scan that stopped at its cap is not.            *)
FlowsComplete ==
  index.scan.complete /\ Cardinality(DOMAIN index.scan.rows) < index.scan.cap

Referred == {row[2] : row \in index.maps}
ShownByFlow == IF \E w \in DOMAIN index.scan.rows : index.scan.rows[w].shows THEN {Watched} ELSE {}
Dangling ==
  (Referred \ DOMAIN index.schemes)
    \union ((Range(index.schemes) \union ShownByFlow) \ index.screens)

(* What is referred to and was not listed is left at that. *)
Probe_Ignored ==
  /\ phase = "probe" /\ phase' = "verdicts"
  /\ UNCHANGED <<index, gaps>> /\ Still
(* probe_dangling: whatever is referred to and was not listed exists, or     *)
(* that could not be found out; either lowers all verdicts.                  *)
Probe ==
  /\ phase = "probe" /\ phase' = "verdicts"
  /\ index' = [index EXCEPT !.complete = @ /\ Dangling = {}]
  /\ UNCHANGED gaps /\ Still

(***************************************************************************)
(* Verdicts                                                                *)
(***************************************************************************)

Trustworthy(i) == i \notin index.cut
ReachOf(s) == UNION {index.itss[i] : i \in Referring(s)}
ReachComplete(s) ==
  /\ Referring(s) = {} => index.mappingsComplete
  /\ \A i \in Referring(s) : Trustworthy(i)

(* _classify_workflow_refs, of one workflow that shows the screen.           *)
InUseElsewhere(w) == index.scan.active # Unknown /\ w \in index.scan.active \ index.mine

FloorOf(w) ==
  LET scope == index.scan.rows[w].scope IN
  CASE scope = Target -> "none"
    [] scope \in Others \/ InUseElsewhere(w) -> "shared"
    [] mode = "attributed" /\ w \in index.mine /\ scope = "GLOBAL" /\ ~InUseElsewhere(w) -> "none"
    [] OTHER -> "unproven"
FloorsOf(screen) ==
  {FloorOf(w) : w \in {v \in DOMAIN index.scan.rows : screen = Watched /\ index.scan.rows[v].shows}}
    \union (IF FlowsComplete THEN {} ELSE {"unknown"})

(* _resolve, for something that is referred to.                              *)
Resolve(projects, floors, complete) ==
  CASE projects \ {Target} # {} \/ "shared" \in floors -> "shared"
    [] "unproven" \in floors -> "shared_workflow_unproven"
    [] "unknown" \in floors \/ ~complete \/ ~index.complete -> "unknown"
    [] OTHER -> "target_only"

ScreenVerdict(screen) ==
  Resolve(UNION {ReachOf(s) : s \in SchemesOf(screen)}, FloorsOf(screen),
          \A s \in SchemesOf(screen) : ReachComplete(s))
SchemeVerdict(s) == Resolve(ReachOf(s), {}, ReachComplete(s))
ItssVerdict(i) ==
  IF index.itss[i] = {} THEN "orphan" ELSE Resolve(index.itss[i], {}, Trustworthy(i))

(* _compute_all *)
Verdicts ==
  [x \in MyScreens \union MySchemes
           \union MyItsses \union UNION {Referring(s) : s \in MySchemes} |->
     IF x \in Screens THEN ScreenVerdict(x)
     ELSE IF x \in Schemes THEN SchemeVerdict(x) ELSE ItssVerdict(x)]
Compute ==
  /\ phase = "verdicts" /\ phase' = "idle"
  /\ verdicts' = Verdicts
  /\ UNCHANGED <<jira, index, params, cache, audits, gaps, changes, moved>>

(***************************************************************************)
(* The rest of the world                                                   *)
(***************************************************************************)

(* A workflow is made, edited, given to other projects, or deleted, by the   *)
(* program (which then drops the cache) or elsewhere.                        *)
Change(w, flow, own) ==
  /\ changes < MaxChanges /\ changes' = changes + 1 /\ moved' = TRUE
  /\ \/ flows' = [v \in DOMAIN flows \union {w} |-> IF v = w THEN flow ELSE flows[v]]
     \/ w \in DOMAIN flows /\ flows' = Restrict(flows, DOMAIN flows \ {w})
  /\ cache' = IF own THEN {} ELSE cache
  /\ UNCHANGED <<assigned, mapped, shows, audit, audits, gaps>>

(* wf_scan_ttl_seconds are over, or the process starts again.                *)
Expire ==
  /\ cache # {} /\ cache' = {}
  /\ UNCHANGED <<jira, audit, audits, gaps, changes, moved>>

SA_Next ==
  \/ Begin \/ Take \/ Put \/ Probe \/ Compute \/ Expire
  \/ \E lost, cut \in SUBSET Itsses : ListItss(lost, cut)
  \/ \E lost \in SUBSET (Itsses \X Schemes) : Mappings(lost)
  \/ \E noticed \in BOOLEAN : \/ \E lost \in SUBSET Schemes : ListSchemes(lost, noticed)
                              \/ \E lost \in SUBSET Screens : ListScreens(lost, noticed)
  \/ \E failed \in SUBSET Itsses : Verify(failed)
  \/ \E lost \in SUBSET Workflows : \/ MyWorkflows(lost)
                                    \/ \E known, told \in BOOLEAN : Scan(lost, known, told)
  \/ \E w \in Workflows, flow \in Workflow, own \in BOOLEAN : Change(w, flow, own)

SA_Spec == SA_Init /\ [][SA_Next]_SA_vars

(***************************************************************************)
(* Properties                                                              *)
(***************************************************************************)

SA_TypeOK ==
  /\ DOMAIN index.itss \subseteq Itsses /\ index.cut \subseteq DOMAIN index.itss
  /\ index.maps \subseteq (DOMAIN index.itss) \X Schemes
  /\ Cardinality(cache) <= 1 /\ gaps \in 0..MaxGaps

(* Who uses a thing, in Jira. *)
UsersOfScheme(s) == UNION {UsersOf(i) : i \in {j \in Itsses : s \in mapped[j]}}
FlowUsers ==
  UNION {flows[w].users : w \in {v \in DOMAIN flows : flows[v].shows}}
UsersInJira(x) ==
  IF x \in Itsses THEN UsersOf(x)
  ELSE IF x \in Schemes THEN UsersOfScheme(x)
  ELSE (UNION {UsersOfScheme(s) : s \in {r \in Schemes : shows[r] = x}})
         \union (IF x = Watched THEN FlowUsers ELSE {})

(* The kept scan is of other workflows, as many as there are now.            *)
Overlooked ==
  /\ index.scan.total = {Cardinality(DOMAIN flows)} /\ index.scan.of # flows
  /\ index.scan # NoScan
Done == phase = "idle" /\ audits > 0 /\ ~moved

OnlySafeIfUnshared ==
  \A x \in DOMAIN verdicts : verdicts[x] = "target_only" => UsersInJira(x) \subseteq {Target}
SharedHasOthers ==
  \A x \in DOMAIN verdicts : verdicts[x] = "shared" => UsersInJira(x) \ {Target} # {}

(* "TARGET_ONLY (the only verdict that says 'safe to edit in place')         *)
(* requires a traversal with no gaps anywhere" (screen_share_analysis.py:19):*)
(* whatever one of the phases missed, be it cut, refused or, for the lists   *)
(* of screens and screen schemes, unnoticed, and however stale the kept scan *)
(* is, if only their number changed, no object that another project uses has *)
(* that verdict in an audit that takes nothing on trust.                     *)
SafeIsUnshared == (Done /\ mode # "attributed" /\ ~Overlooked) => OnlySafeIfUnshared

(* An audit that missed nothing is exact, except for a screen that one of    *)
(* the workflows shows: it says "shared" and "orphan" where they are true,   *)
(* and of the project's own that they are.                                   *)
ExactWhenWhole ==
  (Done /\ gaps = 0 /\ ~Overlooked /\ FlowsComplete) =>
    \A x \in DOMAIN verdicts :
      (x # Watched \/ \A w \in DOMAIN flows : ~flows[w].shows) =>
        verdicts[x] = CASE UsersInJira(x) = {} -> "orphan"
                        [] UsersInJira(x) = {Target} -> "target_only"
                        [] OTHER -> "shared"

(* "So SHARED survives incompleteness" (screen_share_analysis.py:18), of an  *)
(* audit that read the workflows of the target to their end.                 *)
SharedIsProved == (Done /\ ~Overlooked /\ index.minesComplete) => SharedHasOthers

(* All the page may rely on, before something is edited in place.            *)
VerdictsExact == SafeIsUnshared /\ ExactWhenWhole /\ SharedIsProved

(* The same of every audit.  Refuted: a workflow of the target that was      *)
(* missed in its own list counts as another project's.                       *)
SharedSurvives == (Done /\ ~Overlooked) => SharedHasOthers

(* The same from a kept scan as from a fresh one.  Refuted: only the number  *)
(* of workflows is compared, and an edit elsewhere leaves it the same; so    *)
(* does one by this program, when it drops the cache before the scan that    *)
(* ran meanwhile is put there.                                               *)
KeptIsAsFresh == (Done /\ mode = "conservative") => OnlySafeIfUnshared
=============================================================================
