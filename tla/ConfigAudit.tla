----------------------------- MODULE ConfigAudit -----------------------------
(***************************************************************************)
(* tasks/project_config_audit.py: is a scheme of a project shared with other *)
(* projects, and what does the page offer to isolate?                       *)
(*                                                                         *)
(* The audit lists all projects, asks in chunks which of them use which     *)
(* scheme of one type, and gives a verdict.  The list may be cut, a chunk   *)
(* may be cut or fail; the others are asked all the same.  For a workflow   *)
(* scheme it then looks which other schemes name the same workflows.  The   *)
(* buttons of the result carry what config_isolate is told: whether it may  *)
(* edit the scheme in place.                                                *)
(*                                                                         *)
(* Names begin with CA_ where ShareAnalysis has the same.                   *)
(***************************************************************************)
EXTENDS Naturals, FiniteSets

CONSTANTS
  CA_Target, CA_Others,
  CA_Schemes,    \* the schemes of the type there are
  Named,         \* workflows
  ChunkSize,     \* _ID_CHUNK
  CA_MaxGaps     \* bound: reads that are cut or fail

ASSUME ConfigAuditAssumption ==
  /\ CA_Target \notin CA_Others /\ IsFiniteSet(CA_Others)
  /\ ChunkSize \in Nat \ {0} /\ CA_MaxGaps \in Nat

VARIABLES
  uses,      \* Jira: the scheme of each project
  names,     \* Jira: the workflows each scheme names
  type,      \* SchemeType: "workflow", "issue_type" or "issuetypescreen"
  ca_phase,
  listed,    \* all_ids, as far as not yet asked about
  found,     \* scheme_projects
  whole,     \* scan_whole so far
  verdict, own,   \* SchemeRow: verdict, scheme_id
  offers,    \* the isolate and assign parameters of the page
  ca_gaps, ca_moved   \* history: as in ShareAnalysis
cv == <<uses, names, type, ca_phase, listed, found, whole, verdict, own, offers,
        ca_gaps, ca_moved>>

CA_Projects == CA_Others \union {CA_Target}
Users(s) == {p \in CA_Projects : uses[p] = s}
None == "none"

CA_Init ==
  /\ uses \in [CA_Projects -> CA_Schemes] /\ names \in [CA_Schemes -> (SUBSET Named) \ {{}}]
  /\ type \in {"workflow", "issue_type", "issuetypescreen"}
  /\ ca_phase = "projects" /\ listed = {} /\ found = [s \in CA_Schemes |-> {}] /\ whole = TRUE
  /\ verdict = None /\ own = None /\ offers = {}
  /\ ca_gaps = 0 /\ ca_moved = FALSE

Misread(happens, count) == ca_gaps' = ca_gaps + (IF happens THEN count ELSE 0) /\ ca_gaps' <= CA_MaxGaps

(* The list of projects; a scan that lost some says so (ScanStream).         *)
ListProjects(lost) ==
  /\ ca_phase = "projects" /\ ca_phase' = "associations"
  /\ Misread(lost # {}, Cardinality(lost))
  /\ listed' = CA_Projects \ lost /\ whole' = (lost = {})
  /\ UNCHANGED <<uses, names, type, found, verdict, own, offers, ca_moved>>

Chunks == {c \in SUBSET listed : \/ Cardinality(c) = ChunkSize
                                 \/ c = listed /\ c # {} /\ Cardinality(c) < ChunkSize}

(* A chunk that failed is forgotten. *)
StillWhole_FailedIsFine(answer) == whole /\ answer # "cut"
StillWhole(answer) == whole /\ answer = "whole"

(* _scheme_to_projects, for one chunk: read whole, cut (only where the read  *)
(* is paginated), or failed; the next one is asked in any case.              *)
Associate(chunk, answer) ==
  /\ ca_phase = "associations" /\ chunk \in Chunks
  /\ answer = "cut" => type # "workflow"
  /\ Misread(answer # "whole", 1)
  /\ \E missed \in SUBSET CA_Schemes :
       /\ answer = "whole" => missed = {}
       /\ answer = "failed" => missed = CA_Schemes
       /\ found' = [s \in CA_Schemes |->
            IF s \in missed THEN found[s] ELSE found[s] \union (chunk \intersect Users(s))]
  /\ listed' = listed \ chunk /\ whole' = StillWhole(answer)
  /\ UNCHANGED <<uses, names, type, ca_phase, verdict, own, offers, ca_moved>>

(* One other project proves a scheme shared; that there is none takes a      *)
(* whole scan; a scheme that no answer showed is "absent".                   *)
Judge ==
  /\ ca_phase = "associations" /\ listed = {}
  /\ \/ /\ \A s \in CA_Schemes : CA_Target \notin found[s]
        /\ verdict' = "absent" /\ own' = None /\ ca_phase' = "done"
     \/ \E s \in CA_Schemes :
          /\ CA_Target \in found[s] /\ own' = s
          /\ verdict' = IF found[s] # {CA_Target} THEN "shared"
                        ELSE IF whole THEN "dedicated" ELSE "unknown"
          /\ ca_phase' = "offer"
  /\ UNCHANGED <<uses, names, type, listed, found, whole, offers, ca_gaps, ca_moved>>

Offer(what, inPlace) == [what |-> what, inPlace |-> inPlace]

(* plan_stream: the scheme as a whole is offered when it is shared.          *)
SchemeOffer == IF verdict = "shared" THEN {Offer("scheme", FALSE)} ELSE {}

WorkflowOffers_OwnScheme(references) ==
  {Offer(w, verdict # "shared") : w \in {n \in names[own] : verdict = "shared"}}
    \union {Offer("issue type", verdict # "shared")}
(* _workflow_children: a workflow is offered if its scheme is shared, or if  *)
(* another scheme names it too; an issue type always is.  What is not called *)
(* shared goes out as ws_shared = False, which means: edit in place.         *)
WorkflowOffers(references) ==
  {Offer(w, verdict # "shared") : w \in {n \in names[own] : verdict = "shared" \/ n \in references}}
    \union {Offer("issue type", verdict # "shared")}

(* _screen_tree_children: itss_shared is FALSE only of a dedicated one.      *)
ScreenOffers == {Offer("screens", verdict = "dedicated")}

(* _workflow_refs, if it is needed: the workflows that other schemes name,   *)
(* or nothing if the reading failed.  The scheme itself may not be readable. *)
MakeOffers(read, children) ==
  /\ ca_phase = "offer" /\ ca_phase' = "done"
  /\ Misread(~(read /\ children), 1)
  /\ (read /\ children) \/ type = "workflow"
  /\ LET references == IF read THEN UNION {names[s] : s \in CA_Schemes \ {own}} ELSE {}
     IN offers' = SchemeOffer \union
          CASE type = "workflow" -> IF children THEN WorkflowOffers(references) ELSE {}
            [] type = "issuetypescreen" -> ScreenOffers
            [] OTHER -> {}
  /\ UNCHANGED <<uses, names, type, listed, found, whole, verdict, own, ca_moved>>

(* An administrator gives a project another scheme while the audit reads.    *)
Moves(p, s) ==
  /\ ca_phase # "done" /\ uses[p] # s
  /\ uses' = [uses EXCEPT ![p] = s] /\ ca_moved' = TRUE
  /\ UNCHANGED <<names, type, ca_phase, listed, found, whole, verdict, own, offers, ca_gaps>>

CA_Next ==
  \/ \E lost \in SUBSET CA_Projects : ListProjects(lost)
  \/ \E chunk \in SUBSET listed, answer \in {"whole", "cut", "failed"} : Associate(chunk, answer)
  \/ Judge
  \/ \E read, children \in BOOLEAN : MakeOffers(read, children)
  \/ \E p \in CA_Projects, s \in CA_Schemes : Moves(p, s)

CA_Spec == CA_Init /\ [][CA_Next]_cv

(***************************************************************************)
(* Properties                                                              *)
(***************************************************************************)

Audited == ca_phase = "done" /\ ~ca_moved
UsedElsewhere(s) == Users(s) \ {CA_Target} # {}
InPlace == {offer \in offers : offer.inPlace}

(* "The caller must NOT conclude private from an incomplete scan, only       *)
(* shared" (project_config_audit.py:153): whichever lists were cut and       *)
(* whichever chunks failed, in whatever order they were asked, a scheme is   *)
(* called dedicated only if nobody else uses it and shared only if somebody  *)
(* does, and screens are edited in place only in one that is dedicated.      *)
VerdictsProved ==
  Audited =>
    /\ verdict = "dedicated" => ~UsedElsewhere(own)
    /\ verdict = "shared" => UsedElsewhere(own)
    /\ verdict # "absent" => uses[CA_Target] = own
    /\ (type = "issuetypescreen" /\ InPlace # {}) => ~UsedElsewhere(own)

(* "A workflow living in a dedicated scheme can still be shared with other   *)
(* projects through their schemes" (project_config_audit.py:272): whatever   *)
(* workflow of the project another one uses, by the same scheme or another,  *)
(* has its button, if every list was read.                                   *)
SharedIsOffered ==
  (Audited /\ ca_gaps = 0 /\ type = "workflow") =>
    \A w \in names[own] :
      (\E p \in CA_Others : w \in names[uses[p]]) => \E offer \in offers : offer.what = w

(* "Everything degrades toward shared" (project_config_audit.py:22), "clone   *)
(* unless proven private ... never edit a shared/unknown ancestor in place"  *)
(* (project_config_audit.py:444).  Refuted of workflows: a scheme of which   *)
(* it is not known is edited in place like a private one.                    *)
UnknownIsCloned == Audited => (InPlace # {} => ~UsedElsewhere(own))

(* "none: project has no scheme of this type" (project_config_audit.py:21).  *)
(* Refuted: so is one whose chunk failed, or that the list of projects lost. *)
AbsentIsTrue == Audited => verdict # "absent"
=============================================================================
