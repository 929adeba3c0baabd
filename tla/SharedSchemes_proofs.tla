------------------------- MODULE SharedSchemes_proofs -------------------------
(***************************************************************************)
(* Proofs about schemes that projects share: the audit that finds them, and  *)
(* what its buttons start.                                                  *)
(*                                                                         *)
(* The audit (ConfigAudit), for any projects, schemes and workflows, any     *)
(* size of the chunks and any number of reads that are cut or fail: a        *)
(* verdict is proved by what was read, and whatever is shared is offered.    *)
(*                                                                         *)
(* A whole scheme isolated (SchemeIsolate), for any projects and names of    *)
(* levels, any number of runs, undos and redos, and a renamed level: the     *)
(* issue keeps its level, and no clone is left.                             *)
(*                                                                         *)
(* A workflow isolated (WorkflowIsolate), for any projects and issue types,  *)
(* any mapping of them and any number of runs, undos and redos: the other    *)
(* projects keep what they use, and what is reported is so.                  *)
(***************************************************************************)
EXTENDS ConfigAudit, SchemeIsolate, WorkflowIsolate, TLAPS, FiniteSetTheorems

(***************************************************************************)
(* The audit                                                               *)
(***************************************************************************)

(* The state has the types it has in the source.                             *)
CA_TypeOK ==
  /\ uses \in [CA_Projects -> CA_Schemes] /\ names \in [CA_Schemes -> SUBSET Named]
  /\ type \in {"workflow", "issue_type", "issuetypescreen"}
  /\ ca_phase \in {"projects", "associations", "offer", "done"}
  /\ listed \subseteq CA_Projects /\ found \in [CA_Schemes -> SUBSET CA_Projects]
  /\ whole \in BOOLEAN /\ ca_moved \in BOOLEAN
  /\ verdict \in {None, "absent", "shared", "dedicated", "unknown"}
  /\ own \in CA_Schemes \union {None}
  /\ ca_gaps \in 0..CA_MaxGaps

(* What was found is so, and in a whole scan whoever was not found has not   *)
(* been asked about yet: unless Jira changes meanwhile.                      *)
FoundIsTrue ==
  ~ca_moved => \A s \in CA_Schemes : found[s] \subseteq Users(s)
NoneIsMissed ==
  (whole /\ ~ca_moved /\ ca_phase # "projects") =>
    \A s \in CA_Schemes : Users(s) \subseteq found[s] \union listed

(* A scan that is not whole read something badly.                            *)
GapsAreTold == ca_gaps = 0 => whole

(* The verdict is the one that the complete list of what was found gives.    *)
VerdictIsOfFound ==
  /\ ca_phase # "done" => offers = {}
  /\ ca_phase \in {"offer", "done"} =>
       /\ listed = {}
       /\ \/ /\ ca_phase = "done" /\ verdict = "absent" /\ offers = {}
             /\ \A s \in CA_Schemes : CA_Target \notin found[s]
          \/ /\ own \in CA_Schemes /\ CA_Target \in found[own]
             /\ verdict = IF found[own] # {CA_Target} THEN "shared"
                          ELSE IF whole THEN "dedicated" ELSE "unknown"

(* The page offers what the verdict calls for, and of workflows that depends *)
(* on two more reads.                                                        *)
OffersAreOfVerdict ==
  (ca_phase = "done" /\ verdict # "absent") =>
    /\ type = "issuetypescreen" => offers = SchemeOffer \union ScreenOffers
    /\ (type = "workflow" /\ ca_gaps = 0) =>
         offers = SchemeOffer \union WorkflowOffers(UNION {names[s] : s \in CA_Schemes \ {own}})

(* The inductive invariant.                                                  *)
IInv ==
  /\ CA_TypeOK
  /\ FoundIsTrue
  /\ NoneIsMissed
  /\ GapsAreTold
  /\ VerdictIsOfFound
  /\ OffersAreOfVerdict

(***************************************************************************)
(* Lemmas                                                                  *)
(***************************************************************************)

(* Whoever uses a scheme is a project, and Jira has finitely many.           *)
LEMMA ProjectsAreFinite ==
  /\ IsFiniteSet(CA_Projects)
  /\ \A lost \in SUBSET CA_Projects :
       Cardinality(lost) \in Nat /\ (Cardinality(lost) = 0 <=> lost = {})
<1>1. IsFiniteSet(CA_Projects)
  BY ConfigAuditAssumption, FS_AddElement DEF ConfigAuditAssumption, CA_Projects
<1> QED
  BY <1>1, FS_Subset, FS_CardinalityType, FS_EmptySet

(* At first nothing was asked.                                               *)
LEMMA InitIInv ==
  CA_Init => IInv
<1> SUFFICES ASSUME CA_Init PROVE IInv
  OBVIOUS
<1>1. CA_TypeOK
  <2>1. /\ uses \in [CA_Projects -> CA_Schemes] /\ names \in [CA_Schemes -> SUBSET Named]
        /\ found \in [CA_Schemes -> SUBSET CA_Projects] /\ listed \subseteq CA_Projects
    BY DEF CA_Init
  <2>2. ca_gaps \in 0..CA_MaxGaps
    BY ConfigAuditAssumption DEF CA_Init, ConfigAuditAssumption
  <2> QED
    BY <2>1, <2>2 DEF CA_Init, CA_TypeOK
<1> QED
  BY <1>1 DEF CA_Init, IInv, FoundIsTrue, NoneIsMissed, GapsAreTold, VerdictIsOfFound,
              OffersAreOfVerdict

(* The list of projects: a complete one has everybody still to be asked.     *)
LEMMA ListProjectsKeepsIInv ==
  ASSUME IInv, NEW lost \in SUBSET CA_Projects, ListProjects(lost)
  PROVE  IInv'
<1>1. /\ ca_phase = "projects" /\ ca_phase' = "associations"
      /\ listed' = CA_Projects \ lost /\ (whole' <=> lost = {}) /\ whole' \in BOOLEAN
      /\ UNCHANGED <<uses, names, type, found, verdict, own, offers, ca_moved>>
  BY DEF ListProjects
<1>2. ca_gaps' \in 0..CA_MaxGaps /\ (ca_gaps' = 0 => lost = {})
  <2>1. Cardinality(lost) \in Nat /\ (Cardinality(lost) = 0 <=> lost = {})
    BY ProjectsAreFinite
  <2>2. /\ ca_gaps' = ca_gaps + (IF lost # {} THEN Cardinality(lost) ELSE 0)
        /\ ca_gaps' <= CA_MaxGaps
    BY DEF ListProjects, Misread
  <2> QED
    BY <2>1, <2>2, ConfigAuditAssumption DEF IInv, CA_TypeOK, ConfigAuditAssumption
<1>3. CA_TypeOK' /\ GapsAreTold'
  BY <1>1, <1>2 DEF IInv, CA_TypeOK, GapsAreTold
<1>4. FoundIsTrue' /\ NoneIsMissed'
  BY <1>1 DEF IInv, FoundIsTrue, NoneIsMissed, Users
<1>5. VerdictIsOfFound' /\ OffersAreOfVerdict'
  BY <1>1 DEF IInv, VerdictIsOfFound, OffersAreOfVerdict
<1> QED
  BY <1>3, <1>4, <1>5 DEF IInv

(* A chunk: what is asked of it is found, unless the answer says otherwise.  *)
LEMMA AssociateKeepsIInv ==
  ASSUME IInv, NEW chunk \in SUBSET listed, NEW answer \in {"whole", "cut", "failed"},
         Associate(chunk, answer)
  PROVE  IInv'
<1>1. /\ ca_phase = "associations"
      /\ listed' = listed \ chunk /\ whole' = (whole /\ answer = "whole")
      /\ UNCHANGED <<uses, names, type, ca_phase, verdict, own, offers, ca_moved>>
  BY DEF Associate, StillWhole
<1>2. PICK missed \in SUBSET CA_Schemes :
        /\ answer = "whole" => missed = {}
        /\ found' = [s \in CA_Schemes |->
             IF s \in missed THEN found[s] ELSE found[s] \union (chunk \intersect Users(s))]
  BY DEF Associate
<1>3. ca_gaps' \in 0..CA_MaxGaps /\ (ca_gaps' = 0 => ca_gaps = 0 /\ answer = "whole")
  <2>1. ca_gaps' = ca_gaps + (IF answer # "whole" THEN 1 ELSE 0) /\ ca_gaps' <= CA_MaxGaps
    BY DEF Associate, Misread
  <2> QED
    BY <2>1, ConfigAuditAssumption DEF IInv, CA_TypeOK, ConfigAuditAssumption
<1>4. CA_TypeOK'
  <2>1. found' \in [CA_Schemes -> SUBSET CA_Projects]
    BY <1>2 DEF IInv, CA_TypeOK
  <2> QED
    BY <1>1, <1>3, <2>1 DEF IInv, CA_TypeOK
<1>5. GapsAreTold'
  BY <1>1, <1>3 DEF IInv, GapsAreTold
<1>6. FoundIsTrue' /\ NoneIsMissed'
  BY <1>1, <1>2 DEF IInv, CA_TypeOK, FoundIsTrue, NoneIsMissed, Users
<1>7. VerdictIsOfFound' /\ OffersAreOfVerdict'
  BY <1>1 DEF IInv, VerdictIsOfFound, OffersAreOfVerdict
<1> QED
  BY <1>4, <1>5, <1>6, <1>7 DEF IInv

LEMMA JudgeKeepsIInv ==
  ASSUME IInv, Judge
  PROVE  IInv'
<1>1. /\ ca_phase = "associations" /\ listed = {}
      /\ UNCHANGED <<uses, names, type, listed, found, whole, offers, ca_gaps, ca_moved>>
  BY DEF Judge
<1>2. CA_TypeOK'
  BY <1>1 DEF IInv, CA_TypeOK, Judge
<1>3. FoundIsTrue' /\ NoneIsMissed' /\ GapsAreTold'
  BY <1>1 DEF IInv, FoundIsTrue, NoneIsMissed, GapsAreTold, Users
<1>4. VerdictIsOfFound' /\ OffersAreOfVerdict'
  BY <1>1 DEF Judge, IInv, VerdictIsOfFound, OffersAreOfVerdict
<1> QED
  BY <1>2, <1>3, <1>4 DEF IInv

LEMMA MakeOffersKeepsIInv ==
  ASSUME IInv, NEW read \in BOOLEAN, NEW children \in BOOLEAN, MakeOffers(read, children)
  PROVE  IInv'
<1> DEFINE references == IF read THEN UNION {names[s] : s \in CA_Schemes \ {own}} ELSE {}
<1>1. /\ ca_phase = "offer" /\ ca_phase' = "done"
      /\ type \in {"workflow", "issue_type", "issuetypescreen"}
      /\ UNCHANGED <<uses, names, type, listed, found, whole, verdict, own, ca_moved>>
  BY DEF MakeOffers, IInv, CA_TypeOK
<1>2. /\ type = "workflow" /\ children => offers' = SchemeOffer \union WorkflowOffers(references)
      /\ type = "issuetypescreen" => offers' = SchemeOffer \union ScreenOffers
  BY DEF MakeOffers
<1>3. ca_gaps' \in 0..CA_MaxGaps /\ (ca_gaps' = 0 => ca_gaps = 0 /\ read /\ children)
  <2>1. ca_gaps' = ca_gaps + (IF read /\ children THEN 0 ELSE 1) /\ ca_gaps' <= CA_MaxGaps
    BY DEF MakeOffers, Misread
  <2> QED
    BY <2>1, ConfigAuditAssumption DEF IInv, CA_TypeOK, ConfigAuditAssumption
<1>4. CA_TypeOK' /\ FoundIsTrue' /\ NoneIsMissed' /\ GapsAreTold'
  BY <1>1, <1>3 DEF IInv, CA_TypeOK, FoundIsTrue, NoneIsMissed, GapsAreTold, Users
<1>5. VerdictIsOfFound'
  BY <1>1 DEF IInv, VerdictIsOfFound
<1>6. OffersAreOfVerdict'
  <2>1. /\ SchemeOffer' = SchemeOffer /\ ScreenOffers' = ScreenOffers
        /\ \A refs : WorkflowOffers(refs)' = WorkflowOffers(refs)
    BY <1>1 DEF SchemeOffer, ScreenOffers, WorkflowOffers
  <2>2. ca_gaps' = 0 => references = UNION {names[s] : s \in CA_Schemes \ {own}}
    BY <1>3
  <2> HIDE DEF references
  <2> QED
    BY <1>1, <1>2, <1>3, <2>1, <2>2 DEF OffersAreOfVerdict
<1> QED
  BY <1>4, <1>5, <1>6 DEF IInv

(* A change in Jira leaves the verdict where it was, and says so.            *)
LEMMA MovesKeepsIInv ==
  ASSUME IInv, NEW p \in CA_Projects, NEW s \in CA_Schemes, Moves(p, s)
  PROVE  IInv'
<1>1. /\ ca_phase # "done" /\ uses' = [uses EXCEPT ![p] = s] /\ ca_moved' = TRUE
      /\ UNCHANGED <<names, type, ca_phase, listed, found, whole, verdict, own, offers, ca_gaps>>
  BY DEF Moves
<1> QED
  BY <1>1 DEF IInv, CA_TypeOK, FoundIsTrue, NoneIsMissed, GapsAreTold, VerdictIsOfFound,
              OffersAreOfVerdict

LEMMA NextIInv ==
  IInv /\ [CA_Next]_cv => IInv'
<1> SUFFICES ASSUME IInv, [CA_Next]_cv PROVE IInv'
  OBVIOUS
<1>1. CASE UNCHANGED cv
  <2>1. /\ UNCHANGED <<uses, names, type, ca_phase, listed, found, whole, verdict, own, offers>>
        /\ UNCHANGED <<ca_gaps, ca_moved>>
    BY <1>1 DEF cv
  <2>2. /\ SchemeOffer' = SchemeOffer /\ ScreenOffers' = ScreenOffers
        /\ \A refs : WorkflowOffers(refs)' = WorkflowOffers(refs)
    BY <2>1 DEF SchemeOffer, ScreenOffers, WorkflowOffers
  <2>3. CA_TypeOK' /\ GapsAreTold'
    BY <2>1 DEF IInv, CA_TypeOK, GapsAreTold
  <2>4. FoundIsTrue' /\ NoneIsMissed'
    BY <2>1 DEF IInv, FoundIsTrue, NoneIsMissed, Users
  <2>5. VerdictIsOfFound' /\ OffersAreOfVerdict'
    BY <2>1, <2>2 DEF IInv, VerdictIsOfFound, OffersAreOfVerdict
  <2> QED
    BY <2>3, <2>4, <2>5 DEF IInv
<1>2. ASSUME NEW lost \in SUBSET CA_Projects, ListProjects(lost) PROVE IInv'
  BY <1>2, ListProjectsKeepsIInv
<1>3. ASSUME NEW chunk \in SUBSET listed, NEW answer \in {"whole", "cut", "failed"},
             Associate(chunk, answer)
      PROVE  IInv'
  BY <1>3, AssociateKeepsIInv
<1>4. ASSUME Judge PROVE IInv'
  BY <1>4, JudgeKeepsIInv
<1>5. ASSUME NEW read \in BOOLEAN, NEW children \in BOOLEAN, MakeOffers(read, children)
      PROVE  IInv'
  BY <1>5, MakeOffersKeepsIInv
<1>6. ASSUME NEW p \in CA_Projects, NEW s \in CA_Schemes, Moves(p, s) PROVE IInv'
  BY <1>6, MovesKeepsIInv
<1> QED
  BY <1>1, <1>2, <1>3, <1>4, <1>5, <1>6 DEF CA_Next

(***************************************************************************)
(* Theorems                                                                *)
(***************************************************************************)

(* No state of an audit breaks the inductive invariant.                      *)
THEOREM Invariance == CA_Spec => []IInv
BY InitIInv, NextIInv, PTL DEF CA_Spec

(* A verdict says of a scheme only what was proved of it, whatever was cut   *)
(* or failed, and screens are edited in place only in a scheme that nobody   *)
(* else uses.                                                                *)
THEOREM VerdictsHold == CA_Spec => []VerdictsProved
<1>1. ASSUME IInv, Audited, verdict # "absent"
      PROVE  /\ own \in CA_Schemes /\ uses[CA_Target] = own
             /\ verdict = "dedicated" => Users(own) = {CA_Target}
             /\ verdict = "shared" => UsedElsewhere(own)
             /\ type = "issuetypescreen" => offers = SchemeOffer \union ScreenOffers
  <2>1. own \in CA_Schemes /\ CA_Target \in found[own] /\ listed = {}
    BY <1>1 DEF Audited, IInv, VerdictIsOfFound
  <2>2. found[own] \subseteq Users(own)
    BY <1>1, <2>1 DEF Audited, IInv, FoundIsTrue
  <2>3. whole => found[own] = Users(own)
    BY <1>1, <2>1, <2>2 DEF Audited, IInv, NoneIsMissed
  <2>4. /\ verdict = "dedicated" => whole /\ found[own] = {CA_Target}
        /\ verdict = "shared" => found[own] # {CA_Target}
    BY <1>1 DEF Audited, IInv, VerdictIsOfFound
  <2>5. uses[CA_Target] = own
    BY <2>1, <2>2 DEF Users
  <2> QED
    BY <1>1, <2>1, <2>2, <2>3, <2>4, <2>5 DEF UsedElsewhere, Audited, IInv, OffersAreOfVerdict
<1>2. ASSUME IInv, Audited, verdict = "absent" PROVE offers = {}
  BY <1>2 DEF Audited, IInv, VerdictIsOfFound
<1>3. IInv => VerdictsProved
  <2> SUFFICES ASSUME IInv, Audited
               PROVE  /\ verdict = "dedicated" => ~UsedElsewhere(own)
                      /\ verdict = "shared" => UsedElsewhere(own)
                      /\ verdict # "absent" => uses[CA_Target] = own
                      /\ (type = "issuetypescreen" /\ InPlace # {}) => ~UsedElsewhere(own)
    BY DEF VerdictsProved
  <2>1. verdict = "dedicated" => ~UsedElsewhere(own)
    BY <1>1 DEF UsedElsewhere
  <2>2. (type = "issuetypescreen" /\ InPlace # {}) => verdict = "dedicated"
    <3> SUFFICES ASSUME type = "issuetypescreen", NEW offer \in InPlace
                 PROVE  verdict = "dedicated"
      OBVIOUS
    <3>1. offer \in SchemeOffer \union ScreenOffers /\ offer.inPlace
      BY <1>1, <1>2 DEF InPlace
    <3>2. offer \notin SchemeOffer
      BY <3>1 DEF SchemeOffer, Offer
    <3>3. offer = Offer("screens", verdict = "dedicated")
      BY <3>1, <3>2 DEF ScreenOffers
    <3> QED
      BY <3>1, <3>3 DEF Offer
  <2> QED
    BY <1>1, <2>1, <2>2
<1> QED
  BY <1>3, Invariance, PTL

(* If nothing was cut and nothing failed, every workflow of the project that *)
(* another project uses, by whatever scheme, is offered to be isolated.      *)
THEOREM SharedHasItsButton == CA_Spec => []SharedIsOffered
<1>1. ASSUME IInv, Audited, ca_gaps = 0, type = "workflow",
             NEW w \in names[own], NEW p \in CA_Others, w \in names[uses[p]]
      PROVE  \E offer \in offers : offer.what = w
  <2>1. /\ CA_Target \in CA_Projects /\ p \in CA_Projects /\ p # CA_Target
        /\ \A q \in CA_Projects : uses[q] \in CA_Schemes
    BY <1>1, ConfigAuditAssumption DEF IInv, CA_TypeOK, CA_Projects, ConfigAuditAssumption
  <2>2. whole /\ listed = {}
    BY <1>1 DEF IInv, GapsAreTold, Audited, VerdictIsOfFound
  <2>3. \A s \in CA_Schemes : found[s] = Users(s)
    BY <1>1, <2>2 DEF IInv, FoundIsTrue, NoneIsMissed, Audited
  <2>4. CA_Target \in found[uses[CA_Target]]
    BY <2>1, <2>3 DEF Users
  <2>5. /\ verdict # "absent" /\ own \in CA_Schemes
        /\ verdict = IF found[own] # {CA_Target} THEN "shared" ELSE "dedicated"
    BY <1>1, <2>1, <2>2, <2>4 DEF IInv, Audited, VerdictIsOfFound
  <2> DEFINE references == UNION {names[s] : s \in CA_Schemes \ {own}}
  <2>6. offers = SchemeOffer \union WorkflowOffers(references)
    BY <1>1, <2>5 DEF IInv, Audited, OffersAreOfVerdict
  <2>7. verdict = "shared" \/ w \in references
    <3>1. CASE uses[p] = own
      BY <2>1, <2>3, <2>5, <3>1 DEF Users
    <3>2. CASE uses[p] # own
      BY <1>1, <2>1, <3>2
    <3> QED
      BY <3>1, <3>2
  <2> HIDE DEF references
  <2>8. Offer(w, verdict # "shared") \in offers
    BY <1>1, <2>6, <2>7 DEF WorkflowOffers
  <2> QED
    BY <2>8 DEF Offer
<1>2. IInv => SharedIsOffered
  BY <1>1 DEF SharedIsOffered
<1> QED
  BY <1>2, Invariance, PTL

(***************************************************************************)
(* A whole scheme is isolated                                              *)
(***************************************************************************)

(* Shapes; a level is of the scheme that has it.                             *)
SI_Typed ==
  /\ made \in Nat /\ si_runs \in 0..SI_MaxRuns /\ made <= si_runs
  /\ scheme \in [SI_Projects -> 0..made]
  /\ gone \subseteq 1..made /\ clone \in 0..made
  /\ levels = [s \in Schemes |-> levels[s]]
  /\ \A s \in Schemes : levels[s] \in [DOMAIN levels[s] -> LevelNames]
                        /\ DOMAIN levels[s] \subseteq Ids(s, LevelNames)
  /\ body # NoBody => body \subseteq LevelNames
  /\ si_pc \in {"idle", "create", "read", "point", "drop", "undo_read", "undo_point", "undo_drop"}
  /\ si_entry \in {"none", "isolated", "restored", "rolled_back"}
  /\ si_outcome \in {"none", "ok", "failed", "undone", "undo_failed", "stopped"}
  /\ si_mishaps \subseteq {"lost", "cleanup", "renamed"}

(* Only the latest clone is left, and what a project uses is there.          *)
OneClone ==
  /\ \A k \in 1..made : k < made => k \in gone
  /\ \A p \in SI_Projects : scheme[p] \notin gone

(* Which runs there can be, and where they find the project.                 *)
SI_PhaseTrue ==
  /\ si_pc = "create" => made < si_runs
  /\ si_pc \in {"read", "point", "drop"} =>
       clone = made /\ made > 0 /\ made \notin gone /\ \A p \in SI_Projects : scheme[p] = 0
  /\ si_pc \in {"undo_read", "undo_point", "undo_drop"} => si_entry = "isolated"
  /\ si_pc = "undo_drop" => scheme[SI_Target] = 0
  /\ si_entry = "isolated" => clone = made /\ made > 0
  /\ (si_pc # "idle" \/ si_entry # "none" \/ made > 0) => body # NoBody /\ si_runs > 0
  /\ (si_pc # "idle" /\ si_entry # "none") => si_runs > 1
  /\ (si_pc # "idle" /\ si_entry = "none") => si_runs = 1
  /\ si_outcome = "failed" => si_pc = "idle" /\ si_entry = "none" /\ si_runs > 0

(* A table leads from the levels of one scheme to those of the other, and to *)
(* the namesakes unless one was renamed.                                     *)
Renamed == "renamed" \in si_mishaps
TableFrom(from, to) ==
  /\ \A id \in DOMAIN table : table[id] \in DOMAIN levels[to]
  /\ ~Renamed => \A id \in DOMAIN levels[from] : id \in DOMAIN table /\ table[id].name = id.name
TableTrue ==
  /\ si_pc = "point" => TableFrom(0, clone)
  /\ si_pc = "undo_point" => TableFrom(clone, 0)

(* The levels, unless one was renamed, are those of the preview.             *)
LevelsTrue ==
  ~Renamed =>
    /\ \A s \in Schemes : \A id \in DOMAIN levels[s] : levels[s][id] = id.name
    /\ body # NoBody => DOMAIN levels[0] = Ids(0, body)
    /\ \A s \in 1..made : DOMAIN levels[s] = Ids(s, body)
    /\ issue.name = had
IssueTrue == issue # NoLevel => issue \in DOMAIN levels[scheme[SI_Target]]

RunEnded ==
  (si_pc = "idle" /\ si_outcome \in {"failed", "undone"}) =>
    /\ "lost" \notin si_mishaps => scheme[SI_Target] = 0
    /\ si_mishaps \intersect {"lost", "cleanup"} = {} => gone = 1..made

(* The inductive invariant.                                                  *)
SI_IInv ==
  /\ SI_Typed
  /\ OneClone
  /\ SI_PhaseTrue
  /\ TableTrue
  /\ LevelsTrue
  /\ IssueTrue
  /\ RunEnded

(***************************************************************************)
(* Lemmas                                                                  *)
(***************************************************************************)

(* ByName leads from a level to its namesake, if there is one.               *)
LEMMA SI_ByNameTrue ==
  ASSUME NEW from, NEW to
  PROVE  /\ \A id \in DOMAIN ByName(from, to) :
              /\ ByName(from, to)[id] \in DOMAIN levels[to]
              /\ levels[to][ByName(from, to)[id]] = levels[from][id]
         /\ \A id \in DOMAIN levels[from] :
              levels[from][id] \in NamesOf(to) => id \in DOMAIN ByName(from, to)
<1>1. \A id \in DOMAIN levels[from] :
        levels[from][id] \in NamesOf(to) =>
          \E new \in DOMAIN levels[to] : levels[to][new] = levels[from][id]
  BY DEF NamesOf
<1> QED
  BY <1>1 DEF ByName

(* A clone can be made only when those before are deleted.                   *)
LEMMA SI_AllGone ==
  ASSUME SI_IInv, made = Cardinality(gone)
  PROVE  gone = 1..made /\ \A p \in SI_Projects : scheme[p] = 0
<1>1. gone \subseteq 1..made /\ made \in Nat
  BY DEF SI_IInv, SI_Typed
<1>2. IsFiniteSet(1..made) /\ Cardinality(1..made) = made
  BY <1>1, FS_Interval
<1>3. gone = 1..made
  BY <1>1, <1>2, FS_Subset
<1>4. \A p \in SI_Projects : scheme[p] \in 0..made /\ scheme[p] \notin gone
  BY DEF SI_IInv, SI_Typed, OneClone
<1>5. ASSUME NEW k \in 0..made, k \notin 1..made PROVE k = 0
  BY <1>1, <1>5
<1> QED
  BY <1>3, <1>4, <1>5

(* Any project is on the shared scheme or on the latest clone.               *)
LEMMA SI_WhereItIs ==
  ASSUME SI_IInv, NEW p \in SI_Projects
  PROVE  scheme[p] \in {0, made}
  BY DEF SI_IInv, SI_Typed, OneClone

(* The levels of a scheme say which scheme they are of.                      *)
LEMMA SI_LevelTypes ==
  ASSUME SI_IInv, NEW s \in Schemes
  PROVE  /\ levels[s] \in [DOMAIN levels[s] -> LevelNames]
         /\ \A id \in DOMAIN levels[s] : id.of = s /\ id.name \in LevelNames
  BY DEF SI_IInv, SI_Typed, Ids

(* The names of levels that are called as their ids say.                     *)
LEMMA SI_NamesAreBody ==
  ASSUME NEW s, NEW called, DOMAIN levels[s] = Ids(s, called),
         \A id \in DOMAIN levels[s] : levels[s][id] = id.name
  PROVE  NamesOf(s) = called /\ \A id \in DOMAIN levels[s] : id.name \in called
<1>1. \A id \in Ids(s, called) : id.name \in called
  BY DEF Ids
<1>2. \A n \in called : \E id \in Ids(s, called) : id.name = n
  <2> SUFFICES ASSUME NEW n \in called PROVE \E id \in Ids(s, called) : id.name = n
    OBVIOUS
  <2>1. [of |-> s, name |-> n] \in Ids(s, called)
    BY DEF Ids
  <2> QED
    BY <2>1
<1> QED
  BY <1>1, <1>2 DEF NamesOf

(* At first all projects are on the shared scheme, and there is no clone.    *)
LEMMA SI_InitIInv == SI_Init => SI_IInv
<1> SUFFICES ASSUME SI_Init PROVE SI_IInv
  OBVIOUS
<1>1. PICK called \in SUBSET LevelNames :
        /\ levels = [s \in Schemes |-> IF s = 0 THEN Fresh(0, called) ELSE Fresh(s, {})]
        /\ issue \in Ids(0, called) \union {NoLevel} /\ had = issue.name
  BY DEF SI_Init
<1>2. \A s \in Schemes : /\ levels[s] \in [DOMAIN levels[s] -> LevelNames]
                         /\ DOMAIN levels[s] \subseteq Ids(s, LevelNames)
                         /\ \A id \in DOMAIN levels[s] : levels[s][id] = id.name
  BY <1>1 DEF Fresh, Ids
<1>3. 0 \in Schemes /\ DOMAIN levels[0] = Ids(0, called)
  BY <1>1, SchemeIsolateAssumption DEF SchemeIsolateAssumption, Schemes, Fresh
<1>4. /\ scheme \in [SI_Projects -> {0}] /\ made = 0 /\ gone = {} /\ body = NoBody
      /\ si_pc = "idle" /\ clone = 0 /\ si_runs = 0 /\ si_outcome = "none"
      /\ si_entry = "none" /\ si_mishaps = {}
  BY DEF SI_Init
<1>5. SI_Typed
  <2>1. levels = [s \in Schemes |-> levels[s]]
    BY <1>1
  <2> QED
    BY <1>2, <1>4, <2>1, SchemeIsolateAssumption DEF SchemeIsolateAssumption, SI_Typed
<1>6. OneClone /\ SI_PhaseTrue /\ TableTrue /\ RunEnded
  BY <1>4 DEF OneClone, SI_PhaseTrue, TableTrue, RunEnded
<1>7. LevelsTrue
  BY <1>1, <1>2, <1>4 DEF LevelsTrue
<1>8. IssueTrue
  <2>1. scheme[SI_Target] = 0
    BY <1>4 DEF SI_Projects
  <2> QED
    BY <1>1, <1>3, <2>1 DEF IssueTrue
<1> QED
  BY <1>5, <1>6, <1>7, <1>8 DEF SI_IInv

(* What Jira has, and what was written down of it, is as it was.             *)
LEMMA SI_LevelsStay ==
  ASSUME SI_IInv, UNCHANGED <<levels, body, made, issue, had>>,
         scheme'[SI_Target] = scheme[SI_Target],
         Renamed => Renamed'
  PROVE  LevelsTrue' /\ IssueTrue'
  BY DEF SI_IInv, LevelsTrue, IssueTrue, Renamed

(***************************************************************************)
(* The actions                                                             *)
(***************************************************************************)

(* A preview reads the levels and writes nothing.                            *)
LEMMA SI_PreviewKeeps == SI_IInv /\ SI_Preview => SI_IInv'
<1> SUFFICES ASSUME SI_IInv, SI_Preview PROVE SI_IInv'
  OBVIOUS
<1>1. /\ body = NoBody /\ body' = NamesOf(0)
      /\ UNCHANGED <<scheme, levels, issue, made, gone, si_pc, clone, table, si_runs>>
      /\ UNCHANGED <<si_outcome, si_entry, had, si_mishaps>>
  BY DEF SI_Preview, schemeJira
<1>2. 0 \in Schemes
  BY SchemeIsolateAssumption DEF SchemeIsolateAssumption, Schemes
<1>3. body' \subseteq LevelNames
  BY <1>1, <1>2, SI_LevelTypes DEF NamesOf
<1>4. SI_Typed'
  BY <1>1, <1>3 DEF SI_IInv, SI_Typed
<1>5. OneClone' /\ SI_PhaseTrue' /\ IssueTrue' /\ RunEnded'
  BY <1>1 DEF SI_IInv, OneClone, SI_PhaseTrue, IssueTrue, RunEnded
<1>6. TableTrue'
  BY <1>1 DEF SI_IInv, TableTrue, TableFrom, Renamed
<1>7. LevelsTrue'
  <2> SUFFICES ASSUME ~Renamed PROVE DOMAIN levels[0] = Ids(0, NamesOf(0)) /\ made = 0
    BY <1>1 DEF SI_IInv, LevelsTrue, Renamed, SI_Typed
  <2>1. made = 0
    BY <1>1 DEF SI_IInv, SI_PhaseTrue, SI_Typed
  <2>2. \A id \in DOMAIN levels[0] : levels[0][id] = id.name /\ id \in Ids(0, LevelNames)
    BY <1>2 DEF SI_IInv, LevelsTrue, SI_Typed
  <2>3. \A id \in Ids(0, LevelNames) : id = [of |-> 0, name |-> id.name]
    BY DEF Ids
  <2>4. NamesOf(0) = {id.name : id \in DOMAIN levels[0]}
    BY <2>2 DEF NamesOf
  <2> QED
    BY <2>1, <2>2, <2>3, <2>4 DEF Ids
<1> QED
  BY <1>4, <1>5, <1>6, <1>7 DEF SI_IInv

LEMMA SI_StartKeeps == SI_IInv /\ SI_Start => SI_IInv'
<1> SUFFICES ASSUME SI_IInv, SI_Start PROVE SI_IInv'
  OBVIOUS
<1>1. /\ si_pc = "idle" /\ si_runs < SI_MaxRuns /\ si_runs' = si_runs + 1
      /\ \/ body # NoBody /\ si_runs = 0 /\ si_pc' = "create"
         \/ si_entry = "isolated" /\ si_pc' = "undo_read"
         \/ si_entry = "restored" /\ si_pc' = "create"
      /\ UNCHANGED <<scheme, levels, issue, made, gone, body, clone, table>>
      /\ UNCHANGED <<si_outcome, si_entry, had, si_mishaps>>
  BY DEF SI_Start, schemeJira
<1>2. si_runs \in Nat /\ made \in Nat /\ made <= si_runs
  BY DEF SI_IInv, SI_Typed
<1>3. SI_Typed'
  BY <1>1, <1>2, SchemeIsolateAssumption DEF SchemeIsolateAssumption, SI_IInv, SI_Typed
<1>4. OneClone' /\ TableTrue' /\ RunEnded'
  BY <1>1 DEF SI_IInv, OneClone, TableTrue, RunEnded
<1>5. si_runs = 0 => si_entry = "none" /\ si_outcome # "failed"
  BY DEF SI_IInv, SI_PhaseTrue, RunEnded
<1>6. SI_PhaseTrue'
  BY <1>1, <1>2, <1>5 DEF SI_IInv, SI_PhaseTrue
<1>7. LevelsTrue' /\ IssueTrue'
  BY <1>1 DEF SI_IInv, LevelsTrue, IssueTrue, Renamed
<1> QED
  BY <1>3, <1>4, <1>6, <1>7 DEF SI_IInv

LEMMA SI_StopKeeps == SI_IInv /\ SI_Stop => SI_IInv'
<1> SUFFICES ASSUME SI_IInv, SI_Stop PROVE SI_IInv'
  OBVIOUS
<1>1. /\ si_pc # "idle" /\ si_pc' = "idle" /\ si_outcome' = "stopped"
      /\ UNCHANGED <<scheme, levels, issue, made, gone, body, clone, table>>
      /\ UNCHANGED <<si_runs, si_entry, had, si_mishaps>>
  BY DEF SI_Stop, schemeJira
<1>2. SI_Typed'
  BY <1>1 DEF SI_IInv, SI_Typed
<1>3. OneClone' /\ SI_PhaseTrue' /\ TableTrue' /\ RunEnded'
  BY <1>1 DEF SI_IInv, OneClone, SI_PhaseTrue, TableTrue, RunEnded
<1>4. LevelsTrue' /\ IssueTrue'
  BY <1>1 DEF SI_IInv, LevelsTrue, IssueTrue, Renamed
<1> QED
  BY <1>2, <1>3, <1>4 DEF SI_IInv

(* A clone is made when there is none, with the levels of the preview.       *)
LEMMA SI_CreateKeeps ==
  ASSUME SI_IInv, NEW a \in SI_Answers, SI_Create(a)
  PROVE  SI_IInv'
<1>1. /\ si_pc = "create" /\ UNCHANGED <<scheme, issue, gone, table, body, si_runs, had>>
      /\ si_mishaps' = si_mishaps \union SI_Lost(a)
      /\ a = "ok" => clone' = made + 1 /\ SI_Goes("read")
      /\ a # "ok" => UNCHANGED clone /\ SI_Fails
  BY DEF SI_Create, SI_Still
<1>2. /\ made < si_runs /\ body # NoBody /\ si_runs > 0
      /\ made \in Nat /\ si_runs \in 0..SI_MaxRuns
  BY <1>1 DEF SI_IInv, SI_PhaseTrue, SI_Typed
<1>3. made + 1 \in Schemes /\ body \subseteq LevelNames /\ SI_Target \in SI_Projects
  BY <1>2, SchemeIsolateAssumption
     DEF SchemeIsolateAssumption, Schemes, SI_IInv, SI_Typed, SI_Projects
<1>4. a \in {"ok", "lost"} => /\ made' = made + 1 /\ made = Cardinality(gone)
                             /\ levels' = [levels EXCEPT ![made + 1] = Fresh(made + 1, body)]
  BY DEF SI_Create, SI_Lands
<1>5. a \notin {"ok", "lost"} => UNCHANGED <<made, levels>>
  BY DEF SI_Create, SI_Lands
<1>6. a \in {"ok", "lost"} => gone = 1..made /\ \A p \in SI_Projects : scheme[p] = 0
  BY <1>4, SI_AllGone
<1>7. /\ DOMAIN Fresh(made + 1, body) = Ids(made + 1, body)
      /\ \A id \in Ids(made + 1, body) :
           Fresh(made + 1, body)[id] = id.name /\ id.name \in LevelNames
      /\ Ids(made + 1, body) \subseteq Ids(made + 1, LevelNames)
  BY <1>3 DEF Fresh, Ids
<1>8. \A s \in Schemes : \/ levels'[s] = levels[s] /\ (s \in 1..made' => s \in 1..made)
                         \/ s = made + 1 /\ s > made /\ s > 0 /\ levels'[s] = Fresh(s, body)
  BY <1>2, <1>4, <1>5 DEF SI_IInv, SI_Typed
<1>9. levels' = [s \in Schemes |-> levels'[s]]
  BY <1>4, <1>5 DEF SI_Answers, SI_IInv, SI_Typed
<1>10. made' \in Nat /\ made <= made' /\ made' <= made + 1
  BY <1>2, <1>4, <1>5
<1>11. SI_Typed'
  <2>1. \A s \in Schemes : levels'[s] \in [DOMAIN levels'[s] -> LevelNames]
                           /\ DOMAIN levels'[s] \subseteq Ids(s, LevelNames)
    <3> SUFFICES ASSUME NEW s \in Schemes
                 PROVE  levels'[s] \in [DOMAIN levels'[s] -> LevelNames]
                        /\ DOMAIN levels'[s] \subseteq Ids(s, LevelNames)
      OBVIOUS
    <3>1. Fresh(made + 1, body) \in [DOMAIN Fresh(made + 1, body) -> LevelNames]
      BY <1>3 DEF Fresh, Ids
    <3>2. CASE levels'[s] = levels[s]
      BY <3>2 DEF SI_IInv, SI_Typed
    <3>3. CASE s = made + 1 /\ levels'[s] = Fresh(s, body)
      BY <1>7, <3>1, <3>3
    <3> QED
      BY <1>8, <3>2, <3>3
  <2>2. /\ clone' \in 0..made' /\ made' <= si_runs' /\ gone' \subseteq 1..made'
        /\ scheme' \in [SI_Projects -> 0..made']
    BY <1>1, <1>2, <1>4, <1>10 DEF SI_IInv, SI_Typed
  <2>3. /\ si_pc' \in {"idle", "read"} /\ si_mishaps' \subseteq {"lost", "cleanup", "renamed"}
        /\ si_entry' \in {"none", "isolated", "restored", "rolled_back"}
        /\ si_outcome' \in {"none", "ok", "failed", "undone", "undo_failed", "stopped"}
    BY <1>1 DEF SI_IInv, SI_Typed, SI_Goes, SI_Fails, SI_Lost
  <2> QED
    BY <1>1, <1>9, <1>10, <2>1, <2>2, <2>3 DEF SI_IInv, SI_Typed
<1>12. OneClone'
  <2>1. ASSUME NEW k \in 1..made', k < made' PROVE k \in gone
    <3>1. CASE a \in {"ok", "lost"}
      <4>1. k \in 1..made
        BY <1>2, <1>4, <2>1, <3>1
      <4> QED
        BY <1>6, <3>1, <4>1
    <3>2. CASE a \notin {"ok", "lost"}
      BY <1>5, <2>1, <3>2 DEF SI_IInv, OneClone
    <3> QED
      BY <3>1, <3>2
  <2> QED
    BY <1>1, <2>1 DEF SI_IInv, OneClone
<1>13. SI_PhaseTrue' /\ TableTrue'
  <2>1. CASE a = "ok"
    <3>1. made' = made + 1 /\ clone' = made + 1 /\ made + 1 > 0 /\ made + 1 \notin gone
      <4>1. made + 1 > 0 /\ made + 1 \notin 1..made
        BY <1>2
      <4> QED
        BY <1>1, <1>4, <1>6, <2>1, <4>1
    <3>2. /\ si_pc' = "read" /\ UNCHANGED <<si_outcome, si_entry>>
          /\ \A p \in SI_Projects : scheme[p] = 0
      BY <1>1, <1>6, <2>1 DEF SI_Goes
    <3> QED
      BY <1>1, <1>2, <3>1, <3>2 DEF SI_IInv, SI_PhaseTrue, TableTrue
  <2>2. CASE a # "ok"
    <3>1. si_entry' # "isolated"
      BY <1>1, <1>2, <2>2 DEF SI_Fails, SI_IInv, SI_PhaseTrue
    <3> QED
      BY <1>1, <1>2, <2>2, <3>1 DEF SI_Fails, SI_IInv, SI_PhaseTrue, TableTrue
  <2> QED
    BY <2>1, <2>2
<1>14. LevelsTrue'
  <2> SUFFICES ASSUME ~Renamed
               PROVE  /\ \A s \in Schemes : \A id \in DOMAIN levels'[s] : levels'[s][id] = id.name
                      /\ DOMAIN levels'[0] = Ids(0, body)
                      /\ \A s \in 1..made' : DOMAIN levels'[s] = Ids(s, body)
                      /\ issue.name = had
    BY <1>1 DEF LevelsTrue, Renamed
  <2>1. /\ \A s \in Schemes : \A id \in DOMAIN levels[s] : levels[s][id] = id.name
        /\ DOMAIN levels[0] = Ids(0, body)
        /\ \A s \in 1..made : DOMAIN levels[s] = Ids(s, body)
        /\ issue.name = had
    BY <1>2 DEF SI_IInv, LevelsTrue
  <2>2. 0 \in Schemes /\ \A s \in 1..made' : s \in Schemes
    BY <1>2, <1>10, SchemeIsolateAssumption DEF SchemeIsolateAssumption, Schemes
  <2> QED
    BY <1>2, <1>7, <1>8, <2>1, <2>2
<1>15. IssueTrue'
  <2>1. PICK s : s = scheme[SI_Target]
    OBVIOUS
  <2>2. s \in {0, made}
    BY <1>3, <2>1, SI_WhereItIs
  <2>3. s # made + 1 /\ s \in Schemes
    BY <1>2, <2>2, SchemeIsolateAssumption DEF SchemeIsolateAssumption, Schemes
  <2>4. levels'[s] = levels[s]
    BY <1>8, <2>3
  <2> QED
    BY <1>1, <2>1, <2>4 DEF SI_IInv, IssueTrue
<1>16. RunEnded'
  <2> SUFFICES ASSUME si_pc' = "idle", si_outcome' \in {"failed", "undone"}
               PROVE  /\ "lost" \notin si_mishaps' => scheme[SI_Target] = 0
                      /\ si_mishaps' \intersect {"lost", "cleanup"} = {} => gone = 1..made'
    BY <1>1 DEF RunEnded
  <2>1. a # "ok" /\ si_outcome' = "failed" /\ si_runs = 1
    BY <1>1 DEF SI_Goes, SI_Fails
  <2>2. made = 0
    BY <1>2, <2>1
  <2>3. scheme[SI_Target] = 0 /\ gone = {}
    BY <1>3, <2>2 DEF SI_IInv, SI_Typed
  <2>4. a = "lost" => "lost" \in si_mishaps'
    BY <1>1 DEF SI_Lost
  <2> QED
    BY <1>5, <2>1, <2>2, <2>3, <2>4
<1> QED
  BY <1>11, <1>12, <1>13, <1>14, <1>15, <1>16 DEF SI_IInv

(* The table read is one for the move that comes next.                       *)
LEMMA SI_ReadKeeps ==
  ASSUME SI_IInv, NEW a \in SI_Answers, SI_Read(a)
  PROVE  SI_IInv'
<1>1. /\ si_pc \in {"read", "undo_read"}
      /\ table' = IF si_pc = "read" THEN ByName(0, clone) ELSE ByName(clone, 0)
      /\ UNCHANGED <<scheme, levels, issue, made, gone, clone, body, si_runs, had>>
      /\ a = "ok" => SI_Goes(IF si_pc = "read" THEN "point" ELSE "undo_point")
      /\ a = "ok" => UNCHANGED si_mishaps
      /\ a # "ok" => SI_Fails
      /\ a # "ok" =>
           si_mishaps' = IF si_pc = "read" THEN si_mishaps \union {"cleanup"} ELSE si_mishaps
  BY DEF SI_Read, SI_Still, schemeJira
<1>2. /\ clone = made /\ made > 0 /\ body # NoBody /\ made \in 1..made /\ made \in Schemes
      /\ si_runs \in Nat
  BY <1>1, SchemeIsolateAssumption
     DEF SchemeIsolateAssumption, SI_IInv, SI_PhaseTrue, SI_Typed, Schemes
<1>3. SI_Typed' /\ OneClone'
  BY <1>1 DEF SI_IInv, SI_Typed, OneClone, SI_Goes, SI_Fails
<1>4. SI_PhaseTrue'
  BY <1>1, <1>2 DEF SI_IInv, SI_PhaseTrue, SI_Goes, SI_Fails
<1>5. TableTrue'
  <2> SUFFICES ASSUME a = "ok"
               PROVE  /\ si_pc = "read" => TableFrom(0, made)'
                      /\ si_pc = "undo_read" => TableFrom(made, 0)'
    BY <1>1, <1>2 DEF TableTrue, TableFrom, Renamed, SI_Goes, SI_Fails
  <2>1. ~Renamed => /\ \A s \in Schemes : \A id \in DOMAIN levels[s] : levels[s][id] = id.name
                    /\ DOMAIN levels[0] = Ids(0, body) /\ DOMAIN levels[made] = Ids(made, body)
    BY <1>2 DEF SI_IInv, LevelsTrue
  <2>2. 0 \in Schemes
    BY SchemeIsolateAssumption DEF SchemeIsolateAssumption, Schemes
  <2>3. ~Renamed => NamesOf(0) = body /\ NamesOf(made) = body
    BY <1>2, <2>1, <2>2, SI_NamesAreBody
  <2>4. ~Renamed => \A id \in DOMAIN levels[0] \union DOMAIN levels[made] : id.name \in body
    BY <2>1 DEF Ids
  <2>5. ASSUME NEW from \in {0, made}, NEW to \in {0, made}, table' = ByName(from, to)
        PROVE  TableFrom(from, to)'
    BY <1>1, <1>2, <2>1, <2>2, <2>3, <2>4, <2>5, SI_ByNameTrue DEF TableFrom, Renamed
  <2> QED
    BY <1>1, <1>2, <2>5 DEF TableFrom
<1>6. LevelsTrue' /\ IssueTrue'
  BY <1>1 DEF SI_IInv, LevelsTrue, IssueTrue, Renamed
<1>7. RunEnded'
  <2> SUFFICES ASSUME a # "ok", si_outcome' = "failed"
               PROVE  scheme[SI_Target] = 0 /\ "cleanup" \in si_mishaps'
    BY <1>1 DEF RunEnded, SI_Goes, SI_Fails
  <2>1. si_runs = 1
    BY <1>1 DEF SI_Fails
  <2>2. si_pc = "read"
    BY <1>1, <2>1 DEF SI_IInv, SI_PhaseTrue
  <2> QED
    BY <1>1, <2>2 DEF SI_IInv, SI_PhaseTrue, SI_Projects
<1> QED
  BY <1>3, <1>4, <1>5, <1>6, <1>7 DEF SI_IInv

(* A project that is moved keeps the level of its issue, by the table.       *)
LEMMA SI_PointKeeps ==
  ASSUME SI_IInv, NEW a \in SI_Answers, NEW s \in {0, made}, SI_Point(s, a),
         s \notin gone \/ s = 0, TableFrom(scheme[SI_Target], s) \/ scheme[SI_Target] = s,
         UNCHANGED <<levels, made, gone, body, had>>, Renamed' <=> Renamed
  PROVE  /\ scheme' \in [SI_Projects -> 0..made] /\ OneClone' /\ LevelsTrue' /\ IssueTrue'
         /\ \A p \in SI_Others : scheme'[p] = scheme[p]
         /\ scheme'[SI_Target] = IF SI_Lands(a) THEN s ELSE scheme[SI_Target]
<1>1. /\ made \in Nat /\ scheme \in [SI_Projects -> 0..made] /\ SI_Target \in SI_Projects
      /\ made \in Schemes /\ 0 \in Schemes /\ 0 \notin gone
  BY SchemeIsolateAssumption DEF SchemeIsolateAssumption, SI_IInv, SI_Typed, SI_Projects, Schemes
<1>2. /\ scheme' \in [SI_Projects -> 0..made]
      /\ \A p \in SI_Others : scheme'[p] = scheme[p]
      /\ scheme'[SI_Target] = IF SI_Lands(a) THEN s ELSE scheme[SI_Target]
      /\ \A p \in SI_Projects : scheme'[p] = scheme[p] \/ scheme'[p] = s
  BY <1>1, SchemeIsolateAssumption DEF SchemeIsolateAssumption, SI_Point, SI_Projects
<1>3. OneClone'
  BY <1>1, <1>2 DEF SI_IInv, OneClone
<1>4. PICK t : t = scheme[SI_Target]
  OBVIOUS
<1>5. t \in {0, made} /\ t \in Schemes /\ s \in Schemes
  BY <1>1, <1>4, SI_WhereItIs
<1>6. issue # NoLevel => issue \in DOMAIN levels[t] /\ issue.of = t
  BY <1>4, <1>5, SI_LevelTypes DEF SI_IInv, IssueTrue
<1>7. CASE ~SI_Lands(a) \/ issue = NoLevel
  <2>1. issue' = issue /\ (issue # NoLevel => scheme'[SI_Target] = t)
    BY <1>2, <1>4, <1>7 DEF SI_Point
  <2> QED
    BY <1>2, <1>3, <1>6, <2>1 DEF SI_IInv, LevelsTrue, IssueTrue, Renamed
<1>8. CASE SI_Lands(a) /\ issue # NoLevel /\ t = s
  <2>1. issue' = issue /\ scheme'[SI_Target] = t
    BY <1>2, <1>6, <1>8 DEF SI_Point
  <2> QED
    BY <1>2, <1>3, <1>6, <2>1 DEF SI_IInv, LevelsTrue, IssueTrue, Renamed
<1>9. CASE SI_Lands(a) /\ issue # NoLevel /\ t # s
  <2>1. /\ issue' = IF issue \in DOMAIN table THEN table[issue] ELSE NoLevel
        /\ scheme'[SI_Target] = s
    BY <1>2, <1>6, <1>9 DEF SI_Point
  <2>2. TableFrom(t, s)
    BY <1>4, <1>9
  <2>3. issue' # NoLevel => issue' \in DOMAIN levels[s]
    BY <2>1, <2>2 DEF TableFrom
  <2>4. ~Renamed => issue'.name = issue.name
    BY <1>6, <1>9, <2>1, <2>2 DEF TableFrom
  <2> QED
    BY <1>2, <1>3, <2>1, <2>3, <2>4 DEF SI_IInv, LevelsTrue, IssueTrue, Renamed
<1> QED
  BY <1>7, <1>8, <1>9

LEMMA SI_MoveKeeps ==
  ASSUME SI_IInv, NEW a \in SI_Answers, SI_Move(a)
  PROVE  SI_IInv'
<1>1. /\ si_pc = "point" /\ SI_Point(clone, a)
      /\ UNCHANGED <<levels, made, gone, clone, table, body, si_runs, had>>
      /\ a = "ok" => SI_Succeeds("ok", "isolated")
      /\ a = "refused" => SI_Goes("drop")
      /\ a \notin {"ok", "refused"} => SI_Fails
      /\ si_mishaps' = si_mishaps \union SI_Lost(a) \union (IF a = "broken" THEN {"cleanup"} ELSE {})
  BY DEF SI_Move, SI_Still
<1>2. /\ clone = made /\ made > 0 /\ body # NoBody /\ made \in Nat /\ si_runs \in Nat
      /\ \A p \in SI_Projects : scheme[p] = 0
      /\ SI_Target \in SI_Projects /\ TableFrom(0, made)
  BY <1>1 DEF SI_IInv, SI_PhaseTrue, SI_Typed, SI_Projects, TableTrue
<1>3. SI_Lost(a) \subseteq {"lost"} /\ (a = "lost" => SI_Lost(a) = {"lost"})
  BY DEF SI_Lost
<1>4. Renamed' <=> Renamed
  BY <1>1, <1>3 DEF Renamed
<1>5. made \notin gone
  BY <1>1 DEF SI_IInv, SI_PhaseTrue
<1>6. SI_Point(made, a)
  BY <1>1, <1>2
<1>7. /\ scheme' \in [SI_Projects -> 0..made] /\ OneClone' /\ LevelsTrue' /\ IssueTrue'
      /\ \A p \in SI_Others : scheme'[p] = scheme[p]
      /\ scheme'[SI_Target] = IF SI_Lands(a) THEN made ELSE scheme[SI_Target]
  BY <1>1, <1>2, <1>4, <1>5, <1>6, SI_PointKeeps
<1>8. SI_Typed'
  BY <1>1, <1>3, <1>7 DEF SI_IInv, SI_Typed, SI_Goes, SI_Fails, SI_Succeeds
<1>9. SI_PhaseTrue' /\ TableTrue'
  <2>1. CASE a = "ok"
    BY <1>1, <1>2, <2>1 DEF SI_IInv, SI_PhaseTrue, TableTrue, SI_Succeeds
  <2>2. CASE a = "refused"
    <3>1. \A p \in SI_Projects : scheme'[p] = 0
      BY <1>2, <1>7, <2>2 DEF SI_Lands, SI_Projects
    <3> QED
      BY <1>1, <1>2, <1>5, <2>2, <3>1 DEF SI_IInv, SI_PhaseTrue, TableTrue, SI_Goes
  <2>3. CASE a \notin {"ok", "refused"}
    BY <1>1, <1>2, <2>3 DEF SI_IInv, SI_PhaseTrue, TableTrue, SI_Fails
  <2> QED
    BY <2>1, <2>2, <2>3
<1>10. RunEnded'
  <2> SUFFICES ASSUME si_pc' = "idle", si_outcome' \in {"failed", "undone"}
               PROVE  /\ "lost" \notin si_mishaps' => scheme'[SI_Target] = 0
                      /\ si_mishaps' \intersect {"lost", "cleanup"} # {}
    BY DEF RunEnded
  <2>1. a \in {"broken", "lost"}
    BY <1>1 DEF SI_Answers, SI_Goes, SI_Succeeds
  <2> QED
    BY <1>1, <1>2, <1>3, <1>7, <2>1 DEF SI_Lands
<1> QED
  BY <1>7, <1>8, <1>9, <1>10 DEF SI_IInv

LEMMA SI_UndoMoveKeeps ==
  ASSUME SI_IInv, NEW a \in SI_Answers, SI_UndoMove(a)
  PROVE  SI_IInv'
<1>1. /\ si_pc = "undo_point" /\ SI_Point(0, a)
      /\ UNCHANGED <<levels, made, gone, clone, table, body, si_runs, had>>
      /\ a = "ok" => SI_Goes("undo_drop")
      /\ a # "ok" => SI_Fails
      /\ si_mishaps' = si_mishaps \union SI_Lost(a)
  BY DEF SI_UndoMove, SI_Still
<1>2. /\ clone = made /\ made > 0 /\ body # NoBody /\ made \in Nat /\ si_runs > 1
      /\ si_entry = "isolated" /\ SI_Target \in SI_Projects /\ TableFrom(made, 0)
  BY <1>1 DEF SI_IInv, SI_PhaseTrue, SI_Typed, SI_Projects, TableTrue
<1>3. SI_Lost(a) \subseteq {"lost"} /\ (a = "lost" => SI_Lost(a) = {"lost"})
  BY DEF SI_Lost
<1>4. Renamed' <=> Renamed
  BY <1>1, <1>3 DEF Renamed
<1>5. scheme[SI_Target] \in {0, made}
  BY <1>2, SI_WhereItIs
<1>6. /\ scheme' \in [SI_Projects -> 0..made] /\ OneClone' /\ LevelsTrue' /\ IssueTrue'
      /\ scheme'[SI_Target] = IF SI_Lands(a) THEN 0 ELSE scheme[SI_Target]
  BY <1>1, <1>2, <1>4, <1>5, SI_PointKeeps
<1>7. SI_Typed'
  BY <1>1, <1>3, <1>6 DEF SI_IInv, SI_Typed, SI_Goes, SI_Fails
<1>8. SI_PhaseTrue' /\ TableTrue'
  <2>1. CASE a = "ok"
    BY <1>1, <1>2, <1>6, <2>1 DEF SI_IInv, SI_PhaseTrue, TableTrue, SI_Goes, SI_Lands
  <2>2. CASE a # "ok"
    BY <1>1, <1>2, <2>2 DEF SI_IInv, SI_PhaseTrue, TableTrue, SI_Fails
  <2> QED
    BY <2>1, <2>2
<1>9. RunEnded'
  BY <1>1, <1>2 DEF RunEnded, SI_Goes, SI_Fails
<1> QED
  BY <1>6, <1>7, <1>8, <1>9 DEF SI_IInv

(* A clone is deleted when nobody is on it, and then all are.                *)
LEMMA SI_DropKeeps ==
  ASSUME SI_IInv, NEW a \in SI_Answers, SI_Drop(a)
  PROVE  SI_IInv'
<1>1. /\ si_pc \in {"drop", "undo_drop"}
      /\ SI_Lands(a) => (\A p \in SI_Projects : scheme[p] # clone) /\ gone' = gone \union {clone}
      /\ ~SI_Lands(a) => UNCHANGED gone
      /\ UNCHANGED <<scheme, levels, issue, made, clone, table, body, si_runs, had>>
      /\ (si_pc = "drop" \/ a \in {"broken", "lost"}) => SI_Fails
      /\ ~(si_pc = "drop" \/ a \in {"broken", "lost"}) => SI_Succeeds("undone", "restored")
      /\ si_mishaps' = si_mishaps \union SI_Lost(a) \union SI_Botched(a)
  BY DEF SI_Drop, SI_Still
<1>2. /\ clone = made /\ made > 0 /\ body # NoBody /\ made \in Nat /\ si_runs \in Nat /\ si_runs > 0
      /\ scheme[SI_Target] = 0
      /\ si_pc = "undo_drop" => si_entry = "isolated" /\ si_runs > 1
  BY <1>1 DEF SI_IInv, SI_PhaseTrue, SI_Typed, SI_Projects
<1>3. /\ SI_Lost(a) \union SI_Botched(a) \subseteq {"lost", "cleanup"}
      /\ a # "ok" => "cleanup" \in SI_Botched(a)
  BY DEF SI_Lost, SI_Botched
<1>4. Renamed' <=> Renamed
  BY <1>1, <1>3 DEF Renamed
<1>5. SI_Typed'
  <2>1. gone' \subseteq 1..made
    BY <1>1, <1>2 DEF SI_IInv, SI_Typed
  <2>2. /\ si_pc' = "idle" /\ si_mishaps' \subseteq {"lost", "cleanup", "renamed"}
        /\ si_entry' \in {"none", "isolated", "restored", "rolled_back"}
        /\ si_outcome' \in {"none", "ok", "failed", "undone", "undo_failed", "stopped"}
    BY <1>1, <1>3 DEF SI_IInv, SI_Typed, SI_Fails, SI_Succeeds
  <2> QED
    BY <1>1, <2>1, <2>2 DEF SI_IInv, SI_Typed
<1>6. OneClone'
  BY <1>1 DEF SI_IInv, OneClone
<1>7. SI_PhaseTrue' /\ TableTrue'
  BY <1>1, <1>2 DEF SI_IInv, SI_PhaseTrue, TableTrue, SI_Fails, SI_Succeeds
<1>8. LevelsTrue' /\ IssueTrue'
  BY <1>1, <1>4, SI_LevelsStay
<1>9. RunEnded'
  <2> SUFFICES ASSUME si_mishaps' \intersect {"lost", "cleanup"} = {} PROVE gone' = 1..made
    BY <1>1, <1>2 DEF RunEnded
  <2>1. gone' = gone \union {made}
    BY <1>1, <1>2, <1>3 DEF SI_Lands
  <2>2. \A k \in 1..made : k < made \/ k = made
    BY <1>2
  <2>3. (1..made) \ {made} \subseteq gone
    BY <2>2 DEF SI_IInv, OneClone
  <2> QED
    BY <1>2, <2>1, <2>3 DEF SI_IInv, SI_Typed
<1> QED
  BY <1>5, <1>6, <1>7, <1>8, <1>9 DEF SI_IInv

(* After a level was renamed, the issue may lose its level but not dangle.   *)
LEMMA SI_RenamedKeeps ==
  ASSUME SI_IInv, NEW s \in Schemes, NEW id \in DOMAIN levels[s], NEW name \in LevelNames,
         RenamedElsewhere(s, id, name)
  PROVE  SI_IInv'
<1>1. /\ levels' = [levels EXCEPT ![s][id] = name]
      /\ si_mishaps' = si_mishaps \union {"renamed"}
      /\ UNCHANGED <<scheme, issue, made, gone, body, si_pc, clone, table, si_runs>>
      /\ UNCHANGED <<si_outcome, si_entry, had>>
  BY DEF RenamedElsewhere
<1>2. levels = [t \in Schemes |-> levels[t]]
  BY DEF SI_IInv, SI_Typed
<1>3. /\ levels' = [t \in Schemes |-> levels'[t]]
      /\ \A t \in Schemes : levels'[t] = IF t = s THEN [levels[s] EXCEPT ![id] = name] ELSE levels[t]
  BY <1>1, <1>2
<1>4. \A t \in Schemes : /\ DOMAIN levels'[t] = DOMAIN levels[t]
                         /\ levels'[t] \in [DOMAIN levels[t] -> LevelNames]
  BY <1>3, SI_LevelTypes
<1>5. SI_Typed'
  BY <1>1, <1>3, <1>4 DEF SI_IInv, SI_Typed
<1>6. OneClone' /\ SI_PhaseTrue' /\ RunEnded'
  BY <1>1 DEF SI_IInv, OneClone, SI_PhaseTrue, RunEnded
<1>7. Renamed'
  BY <1>1 DEF Renamed
<1>8. 0 \in Schemes /\ made \in Schemes /\ clone \in Schemes /\ SI_Target \in SI_Projects
  BY SchemeIsolateAssumption DEF SchemeIsolateAssumption, SI_IInv, SI_Typed, Schemes, SI_Projects
<1>9. TableTrue'
  BY <1>1, <1>4, <1>7, <1>8 DEF SI_IInv, TableTrue, TableFrom
<1>10. LevelsTrue' /\ IssueTrue'
  <2>1. PICK t : t = scheme[SI_Target]
    OBVIOUS
  <2>2. t \in Schemes
    BY <1>8, <2>1, SI_WhereItIs
  <2> QED
    BY <1>1, <1>4, <1>7, <2>1, <2>2 DEF SI_IInv, LevelsTrue, IssueTrue
<1> QED
  BY <1>5, <1>6, <1>9, <1>10 DEF SI_IInv

LEMMA SI_JoinKeeps ==
  ASSUME SI_IInv, NEW p \in SI_Others, SI_Join(p)
  PROVE  SI_IInv'
<1>1. /\ scheme' = [scheme EXCEPT ![p] = scheme[SI_Target]]
      /\ UNCHANGED <<levels, issue, made, gone, body, si_pc, clone, table, si_runs>>
      /\ UNCHANGED <<si_outcome, si_entry, had, si_mishaps>>
  BY DEF SI_Join
<1>2. SI_Target \in SI_Projects /\ p \in SI_Projects /\ p # SI_Target
  BY SchemeIsolateAssumption DEF SchemeIsolateAssumption, SI_Projects
<1>3. /\ scheme' \in [SI_Projects -> 0..made] /\ scheme'[SI_Target] = scheme[SI_Target]
      /\ \A q \in SI_Projects : scheme'[q] \in {scheme[q], scheme[SI_Target]}
  BY <1>1, <1>2 DEF SI_IInv, SI_Typed
<1>4. SI_Typed' /\ OneClone'
  BY <1>1, <1>2, <1>3 DEF SI_IInv, SI_Typed, OneClone
<1>5. SI_PhaseTrue' /\ RunEnded'
  BY <1>1, <1>2, <1>3 DEF SI_IInv, SI_PhaseTrue, RunEnded
<1>6. TableTrue'
  BY <1>1 DEF SI_IInv, TableTrue, TableFrom, Renamed
<1>7. LevelsTrue' /\ IssueTrue'
  BY <1>1, <1>3, SI_LevelsStay DEF Renamed
<1> QED
  BY <1>4, <1>5, <1>6, <1>7 DEF SI_IInv

LEMMA SI_NextKeeps == SI_IInv /\ [SI_Next]_sv => SI_IInv'
<1> SUFFICES ASSUME SI_IInv, [SI_Next]_sv PROVE SI_IInv'
  OBVIOUS
<1>1. CASE SI_Preview
  BY <1>1, SI_PreviewKeeps
<1>2. CASE SI_Start
  BY <1>2, SI_StartKeeps
<1>3. CASE SI_Stop
  BY <1>3, SI_StopKeeps
<1>4. ASSUME NEW a \in SI_Answers,
             SI_Create(a) \/ SI_Read(a) \/ SI_Move(a) \/ SI_UndoMove(a) \/ SI_Drop(a)
      PROVE  SI_IInv'
  BY <1>4, SI_CreateKeeps, SI_ReadKeeps, SI_MoveKeeps, SI_UndoMoveKeeps, SI_DropKeeps
<1>5. ASSUME NEW s \in Schemes, NEW name \in LevelNames, NEW id \in DOMAIN levels[s],
             RenamedElsewhere(s, id, name)
      PROVE  SI_IInv'
  BY <1>5, SI_RenamedKeeps
<1>6. ASSUME NEW p \in SI_Others, SI_Join(p) PROVE SI_IInv'
  BY <1>6, SI_JoinKeeps
<1>7. CASE UNCHANGED sv
  <2>1. /\ UNCHANGED <<scheme, levels, issue, made, gone, body, si_pc, clone, table>>
        /\ UNCHANGED <<si_runs, si_outcome, si_entry, had, si_mishaps>>
    BY <1>7 DEF sv, schemeJira
  <2>2. SI_Typed' /\ OneClone' /\ SI_PhaseTrue' /\ RunEnded'
    BY <2>1 DEF SI_IInv, SI_Typed, OneClone, SI_PhaseTrue, RunEnded
  <2>3. TableTrue'
    BY <2>1 DEF SI_IInv, TableTrue, TableFrom, Renamed
  <2>4. LevelsTrue' /\ IssueTrue'
    BY <2>1, SI_LevelsStay DEF Renamed
  <2> QED
    BY <2>2, <2>3, <2>4 DEF SI_IInv
<1> QED
  BY <1>1, <1>2, <1>3, <1>4, <1>5, <1>6, <1>7 DEF SI_Next

(***************************************************************************)
(* The theorems                                                            *)
(***************************************************************************)

(* No run, undo or redo of a whole scheme, wherever it fails, breaks the     *)
(* inductive invariant.                                                      *)
THEOREM SI_Invariance == SI_Spec => []SI_IInv
<1>1. SI_Init => SI_IInv
  BY SI_InitIInv
<1>2. SI_IInv /\ [SI_Next]_sv => SI_IInv'
  BY SI_NextKeeps
<1> QED
  BY <1>1, <1>2, PTL DEF SI_Spec

(* Schemes, clones and runs are what they may be.                            *)
THEOREM SI_TypeCorrect == SI_Spec => []SI_TypeOK
<1>1. SI_IInv => SI_TypeOK
  BY DEF SI_IInv, SI_Typed, OneClone, SI_TypeOK
<1> QED
  BY <1>1, SI_Invariance, PTL

(* An issue with a security level has, in whatever state of a run or an undo,*)
(* a level of the scheme its project is on, and one of the same name unless  *)
(* a level was renamed.                                                      *)
THEOREM LevelsAreKept == SI_Spec => []LevelsKept
<1>1. SI_IInv => LevelsKept
  <2> SUFFICES ASSUME SI_IInv PROVE LevelsKept
    OBVIOUS
  <2>1. PICK t : t = scheme[SI_Target]
    OBVIOUS
  <2>2. t \in Schemes
    BY <2>1, SI_WhereItIs, SchemeIsolateAssumption
       DEF SchemeIsolateAssumption, SI_IInv, SI_Typed, Schemes, SI_Projects
  <2>3. issue # NoLevel => issue \in DOMAIN levels[t] /\ issue.of = t
    BY <2>1, <2>2, SI_LevelTypes DEF SI_IInv, IssueTrue
  <2>4. ~Renamed => /\ issue.name = had
                    /\ issue # NoLevel => levels[t][issue] = issue.name
    BY <2>2, <2>3 DEF SI_IInv, LevelsTrue
  <2>5. issue = NoLevel => issue.name = "none"
    BY DEF NoLevel
  <2> QED
    BY <2>1, <2>3, <2>4, <2>5 DEF LevelsKept, Renamed
<1> QED
  BY <1>1, SI_Invariance, PTL

(* A run that failed and an undo that worked leave the project on its scheme *)
(* and no clone, but for the answers the property names.                     *)
THEOREM ClonesAreDropped == SI_Spec => []NoOrphan
<1>1. SI_IInv => NoOrphan
  <2> SUFFICES ASSUME SI_IInv PROVE NoOrphan
    OBVIOUS
  <2>1. made \in Nat
    BY DEF SI_IInv, SI_Typed
  <2>2. Cardinality(1..made) = made
    BY <2>1, FS_Interval
  <2> QED
    BY <2>2 DEF SI_IInv, RunEnded, NoOrphan
<1> QED
  BY <1>1, SI_Invariance, PTL

(***************************************************************************)
(* A workflow is isolated                                                  *)
(***************************************************************************)

Bodies == [Keys -> {"wf0", "wf1", "wf", Absent}]
RunPhases == {"post_wf", "post_ws", "point", "put", "publish", "put_back", "publish_back",
              "drop_ws", "drop_wf"}
UndoPhases == {"undo_put", "undo_publish", "undo_point", "undo_drop_ws", "undo_drop_wf"}
InPlacePhases == {"put", "publish", "put_back", "publish_back", "undo_put", "undo_publish"}
ClonePhases == {"post_ws", "point", "drop_ws", "undo_point", "undo_drop_ws"}

(* The types; a draft is one of the two bodies of the plan, and only an      *)
(* accepted publication is pending.                                          *)
WI_Typed ==
  /\ assigned \in [Projects -> {"ws0", "ws1", "ws"}]
  /\ mapping \in [{"ws0", "ws1", "ws"} -> Bodies]
  /\ (draft = {} \/ draft \in {{plan.body}, {plan.back}})
  /\ pending \in BOOLEAN /\ (pending => draft # {} /\ "accepted" \in mishaps)
  /\ clones \subseteq {"wf", "ws"}
  /\ pc \in {"idle"} \union RunPhases \union UndoPhases
  /\ undoing \in BOOLEAN /\ runs \in 0..MaxRuns
  /\ outcome \in {"none", "ok", "failed", "undone", "undo_failed", "undo_broken", "stopped"}
  /\ entry \in [op : {"none", "restore", "isolate"}, status : {"none", "active", "rolled_back"}]
  /\ view \in [Projects -> [Types -> {"wf0", "wf1", "wf", Absent}]]

(* The body of a plan leads the issue types it serves to the clone, and the  *)
(* others to where the scheme led them.                                      *)
WI_PlanTrue ==
  /\ plan # NoPlan =>
       /\ plan.mode \in {"clone", "inplace"} /\ plan.body \in Bodies /\ plan.back \in Mappings
       /\ plan.served \subseteq Types
       /\ \A t \in Types :
            Used(plan.body)[t] = IF t \in plan.served THEN "wf" ELSE Used(plan.back)[t]
  /\ plan = NoPlan \/ runs = 0 =>
       /\ pc = "idle" /\ runs = 0 /\ outcome = "none" /\ entry = NoEntry
       /\ draft = {} /\ clones = {}
       /\ mapping["ws0"] \in Mappings /\ assigned[Target] = "ws0"
       /\ view[Target] = Used(mapping["ws0"])
  /\ (plan # NoPlan /\ "edited" \notin mishaps) => view[Target] = Used(plan.back)

(* What the two ways to isolate leave alone.                                 *)
WI_ModeTrue ==
  /\ pc \in InPlacePhases => plan.mode = "inplace"
  /\ pc \in ClonePhases => plan.mode = "clone"
  /\ (plan # NoPlan /\ plan.mode = "inplace") => assigned[Target] = "ws0" /\ "ws" \notin clones
  /\ (plan # NoPlan /\ plan.mode = "clone") =>
       /\ draft = {} /\ mapping["ws0"] \in Mappings
       /\ "edited" \notin mishaps => mapping["ws0"] = plan.back
  /\ assigned[Target] \in {"ws0", "ws"}
  /\ (runs = 0 /\ plan # NoPlan /\ "edited" \notin mishaps) => mapping["ws0"] = plan.back

(* Nobody else is on a scheme that is edited, or on the clone.               *)
WI_OthersTrue ==
  /\ mapping["ws1"] \in Mappings
  /\ "joined" \notin mishaps => \A p \in Others : assigned[p] # "ws"
  /\ (mishaps \intersect {"joined", "unknown"} = {} /\ plan.mode = "inplace") =>
       \A p \in Others : assigned[p] # "ws0"
  /\ OthersKeepWorkflows

(* How far a run has come.                                                   *)
WI_PhaseTrue ==
  /\ pc = "point" => mapping["ws"] = plan.body
  /\ pc = "publish" => draft = {plan.body} /\ ~pending
  /\ pc = "undo_publish" => draft = {plan.back} /\ ~pending
  /\ (pc \in {"undo_drop_ws", "undo_drop_wf"}) => assigned[Target] = "ws0"
  /\ (pc = "undo_drop_wf" /\ plan.mode = "inplace" /\ "accepted" \notin mishaps) =>
       draft = {} /\ mapping["ws0"] = plan.back
  /\ (pc = "undo_drop_wf" /\ "cleanup" \notin mishaps) => "ws" \notin clones
  /\ pc \in UndoPhases => undoing
  /\ outcome = "failed" => runs > 0

(* The first run, up to where it is taken back.                              *)
Plain == mishaps \intersect {"edited", "accepted", "cleanup", "lost"} = {}
WI_FirstTrue ==
  (~undoing /\ Plain /\ pc \in RunPhases) =>
    /\ assigned[Target] = "ws0" /\ mapping["ws0"] = plan.back
    /\ clones = CASE pc = "post_wf" -> {}
                  [] pc \in {"point", "drop_ws"} -> {"wf", "ws"}
                  [] OTHER -> {"wf"}
    /\ pc \in {"post_wf", "put", "drop_wf"} => draft = {}
    /\ pc = "publish_back" => draft = {plan.back}

(* The inductive invariant.                                                  *)
WI_IInv ==
  /\ WI_Typed
  /\ WI_PlanTrue
  /\ WI_ModeTrue
  /\ WI_OthersTrue
  /\ WI_PhaseTrue
  /\ WI_FirstTrue
  /\ OutcomeTrue

(***************************************************************************)
(* Lemmas                                                                  *)
(***************************************************************************)

(* Once there was a run, there is a plan, and it stays.                      *)
LEMMA WI_PlanStays ==
  ASSUME WI_IInv, pc # "idle", UNCHANGED <<plan, runs, view>>, mishaps \subseteq mishaps'
  PROVE  WI_PlanTrue' /\ plan # NoPlan /\ runs > 0
<1>1. plan # NoPlan /\ runs # 0 /\ runs \in Nat
  BY WorkflowIsolateAssumption DEF WorkflowIsolateAssumption, WI_IInv, WI_PlanTrue, WI_Typed
<1> QED
  BY <1>1 DEF WI_IInv, WI_PlanTrue

(* The others keep what they use if only the scheme of an edit in place, and *)
(* the clone, are written.                                                   *)
LEMMA WI_OthersStay ==
  ASSUME WI_IInv, UNCHANGED <<plan, view>>, mishaps \subseteq mishaps',
         \A p \in Others : assigned'[p] = assigned[p],
         mapping'["ws1"] = mapping["ws1"],
         mapping'["ws0"] = mapping["ws0"] \/ plan.mode = "inplace"
  PROVE  WI_OthersTrue'
<1>1. ASSUME NEW p \in Others PROVE p \in Projects /\ assigned[p] \in {"ws0", "ws1", "ws"}
  BY DEF Projects, WI_IInv, WI_Typed
<1>2. OthersKeepWorkflows'
  BY <1>1 DEF WI_IInv, WI_OthersTrue, OthersKeepWorkflows, OthersAsBefore, Uses
<1> QED
  BY <1>2 DEF WI_IInv, WI_OthersTrue

(* Jira keeps the edit of a scheme in use as a draft ...                     *)
LEMMA WI_PutDoes ==
  ASSUME WI_IInv, plan # NoPlan, plan.mode = "inplace", NEW m, NEW a, PutScheme(m, a)
  PROVE  /\ mapping' = mapping
         /\ draft' = IF Lands(a) THEN {m} ELSE draft
         /\ Lands(a) => ~pending
<1>1. InUse("ws0")
  BY DEF WI_IInv, WI_ModeTrue, InUse, Projects
<1> QED
  BY <1>1 DEF PutScheme

(* ... and the draft is what its publication puts into effect.               *)
LEMMA WI_PublishDoes ==
  ASSUME WI_IInv, NEW b, draft = {b}, ~pending, NEW a \in Answers \union {"accepted"}, Publish(a)
  PROVE  /\ mapping' = IF Lands(a) THEN [mapping EXCEPT !["ws0"] = b] ELSE mapping
         /\ draft' = IF Lands(a) THEN {} ELSE draft
         /\ pending' = (a = "accepted")
<1>1. (CHOOSE m \in draft : TRUE) = b /\ draft # {}
  OBVIOUS
<1> QED
  BY <1>1 DEF Publish, Published, WI_IInv, WI_Typed

(* In any case it does no more than that.                                    *)
LEMMA WI_PublishTypes ==
  ASSUME WI_IInv, plan # NoPlan, NEW a \in Answers \union {"accepted"}, Publish(a)
  PROVE  /\ mapping' \in [{"ws0", "ws1", "ws"} -> Bodies]
         /\ mapping'["ws1"] = mapping["ws1"] /\ mapping'["ws"] = mapping["ws"]
         /\ draft' = IF Lands(a) THEN {} ELSE draft
         /\ pending' \in BOOLEAN
         /\ pending' => draft' # {} /\ (pending \/ a = "accepted")
<1>1. /\ mapping \in [{"ws0", "ws1", "ws"} -> Bodies]
      /\ draft = {} \/ draft \in {{plan.body}, {plan.back}}
      /\ pending \in BOOLEAN /\ (pending => draft # {})
  BY DEF WI_IInv, WI_Typed
<1>2. plan.body \in Bodies /\ plan.back \in Bodies
  BY DEF WI_IInv, WI_PlanTrue, Mappings, Bodies
<1>3. draft # {} => (CHOOSE m \in draft : TRUE) \in Bodies
  BY <1>1, <1>2
<1>4. mapping' = mapping \/ (draft # {} /\ mapping' = Published)
  BY DEF Publish
<1>5. /\ mapping' \in [{"ws0", "ws1", "ws"} -> Bodies]
      /\ mapping'["ws1"] = mapping["ws1"] /\ mapping'["ws"] = mapping["ws"]
  BY <1>1, <1>3, <1>4 DEF Published
<1> QED
  BY <1>1, <1>5 DEF Publish, Answers, Lands

(* Whoever is on neither clone uses no clone.                                *)
LEMMA WI_NoClone ==
  ASSUME NEW m \in Mappings, NEW t \in Types
  PROVE  Used(m)[t] # "wf"
<1>1. t \in Keys /\ Default \in Keys
  BY DEF Keys
<1>2. \A k \in Keys : m[k] \in {"wf0", "wf1", Absent}
  BY DEF Mappings
<1> QED
  BY <1>1, <1>2 DEF Used, Absent

(* Who did not join is on a scheme nobody edits.                             *)
LEMMA WI_WhereOthersAre ==
  ASSUME WI_IInv, plan # NoPlan, mishaps \intersect {"joined", "unknown"} = {}, NEW p \in Others
  PROVE  /\ assigned[p] = "ws1" \/ (assigned[p] = "ws0" /\ plan.mode = "clone")
         /\ mapping[assigned[p]] \in Mappings
<1>1. /\ assigned[p] \in {"ws0", "ws1"}
      /\ plan.mode \in {"clone", "inplace"}
      /\ plan.mode = "inplace" => assigned[p] # "ws0"
  BY DEF WI_IInv, WI_Typed, WI_PlanTrue, WI_OthersTrue, Projects
<1>2. mapping["ws1"] \in Mappings /\ (plan.mode = "clone" => mapping["ws0"] \in Mappings)
  BY DEF WI_IInv, WI_ModeTrue, WI_OthersTrue
<1> QED
  BY <1>1, <1>2

(* A project that uses the body of the plan is isolated as it asks for.      *)
LEMMA WI_IsForked ==
  ASSUME WI_IInv, plan # NoPlan, UNCHANGED <<plan, view>>, "edited" \notin mishaps,
         mapping'[assigned'[Target]] = plan.body,
         \A p \in Others : mapping'[assigned'[p]] \in Mappings
  PROVE  ForkedWhenOk'
<1>1. view[Target] = Used(plan.back)
      /\ \A t \in Types :
           Used(plan.body)[t] = IF t \in plan.served THEN "wf" ELSE Used(plan.back)[t]
  BY DEF WI_IInv, WI_PlanTrue
<1> QED
  BY <1>1, WI_NoClone DEF ForkedWhenOk, Uses

(***************************************************************************)
(* The actions                                                             *)
(***************************************************************************)

(* At first there is no plan, and everybody uses what the scheme maps.       *)
LEMMA WI_InitIInv == Init => WI_IInv
<1> SUFFICES ASSUME Init PROVE WI_IInv
  OBVIOUS
<1>1. PICK zero \in Mappings, one \in Mappings :
        mapping = [s \in {"ws0", "ws1", "ws"} |-> IF s = "ws1" THEN one ELSE zero]
  BY DEF Init
<1>2. mapping["ws0"] \in Mappings /\ mapping["ws1"] \in Mappings
  BY <1>1
<1>3. WI_Typed
  <2>1. zero \in Bodies /\ one \in Bodies
    BY DEF Mappings, Bodies
  <2>2. mapping \in [{"ws0", "ws1", "ws"} -> Bodies]
    BY <1>1, <2>1
  <2>3. \A s \in {"ws0", "ws1", "ws"} : Used(mapping[s]) \in [Types -> {"wf0", "wf1", "wf", Absent}]
    BY <2>2 DEF Used, Bodies, Keys
  <2>4. view \in [Projects -> [Types -> {"wf0", "wf1", "wf", Absent}]]
    BY <2>3 DEF Init
  <2>5. assigned \in [Projects -> {"ws0", "ws1", "ws"}]
    BY DEF Init
  <2>6. 0 \in 0..MaxRuns
    BY WorkflowIsolateAssumption DEF WorkflowIsolateAssumption
  <2> QED
    BY <2>2, <2>4, <2>5, <2>6 DEF Init, WI_Typed, NoEntry
<1>4. WI_PlanTrue /\ WI_ModeTrue
  BY <1>2 DEF Init, WI_PlanTrue, WI_ModeTrue, NoPlan, Projects, InPlacePhases, ClonePhases
<1>5. WI_OthersTrue
  <2>1. \A p \in Others : p \in Projects /\ assigned[p] \in {"ws0", "ws1"}
    BY DEF Init, Projects
  <2> QED
    BY <1>2, <2>1 DEF Init, WI_OthersTrue, OthersKeepWorkflows, OthersAsBefore, Uses, NoPlan
<1>6. WI_PhaseTrue /\ WI_FirstTrue /\ OutcomeTrue
  BY DEF Init, WI_PhaseTrue, WI_FirstTrue, RunPhases, UndoPhases, OutcomeTrue, ForkedWhenOk,
         TakenBack
<1> QED
  BY <1>3, <1>4, <1>5, <1>6 DEF WI_IInv

(* What a plan asks for, and nothing else, is done to the issue types.       *)
LEMMA WI_PreviewKeeps == WI_IInv /\ Preview => WI_IInv'
<1> SUFFICES ASSUME WI_IInv, Preview PROVE WI_IInv'
  OBVIOUS
<1>1. /\ plan = NoPlan
      /\ UNCHANGED <<assigned, mapping, draft, pending, clones, pc, undoing, runs>>
      /\ UNCHANGED <<outcome, entry, view>>
  BY DEF Preview, jira
<1>2. PICK m : m = mapping["ws0"]
  OBVIOUS
<1>3. PICK audit \in AuditSays :
        /\ \/ \E w \in {m[k] : k \in Keys} \ {Absent} :
                plan' = Plan(audit.shared, WorkflowBody(m, w), {t \in Types : Used(m)[t] = w})
           \/ \E t \in Types : plan' = Plan(audit.shared, TypeBody(m, t), {t})
        /\ mishaps' = IF audit.known THEN mishaps ELSE mishaps \union {"unknown"}
  BY <1>2 DEF Preview
<1>4. /\ audit.shared \in BOOLEAN
      /\ (audit.known /\ ~audit.shared) => \A p \in Others : assigned[p] # "ws0"
  <2>1. CASE \E p \in Others : assigned[p] = "ws0"
    <3>1. (\E p \in Others : assigned[p] = "ws0") = TRUE /\ (~TRUE) = FALSE
      BY <2>1
    <3>2. AuditSays = {[shared |-> TRUE, known |-> TRUE], [shared |-> FALSE, known |-> ~TRUE]}
      BY <3>1, Zenon DEF AuditSays
    <3>3. audit = [shared |-> TRUE, known |-> TRUE] \/ audit = [shared |-> FALSE, known |-> ~TRUE]
      BY <3>2
    <3>4. audit.shared = TRUE \/ (audit.shared = FALSE /\ audit.known = (~TRUE))
      BY <3>3
    <3> QED
      BY <3>1, <3>4
  <2>2. CASE ~\E p \in Others : assigned[p] = "ws0"
    <3>1. audit.shared = FALSE
      BY <2>2 DEF AuditSays
    <3> QED
      BY <2>2, <3>1
  <2> QED
    BY <2>1, <2>2
<1>5. /\ m \in Mappings /\ assigned[Target] = "ws0" /\ view[Target] = Used(m)
      /\ pc = "idle" /\ runs = 0 /\ outcome = "none" /\ entry = NoEntry
      /\ draft = {} /\ clones = {}
  BY <1>1, <1>2 DEF WI_IInv, WI_PlanTrue
<1>6. PICK wanted, served :
        /\ plan' = Plan(audit.shared, wanted, served)
        /\ wanted \in Bodies /\ served \subseteq Types
        /\ \A t \in Types : Used(wanted)[t] = IF t \in served THEN "wf" ELSE Used(m)[t]
  <2>1. ASSUME NEW w \in {m[k] : k \in Keys} \ {Absent}
        PROVE  /\ WorkflowBody(m, w) \in Bodies
               /\ \A t \in Types : Used(WorkflowBody(m, w))[t] =
                                     IF Used(m)[t] = w THEN "wf" ELSE Used(m)[t]
    BY <1>5, <2>1 DEF WorkflowBody, Bodies, Mappings, Used, Keys, Absent
  <2>2. ASSUME NEW t \in Types
        PROVE  /\ TypeBody(m, t) \in Bodies
               /\ \A u \in Types : Used(TypeBody(m, t))[u] =
                                     IF u \in {t} THEN "wf" ELSE Used(m)[u]
    BY <1>5, WorkflowIsolateAssumption
       DEF WorkflowIsolateAssumption, TypeBody, Bodies, Mappings, Used, Keys, Absent
  <2>3. ASSUME NEW w \in {m[k] : k \in Keys} \ {Absent},
               plan' = Plan(audit.shared, WorkflowBody(m, w), {t \in Types : Used(m)[t] = w})
        PROVE  \E wanted, served :
                 /\ plan' = Plan(audit.shared, wanted, served)
                 /\ wanted \in Bodies /\ served \subseteq Types
                 /\ \A t \in Types : Used(wanted)[t] = IF t \in served THEN "wf" ELSE Used(m)[t]
    <3> WITNESS WorkflowBody(m, w), {t \in Types : Used(m)[t] = w}
    <3> QED
      BY <2>1, <2>3
  <2>4. ASSUME NEW t \in Types, plan' = Plan(audit.shared, TypeBody(m, t), {t})
        PROVE  \E wanted, served :
                 /\ plan' = Plan(audit.shared, wanted, served)
                 /\ wanted \in Bodies /\ served \subseteq Types
                 /\ \A u \in Types : Used(wanted)[u] = IF u \in served THEN "wf" ELSE Used(m)[u]
    <3> WITNESS TypeBody(m, t), {t}
    <3> QED
      BY <2>2, <2>4
  <2> QED
    BY <1>3, <2>3, <2>4
<1>7. /\ plan'.mode = IF audit.shared THEN "clone" ELSE "inplace"
      /\ plan'.body = wanted /\ plan'.back = m /\ plan'.served = served
      /\ plan' # NoPlan
  <2>1. plan' = [mode |-> IF audit.shared THEN "clone" ELSE "inplace",
                 body |-> wanted, back |-> m, served |-> served]
    BY <1>2, <1>6 DEF Plan
  <2> QED
    BY <1>4, <2>1 DEF NoPlan
<1>8. WI_Typed'
  BY <1>1, <1>3, <1>5 DEF WI_IInv, WI_Typed
<1>9. WI_PlanTrue' /\ WI_ModeTrue'
  BY <1>1, <1>2, <1>5, <1>6, <1>7
     DEF WI_IInv, WI_PlanTrue, WI_ModeTrue, InPlacePhases, ClonePhases
<1>10. WI_OthersTrue'
  BY <1>1, <1>3, <1>4, <1>7 DEF WI_IInv, WI_OthersTrue, OthersKeepWorkflows, OthersAsBefore, Uses
<1>11. WI_PhaseTrue' /\ WI_FirstTrue' /\ OutcomeTrue'
  BY <1>1, <1>5 DEF WI_IInv, WI_PhaseTrue, WI_FirstTrue, RunPhases, UndoPhases, OutcomeTrue,
                    ForkedWhenOk, TakenBack
<1> QED
  BY <1>8, <1>9, <1>10, <1>11 DEF WI_IInv

(* A run starts with nothing done.                                           *)
LEMMA WI_ExecuteKeeps == WI_IInv /\ Execute => WI_IInv'
<1> SUFFICES ASSUME WI_IInv, Execute PROVE WI_IInv'
  OBVIOUS
<1>1. /\ plan # NoPlan /\ runs = 0 /\ runs < MaxRuns /\ runs' = 1 /\ undoing' = FALSE
      /\ pc' = "post_wf"
      /\ UNCHANGED <<assigned, mapping, draft, pending, clones, plan, outcome>>
      /\ UNCHANGED <<entry, view, mishaps>>
  BY DEF Execute, Starts, jira
<1>2. WI_Typed'
  <2>1. runs' \in 0..MaxRuns
    BY <1>1, WorkflowIsolateAssumption DEF WorkflowIsolateAssumption
  <2> QED
    BY <1>1, <2>1 DEF WI_IInv, WI_Typed, RunPhases
<1>3. WI_PlanTrue' /\ WI_ModeTrue'
  BY <1>1 DEF WI_IInv, WI_PlanTrue, WI_ModeTrue, InPlacePhases, ClonePhases
<1>4. WI_OthersTrue'
  BY <1>1, WI_OthersStay
<1>5. WI_PhaseTrue' /\ WI_FirstTrue' /\ OutcomeTrue'
  BY <1>1 DEF WI_IInv, WI_PlanTrue, WI_ModeTrue, WI_PhaseTrue, WI_FirstTrue, Plain, RunPhases,
              UndoPhases, OutcomeTrue, ForkedWhenOk, TakenBack
<1> QED
  BY <1>2, <1>3, <1>4, <1>5 DEF WI_IInv

LEMMA WI_UndoKeeps == WI_IInv /\ Undo => WI_IInv'
<1> SUFFICES ASSUME WI_IInv, Undo PROVE WI_IInv'
  OBVIOUS
<1>1. /\ pc = "idle" /\ entry.status = "active" /\ undoing' = TRUE
      /\ runs < MaxRuns /\ runs' = runs + 1
      /\ pc' = IF entry.op = "isolate" THEN "post_wf"
               ELSE IF plan.mode = "inplace" THEN "undo_put" ELSE "undo_point"
      /\ UNCHANGED <<assigned, mapping, draft, pending, clones, plan, outcome>>
      /\ UNCHANGED <<entry, view, mishaps>>
  BY DEF Undo, Starts, jira
<1>2. plan # NoPlan /\ runs # 0 /\ runs \in 0..MaxRuns
  BY <1>1 DEF WI_IInv, WI_Typed, WI_PlanTrue, NoEntry
<1>3. runs' # 0 /\ runs' \in 0..MaxRuns /\ runs' > 0
  BY <1>1, <1>2, WorkflowIsolateAssumption DEF WorkflowIsolateAssumption
<1>4. WI_Typed'
  BY <1>1, <1>3 DEF WI_IInv, WI_Typed, RunPhases, UndoPhases
<1>5. WI_PlanTrue' /\ WI_ModeTrue'
  BY <1>1, <1>2, <1>3 DEF WI_IInv, WI_PlanTrue, WI_ModeTrue, InPlacePhases, ClonePhases
<1>6. WI_OthersTrue'
  BY <1>1, WI_OthersStay
<1>7. WI_PhaseTrue' /\ WI_FirstTrue' /\ OutcomeTrue'
  BY <1>1, <1>3 DEF WI_IInv, WI_PhaseTrue, WI_FirstTrue, RunPhases, UndoPhases, OutcomeTrue,
                    ForkedWhenOk, TakenBack
<1> QED
  BY <1>4, <1>5, <1>6, <1>7 DEF WI_IInv

LEMMA WI_StopKeeps == WI_IInv /\ Stop => WI_IInv'
<1> SUFFICES ASSUME WI_IInv, Stop PROVE WI_IInv'
  OBVIOUS
<1>1. /\ pc # "idle" /\ pc' = "idle" /\ outcome' = "stopped"
      /\ UNCHANGED <<assigned, mapping, draft, pending, clones, plan, undoing>>
      /\ UNCHANGED <<runs, entry, view, mishaps>>
  BY DEF Stop, jira
<1>2. WI_Typed'
  BY <1>1 DEF WI_IInv, WI_Typed
<1>3. WI_PlanTrue' /\ WI_OthersTrue'
  BY <1>1, WI_PlanStays, WI_OthersStay
<1>4. WI_ModeTrue' /\ WI_PhaseTrue'
  BY <1>1, WI_PlanStays
     DEF WI_IInv, WI_ModeTrue, WI_PhaseTrue, InPlacePhases, ClonePhases, UndoPhases
<1>5. WI_FirstTrue' /\ OutcomeTrue'
  BY <1>1 DEF WI_FirstTrue, RunPhases, OutcomeTrue, ForkedWhenOk, TakenBack
<1> QED
  BY <1>2, <1>3, <1>4, <1>5 DEF WI_IInv

LEMMA WI_CreateWorkflowKeeps ==
  ASSUME WI_IInv, NEW a \in Answers, CreateWorkflow(a)
  PROVE  WI_IInv'
<1>1. /\ pc = "post_wf" /\ UNCHANGED <<assigned, mapping, draft, pending>>
      /\ clones' = IF Lands(a) THEN clones \union {"wf"} ELSE clones
      /\ a = "ok" => pc' = (IF plan.mode = "inplace" THEN "put" ELSE "post_ws")
                     /\ UNCHANGED <<outcome, entry>>
      /\ a # "ok" => Fails
      /\ UNCHANGED <<plan, undoing, runs, view>>
      /\ mishaps' = mishaps \union Lost(a)
  BY DEF CreateWorkflow, Still, Post, Goes
<1>2. /\ mishaps \subseteq mishaps'
      /\ mishaps' \subseteq mishaps \union {"lost"}
      /\ Plain' => Plain /\ a \in {"ok", "refused", "broken"}
  BY <1>1 DEF Lost, Plain, Answers
<1>3. WI_PlanTrue' /\ plan # NoPlan /\ runs > 0
  BY <1>1, <1>2, WI_PlanStays
<1>4. WI_Typed'
  BY <1>1, <1>2, <1>3 DEF WI_IInv, WI_Typed, RunPhases, UndoPhases, Fails, WI_PlanTrue
<1>5. WI_OthersTrue'
  BY <1>1, <1>2, <1>3, WI_OthersStay
<1>6. WI_ModeTrue' /\ WI_PhaseTrue'
  BY <1>1, <1>2, <1>3
     DEF WI_IInv, WI_ModeTrue, WI_PhaseTrue, InPlacePhases, ClonePhases, UndoPhases, Fails,
         WI_PlanTrue
<1>7. WI_FirstTrue'
  BY <1>1, <1>2, <1>3 DEF WI_IInv, WI_FirstTrue, RunPhases, Fails, Lands
<1>8. OutcomeTrue'
  <2> SUFFICES ASSUME pc' = "idle", outcome' = "failed", Plain'
               PROVE  assigned'[Target] = "ws0" /\ Uses(Target)' = view'[Target]
                      /\ clones' = {} /\ draft' = {}
    BY <1>1 DEF OutcomeTrue, ForkedWhenOk, TakenBack, NothingLeftOver, Plain, Fails
  <2>1. ~undoing /\ view[Target] = Used(plan.back)
    BY <1>1, <1>2, <1>3 DEF WI_IInv, WI_PlanTrue, Plain, Fails
  <2> QED
    BY <1>1, <1>2, <2>1 DEF WI_IInv, WI_FirstTrue, RunPhases, Uses, Lands
<1> QED
  BY <1>3, <1>4, <1>5, <1>6, <1>7, <1>8 DEF WI_IInv

LEMMA WI_CreateSchemeKeeps ==
  ASSUME WI_IInv, NEW a \in Answers, CreateScheme(a)
  PROVE  WI_IInv'
<1>1. /\ pc = "post_ws" /\ UNCHANGED <<assigned, draft, pending>>
      /\ clones' = IF Lands(a) THEN clones \union {"ws"} ELSE clones
      /\ mapping' = IF Lands(a) THEN [mapping EXCEPT !["ws"] = plan.body] ELSE mapping
      /\ pc' = (IF a = "ok" THEN "point" ELSE "drop_wf") /\ UNCHANGED <<outcome, entry>>
      /\ UNCHANGED <<plan, undoing, runs, view>>
      /\ mishaps' = mishaps \union Lost(a)
  BY DEF CreateScheme, Still, Post, Goes
<1>2. /\ mishaps \subseteq mishaps'
      /\ mishaps' \subseteq mishaps \union {"lost"}
      /\ Plain' => Plain /\ a \in {"ok", "refused", "broken"}
  BY <1>1 DEF Lost, Plain, Answers
<1>3. WI_PlanTrue' /\ plan # NoPlan /\ runs > 0
  BY <1>1, <1>2, WI_PlanStays
<1>4. WI_Typed'
  BY <1>1, <1>2, <1>3 DEF WI_IInv, WI_Typed, RunPhases, UndoPhases, WI_PlanTrue
<1>5. WI_OthersTrue'
  BY <1>1, <1>2, <1>3, WI_OthersStay
<1>6. WI_ModeTrue' /\ WI_PhaseTrue'
  BY <1>1, <1>2, <1>3
     DEF WI_IInv, WI_ModeTrue, WI_PhaseTrue, InPlacePhases, ClonePhases, UndoPhases, WI_Typed,
         Lands
<1>7. WI_FirstTrue'
  BY <1>1, <1>2, <1>3
     DEF WI_IInv, WI_FirstTrue, RunPhases, Lands, WI_Typed, WI_ModeTrue, ClonePhases
<1>8. OutcomeTrue'
  BY <1>1, <1>2, <1>3 DEF OutcomeTrue, ForkedWhenOk, TakenBack
<1> QED
  BY <1>3, <1>4, <1>5, <1>6, <1>7, <1>8 DEF WI_IInv

(* The project moves to a clone that maps the body of the plan.              *)
LEMMA WI_MoveProjectKeeps ==
  ASSUME WI_IInv, NEW a \in Answers, MoveProject(a)
  PROVE  WI_IInv'
<1>1. /\ pc = "point" /\ UNCHANGED <<mapping, draft, pending, clones>>
      /\ assigned' = IF Lands(a) THEN [assigned EXCEPT ![Target] = "ws"] ELSE assigned
      /\ a = "ok" => Succeeds("restore", "ok")
      /\ a # "ok" => pc' = "drop_ws" /\ UNCHANGED <<outcome, entry>>
      /\ UNCHANGED <<plan, undoing, runs, view>>
      /\ mishaps' = mishaps \union Lost(a)
  BY DEF MoveProject, Still, Point, Goes
<1>2. /\ mishaps \subseteq mishaps'
      /\ mishaps' \subseteq mishaps \union {"lost"}
      /\ Plain' => Plain /\ a \in {"ok", "refused", "broken"}
  BY <1>1 DEF Lost, Plain, Answers
<1>3. WI_PlanTrue' /\ plan # NoPlan /\ runs > 0
  BY <1>1, <1>2, WI_PlanStays
<1>4. /\ \A p \in Others : assigned'[p] = assigned[p]
      /\ assigned' \in [Projects -> {"ws0", "ws1", "ws"}]
      /\ assigned'[Target] = IF Lands(a) THEN "ws" ELSE assigned[Target]
  BY <1>1, WorkflowIsolateAssumption DEF WorkflowIsolateAssumption, WI_IInv, WI_Typed, Projects
<1>5. WI_Typed'
  BY <1>1, <1>2, <1>3, <1>4 DEF WI_IInv, WI_Typed, RunPhases, UndoPhases, Succeeds
<1>6. WI_OthersTrue'
  BY <1>1, <1>2, <1>3, <1>4, WI_OthersStay
<1>7. WI_ModeTrue' /\ WI_PhaseTrue'
  BY <1>1, <1>2, <1>3, <1>4
     DEF WI_IInv, WI_ModeTrue, WI_PhaseTrue, InPlacePhases, ClonePhases, UndoPhases, Succeeds
<1>8. WI_FirstTrue'
  BY <1>1, <1>2, <1>3, <1>4 DEF WI_IInv, WI_FirstTrue, RunPhases, Succeeds, Lands
<1>9. OutcomeTrue'
  <2>1. CASE a # "ok"
    BY <1>1, <1>2, <2>1 DEF OutcomeTrue, ForkedWhenOk, TakenBack, Succeeds
  <2>2. CASE outcome' # "ok"
    BY <1>1, <2>1, <2>2 DEF OutcomeTrue, ForkedWhenOk, TakenBack, Succeeds
  <2>3. CASE mishaps' \intersect {"edited", "accepted", "joined", "unknown"} # {}
    BY <1>1, <2>1, <2>3 DEF OutcomeTrue, ForkedWhenOk, TakenBack, Succeeds
  <2>4. CASE a = "ok" /\ mishaps' \intersect {"edited", "accepted", "joined", "unknown"} = {}
    <3>1. mapping'[assigned'[Target]] = plan.body
      BY <1>1, <1>4, <2>4 DEF WI_IInv, WI_PhaseTrue, Lands
    <3>2. ASSUME NEW p \in Others PROVE mapping'[assigned'[p]] \in Mappings
      BY <1>1, <1>2, <1>3, <1>4, <2>4, WI_WhereOthersAre
    <3>3. ForkedWhenOk'
      BY <1>1, <1>2, <1>3, <2>4, <3>1, <3>2, WI_IsForked
    <3> QED
      BY <1>1, <2>4, <3>3 DEF OutcomeTrue, TakenBack, Succeeds
  <2> QED
    BY <2>1, <2>2, <2>3, <2>4
<1> QED
  BY <1>3, <1>5, <1>6, <1>7, <1>8, <1>9 DEF WI_IInv

LEMMA WI_EditSchemeKeeps ==
  ASSUME WI_IInv, NEW a \in Answers, EditScheme(a)
  PROVE  WI_IInv'
<1>1. /\ pc = "put" /\ PutScheme(plan.body, a) /\ UNCHANGED <<assigned, pending, clones>>
      /\ a = "ok" => pc' = "publish"
      /\ a = "refused" => pc' = "drop_wf"
      /\ a \notin {"ok", "refused"} => pc' = "put_back"
      /\ UNCHANGED <<outcome, entry>>
      /\ UNCHANGED <<plan, undoing, runs, view>>
      /\ mishaps' = mishaps \union Lost(a)
  BY DEF EditScheme, Still, Goes
<1>2. /\ mishaps \subseteq mishaps'
      /\ mishaps' \subseteq mishaps \union {"lost"}
      /\ Plain' => Plain /\ a \in {"ok", "refused", "broken"}
  BY <1>1 DEF Lost, Plain, Answers
<1>3. WI_PlanTrue' /\ plan # NoPlan /\ runs > 0
  BY <1>1, <1>2, WI_PlanStays
<1>4. /\ plan.mode = "inplace" /\ mapping' = mapping /\ (Lands(a) => ~pending)
      /\ draft' = IF Lands(a) THEN {plan.body} ELSE draft
  <2>1. plan.mode = "inplace"
    BY <1>1 DEF WI_IInv, WI_ModeTrue, InPlacePhases
  <2> QED
    BY <1>1, <1>3, <2>1, WI_PutDoes
<1>5. WI_Typed'
  BY <1>1, <1>2, <1>3, <1>4 DEF WI_IInv, WI_Typed, RunPhases, UndoPhases
<1>6. WI_OthersTrue'
  BY <1>1, <1>2, <1>3, <1>4, WI_OthersStay
<1>7. WI_ModeTrue' /\ WI_PhaseTrue'
  BY <1>1, <1>2, <1>3, <1>4
     DEF WI_IInv, WI_ModeTrue, WI_PhaseTrue, InPlacePhases, ClonePhases, UndoPhases, Lands
<1>8. WI_FirstTrue'
  BY <1>1, <1>2, <1>3, <1>4 DEF WI_IInv, WI_FirstTrue, RunPhases, Lands
<1>9. OutcomeTrue'
  BY <1>1, <1>2, <1>3, <1>4 DEF OutcomeTrue, ForkedWhenOk, TakenBack
<1> QED
  BY <1>3, <1>5, <1>6, <1>7, <1>8, <1>9 DEF WI_IInv

LEMMA WI_PutBackKeeps ==
  ASSUME WI_IInv, NEW a \in Answers, PutBack(a)
  PROVE  WI_IInv'
<1>1. /\ pc = "put_back" /\ PutScheme(plan.back, a) /\ UNCHANGED <<assigned, pending, clones>>
      /\ pc' = (IF Broke(a) THEN "drop_wf" ELSE "publish_back") /\ UNCHANGED <<outcome, entry>>
      /\ UNCHANGED <<plan, undoing, runs, view>>
      /\ mishaps' = mishaps \union Lost(a) \union Botched(a)
  BY DEF PutBack, Still, Goes
<1>2. /\ mishaps \subseteq mishaps'
      /\ mishaps' \subseteq mishaps \union {"lost", "cleanup"}
      /\ Plain' => Plain /\ a = "ok"
      /\ a # "ok" => "cleanup" \in mishaps'
  BY <1>1 DEF Lost, Botched, Plain, Answers
<1>3. WI_PlanTrue' /\ plan # NoPlan /\ runs > 0
  BY <1>1, <1>2, WI_PlanStays
<1>4. /\ plan.mode = "inplace" /\ mapping' = mapping /\ (Lands(a) => ~pending)
      /\ draft' = IF Lands(a) THEN {plan.back} ELSE draft
  <2>1. plan.mode = "inplace"
    BY <1>1 DEF WI_IInv, WI_ModeTrue, InPlacePhases
  <2> QED
    BY <1>1, <1>3, <2>1, WI_PutDoes
<1>5. WI_Typed'
  BY <1>1, <1>2, <1>3, <1>4 DEF WI_IInv, WI_Typed, RunPhases, UndoPhases
<1>6. WI_OthersTrue'
  BY <1>1, <1>2, <1>3, <1>4, WI_OthersStay
<1>7. WI_ModeTrue' /\ WI_PhaseTrue'
  BY <1>1, <1>2, <1>3, <1>4
     DEF WI_IInv, WI_ModeTrue, WI_PhaseTrue, InPlacePhases, ClonePhases, UndoPhases
<1>8. WI_FirstTrue'
  BY <1>1, <1>2, <1>3, <1>4 DEF WI_IInv, WI_FirstTrue, RunPhases, Lands, Broke
<1>9. OutcomeTrue'
  BY <1>1, <1>2, <1>3, <1>4 DEF OutcomeTrue, ForkedWhenOk, TakenBack
<1> QED
  BY <1>3, <1>5, <1>6, <1>7, <1>8, <1>9 DEF WI_IInv

LEMMA WI_DropSchemeKeeps ==
  ASSUME WI_IInv, NEW a \in Answers, DropScheme(a)
  PROVE  WI_IInv'
<1>1. /\ pc = "drop_ws" /\ UNCHANGED <<assigned, mapping, draft, pending>>
      /\ clones' = IF Lands(a) THEN clones \ {"ws"} ELSE clones
      /\ pc' = "drop_wf" /\ UNCHANGED <<outcome, entry>>
      /\ UNCHANGED <<plan, undoing, runs, view>>
      /\ mishaps' = mishaps \union Lost(a) \union Botched(a)
  BY DEF DropScheme, Still, Delete, Goes
<1>2. /\ mishaps \subseteq mishaps'
      /\ mishaps' \subseteq mishaps \union {"lost", "cleanup"}
      /\ Plain' => Plain /\ a = "ok"
      /\ a # "ok" => "cleanup" \in mishaps'
  BY <1>1 DEF Lost, Botched, Plain, Answers
<1>3. WI_PlanTrue' /\ plan # NoPlan /\ runs > 0
  BY <1>1, <1>2, WI_PlanStays
<1>4. WI_Typed'
  BY <1>1, <1>2, <1>3 DEF WI_IInv, WI_Typed, RunPhases, UndoPhases
<1>5. WI_OthersTrue'
  BY <1>1, <1>2, <1>3, WI_OthersStay
<1>6. WI_ModeTrue' /\ WI_PhaseTrue'
  BY <1>1, <1>2, <1>3
     DEF WI_IInv, WI_ModeTrue, WI_PhaseTrue, InPlacePhases, ClonePhases, UndoPhases
<1>7. WI_FirstTrue'
  BY <1>1, <1>2, <1>3 DEF WI_IInv, WI_FirstTrue, RunPhases, Lands, WI_ModeTrue, ClonePhases
<1>8. OutcomeTrue'
  BY <1>1, <1>2, <1>3 DEF OutcomeTrue, ForkedWhenOk, TakenBack
<1> QED
  BY <1>3, <1>4, <1>5, <1>6, <1>7, <1>8 DEF WI_IInv

(* The last step of a cleanup: with it everything is taken back.             *)
LEMMA WI_DropWorkflowKeeps ==
  ASSUME WI_IInv, NEW a \in Answers, DropWorkflow(a)
  PROVE  WI_IInv'
<1>1. /\ pc = "drop_wf" /\ UNCHANGED <<assigned, mapping, draft, pending>>
      /\ clones' = IF Lands(a) THEN clones \ {"wf"} ELSE clones
      /\ Fails
      /\ UNCHANGED <<plan, undoing, runs, view>>
      /\ mishaps' = mishaps \union Lost(a) \union Botched(a)
  BY DEF DropWorkflow, Still, Delete
<1>2. /\ mishaps \subseteq mishaps'
      /\ mishaps' \subseteq mishaps \union {"lost", "cleanup"}
      /\ Plain' => Plain /\ a = "ok"
      /\ a # "ok" => "cleanup" \in mishaps'
  BY <1>1 DEF Lost, Botched, Plain, Answers
<1>3. WI_PlanTrue' /\ plan # NoPlan /\ runs > 0
  BY <1>1, <1>2, WI_PlanStays
<1>4. WI_Typed'
  BY <1>1, <1>2, <1>3 DEF WI_IInv, WI_Typed, RunPhases, UndoPhases, Fails
<1>5. WI_OthersTrue'
  BY <1>1, <1>2, <1>3, WI_OthersStay
<1>6. WI_ModeTrue' /\ WI_PhaseTrue'
  BY <1>1, <1>2, <1>3
     DEF WI_IInv, WI_ModeTrue, WI_PhaseTrue, InPlacePhases, ClonePhases, UndoPhases, Fails
<1>7. WI_FirstTrue'
  BY <1>1, <1>2, <1>3 DEF WI_IInv, WI_FirstTrue, RunPhases, Fails
<1>8. OutcomeTrue'
  <2> SUFFICES ASSUME pc' = "idle", outcome' = "failed", Plain'
               PROVE  assigned'[Target] = "ws0" /\ Uses(Target)' = view'[Target]
                      /\ clones' = {} /\ draft' = {}
    BY <1>1 DEF OutcomeTrue, ForkedWhenOk, TakenBack, NothingLeftOver, Plain, Fails
  <2>1. ~undoing /\ view[Target] = Used(plan.back)
    BY <1>1, <1>2, <1>3 DEF WI_IInv, WI_PlanTrue, Plain, Fails
  <2> QED
    BY <1>1, <1>2, <2>1 DEF WI_IInv, WI_FirstTrue, RunPhases, Uses, Lands
<1> QED
  BY <1>3, <1>4, <1>5, <1>6, <1>7, <1>8 DEF WI_IInv

LEMMA WI_UndoEditKeeps ==
  ASSUME WI_IInv, NEW a \in Answers, UndoEdit(a)
  PROVE  WI_IInv'
<1>1. /\ pc = "undo_put" /\ PutScheme(plan.back, a) /\ UNCHANGED <<assigned, pending, clones>>
      /\ Onwards(a, "undo_publish")
      /\ UNCHANGED <<plan, undoing, runs, view>>
      /\ mishaps' = mishaps \union Lost(a)
  BY DEF UndoEdit, Still
<1>2. /\ mishaps \subseteq mishaps'
      /\ mishaps' \subseteq mishaps \union {"lost"}
      /\ Plain' => Plain /\ a \in {"ok", "refused", "broken"}
  BY <1>1 DEF Lost, Plain, Answers
<1>3. WI_PlanTrue' /\ plan # NoPlan /\ runs > 0
  BY <1>1, <1>2, WI_PlanStays
<1>4. /\ plan.mode = "inplace" /\ mapping' = mapping /\ (Lands(a) => ~pending)
      /\ draft' = IF Lands(a) THEN {plan.back} ELSE draft
  <2>1. plan.mode = "inplace"
    BY <1>1 DEF WI_IInv, WI_ModeTrue, InPlacePhases
  <2> QED
    BY <1>1, <1>3, <2>1, WI_PutDoes
<1>5. WI_Typed'
  BY <1>1, <1>2, <1>3, <1>4
     DEF WI_IInv, WI_Typed, RunPhases, UndoPhases, Onwards, BreaksOff, Fails, Goes
<1>6. WI_OthersTrue'
  BY <1>1, <1>2, <1>3, <1>4, WI_OthersStay
<1>7. WI_ModeTrue' /\ WI_PhaseTrue'
  BY <1>1, <1>2, <1>3, <1>4
     DEF WI_IInv, WI_ModeTrue, WI_PhaseTrue, InPlacePhases, ClonePhases, UndoPhases, Onwards,
         BreaksOff, Fails, Goes, Lands, Broke, Answers
<1>8. WI_FirstTrue'
  BY <1>1, <1>2, <1>3, <1>4 DEF WI_IInv, WI_FirstTrue, RunPhases, Onwards, BreaksOff, Fails, Goes
<1>9. OutcomeTrue'
  BY <1>1, <1>2, <1>3, <1>4
     DEF OutcomeTrue, ForkedWhenOk, TakenBack, Onwards, BreaksOff, Fails, Goes, WI_IInv,
         WI_PhaseTrue, UndoPhases
<1> QED
  BY <1>3, <1>5, <1>6, <1>7, <1>8, <1>9 DEF WI_IInv

LEMMA WI_UndoMoveKeeps ==
  ASSUME WI_IInv, NEW a \in Answers, UndoMove(a)
  PROVE  WI_IInv'
<1>1. /\ pc = "undo_point" /\ UNCHANGED <<mapping, draft, pending, clones>>
      /\ assigned' = IF Lands(a) THEN [assigned EXCEPT ![Target] = "ws0"] ELSE assigned
      /\ Onwards(a, "undo_drop_ws")
      /\ UNCHANGED <<plan, undoing, runs, view>>
      /\ mishaps' = mishaps \union Lost(a)
  BY DEF UndoMove, Still, Point
<1>2. /\ mishaps \subseteq mishaps'
      /\ mishaps' \subseteq mishaps \union {"lost"}
      /\ Plain' => Plain /\ a \in {"ok", "refused", "broken"}
  BY <1>1 DEF Lost, Plain, Answers
<1>3. WI_PlanTrue' /\ plan # NoPlan /\ runs > 0
  BY <1>1, <1>2, WI_PlanStays
<1>4. /\ \A p \in Others : assigned'[p] = assigned[p]
      /\ assigned' \in [Projects -> {"ws0", "ws1", "ws"}]
      /\ assigned'[Target] = IF Lands(a) THEN "ws0" ELSE assigned[Target]
  BY <1>1, WorkflowIsolateAssumption DEF WorkflowIsolateAssumption, WI_IInv, WI_Typed, Projects
<1>5. WI_Typed'
  BY <1>1, <1>2, <1>3, <1>4
     DEF WI_IInv, WI_Typed, RunPhases, UndoPhases, Onwards, BreaksOff, Fails, Goes
<1>6. WI_OthersTrue'
  BY <1>1, <1>2, <1>3, <1>4, WI_OthersStay
<1>7. WI_ModeTrue' /\ WI_PhaseTrue'
  BY <1>1, <1>2, <1>3, <1>4
     DEF WI_IInv, WI_ModeTrue, WI_PhaseTrue, InPlacePhases, ClonePhases, UndoPhases, Onwards,
         BreaksOff, Fails, Goes, Lands, Broke, Answers
<1>8. WI_FirstTrue'
  BY <1>1, <1>2, <1>3, <1>4 DEF WI_IInv, WI_FirstTrue, RunPhases, Onwards, BreaksOff, Fails, Goes
<1>9. OutcomeTrue'
  BY <1>1, <1>2, <1>3, <1>4
     DEF OutcomeTrue, ForkedWhenOk, TakenBack, Onwards, BreaksOff, Fails, Goes, WI_IInv,
         WI_PhaseTrue, UndoPhases
<1> QED
  BY <1>3, <1>5, <1>6, <1>7, <1>8, <1>9 DEF WI_IInv

LEMMA WI_UndoDropSchemeKeeps ==
  ASSUME WI_IInv, NEW a \in Answers, UndoDropScheme(a)
  PROVE  WI_IInv'
<1>1. /\ pc = "undo_drop_ws" /\ UNCHANGED <<assigned, mapping, draft, pending>>
      /\ clones' = IF Lands(a) THEN clones \ {"ws"} ELSE clones
      /\ Broke(a) => BreaksOff
      /\ ~Broke(a) => pc' = "undo_drop_wf" /\ UNCHANGED <<outcome, entry>>
      /\ UNCHANGED <<plan, undoing, runs, view>>
      /\ mishaps' = mishaps \union Lost(a) \union Botched(a)
  BY DEF UndoDropScheme, Still, Delete, Goes
<1>2. /\ mishaps \subseteq mishaps'
      /\ mishaps' \subseteq mishaps \union {"lost", "cleanup"}
      /\ Plain' => Plain /\ a = "ok"
      /\ a # "ok" => "cleanup" \in mishaps'
  BY <1>1 DEF Lost, Botched, Plain, Answers
<1>3. WI_PlanTrue' /\ plan # NoPlan /\ runs > 0
  BY <1>1, <1>2, WI_PlanStays
<1>4. WI_Typed'
  BY <1>1, <1>2, <1>3 DEF WI_IInv, WI_Typed, RunPhases, UndoPhases, BreaksOff
<1>5. WI_OthersTrue'
  BY <1>1, <1>2, <1>3, WI_OthersStay
<1>6. WI_ModeTrue' /\ WI_PhaseTrue'
  BY <1>1, <1>2, <1>3
     DEF WI_IInv, WI_ModeTrue, WI_PhaseTrue, InPlacePhases, ClonePhases, UndoPhases, BreaksOff,
         Lands
<1>7. WI_FirstTrue'
  BY <1>1, <1>2, <1>3 DEF WI_IInv, WI_FirstTrue, RunPhases, BreaksOff
<1>8. OutcomeTrue'
  BY <1>1, <1>2, <1>3 DEF OutcomeTrue, ForkedWhenOk, TakenBack, BreaksOff
<1> QED
  BY <1>3, <1>4, <1>5, <1>6, <1>7, <1>8 DEF WI_IInv

(* The last step of an undo.                                                 *)
LEMMA WI_UndoDropWorkflowKeeps ==
  ASSUME WI_IInv, NEW a \in Answers, UndoDropWorkflow(a)
  PROVE  WI_IInv'
<1>1. /\ pc = "undo_drop_wf" /\ UNCHANGED <<assigned, mapping, draft, pending>>
      /\ clones' = IF Lands(a) THEN clones \ {"wf"} ELSE clones
      /\ Succeeds("isolate", "undone")
      /\ UNCHANGED <<plan, undoing, runs, view>>
      /\ mishaps' = mishaps \union Lost(a) \union Botched(a)
  BY DEF UndoDropWorkflow, Still, Delete
<1>2. /\ mishaps \subseteq mishaps'
      /\ mishaps' \subseteq mishaps \union {"lost", "cleanup"}
      /\ Plain' => Plain /\ a = "ok"
      /\ a # "ok" => "cleanup" \in mishaps'
  BY <1>1 DEF Lost, Botched, Plain, Answers
<1>3. WI_PlanTrue' /\ plan # NoPlan /\ runs > 0
  BY <1>1, <1>2, WI_PlanStays
<1>4. WI_Typed'
  BY <1>1, <1>2, <1>3 DEF WI_IInv, WI_Typed, RunPhases, UndoPhases, Succeeds
<1>5. WI_OthersTrue'
  BY <1>1, <1>2, <1>3, WI_OthersStay
<1>6. WI_ModeTrue' /\ WI_PhaseTrue'
  BY <1>1, <1>2, <1>3
     DEF WI_IInv, WI_ModeTrue, WI_PhaseTrue, InPlacePhases, ClonePhases, UndoPhases, Succeeds
<1>7. WI_FirstTrue'
  BY <1>1, <1>2, <1>3 DEF WI_IInv, WI_FirstTrue, RunPhases, Succeeds
<1>8. OutcomeTrue'
  <2> SUFFICES ASSUME mishaps' \intersect {"edited", "accepted"} = {}
               PROVE  /\ assigned[Target] = "ws0" /\ Used(mapping["ws0"]) = view[Target]
                      /\ mishaps' \intersect {"cleanup", "lost"} = {} => clones' = {} /\ draft = {}
    BY <1>1 DEF OutcomeTrue, ForkedWhenOk, TakenBack, NothingLeftOver, Uses, Succeeds
  <2>1. /\ assigned[Target] = "ws0" /\ plan.mode \in {"clone", "inplace"}
        /\ mishaps \intersect {"edited", "accepted"} = {}
    BY <1>1, <1>2, <1>3 DEF WI_IInv, WI_PlanTrue, WI_PhaseTrue
  <2>2. mapping["ws0"] = plan.back /\ draft = {} /\ view[Target] = Used(plan.back)
    BY <1>1, <1>3, <2>1 DEF WI_IInv, WI_PlanTrue, WI_ModeTrue, WI_PhaseTrue
  <2>3. "cleanup" \notin mishaps' => clones' = {}
    BY <1>1, <1>2 DEF WI_IInv, WI_Typed, WI_PhaseTrue, Lands
  <2> QED
    BY <2>1, <2>2, <2>3
<1> QED
  BY <1>3, <1>4, <1>5, <1>6, <1>7, <1>8 DEF WI_IInv

(* The edit in place takes effect.                                           *)
LEMMA WI_PublishEditKeeps ==
  ASSUME WI_IInv, NEW a \in Answers \union {"accepted"}, PublishEdit(a)
  PROVE  WI_IInv'
<1>1. /\ pc = "publish" /\ Publish(a) /\ UNCHANGED <<assigned, clones>>
      /\ a \in {"ok", "accepted"} => Succeeds("restore", "ok")
      /\ a \notin {"ok", "accepted"} => pc' = "put_back" /\ UNCHANGED <<outcome, entry>>
      /\ UNCHANGED <<plan, undoing, runs, view>>
      /\ mishaps' = mishaps \union Lost(a) \union Accepted(a)
  BY DEF PublishEdit, Still, Goes
<1>2. /\ mishaps \subseteq mishaps'
      /\ mishaps' \subseteq mishaps \union {"lost", "accepted"}
      /\ Plain' => Plain /\ a \in {"ok", "refused", "broken"}
      /\ a = "accepted" => "accepted" \in mishaps'
  BY <1>1 DEF Lost, Accepted, Plain, Answers
<1>3. WI_PlanTrue' /\ plan # NoPlan /\ runs > 0
  BY <1>1, <1>2, WI_PlanStays
<1>4. /\ mapping' = IF Lands(a) THEN [mapping EXCEPT !["ws0"] = plan.body] ELSE mapping
      /\ draft' = IF Lands(a) THEN {} ELSE draft
      /\ pending' = (a = "accepted") /\ draft # {} /\ plan.mode = "inplace"
  <2>1. draft = {plan.body} /\ ~pending /\ plan.mode = "inplace"
    BY <1>1 DEF WI_IInv, WI_PhaseTrue, WI_ModeTrue, InPlacePhases
  <2> QED
    BY <1>1, <2>1, WI_PublishDoes
<1>5. WI_Typed'
  <2>1. mapping' \in [{"ws0", "ws1", "ws"} -> Bodies] /\ pending' \in BOOLEAN
    BY <1>1, <1>3, WI_PublishTypes
  <2>2. pending' => draft' # {} /\ "accepted" \in mishaps'
    BY <1>1, <1>2, <1>3, WI_PublishTypes DEF WI_IInv, WI_Typed
  <2>3. draft' = {} \/ draft' = draft
    BY <1>1, <1>3, WI_PublishTypes
  <2> QED
    BY <1>1, <1>2, <1>3, <2>1, <2>2, <2>3
       DEF WI_IInv, WI_Typed, RunPhases, UndoPhases, Succeeds, Lands
<1>6. WI_OthersTrue'
  BY <1>1, <1>2, <1>3, <1>4, WI_OthersStay
<1>7. WI_ModeTrue' /\ WI_PhaseTrue'
  BY <1>1, <1>2, <1>3, <1>4
     DEF WI_IInv, WI_ModeTrue, WI_PhaseTrue, InPlacePhases, ClonePhases, UndoPhases, Succeeds
<1>8. WI_FirstTrue'
  BY <1>1, <1>2, <1>3, <1>4 DEF WI_IInv, WI_FirstTrue, RunPhases, Succeeds, Lands
<1>9. OutcomeTrue'
  <2>1. CASE a # "ok"
    BY <1>1, <1>2, <2>1 DEF OutcomeTrue, ForkedWhenOk, TakenBack, Succeeds
  <2>2. CASE outcome' # "ok"
    BY <1>1, <2>1, <2>2 DEF OutcomeTrue, ForkedWhenOk, TakenBack, Succeeds
  <2>3. CASE mishaps' \intersect {"edited", "accepted", "joined", "unknown"} # {}
    BY <1>1, <2>1, <2>3 DEF OutcomeTrue, ForkedWhenOk, TakenBack, Succeeds
  <2>4. CASE a = "ok" /\ mishaps' \intersect {"edited", "accepted", "joined", "unknown"} = {}
    <3>1. mapping'[assigned'[Target]] = plan.body
      BY <1>1, <1>3, <1>4, <2>4 DEF WI_IInv, WI_Typed, WI_ModeTrue, Lands
    <3>2. ASSUME NEW p \in Others PROVE mapping'[assigned'[p]] \in Mappings
      BY <1>1, <1>2, <1>3, <1>4, <2>4, WI_WhereOthersAre DEF WI_IInv, WI_Typed
    <3>3. ForkedWhenOk'
      BY <1>1, <1>2, <1>3, <2>4, <3>1, <3>2, WI_IsForked
    <3> QED
      BY <1>1, <2>4, <3>3 DEF OutcomeTrue, TakenBack, Succeeds
  <2> QED
    BY <2>1, <2>2, <2>3, <2>4
<1> QED
  BY <1>3, <1>5, <1>6, <1>7, <1>8, <1>9 DEF WI_IInv

LEMMA WI_PublishBackKeeps ==
  ASSUME WI_IInv, NEW a \in Answers \union {"accepted"}, PublishBack(a)
  PROVE  WI_IInv'
<1>1. /\ pc = "publish_back" /\ Publish(a) /\ UNCHANGED <<assigned, clones>>
      /\ pc' = "drop_wf" /\ UNCHANGED <<outcome, entry>>
      /\ UNCHANGED <<plan, undoing, runs, view>>
      /\ mishaps' = mishaps \union Lost(a) \union Botched(a) \union Accepted(a)
  BY DEF PublishBack, Still, Goes
<1>2. /\ mishaps \subseteq mishaps'
      /\ mishaps' \subseteq mishaps \union {"lost", "cleanup", "accepted"}
      /\ Plain' => Plain /\ a = "ok"
      /\ a = "accepted" => "accepted" \in mishaps'
      /\ a # "ok" => "cleanup" \in mishaps'
  BY <1>1 DEF Lost, Botched, Accepted, Plain, Answers
<1>3. WI_PlanTrue' /\ plan # NoPlan /\ runs > 0
  BY <1>1, <1>2, WI_PlanStays
<1>4. mapping'["ws1"] = mapping["ws1"] /\ plan.mode = "inplace"
  BY <1>1, <1>3, WI_PublishTypes DEF WI_IInv, WI_ModeTrue, InPlacePhases
<1>5. WI_Typed'
  <2>1. mapping' \in [{"ws0", "ws1", "ws"} -> Bodies] /\ pending' \in BOOLEAN
    BY <1>1, <1>3, WI_PublishTypes
  <2>2. pending' => draft' # {} /\ "accepted" \in mishaps'
    BY <1>1, <1>2, <1>3, WI_PublishTypes DEF WI_IInv, WI_Typed
  <2>3. draft' = {} \/ draft' = draft
    BY <1>1, <1>3, WI_PublishTypes
  <2> QED
    BY <1>1, <1>2, <1>3, <2>1, <2>2, <2>3 DEF WI_IInv, WI_Typed, RunPhases, UndoPhases, Lands
<1>6. WI_OthersTrue'
  BY <1>1, <1>2, <1>3, <1>4, WI_OthersStay
<1>7. WI_ModeTrue' /\ WI_PhaseTrue'
  BY <1>1, <1>2, <1>3, <1>4
     DEF WI_IInv, WI_ModeTrue, WI_PhaseTrue, InPlacePhases, ClonePhases, UndoPhases
<1>8. WI_FirstTrue'
  <2> SUFFICES ASSUME ~undoing, Plain'
               PROVE  /\ assigned[Target] = "ws0" /\ mapping'["ws0"] = plan.back
                      /\ clones = {"wf"} /\ draft' = {}
    BY <1>1 DEF WI_FirstTrue, RunPhases
  <2>1. draft = {plan.back} /\ a = "ok" /\ assigned[Target] = "ws0" /\ clones = {"wf"}
    BY <1>1, <1>2 DEF WI_IInv, WI_FirstTrue, RunPhases
  <2>2. ~pending
    BY <1>1, <1>2, <2>1 DEF Publish
  <2>3. mapping' = [mapping EXCEPT !["ws0"] = plan.back] /\ draft' = {}
    BY <1>1, <2>1, <2>2, WI_PublishDoes DEF Lands
  <2> QED
    BY <1>1, <2>1, <2>3 DEF WI_IInv, WI_Typed
<1>9. OutcomeTrue'
  BY <1>1, <1>2, <1>3, <1>4 DEF OutcomeTrue, ForkedWhenOk, TakenBack
<1> QED
  BY <1>3, <1>5, <1>6, <1>7, <1>8, <1>9 DEF WI_IInv

LEMMA WI_UndoPublishKeeps ==
  ASSUME WI_IInv, NEW a \in Answers \union {"accepted"}, UndoPublish(a)
  PROVE  WI_IInv'
<1>1. /\ pc = "undo_publish" /\ Publish(a) /\ UNCHANGED <<assigned, clones>>
      /\ Onwards(a, "undo_drop_wf")
      /\ UNCHANGED <<plan, undoing, runs, view>>
      /\ mishaps' = mishaps \union Lost(a) \union Accepted(a)
  BY DEF UndoPublish, Still
<1>2. /\ mishaps \subseteq mishaps'
      /\ mishaps' \subseteq mishaps \union {"lost", "accepted"}
      /\ Plain' => Plain /\ a \in {"ok", "refused", "broken"}
      /\ a = "accepted" => "accepted" \in mishaps'
  BY <1>1 DEF Lost, Accepted, Plain, Answers
<1>3. WI_PlanTrue' /\ plan # NoPlan /\ runs > 0
  BY <1>1, <1>2, WI_PlanStays
<1>4. /\ mapping' = IF Lands(a) THEN [mapping EXCEPT !["ws0"] = plan.back] ELSE mapping
      /\ draft' = IF Lands(a) THEN {} ELSE draft
      /\ pending' = (a = "accepted") /\ draft # {} /\ plan.mode = "inplace"
  <2>1. draft = {plan.back} /\ ~pending /\ plan.mode = "inplace"
    BY <1>1 DEF WI_IInv, WI_PhaseTrue, WI_ModeTrue, InPlacePhases
  <2> QED
    BY <1>1, <2>1, WI_PublishDoes
<1>5. WI_Typed'
  <2>1. mapping' \in [{"ws0", "ws1", "ws"} -> Bodies] /\ pending' \in BOOLEAN
    BY <1>1, <1>3, WI_PublishTypes
  <2>2. pending' => draft' # {} /\ "accepted" \in mishaps'
    BY <1>1, <1>2, <1>3, WI_PublishTypes DEF WI_IInv, WI_Typed
  <2>3. draft' = {} \/ draft' = draft
    BY <1>1, <1>3, WI_PublishTypes
  <2> QED
    BY <1>1, <1>2, <1>3, <2>1, <2>2, <2>3
       DEF WI_IInv, WI_Typed, RunPhases, UndoPhases, Onwards, BreaksOff, Fails, Goes, Lands
<1>6. WI_OthersTrue'
  BY <1>1, <1>2, <1>3, <1>4, WI_OthersStay
<1>7. WI_ModeTrue' /\ WI_PhaseTrue'
  BY <1>1, <1>2, <1>3, <1>4
     DEF WI_IInv, WI_ModeTrue, WI_PhaseTrue, InPlacePhases, ClonePhases, UndoPhases, Onwards,
         BreaksOff, Fails, Goes, Lands, Broke, Answers, WI_Typed
<1>8. WI_FirstTrue'
  BY <1>1, <1>2, <1>3, <1>4 DEF WI_IInv, WI_FirstTrue, RunPhases, Onwards, BreaksOff, Fails, Goes
<1>9. OutcomeTrue'
  BY <1>1, <1>2, <1>3, <1>4
     DEF OutcomeTrue, ForkedWhenOk, TakenBack, Onwards, BreaksOff, Fails, Goes, WI_IInv,
         WI_PhaseTrue, UndoPhases
<1> QED
  BY <1>3, <1>5, <1>6, <1>7, <1>8, <1>9 DEF WI_IInv

(* An accepted publication may come through at any time.                     *)
LEMMA WI_PublicationEndsKeeps == WI_IInv /\ PublicationEnds => WI_IInv'
<1> SUFFICES ASSUME WI_IInv, PublicationEnds PROVE WI_IInv'
  OBVIOUS
<1>1. /\ pending /\ pending' = FALSE
      /\ \/ mapping' = Published /\ draft' = {}
         \/ UNCHANGED <<mapping, draft>>
      /\ UNCHANGED <<assigned, clones, plan, pc, undoing, runs, outcome, entry, view, mishaps>>
  BY DEF PublicationEnds, run
<1>2. /\ draft # {} /\ "accepted" \in mishaps /\ plan # NoPlan /\ runs # 0
      /\ draft \in {{plan.body}, {plan.back}}
  BY <1>1 DEF WI_IInv, WI_Typed, WI_PlanTrue
<1>3. plan.mode = "inplace" /\ plan.body \in Bodies /\ plan.back \in Bodies
  BY <1>2 DEF WI_IInv, WI_PlanTrue, WI_ModeTrue, Mappings, Bodies
<1>4. /\ mapping' \in [{"ws0", "ws1", "ws"} -> Bodies]
      /\ mapping'["ws1"] = mapping["ws1"] /\ mapping'["ws"] = mapping["ws"]
  <2>1. (CHOOSE m \in draft : TRUE) \in Bodies
    BY <1>2, <1>3
  <2> QED
    BY <1>1, <2>1 DEF WI_IInv, WI_Typed, Published
<1>5. WI_Typed'
  BY <1>1, <1>2, <1>4 DEF WI_IInv, WI_Typed
<1>6. WI_PlanTrue' /\ WI_ModeTrue'
  BY <1>1, <1>2, <1>3 DEF WI_IInv, WI_PlanTrue, WI_ModeTrue
<1>7. WI_OthersTrue'
  BY <1>1, <1>3, <1>4, WI_OthersStay
<1>8. WI_PhaseTrue' /\ WI_FirstTrue' /\ OutcomeTrue'
  BY <1>1, <1>2, <1>4 DEF WI_IInv, WI_PhaseTrue, WI_FirstTrue, Plain, OutcomeTrue, ForkedWhenOk,
                          TakenBack
<1> QED
  BY <1>5, <1>6, <1>7, <1>8 DEF WI_IInv

LEMMA WI_JoinKeeps ==
  ASSUME WI_IInv, NEW p \in Others, Join(p)
  PROVE  WI_IInv'
<1>1. /\ assigned' = [assigned EXCEPT ![p] = assigned[Target]]
      /\ view' = [view EXCEPT ![p] = Uses(Target)]
      /\ mishaps' = mishaps \union {"joined"}
      /\ UNCHANGED <<mapping, draft, pending, clones, plan, pc, undoing, runs, outcome, entry>>
  BY DEF Join, run
<1>2. Target \in Projects /\ p \in Projects /\ p # Target
  BY WorkflowIsolateAssumption DEF WorkflowIsolateAssumption, Projects
<1>3. assigned'[Target] = assigned[Target] /\ view'[Target] = view[Target]
  BY <1>1, <1>2 DEF WI_IInv, WI_Typed
<1>4. WI_Typed'
  <2>1. Uses(Target) \in [Types -> {"wf0", "wf1", "wf", Absent}]
    <3>1. mapping[assigned[Target]] \in Bodies
      BY <1>2 DEF WI_IInv, WI_Typed
    <3> QED
      BY <3>1 DEF Uses, Used, Bodies, Keys
  <2>2. view' \in [Projects -> [Types -> {"wf0", "wf1", "wf", Absent}]]
    BY <1>1, <1>2, <2>1 DEF WI_IInv, WI_Typed
  <2>3. assigned' \in [Projects -> {"ws0", "ws1", "ws"}]
    BY <1>1, <1>2 DEF WI_IInv, WI_Typed
  <2> QED
    BY <1>1, <2>2, <2>3 DEF WI_IInv, WI_Typed
<1>5. WI_PlanTrue' /\ WI_ModeTrue'
  BY <1>1, <1>3 DEF WI_IInv, WI_PlanTrue, WI_ModeTrue
<1>6. WI_OthersTrue' /\ WI_PhaseTrue' /\ WI_FirstTrue'
  BY <1>1, <1>3 DEF WI_IInv, WI_OthersTrue, OthersKeepWorkflows, WI_PhaseTrue, WI_FirstTrue, Plain
<1>7. OutcomeTrue'
  BY <1>1, <1>3 DEF WI_IInv, OutcomeTrue, ForkedWhenOk, TakenBack, NothingLeftOver, Uses
<1> QED
  BY <1>4, <1>5, <1>6, <1>7 DEF WI_IInv

LEMMA WI_EditedKeeps ==
  ASSUME WI_IInv, NEW m \in Mappings, EditedElsewhere(m)
  PROVE  WI_IInv'
<1>1. /\ plan # NoPlan /\ runs = 0
      /\ mapping' = [mapping EXCEPT !["ws0"] = m]
      /\ view' = [p \in Projects |-> IF assigned[p] = "ws0" THEN Used(m) ELSE view[p]]
      /\ mishaps' = mishaps \union {"edited"}
      /\ UNCHANGED <<assigned, draft, pending, clones, plan, pc, undoing, runs, outcome, entry>>
  BY DEF EditedElsewhere, run
<1>2. /\ Target \in Projects /\ m \in Bodies
      /\ pc = "idle" /\ outcome = "none" /\ assigned[Target] = "ws0"
  BY <1>1 DEF Projects, Mappings, Bodies, WI_IInv, WI_PlanTrue
<1>3. /\ mapping' \in [{"ws0", "ws1", "ws"} -> Bodies] /\ mapping'["ws0"] = m
      /\ mapping'["ws1"] = mapping["ws1"] /\ mapping'["ws"] = mapping["ws"]
  BY <1>1, <1>2 DEF WI_IInv, WI_Typed
<1>4. WI_Typed'
  <2>1. Used(m) \in [Types -> {"wf0", "wf1", "wf", Absent}]
    BY <1>2 DEF Used, Bodies, Keys
  <2>2. view' \in [Projects -> [Types -> {"wf0", "wf1", "wf", Absent}]]
    BY <1>1, <2>1 DEF WI_IInv, WI_Typed
  <2> QED
    BY <1>1, <1>3, <2>2 DEF WI_IInv, WI_Typed
<1>5. WI_PlanTrue' /\ WI_ModeTrue'
  BY <1>1, <1>2, <1>3 DEF WI_IInv, WI_PlanTrue, WI_ModeTrue
<1>6. WI_OthersTrue'
  <2>1. \A p \in Others : p \in Projects /\ assigned[p] \in {"ws0", "ws1", "ws"}
    BY DEF Projects, WI_IInv, WI_Typed
  <2>2. OthersKeepWorkflows'
    BY <1>1, <1>3, <2>1 DEF WI_IInv, WI_OthersTrue, OthersKeepWorkflows, OthersAsBefore, Uses
  <2> QED
    BY <1>1, <1>3, <2>2 DEF WI_IInv, WI_OthersTrue
<1>7. WI_PhaseTrue' /\ WI_FirstTrue' /\ OutcomeTrue'
  BY <1>1, <1>2 DEF WI_IInv, WI_PhaseTrue, WI_FirstTrue, RunPhases, UndoPhases, OutcomeTrue,
                    ForkedWhenOk, TakenBack
<1> QED
  BY <1>4, <1>5, <1>6, <1>7 DEF WI_IInv

LEMMA WI_NextKeeps == WI_IInv /\ [Next]_vars => WI_IInv'
<1> SUFFICES ASSUME WI_IInv, [Next]_vars PROVE WI_IInv'
  OBVIOUS
<1>1. CASE Preview \/ Execute \/ Undo \/ Stop \/ PublicationEnds
  BY <1>1, WI_PreviewKeeps, WI_ExecuteKeeps, WI_UndoKeeps, WI_StopKeeps, WI_PublicationEndsKeeps
<1>2. ASSUME NEW a \in Answers,
             \/ CreateWorkflow(a) \/ CreateScheme(a) \/ MoveProject(a)
             \/ EditScheme(a) \/ PutBack(a) \/ DropScheme(a) \/ DropWorkflow(a)
             \/ UndoEdit(a) \/ UndoMove(a) \/ UndoDropScheme(a) \/ UndoDropWorkflow(a)
      PROVE  WI_IInv'
  BY <1>2, WI_CreateWorkflowKeeps, WI_CreateSchemeKeeps, WI_MoveProjectKeeps, WI_EditSchemeKeeps,
     WI_PutBackKeeps, WI_DropSchemeKeeps, WI_DropWorkflowKeeps, WI_UndoEditKeeps,
     WI_UndoMoveKeeps, WI_UndoDropSchemeKeeps, WI_UndoDropWorkflowKeeps
<1>3. ASSUME NEW a \in Answers \union {"accepted"},
             PublishEdit(a) \/ PublishBack(a) \/ UndoPublish(a)
      PROVE  WI_IInv'
  BY <1>3, WI_PublishEditKeeps, WI_PublishBackKeeps, WI_UndoPublishKeeps
<1>4. ASSUME NEW p \in Others, Join(p) PROVE WI_IInv'
  BY <1>4, WI_JoinKeeps
<1>5. ASSUME NEW m \in Mappings, EditedElsewhere(m) PROVE WI_IInv'
  BY <1>5, WI_EditedKeeps
<1>6. CASE UNCHANGED vars
  <2>1. /\ UNCHANGED <<assigned, mapping, draft, pending, clones, plan, pc, undoing>>
        /\ UNCHANGED <<runs, outcome, entry, view, mishaps>>
    BY <1>6 DEF vars, jira, run
  <2>2. WI_Typed' /\ WI_PlanTrue' /\ WI_ModeTrue'
    BY <2>1 DEF WI_IInv, WI_Typed, WI_PlanTrue, WI_ModeTrue
  <2>3. WI_OthersTrue'
    BY <2>1, WI_OthersStay
  <2>4. WI_PhaseTrue' /\ WI_FirstTrue'
    BY <2>1 DEF WI_IInv, WI_PhaseTrue, WI_FirstTrue, Plain
  <2>5. OutcomeTrue'
    BY <2>1 DEF WI_IInv, OutcomeTrue, ForkedWhenOk, TakenBack, NothingLeftOver, Uses
  <2> QED
    BY <2>2, <2>3, <2>4, <2>5 DEF WI_IInv
<1> QED
  BY <1>1, <1>2, <1>3, <1>4, <1>5, <1>6 DEF Next

(***************************************************************************)
(* The theorems                                                            *)
(***************************************************************************)

(* No run, undo or redo of a workflow, wherever it fails, breaks the         *)
(* inductive invariant.                                                      *)
THEOREM WI_Invariance == Spec => []WI_IInv
<1>1. Init => WI_IInv
  BY WI_InitIInv
<1>2. WI_IInv /\ [Next]_vars => WI_IInv'
  BY WI_NextKeeps
<1> QED
  BY <1>1, <1>2, PTL DEF Spec

(* The other projects use in every issue type what they used, at every step  *)
(* of a run, a cleanup, an undo or a redo, as long as nobody joined the      *)
(* scheme after the audit and the audit could tell.                          *)
THEOREM OthersKeepTheirWorkflows == Spec => []OthersKeepWorkflows
<1>1. WI_IInv => OthersKeepWorkflows
  BY DEF WI_IInv, WI_OthersTrue
<1> QED
  BY <1>1, WI_Invariance, PTL

(* A run reported ok has led the chosen issue types to the clone and nothing *)
(* else, a failed one has left nothing and an undone one has given back the  *)
(* workflows, but for the mishaps the properties name.                       *)
THEOREM WorkflowOutcomesAreTrue == Spec => []OutcomeTrue
<1>1. WI_IInv => OutcomeTrue
  BY DEF WI_IInv
<1> QED
  BY <1>1, WI_Invariance, PTL
=============================================================================
