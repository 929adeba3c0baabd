------------------------------ MODULE MCDialogs ------------------------------
(* The dialogs of the field view and the one for a new space, one of them    *)
(* open.                                                                     *)
(*                                                                           *)
(* Contexts: one at first, in every state over one name, two defaults, one   *)
(* project and two issue types with one to a page; one change and then       *)
(* undos, undos of undos and whatever fails in between, up to three entries; *)
(* a creation, another change and up to four entries if nothing fails.       *)
(* Options: two at first, every list with up to two new ones among them and  *)
(* any of the others deleted, sent up to twice.                              *)
(* Spaces: one key, two runs at a time, up to five with undos and redos, two *)
(* attempts each, one change by somebody else.                               *)
EXTENDS FieldContexts, FieldOptions, SpaceCreate, TLC

VARIABLE dialog

NoContexts ==
  /\ ctx = <<>> /\ lastId = 1 /\ journal = <<>> /\ req = NoRequest /\ changes = MaxRequests
  /\ outside = MaxOutside /\ odd = {} /\ told = FALSE /\ trail = ctx

NoOptions ==
  /\ list = <<>>
  /\ given = OptionsAtFirst /\ asked = <<>> /\ deleted = 1..OptionsAtFirst /\ step = "done"
  /\ ids = <<>> /\ unsent = {} /\ sends = 1 /\ kept = FALSE

NoSpace ==
  /\ space = [k \in Keys |-> FreeKey] /\ checked = {} /\ run = [r \in Runs |-> SC_Idle]
  /\ log = <<>> /\ cached = "none" /\ begun = 0 /\ sc_outside = 0 /\ sc_told = {} /\ handed = {}

MCInit ==
  \/ dialog = "contexts" /\ FC_Init /\ NoOptions /\ NoSpace
  \/ dialog = "options" /\ FO_Init /\ NoContexts /\ NoSpace
  \/ dialog = "space" /\ SC_Init /\ NoContexts /\ NoOptions

MCNext ==
  \/ dialog = "contexts" /\ FC_Next /\ UNCHANGED <<dialog, ov, sp>>
  \/ dialog = "options" /\ FO_Next /\ UNCHANGED <<dialog, FC_vars, sp>>
  \/ dialog = "space" /\ SC_Next /\ UNCHANGED <<dialog, FC_vars, ov>>

MCSpec == MCInit /\ [][MCNext]_<<dialog, FC_vars, ov, sp>>

FieldsTypeOK == FC_TypeOK /\ FO_TypeOK

Symmetry == Permutations(IssueTypes) \union Permutations(Values) \union Permutations(Runs)

(* An outside change and a failure are looked at one at a time, and with one *)
(* change and its undos only; two changes begin with a creation.             *)
OneThing ==
  /\ ~told \/ outside = 0
  /\ dialog = "contexts" /\ (changes > 1 \/ Len(journal) > 3) =>
        lastId > 1 /\ ~told /\ outside = 0 /\ odd = {}
=============================================================================
