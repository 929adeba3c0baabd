---------------------------- MODULE FieldOptions ----------------------------
(***************************************************************************)
(* apply_options of tasks/field_inventory.py and its endpoint: an edited    *)
(* list of select options is brought to Jira by creating the new ones,      *)
(* setting every value, deleting and moving.  Nothing of it is journaled;   *)
(* after a failure the operator may send the same list again.               *)
(*                                                                         *)
(* An option is an id and a value (its text and whether it is disabled); an *)
(* asked item with id 0 is new.  Ids are given in increasing order.         *)
(***************************************************************************)
EXTENDS Naturals, SequencesExt, Positions

CONSTANTS
  OptionsAtFirst,  \* bound: options there are at first
  MaxNew,          \* bound: options one list adds
  MaxSends,        \* bound: how often the list is sent
  Values

ASSUME OptionsAssumption == OptionsAtFirst \in Nat /\ MaxNew \in Nat /\ MaxSends \in Nat \ {0}

VARIABLES
  list,    \* Jira: the options of the context, in order
  given,   \* Jira: the id given last
  asked,   \* the list sent: OptionsApply.options, without blank ones
  deleted, \* OptionsApply.deleted_ids
  step,    \* where apply_options is
  ids,     \* ordered_ids
  unsent,  \* deleted_ids still to be deleted
  sends,   \* how often the list was sent
  kept     \* history: Jira refused a deletion
ov == <<list, given, asked, deleted, step, ids, unsent, sends, kept>>

Option(id, value) == [id |-> id, value |-> value]
IdsOf(s) == {s[k].id : k \in DOMAIN s}

(* What the page may send for the list it shows: some of the options in any  *)
(* order among new ones, and some of the others as deleted.                  *)
Lists ==
  UNION {[1..n -> [id : 0..OptionsAtFirst, value : Values]] : n \in 0..(OptionsAtFirst + MaxNew)}
Without(s) == {k \in DOMAIN s : s[k].id = 0}
Sendable(s, gone) ==
  /\ \A j, k \in DOMAIN s : (j # k /\ s[j].id # 0) => s[j].id # s[k].id
  /\ Cardinality(Without(s)) <= MaxNew
  /\ gone \intersect IdsOf(s) = {}
  /\ s # <<>> \/ gone # {}

FO_Init ==
  /\ list \in {[k \in 1..OptionsAtFirst |-> Option(k, v)] : v \in Values}
  /\ given = OptionsAtFirst
  /\ asked \in Lists /\ deleted \in SUBSET (1..OptionsAtFirst) /\ Sendable(asked, deleted)
  /\ step = "create" /\ ids = <<>> /\ unsent = deleted /\ sends = 1 /\ kept = FALSE

New == Selected(asked, Without(asked))

(* The created ids are put behind the others. *)
Woven_AtTheEnd(first) ==
  LET old == SelectSeq(asked, LAMBDA o : o.id # 0)
  IN [k \in 1..Len(old) |-> old[k].id] \o [k \in 1..Len(New) |-> first + k]
(* The ids in the order asked for: the n-th new item has the n-th created id.*)
Woven(first) ==
  [k \in DOMAIN asked |->
     IF asked[k].id # 0 THEN asked[k].id
     ELSE first + Cardinality({j \in Without(asked) : j <= k})]

(* A request fails, before or after it did its work: the rest is not sent.  *)
Fails == step' = "failed" /\ UNCHANGED <<ids, unsent>>

Create ==
  /\ step = "create"
  /\ LET made == list \o [k \in 1..Len(New) |-> Option(given + k, New[k].value)] IN
     \/ /\ list' = made /\ given' = given + Len(New)
        /\ step' = "update" /\ ids' = Woven(given) /\ UNCHANGED unsent
     \/ /\ New # <<>> /\ Fails
        /\ \/ list' = made /\ given' = given + Len(New)
           \/ UNCHANGED <<list, given>>
  /\ UNCHANGED <<asked, deleted, sends, kept>>

ValueOf(id) == asked[CHOOSE k \in DOMAIN ids : ids[k] = id].value

Update ==
  /\ step = "update"
  /\ LET set == [k \in DOMAIN list |->
                   IF Contains(ids, list[k].id) THEN Option(list[k].id, ValueOf(list[k].id))
                   ELSE list[k]] IN
     \/ list' = set /\ step' = "delete" /\ UNCHANGED <<ids, unsent>>
     \/ ids # <<>> /\ Fails /\ list' \in {list, set}
  /\ UNCHANGED <<given, asked, deleted, sends, kept>>

(* One DELETE after another, whatever is answered.                          *)
Delete ==
  /\ step = "delete"
  /\ \/ \E id \in unsent :
          \/ /\ list' = Selected(list, {j \in DOMAIN list : list[j].id # id})
             /\ unsent' = unsent \ {id}
             /\ UNCHANGED <<step, ids, kept>>
          \/ /\ unsent' = unsent \ {id} /\ kept' = TRUE
             /\ UNCHANGED <<list, step, ids>>
          \/ Fails /\ UNCHANGED <<list, kept>>
     \/ unsent = {} /\ step' = "move" /\ UNCHANGED <<list, ids, unsent, kept>>
  /\ UNCHANGED <<given, asked, deleted, sends>>

(* position "First" puts the named ones in front, in the order given.       *)
Move ==
  /\ step = "move"
  /\ LET there == Selected(ids, {k \in DOMAIN ids : ids[k] \in IdsOf(list)})
         moved == [k \in DOMAIN there |->
                     list[CHOOSE j \in DOMAIN list : list[j].id = there[k]]]
                  \o Selected(list, {j \in DOMAIN list : ~Contains(ids, list[j].id)}) IN
     \/ /\ step' = "done" /\ list' = (IF Len(ids) > 1 THEN moved ELSE list)
        /\ UNCHANGED <<ids, unsent>>
     \/ Len(ids) > 1 /\ Fails /\ list' \in {list, moved}
  /\ UNCHANGED <<given, asked, deleted, sends, kept>>

SendAgain ==
  /\ step = "failed" /\ sends < MaxSends
  /\ sends' = sends + 1 /\ step' = "create" /\ ids' = <<>> /\ unsent' = deleted
  /\ UNCHANGED <<list, given, asked, deleted, kept>>

FO_Next == Create \/ Update \/ Delete \/ Move \/ SendAgain
FO_Spec == FO_Init /\ [][FO_Next]_ov

(***************************************************************************)

FO_TypeOK ==
  /\ IsInjective([k \in DOMAIN list |-> list[k].id]) /\ IdsOf(list) \subseteq 1..given
  /\ step \in {"create", "update", "delete", "move", "done", "failed"}
  /\ unsent \subseteq deleted /\ sends \in 1..MaxSends /\ kept \in BOOLEAN

(* "Apply an edited option set ... in order ... and reorder to match"        *)
(* (field_inventory.py:356): when it is through, the asked options come      *)
(* first, as asked and in the order asked for, wherever the new ones stand   *)
(* among the old; the deleted are gone unless Jira refused; and at no time   *)
(* does an option vanish that was not to be deleted.                         *)
OptionsAsAsked ==
  /\ (1..OptionsAtFirst) \ deleted \subseteq IdsOf(list)
  /\ step = "done" =>
       /\ \A k \in DOMAIN asked : \E j \in DOMAIN list :
            /\ list[j].value = asked[k].value /\ asked[k].id \in {0, list[j].id}
            /\ Len(asked) > 1 => j = k
       /\ kept \/ deleted \intersect IdsOf(list) = {}

(* A list sent again after a failure leaves what it asks for.  Refuted: the  *)
(* new options carry no id, so they are made twice.                          *)
SendingAgainIsHarmless ==
  step = "done" => Len(list) <= OptionsAtFirst + Len(New)
=============================================================================
