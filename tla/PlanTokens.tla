----------------------------- MODULE PlanTokens -----------------------------
(***************************************************************************)
(* What core/planstore.py promises its callers, and nothing of how it does *)
(* it (its module docstring, lines 3-15): a preview issues a token, a write *)
(* consumes the token at most once, and a token that was not consumed may   *)
(* be retired at any moment (expiry, eviction) but never comes back.        *)
(*                                                                         *)
(* Tokens are numbered in the order they are issued, so a token is its own  *)
(* issue time and a fresh one is always at hand.                            *)
(***************************************************************************)
CONSTANT TokenIds   \* the tokens that can be issued, in order of issue

VARIABLE token      \* token[id]: what the token id is good for

TokenStates == {"unissued", "write", "readonly", "used", "retired"}

PT_TypeOK == token \in [TokenIds -> TokenStates]

PT_Init == token = [id \in TokenIds |-> "unissued"]

(* Tokens may lapse on their own, any number of them at a time. *)
Lapsed(gone) ==
  [id \in TokenIds |->
     IF id \in gone /\ token[id] \in {"write", "readonly"} THEN "retired"
     ELSE token[id]]

PT_Retire == \E gone \in SUBSET TokenIds : token' = Lapsed(gone)

(* A preview issues one fresh token, and may push older ones out. *)
PT_Issue ==
  \E id \in TokenIds, kind \in {"write", "readonly"}, gone \in SUBSET TokenIds :
    /\ token[id] = "unissued"
    /\ token' = [Lapsed(gone) EXCEPT ![id] = kind]

(* A write uses up one live write token. *)
PT_Use ==
  \E id \in TokenIds :
    /\ token[id] = "write"
    /\ token' = [token EXCEPT ![id] = "used"]

PT_Next == PT_Retire \/ PT_Issue \/ PT_Use

PT_Spec == PT_Init /\ [][PT_Next]_token
=============================================================================
