--------------------------- MODULE MCForkIsolate ---------------------------
(* One other project: it shares all of the path, only the screen scheme, or  *)
(* nothing.  Three issue types, which may ride the default, so that an       *)
(* in-place edit can fail after two that worked.                             *)
EXTENDS ForkIsolate

CONSTANTS t, o

MCOthers == {o}
MCTypes == {"default", "story", "bug"}

(* The second ITSS is never edited; what it maps matters by the schemes it   *)
(* uses, and two issue types can use them all.                               *)
OtherMapsTwo == itss["itss1"]["bug"] = Absent
=============================================================================
