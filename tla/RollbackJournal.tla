--------------------------- MODULE RollbackJournal ---------------------------
(***************************************************************************)
(* core/rollback.py: the undo journal logs/rollbacks.jsonl, one JSON object *)
(* per line, and what an interrupted append does to it.  Every function     *)
(* runs to its end under the module lock, so a call is one action; what can *)
(* come between is a crash of the process or a failing write, and those     *)
(* leave part of a line behind.                                             *)
(*                                                                         *)
(* A line is an entry, or Junk (text that is not one JSON object: skipped   *)
(* by _read_all), or Broken (bytes that are not UTF-8: json.dumps writes    *)
(* the Korean titles unescaped, so a cut can fall inside a character, and   *)
(* then reading the file raises UnicodeDecodeError, which _read_all does    *)
(* not catch).  "last" is what follows the last newline.                    *)
(***************************************************************************)
EXTENDS Naturals, FiniteSets, Sequences, Positions

CONSTANTS
  MaxInverse,    \* _MAX_INVERSE
  InverseSizes,  \* bound: how many inverse rows a run offers to record
  MaxRecords,    \* bound: calls of record in one behaviour
  MaxTears       \* bound: appends that are cut short in one behaviour

ASSUME JournalAssumption ==
  /\ MaxInverse \in Nat \ {0}
  /\ InverseSizes \subseteq Nat
  /\ MaxRecords \in Nat /\ MaxTears \in Nat

VARIABLES
  file,      \* the newline-terminated lines, oldest first
  last,      \* the unterminated rest of the file
  calls,     \* calls of record so far; also the id the next entry gets
  returned,  \* history: the ids record() gave back to a run
  undone,    \* history: the ids mark_rolled_back() was called for and found
  tears      \* history: appends cut short

RJ_vars == <<file, last, calls, returned, undone, tears>>

RJ_Ids == 1..MaxRecords
Nothing == [kind |-> "nothing"]
Junk    == [kind |-> "junk"]
Broken  == [kind |-> "broken"]
(* offered is history: the rows of the inverse before the cap. *)
Entry   == [kind : {"entry"}, id : RJ_Ids, inverse : Nat, offered : Nat, undo : BOOLEAN,
            undoable : BOOLEAN, status : {"active", "rolled_back"}]

IsEntry(line) == line.kind = "entry"

(***************************************************************************)
(* Reading                                                                 *)
(***************************************************************************)

Lines == IF last = Nothing THEN file ELSE Append(file, last)

(* _read_all returns only if the whole file decodes. *)
Readable == \A i \in DOMAIN Lines : Lines[i] # Broken

(* _read_all: the lines that parse, in file order. *)
Parsed  == {i \in DOMAIN Lines : IsEntry(Lines[i])}
ReadAll == Selected(Lines, Parsed)

(* get *)
Found(id) == Readable /\ \E i \in DOMAIN ReadAll : ReadAll[i].id = id

(* The gates rollback_entry (app.py) puts before an undo. *)
UndoAccepted(id) ==
  /\ Readable
  /\ \E i \in DOMAIN ReadAll :
       ReadAll[i].id = id /\ ReadAll[i].status = "active" /\ ReadAll[i].inverse > 0

(* history: newest first, undo runs left out, with the flag that shows or    *)
(* hides the undo button.                                                    *)
CanRollback_IgnoresStatus(e) == e.inverse > 0 /\ e.undoable
CanRollback(e) == e.status = "active" /\ e.inverse > 0 /\ e.undoable
History ==
  LET Listed == {i \in DOMAIN ReadAll : ~ReadAll[i].undo}
      View(e) == [id |-> e.id, status |-> e.status, can_rollback |-> CanRollback(e)]
  IN [k \in 1..Cardinality(Listed) |->
        View(ReadAll[Nth(Listed, Cardinality(Listed) + 1 - k)])]

(***************************************************************************)
(* Writing                                                                 *)
(***************************************************************************)

(* What a line becomes when text is written right behind the leftover of an  *)
(* earlier append.                                                           *)
Merge(rest, text) ==
  IF rest = Nothing THEN text
  ELSE IF Broken \in {rest, text} THEN Broken
  ELSE Junk

(* What a cut append can leave of an entry: nothing, a prefix that ends      *)
(* inside or outside a character, or all of it but the newline.              *)
Cuts(entry) == {Nothing, Junk, Broken, entry}

NewEntry(n, undo, undoable) ==
  [kind |-> "entry", id |-> calls + 1, undo |-> undo, undoable |-> undoable,
   status |-> "active", inverse |-> IF n <= MaxInverse THEN n ELSE MaxInverse,
   offered |-> n]

RJ_Init ==
  /\ file = <<>> /\ last = Nothing
  /\ calls = 0
  /\ returned = {} /\ undone = {}
  /\ tears = 0

(* record, nothing to keep: an undoable run whose inverse is empty. *)
RecordNothing(n, undoable) ==
  /\ calls < MaxRecords
  /\ n = 0 /\ undoable
  /\ calls' = calls + 1
  /\ UNCHANGED <<file, last, returned, undone, tears>>

Record_Unlocked(n, undo, undoable) ==
  /\ calls < MaxRecords
  /\ n > 0 \/ ~undoable
  /\ LET entry == NewEntry(n, undo, undoable)
     IN /\ \E kept \in {file, SubSeq(file, 1, Len(file) - 1)} : file' = Append(kept, Merge(last, entry))
        /\ returned' = returned \union {entry.id}
  /\ last' = Nothing
  /\ calls' = calls + 1
  /\ UNCHANGED <<undone, tears>>

(* record: one append of a line and its newline. *)
Record(n, undo, undoable) ==
  /\ calls < MaxRecords
  /\ n > 0 \/ ~undoable
  /\ LET entry == NewEntry(n, undo, undoable)
     IN /\ file' = Append(file, Merge(last, entry))
        /\ returned' = returned \union {entry.id}
  /\ last' = Nothing
  /\ calls' = calls + 1
  /\ UNCHANGED <<undone, tears>>

(* record, the append cut short: OSError (record logs it and returns None)   *)
(* or the death of the process, possibly after the whole line was written.   *)
(* No other state of the module is lost with it.                             *)
RecordCut(n, undo, undoable) ==
  /\ calls < MaxRecords /\ tears < MaxTears
  /\ n > 0 \/ ~undoable
  /\ LET entry == NewEntry(n, undo, undoable)
     IN \/ \E cut \in Cuts(entry) :
              /\ last' = IF cut = Nothing THEN last ELSE Merge(last, cut)
              /\ UNCHANGED file
        \/ /\ file' = Append(file, Merge(last, entry))
           /\ last' = Nothing
  /\ calls' = calls + 1
  /\ tears' = tears + 1
  /\ UNCHANGED <<returned, undone>>

Flip_Toggle(e, id) ==
  IF e.id = id THEN [e EXCEPT !.status = "rolled_back"]
  ELSE [e EXCEPT !.status = "active"]
Flip(e, id) == IF e.id = id THEN [e EXCEPT !.status = "rolled_back"] ELSE e

(* mark_rolled_back: read, flip, rewrite through a temporary file.  The      *)
(* rename is atomic, so an interrupted rewrite changes nothing (stuttering). *)
(* The rewrite drops what did not parse and ends the file with a newline.    *)
MarkRolledBack(id) ==
  /\ Readable
  /\ \E i \in DOMAIN ReadAll : ReadAll[i].id = id /\ ReadAll[i].status = "active"
  /\ file' = [i \in DOMAIN ReadAll |-> Flip(ReadAll[i], id)]
  /\ last' = Nothing
  /\ undone' = undone \union {id}
  /\ UNCHANGED <<calls, returned, tears>>

(* What the callers pass: an inverse of some size, from a run or from the    *)
(* undo of one, or a log-only entry (a deleted field context) without any.   *)
Offers == [n : InverseSizes, undo : BOOLEAN, undoable : {TRUE}]
          \union {[n |-> 0, undo |-> FALSE, undoable |-> FALSE]}

RJ_Next ==
  \/ \E o \in Offers :
       \/ RecordNothing(o.n, o.undoable)
       \/ Record(o.n, o.undo, o.undoable)
       \/ RecordCut(o.n, o.undo, o.undoable)
  \/ \E id \in RJ_Ids : MarkRolledBack(id)

RJ_Spec == RJ_Init /\ [][RJ_Next]_RJ_vars

(***************************************************************************)
(* Properties                                                              *)
(***************************************************************************)

(* Lines and leftovers are what an append can produce. *)
RJ_TypeOK ==
  /\ file \in Seq(Entry \union {Junk, Broken})
  /\ last \in Entry \union {Nothing, Junk, Broken}
  /\ calls \in 0..MaxRecords /\ tears \in 0..MaxTears
  /\ returned \subseteq RJ_Ids /\ undone \subseteq RJ_Ids

(* The journal remembers every undo it was told of: an entry once flipped    *)
(* never shows an undo button again, across rewrites for other entries.      *)
UndoneStaysUndone ==
  \A i \in DOMAIN ReadAll : (ReadAll[i].id \in undone) <=> (ReadAll[i].status = "rolled_back")

(* The undo button is honest: it is shown exactly on the listed entries whose *)
(* undo the endpoint would accept now.                                        *)
ButtonIsHonest ==
  Readable => \A i \in DOMAIN History : History[i].can_rollback <=> UndoAccepted(History[i].id)

(* A cut append costs at most one entry that a run was told is journaled, as *)
(* long as the file still decodes.                                           *)
DamageBounded ==
  Readable => Cardinality({id \in returned : ~Found(id)}) <= tears

(* A rewrite for one entry loses no other entry and no order: the ids that   *)
(* can be read are the same before and after, undo runs included (they are   *)
(* the audit trail and the redo data).                                       *)
MarkKeepsEntries ==
  [][ undone' # undone =>
        /\ Len(ReadAll') = Len(ReadAll)
        /\ \A i \in DOMAIN ReadAll : ReadAll'[i].id = ReadAll[i].id ]_RJ_vars

(* What record's docstring says ("Append a journal entry. Returns its id"):  *)
(* an id it returned names an entry that get() finds.  Not so after a cut    *)
(* append, whose leftover swallows the next line.                            *)
ReturnedIsJournaled == \A id \in returned : Found(id)

(* group_membership_bulk.execute_stream, comment at the call of record:      *)
(* "journal the inverse of exactly what succeeded".  A plan may hold four    *)
(* times the rows that an entry keeps, and the entry is marked undone once   *)
(* the kept part was run.                                                    *)
UndoneInFull ==
  \A i \in DOMAIN ReadAll :
    ReadAll[i].status = "rolled_back" => ReadAll[i].inverse = ReadAll[i].offered

(* What the docstring of rollback_entry (app.py) and the confirmation dialog *)
(* say: an undo is itself listed in the history.                             *)
UndoIsListed ==
  \A i \in DOMAIN ReadAll : \E j \in DOMAIN History : History[j].id = ReadAll[i].id
=============================================================================
